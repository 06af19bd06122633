---------------------------- MODULE StillEncoder ----------------------------
(***************************************************************************)
(* encoding/StillEncoder.cpp: one image to one file, through WIC (SaveWIC) *)
(* or, compressed first, as DDS (SaveDDS).  Before CoInitializeEx() a      *)
(* cancelled encoder throws Cancelled, which the worker reports like the   *)
(* result; after it, it must leave through guard(), and does but for an    *)
(* exception out of WriteSidecarJson().                                    *)
(***************************************************************************)
EXTENDS Encoder

VARIABLES still,     \* "off", "start", "com", "save", "metadata", "compress", "dds" or,
                     \* when it was left past guard(), "threw"
          sidecar    \* <image>.json has been written

StillFormats == {"PNG", "BMP", "DDS"}    \* JPEG, TIF and GIF behave like PNG and BMP

StillTypeOK ==
  /\ still \in {"off", "start", "com", "save", "metadata", "compress", "dds", "threw"}
  /\ sidecar \in BOOLEAN

\* Encode() is called.
StillStart ==
  /\ still = "off" /\ er = "none"
  /\ still' = "start"
  /\ UNCHANGED <<encoder, sidecar>>

\* Cancelled before anything is open: the encoder throws.
StillThrows ==
  /\ still \in {"start", "compress", "dds"} /\ cancelled
  /\ er' = "Cancelled" /\ still' = "off"
  /\ UNCHANGED <<out, com, owned, sidecar>>

StillBegin(format) ==
  /\ still = "start" /\ ~cancelled
  /\ still' = IF format = "DDS" THEN "compress" ELSE "com"
  /\ UNCHANGED <<encoder, sidecar>>

\* SaveWIC() initializes COM; it goes on if that fails.
StillCom ==
  /\ still = "com"
  /\ ComEnter
  /\ still' = "save"
  /\ UNCHANGED <<er, out, sidecar>>

AbortedCom_Thrown == com                 \* defect: cancellation is thrown past guard()
AbortedCom == ComLeft                    \* guard(E_ABORT)

StillAborts ==
  /\ still = "save" /\ cancelled
  /\ er' = "Cancelled" /\ com' = AbortedCom /\ owned' = FALSE
  /\ still' = "off"
  /\ UNCHANGED <<out, sidecar>>

\* The image is saved, or that fails and may leave part of it.
StillSave ==
  /\ still = "save" /\ ~cancelled
  /\ \/ out' = "whole" /\ still' = "metadata" /\ UNCHANGED <<er, com, owned>>
     \/ out' \in {"none", "partial"} /\ Return("Fail") /\ still' = "off"
  /\ UNCHANGED sidecar

MetadataResult(ok) == "Ok"

\* EXIF is written into the file if the field of view is known, and for a PNG also
\* beside it; that it cannot be does not matter, unless a conversion throws: of a path
\* for the log or of text for the file, which is opened by then or not.
StillMetadata(format) ==
  /\ still = "metadata"
  /\ \E ok, fov, opened \in BOOLEAN :
       /\ sidecar' = (format = "PNG" /\ fov /\ opened)
       /\ \/ Return(MetadataResult(ok)) /\ still' = "off"
          \/ /\ format = "PNG" /\ fov
             /\ er' = "Fail" /\ still' = "threw" /\ UNCHANGED <<com, owned>>
  /\ UNCHANGED out

\* SaveDDS() compresses; if that fails it saves the image as it is, if there is one.
StillCompress ==
  /\ still = "compress" /\ ~cancelled
  /\ \/ still' = "dds" /\ er' = er
     \/ still' = "off" /\ er' = "Fail"
  /\ UNCHANGED <<out, com, owned, sidecar>>

StillSaveDDS ==
  /\ still = "dds" /\ ~cancelled
  /\ \/ out' = "whole" /\ er' = "Ok"
     \/ out' \in {"none", "partial"} /\ er' = "Fail"
  /\ still' = "off"
  /\ UNCHANGED <<com, owned, sidecar>>

StillStep(format) ==
  \/ StillThrows \/ StillBegin(format) \/ StillCom \/ StillAborts
  \/ StillSave \/ StillMetadata(format) \/ StillCompress \/ StillSaveDDS
===============================================================================
