----------------------------- MODULE FileCapture -----------------------------
(***************************************************************************)
(* A capture to a file, RunAnimated() and RunStill() of CaptureSession.cpp *)
(* on the worker thread, composed with what it uses: the frame acquirer,   *)
(* the temporary directory and its guard, and the three encoders.  Beside  *)
(* it the game thread cancels and loads, and the game may die.  That only  *)
(* one capture runs at a time is CaptureSession's invariant OneWorker.     *)
(***************************************************************************)
EXTENDS GifEncoder, ApngEncoder, StillEncoder, FrameAcquirer, TempFiles

CONSTANTS MaxCaptures,     \* bound: captures of a behaviour
          MaxFrames        \* bound: frames of an animated capture
ASSUME CaptureAssumption ==
  /\ MaxCaptures \in Nat \ {0} /\ MaxFrames \in Nat \ {0}
  /\ Dirs = 1..MaxCaptures

VARIABLES
  pc,         \* where the worker is; "idle": there is none
  capture,    \* number of the capture, also the name of its directory
  request,    \* its format, frame count and deltaMode
  saved,      \* frames on the disk
  verdict,    \* the result string, "none" until it is known
  loading     \* the capture a load has cancelled and not yet cleaned up after, or NoLoad

vars == <<encoder, cancelled, gif, apng, still, sidecar, acquirer, tempFiles,
          pc, capture, request, saved, verdict, loading>>

encoders == <<encoder, gif, apng, still, sidecar>>

NoLoad == -1
Requests ==
  [format : {"AGIF", "APNG"}, total : 1..MaxFrames, mode : 0..2] \cup
  [format : StillFormats, total : {1}, mode : {0}]
NoRequest == [format |-> "none", total |-> 0, mode |-> 0]
Animated == request.format \in {"AGIF", "APNG"}

TypeOK ==
  /\ EncoderTypeOK /\ GifTypeOK /\ ApngTypeOK /\ StillTypeOK /\ AcqTypeOK /\ TempTypeOK
  /\ pc \in {"idle", "scan", "mkdir", "guard", "construct", "acquire", "pace", "acquired",
             "encode", "encoding", "cleanup", "size", "leave", "report"}
  /\ capture \in 0..MaxCaptures
  /\ request \in Requests \cup {NoRequest}
  /\ saved \in 0..MaxFrames
  /\ verdict \in {"none", "SUCCESS", "CANCELLED", "ERROR"}
  /\ loading \in NoLoad..MaxCaptures

\* No capture: nothing of one is left in memory.
AtRest ==
  /\ EncoderIdle /\ gif = GifOff /\ apng = ApngOff /\ still = "off" /\ sidecar = FALSE
  /\ AcqInit /\ cancelled = FALSE
  /\ pc = "idle" /\ request = NoRequest /\ saved = 0 /\ verdict = "none"

Init == AtRest /\ TempInit /\ capture = 0 /\ loading = NoLoad

-----------------------------------------------------------------------------
(* The worker                                                                *)

Goto(step) == pc' = step
Ends(v) == verdict' = v /\ pc' = "leave"

\* The thread is started: StartWorker() with a new token.
Start(r) ==
  /\ pc = "idle" /\ capture < MaxCaptures
  /\ capture' = capture + 1 /\ request' = r /\ cancelled' = FALSE
  /\ pc' = IF r.format \in StillFormats THEN "construct" ELSE "scan"
  /\ UNCHANGED <<encoders, acquirer, tempFiles, saved, verdict, loading>>

\* The scan may throw on its way to the next entry; the worker's handler reports that.
Scan ==
  /\ pc = "scan" /\ ScanAndRemove
  /\ \/ Goto("mkdir") /\ UNCHANGED verdict
     \/ Ends("ERROR")
  /\ UNCHANGED <<encoders, cancelled, acquirer, capture, request, saved, loading>>

MakeDir ==
  /\ pc = "mkdir"
  /\ \/ MakeTempDir(capture) /\ Goto("guard") /\ UNCHANGED verdict
     \/ Ends("ERROR") /\ UNCHANGED tempFiles
  /\ UNCHANGED <<encoders, cancelled, acquirer, capture, request, saved, loading>>

MakeGuard ==
  /\ pc = "guard" /\ Guard(capture) /\ Goto("construct")
  /\ UNCHANGED <<encoders, cancelled, acquirer, capture, request, saved, verdict, loading>>

MakeAcquirer ==
  /\ pc = "construct" /\ Construct /\ Goto("acquire")
  /\ UNCHANGED <<encoders, cancelled, tempFiles, capture, request, saved, verdict, loading>>

\* Initialize() and AcquireFrame(); the checks of the token before and after them
\* are the acquirer's own.
Acquire ==
  /\ pc = "acquire" /\ AcquirerStep(cancelled)
  /\ UNCHANGED <<encoders, cancelled, tempFiles, pc, capture, request, saved, verdict, loading>>

AcquireFails ==
  /\ pc = "acquire" /\ acq \in {"failed", "threw"}
  /\ Ends(IF acq = "threw" THEN "CANCELLED" ELSE "ERROR")
  /\ UNCHANGED <<encoders, cancelled, acquirer, tempFiles, capture, request, saved, loading>>

\* The image becomes a file of the temporary directory, which may be gone by now.
SaveFrame ==
  /\ pc = "acquire" /\ acq = "got" /\ Animated
  /\ \/ capture \in dirs /\ saved' = saved + 1 /\ Goto("pace") /\ UNCHANGED verdict
     \/ Ends("ERROR") /\ UNCHANGED saved
  /\ UNCHANGED <<encoders, cancelled, acquirer, tempFiles, capture, request, loading>>

\* The wait for the next frame's time; the token is asked only if there is one.
Pace ==
  /\ pc = "pace"
  /\ \/ saved < request.total /\ Again /\ Goto("acquire") /\ UNCHANGED verdict
     \/ saved = request.total /\ Destruct /\ Goto("acquired") /\ UNCHANGED verdict
     \/ cancelled /\ Ends("CANCELLED") /\ UNCHANGED acquirer
  /\ UNCHANGED <<encoders, cancelled, tempFiles, capture, request, saved, loading>>

\* A still image needs no file; the acquirer lives as long as RunStill().
StillTaken ==
  /\ pc = "acquire" /\ acq = "got" /\ ~Animated /\ Goto("acquired")
  /\ UNCHANGED <<encoders, cancelled, acquirer, tempFiles, capture, request, saved, verdict,
                 loading>>

\* Everything is acquired; onAcquired() brings the interface back.
Acquired ==
  /\ pc = "acquired"
  /\ \/ cancelled /\ Ends("CANCELLED")
     \/ ~cancelled /\ Goto("encode") /\ UNCHANGED verdict
  /\ UNCHANGED <<encoders, cancelled, acquirer, tempFiles, capture, request, saved, loading>>

\* EncodeFromFiles() or Encode() is called.
Encode ==
  /\ pc = "encode" /\ Goto("encoding")
  /\ \/ /\ request.format = "AGIF" /\ GifStart(saved, request.mode)
        /\ UNCHANGED <<apng, still, sidecar>>
     \/ /\ request.format = "APNG" /\ ApngStart(saved, request.mode)
        /\ UNCHANGED <<gif, still, sidecar>>
     \/ ~Animated /\ StillStart /\ UNCHANGED <<gif, apng>>
  /\ UNCHANGED <<cancelled, acquirer, tempFiles, capture, request, saved, verdict, loading>>

Encoding ==
  /\ pc = "encoding" /\ er = "none"
  /\ \/ GifStep(capture \in dirs) /\ UNCHANGED <<apng, still, sidecar>>
     \/ ApngStep(capture \in dirs) /\ UNCHANGED <<gif, still, sidecar>>
     \/ StillStep(request.format) /\ UNCHANGED <<gif, apng>>
  /\ UNCHANGED <<cancelled, acquirer, tempFiles, pc, capture, request, saved, verdict, loading>>

\* The encoder has returned, or thrown past RunStill() to the worker's own handler.
Encoded ==
  /\ pc = "encoding" /\ er # "none"
  /\ Goto(IF Animated THEN "cleanup" ELSE "size")
  /\ UNCHANGED <<encoders, cancelled, acquirer, tempFiles, capture, request, saved, verdict,
                 loading>>

Result == CASE er = "Ok" -> "SUCCESS" [] er = "Cancelled" -> "CANCELLED" [] OTHER -> "ERROR"

CleanUp ==
  /\ pc = "cleanup" /\ Cleanup /\ Ends(Result)
  /\ UNCHANGED <<encoders, cancelled, acquirer, capture, request, saved, loading>>

\* The file of a still image is looked at once more; something else may have removed it.
CheckSize ==
  /\ pc = "size"
  /\ \/ Ends(Result)
     \/ er = "Ok" /\ Ends("ERROR")
  /\ UNCHANGED <<encoders, cancelled, acquirer, tempFiles, capture, request, saved, loading>>

\* The function returns: ~FrameAcquirer(), ~TempFileGuard().
Leave ==
  /\ pc = "leave" /\ Destruct /\ DestroyGuard /\ Goto("report")
  /\ UNCHANGED <<encoders, cancelled, capture, request, saved, verdict, loading>>

Forget ==
  /\ er' = "none" /\ out' = "none" /\ com' = 0 /\ owned' = FALSE
  /\ gif' = GifOff /\ apng' = ApngOff /\ still' = "off" /\ sidecar' = FALSE
  /\ cancelled' = FALSE
  /\ pc' = "idle" /\ request' = NoRequest /\ saved' = 0 /\ verdict' = "none"

\* The result is reported and the worker ends.
Report ==
  /\ pc = "report" /\ Forget
  /\ UNCHANGED <<acquirer, tempFiles, capture, loading>>

Worker ==
  \/ Scan \/ MakeDir \/ MakeGuard \/ MakeAcquirer \/ Acquire \/ AcquireFails \/ SaveFrame
  \/ Pace \/ StillTaken \/ Acquired \/ Encode \/ Encoding \/ Encoded \/ CleanUp \/ CheckSize
  \/ Leave \/ Report

-----------------------------------------------------------------------------
(* The game thread                                                           *)

Cancel ==
  /\ pc # "idle" /\ ~cancelled
  /\ cancelled' = TRUE
  /\ UNCHANGED <<encoders, acquirer, tempFiles, pc, capture, request, saved, verdict, loading>>

AskedToStop_Later == cancelled                 \* defect: the directories go first
AskedToStop == cancelled \/ pc # "idle"        \* ForceReset()

\* OnPostLoadGame(): the capture is asked to stop, its worker is not waited for ...
LoadCancels ==
  /\ loading = NoLoad
  /\ cancelled' = AskedToStop
  /\ loading' = capture
  /\ UNCHANGED <<encoders, acquirer, tempFiles, pc, capture, request, saved, verdict>>

\* ... and the registered directories are removed.
LoadCleans ==
  /\ loading # NoLoad
  /\ CleanupAllRegistered
  /\ loading' = NoLoad
  /\ UNCHANGED <<encoders, cancelled, acquirer, pc, capture, request, saved, verdict>>

\* The game dies in the middle of a capture and is started again.
Crash ==
  /\ pc # "idle" /\ Forget /\ Dies
  /\ acq' = "none" /\ tries' = 0 /\ pending' = FALSE /\ lent' = FALSE /\ mapped' = FALSE
  /\ loading' = NoLoad
  /\ UNCHANGED capture

Next ==
  \/ \E r \in Requests : Start(r)
  \/ Worker
  \/ Cancel \/ LoadCancels \/ LoadCleans
  \/ Crash

Spec == Init /\ [][Next]_vars

\* A worker thread runs until it is done.
FairSpec == Spec /\ WF_vars(Worker)

-----------------------------------------------------------------------------
(* Properties                                                                *)

InUse == {"guard", "construct", "acquire", "pace", "acquired", "encode", "encoding"}

\* The directory a capture is writing to or encoding from disappears only under a
\* capture that has been cancelled, or that was started in the middle of the load
\* that removes it: neither the scan nor a load takes it from one that goes on.
DirInUse ==
  [][~(pc \in InUse /\ capture \in dirs \ dirs')
     \/ cancelled \/ (loading # NoLoad /\ loading # capture)]_vars

\* No directory is forgotten: each one on the disk is on the list of the next load, or
\* was left by a crash for the next scan, or is just being made; files that are locked
\* when a guard or a load wants to remove them do not change that.
NoOrphan == dirs \subseteq registry \cup left \cup {d \in {capture} : pc = "guard"}

\* What is reported is true of the file: success means it is complete (an APNG was only
\* opened and written, the write is not checked), "cancelled" is said only of a capture
\* that was cancelled and has not produced its file, and metadata is written only
\* beside a complete file.
OutputIsHonest ==
  /\ verdict = "SUCCESS" => out = "whole" \/ (request.format = "APNG" /\ out = "partial")
  /\ verdict = "CANCELLED" => cancelled /\ out # "whole"
  /\ sidecar => out = "whole"

\* A still capture that was cancelled, failed or succeeded leaves no COM apartment open
\* on its thread, and neither does any other; only an exception out of
\* WriteSidecarJson() does, which passes guard() by on its way to the worker's handler.
ComBalanced == er # "none" /\ still # "threw" => com = 0 /\ ~owned

\* Every capture ends, whatever fails, times out or is cancelled on the way.
EveryCaptureEnds == (pc # "idle") ~> (pc = "idle")
===============================================================================
