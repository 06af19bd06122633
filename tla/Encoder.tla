------------------------------- MODULE Encoder -------------------------------
(***************************************************************************)
(* encoding/IEncoder.h: what every encoder shares.  An encoder runs on the *)
(* worker thread of one capture: it looks at that capture's token, keeps a *)
(* COM apartment for the time of the call, writes one output file and      *)
(* returns an EncodeResult.                                                *)
(***************************************************************************)
EXTENDS Integers, Sequences

CONSTANTS Width, Height      \* of a frame, in pixels
ASSUME SizeAssumption == Width \in Nat \ {0} /\ Height \in Nat \ {0}

VARIABLES
  cancelled,   \* the capture's CancellationToken
  er,          \* the EncodeResult, "none" until the encoder returns
  out,         \* the output file: "none", "partial" or "whole"
  com, owned   \* open CoInitializeEx calls of the worker; the one of this encoder counts

encoder == <<er, out, com, owned>>

Results == {"none", "Ok", "Cancelled", "Fail"}

EncoderTypeOK ==
  /\ cancelled \in BOOLEAN
  /\ er \in Results
  /\ out \in {"none", "partial", "whole"}
  /\ com \in {0, 1} /\ owned \in BOOLEAN

EncoderIdle == er = "none" /\ out = "none" /\ com = 0 /\ owned = FALSE

\* CoInitializeEx(): opened here, or the thread has another apartment already.
ComEnter ==
  \/ com' = com + 1 /\ owned' = TRUE
  \/ com' = com /\ owned' = FALSE

ComLeft == IF owned THEN com - 1 ELSE com  \* ~ComApartmentGuard, guard() in SaveWIC()

\* The encoder returns r; the guard closes the apartment.
Return(r) == er' = r /\ com' = ComLeft /\ owned' = FALSE

-----------------------------------------------------------------------------
(* Pictures and the canvas a viewer has                                      *)

Pixels == (1..Width) \X (1..Height)

\* The smallest rectangle around a set of pixels.
Box(S) == {p \in Pixels : /\ \E a, b \in S : a[1] <= p[1] /\ p[1] <= b[1]
                          /\ \E a, b \in S : a[2] <= p[2] /\ p[2] <= b[2]}

Clear == -1                                \* a pixel that is drawn as nothing
Empty == [p \in Pixels |-> Clear]

\* A viewer draws the pixels of a frame's area over its canvas.
Draw(canvas, area, px) ==
  [p \in Pixels |-> IF p \in area /\ px[p] # Clear THEN px[p] ELSE canvas[p]]
===============================================================================
