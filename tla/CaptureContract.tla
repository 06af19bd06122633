---------------------------- MODULE CaptureContract ----------------------------
(***************************************************************************)
(* What CaptureSession promises its clients, without threads or locks:     *)
(* captures are accepted one after the other, each ends with exactly one   *)
(* outcome, its completion callback reports that outcome exactly once, and *)
(* the next capture is accepted only after that report.  Cancelling is a   *)
(* request: an outcome "CANCELLED" needs one, but a request may come too   *)
(* late to change the outcome.                                             *)
(***************************************************************************)
EXTENDS Naturals

CONSTANT MaxCaptures      \* bound on the captures accepted in one behaviour

VARIABLES captures,       \* how many captures have been accepted
          cancelled,      \* the captures whose token has been cancelled
          outcome,        \* how each capture ended, "none" before that
          delivered       \* what each completion callback was given

cvars == <<captures, cancelled, outcome, delivered>>

Captures == 1..MaxCaptures
Outcomes == {"SUCCESS", "CANCELLED", "ERROR"}

Init ==
    /\ captures = 0
    /\ cancelled = {}
    /\ outcome = [w \in Captures |-> "none"]
    /\ delivered = [w \in Captures |-> "none"]

Accept ==
    /\ captures < MaxCaptures
    /\ captures # 0 => delivered[captures] # "none"
    /\ captures' = captures + 1
    /\ UNCHANGED <<cancelled, outcome, delivered>>

Cancel(w) ==
    /\ w <= captures
    /\ cancelled' = cancelled \cup {w}
    /\ UNCHANGED <<captures, outcome, delivered>>

Complete(w, o) ==
    /\ w = captures
    /\ outcome[w] = "none"
    /\ o = "CANCELLED" => w \in cancelled
    /\ outcome' = [outcome EXCEPT ![w] = o]
    /\ UNCHANGED <<captures, cancelled, delivered>>

Deliver(w) ==
    /\ w = captures
    /\ outcome[w] # "none"
    /\ delivered[w] = "none"
    /\ delivered' = [delivered EXCEPT ![w] = outcome[w]]
    /\ UNCHANGED <<captures, cancelled, outcome>>

Next ==
    \/ Accept
    \/ \E w \in Captures : Cancel(w) \/ Deliver(w) \/ \E o \in Outcomes : Complete(w, o)

Spec == Init /\ [][Next]_cvars
================================================================================
