------------------------------ MODULE FrameChannel ------------------------------
(***************************************************************************)
(* What FrameQueue promises: a bounded FIFO channel that can be closed.    *)
(* A push is refused only when the channel is closed; a pop comes back     *)
(* empty-handed only when the channel is closed and drained.               *)
(***************************************************************************)
EXTENDS Naturals, Sequences

CONSTANTS Producers, Consumers, Frames, Capacity,
          NoFrame   \* what out holds before a pop

VARIABLES queue,    \* the frames in the channel, oldest first
          closed,   \* the channel has been closed
          ret, out  \* per thread: what its last call returned, the frame it popped

chvars == <<queue, closed, ret, out>>

Threads == Producers \cup Consumers

Init == /\ queue = <<>>
        /\ closed = FALSE
        /\ ret = [t \in Threads |-> "none"]
        /\ out = [t \in Threads |-> NoFrame]

Push(p, f) == /\ Len(queue) < Capacity /\ ~closed
              /\ queue' = Append(queue, f)
              /\ ret' = [ret EXCEPT ![p] = "true"]
              /\ UNCHANGED <<closed, out>>

RefusePush(p) == /\ closed
                 /\ ret' = [ret EXCEPT ![p] = "false"]
                 /\ UNCHANGED <<queue, closed, out>>

Pop(c) == /\ queue # <<>>
          /\ ret' = [ret EXCEPT ![c] = "true"]
          /\ out' = [out EXCEPT ![c] = Head(queue)]
          /\ queue' = Tail(queue)
          /\ UNCHANGED closed

EndPop(c) == /\ closed /\ queue = <<>>
             /\ ret' = [ret EXCEPT ![c] = "false"]
             /\ UNCHANGED <<queue, closed, out>>

Close == closed' = TRUE /\ UNCHANGED <<queue, ret, out>>

\* A thread has used its result and begins another call.
Forget(t) == /\ ret' = [ret EXCEPT ![t] = "none"]
             /\ out' \in {out, [out EXCEPT ![t] = NoFrame]}
             /\ UNCHANGED <<queue, closed>>

Next == \/ \E p \in Producers : RefusePush(p) \/ \E f \in Frames : Push(p, f)
        \/ \E c \in Consumers : Pop(c) \/ EndPop(c)
        \/ \E t \in Threads : Forget(t)
        \/ Close

Spec == Init /\ [][Next]_chvars
================================================================================
