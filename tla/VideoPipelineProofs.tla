-------------------------- MODULE VideoPipelineProofs --------------------------
(***************************************************************************)
(* What holds of a video of any length, with a queue of any capacity and,  *)
(* where textures are concerned, a sink writer that holds at most as many  *)
(* samples as the pool was made for.  The queue's own invariant is that of *)
(* FrameQueueProofs.                                                       *)
(***************************************************************************)
EXTENDS VideoPipeline, SequenceTheorems, TLAPS

QP == INSTANCE FrameQueueProofs
        WITH Producers <- {Producer}, Consumers <- {Worker}, Frames <- Entries

LEMMA QueueAssumptions == /\ QP!ThreadsAssumption /\ QP!FinitelyMany
                          /\ QP!FramesAssumption /\ QP!CapacityAssumption
<1>1. ASSUME NEW t PROVE QP!IsFiniteSet({t})
  <2>1. <<t>> \in Seq({t}) /\ Len(<<t>>) = 1 /\ <<t>>[1] = t
    OBVIOUS
  <2>2. \E seq \in Seq({t}) : \A s \in {t} : \E n \in 1..Len(seq) : seq[n] = s
    <3>1. \A s \in {t} : \E n \in 1..Len(<<t>>) : <<t>>[n] = s
      <4>1. 1 \in 1..Len(<<t>>)  BY <2>1
      <4> QED BY <2>1, <4>1
    <3> QED BY <2>1, <3>1
  <2> QED BY <2>2 DEF QP!IsFiniteSet
<1>2. QP!FinitelyMany  BY <1>1 DEF QP!FinitelyMany
<1> QED BY <1>2, ThreadsAssumption, EntryAssumption, CapacityAssumption
        DEF QP!ThreadsAssumption, QP!FramesAssumption, QP!CapacityAssumption

-----------------------------------------------------------------------------
(* The calls of the queue are those of FrameQueueProofs                      *)

LEMMA SameState == /\ Q!TypeOK <=> QP!TypeOK
                   /\ Q!Init <=> QP!Init
                   /\ Q!Queued = QP!Queued
BY DEF Q!TypeOK, QP!TypeOK, Q!Init, QP!Init, Q!Queued, QP!Queued, Q!Slots, QP!Slots,
       Q!Threads, QP!Threads

LEMMA SameBegin ==
  /\ \A e : Q!BeginPush(Producer, e) <=> QP!BeginPush(Producer, e)
  /\ Q!BeginPop(Worker) <=> QP!BeginPop(Worker)
  /\ \A t : Q!BeginStop(t) <=> QP!BeginStop(t)
BY DEF Q!BeginPush, QP!BeginPush, Q!BeginPop, QP!BeginPop, Q!BeginStop, QP!BeginStop,
       Q!Goto, QP!Goto, Q!ring, QP!ring, Q!waiting, QP!waiting, Q!results, QP!results

LEMMA SamePush == Q!PushStep(Producer) => QP!PushStep(Producer)
<1> USE DEF Q!Goto, QP!Goto, Q!ring, QP!ring, Q!waiting, QP!waiting, Q!results, QP!results
<1>1. Q!PushLock(Producer) => QP!PushLock(Producer)  BY DEF Q!PushLock, QP!PushLock
<1>2. Q!PushTest(Producer) => QP!PushTest(Producer)
  BY DEF Q!PushTest, QP!PushTest, Q!HasRoom, QP!HasRoom
<1>3. Q!PushSleep(Producer) => QP!PushSleep(Producer)  BY DEF Q!PushSleep, QP!PushSleep
<1>4. Q!PushRefused(Producer) => QP!PushRefused(Producer)
  BY DEF Q!PushRefused, QP!PushRefused, Q!Return, QP!Return
<1>5. Q!PushBody(Producer) => QP!PushBody(Producer)
  BY DEF Q!PushBody, QP!PushBody, Q!Succ, QP!Succ
<1>6. Q!PushNotify(Producer) => QP!PushNotify(Producer)
  BY DEF Q!PushNotify, QP!PushNotify, Q!NotifyOne, QP!NotifyOne
<1> QED BY <1>1, <1>2, <1>3, <1>4, <1>5, <1>6 DEF Q!PushStep, QP!PushStep

LEMMA SamePop == Q!PopStep(Worker) => QP!PopStep(Worker)
<1> USE DEF Q!Goto, QP!Goto, Q!ring, QP!ring, Q!waiting, QP!waiting, Q!results, QP!results
<1>1. Q!PopLock(Worker) => QP!PopLock(Worker)  BY DEF Q!PopLock, QP!PopLock
<1>2. Q!PopTest(Worker) => QP!PopTest(Worker)  BY DEF Q!PopTest, QP!PopTest
<1>3. Q!PopSleep(Worker) => QP!PopSleep(Worker)  BY DEF Q!PopSleep, QP!PopSleep
<1>4. Q!PopEnds(Worker) => QP!PopEnds(Worker)
  BY DEF Q!PopEnds, QP!PopEnds, Q!Return, QP!Return, Q!Drained, QP!Drained
<1>5. Q!PopBody(Worker) => QP!PopBody(Worker)
  BY DEF Q!PopBody, QP!PopBody, Q!Succ, QP!Succ, Q!Drained, QP!Drained
<1>6. Q!PopNotify(Worker) => QP!PopNotify(Worker)
  BY DEF Q!PopNotify, QP!PopNotify, Q!NotifyOne, QP!NotifyOne
<1> QED BY <1>1, <1>2, <1>3, <1>4, <1>5, <1>6 DEF Q!PopStep, QP!PopStep

LEMMA SameStop ==
  \A t : /\ Q!StopStep(t) => QP!StopStep(t)
         /\ Q!SpuriousWake(t) => QP!SpuriousWake(t)
BY DEF Q!StopStep, QP!StopStep, Q!StopFull, QP!StopFull, Q!StopEmpty, QP!StopEmpty,
       Q!SpuriousWake, QP!SpuriousWake, Q!NotifyAll, QP!NotifyAll, Q!Threads, QP!Threads,
       Q!Goto, QP!Goto, Q!ring, QP!ring, Q!waiting, QP!waiting, Q!results, QP!results

-----------------------------------------------------------------------------
(* What a step inside a call of the queue does                               *)

PushPc == {"pushLock", "pushTest", "pushSleep", "pushAsleep", "pushBody"}
PopPc  == {"popLock", "popTest", "popSleep", "popAsleep", "popBody"}
StopPc == {"stopFull", "stopEmpty"}

\* The queued frames, oldest first.
Line == QP!Queued

\* Thread t stays in the part of the call it is in, or the call ends.
Onward(t) == \/ pc'[t] = pc[t]
             \/ pc[t] \in PushPc /\ pc'[t] \in PushPc
             \/ pc[t] \in PopPc /\ pc'[t] \in PopPc
             \/ pc[t] \in {"pushNotify", "popNotify"} /\ pc'[t] = "idle"
             \/ pc[t] \in StopPc /\ pc'[t] \in StopPc \cup {"idle"}

Quiet == /\ UNCHANGED <<count, Line, stopped, arg, ret, out>>
         /\ Onward(Producer) /\ Onward(Worker)

Accepts == /\ pc[Producer] = "pushBody" /\ pc'[Producer] = "pushNotify"
           /\ pc'[Worker] = pc[Worker]
           /\ ~stopped /\ count < Capacity /\ count' = count + 1
           /\ Line' = Append(Line, arg[Producer])
           /\ ret' = [ret EXCEPT ![Producer] = "true"]
           /\ UNCHANGED <<stopped, arg, out>>

Refuses == /\ pc[Producer] = "pushBody" /\ pc'[Producer] = "idle"
           /\ pc'[Worker] = pc[Worker]
           /\ stopped
           /\ ret' = [ret EXCEPT ![Producer] = "false"]
           /\ UNCHANGED <<count, Line, stopped, arg, out>>

Serves == /\ pc[Worker] = "popBody" /\ pc'[Worker] = "popNotify"
          /\ pc'[Producer] = pc[Producer]
          /\ count > 0 /\ count' = count - 1
          /\ Line' = Tail(Line)
          /\ ret' = [ret EXCEPT ![Worker] = "true"]
          /\ out' = [out EXCEPT ![Worker] = Head(Line)]
          /\ UNCHANGED <<stopped, arg>>

Closes == /\ pc[Worker] = "popBody" /\ pc'[Worker] = "idle"
          /\ pc'[Producer] = pc[Producer]
          /\ stopped /\ count = 0
          /\ ret' = [ret EXCEPT ![Worker] = "false"]
          /\ UNCHANGED <<count, Line, stopped, arg, out>>

QueueMoves == Quiet \/ Accepts \/ Refuses \/ Serves \/ Closes

LEMMA LineSame == UNCHANGED QP!ring => UNCHANGED <<count, Line>>
BY DEF QP!ring, Line, QP!Queued

LEMMA QueueTyped ==
  ASSUME QP!QueueInv
  PROVE  /\ pc = [t \in {Producer, Worker} |-> pc[t]] /\ DOMAIN pc = {Producer, Worker}
         /\ ret \in [{Producer, Worker} -> {"none", "true", "false"}]
         /\ arg \in [{Producer, Worker} -> Entries \cup {NoFrame}]
         /\ out \in [{Producer, Worker} -> Entries \cup {NoFrame}]
         /\ count \in 0..Capacity /\ stopped \in BOOLEAN
         /\ Producer # Worker
<1>1. QP!Threads = {Producer, Worker}  BY DEF QP!Threads
<1>2. pc = [t \in {Producer, Worker} |-> pc[t]] /\ DOMAIN pc = {Producer, Worker}
  BY <1>1 DEF QP!QueueInv, QP!TypeOK
<1> QED BY <1>1, <1>2, ThreadsAssumption DEF QP!QueueInv, QP!TypeOK

LEMMA PushMoves ==
  ASSUME QP!QueueInv, QP!QueueInv', QP!PushStep(Producer)
  PROVE  QueueMoves
<1> USE QueueTyped DEF QP!Goto, PushPc, PopPc, Onward
<1>1. CASE QP!PushLock(Producer) \/ QP!PushTest(Producer) \/ QP!PushSleep(Producer)
  <2>1. UNCHANGED <<count, Line>>
    BY <1>1, LineSame DEF QP!PushLock, QP!PushTest, QP!PushSleep
  <2> QED BY <1>1, <2>1
          DEF QP!PushLock, QP!PushTest, QP!PushSleep, QP!results, QueueMoves, Quiet
<1>2. CASE QP!PushRefused(Producer)
  <2>1. UNCHANGED <<count, Line>>  BY <1>2, LineSame DEF QP!PushRefused
  <2>2. Refuses  BY <1>2, <2>1 DEF QP!PushRefused, QP!Return, Refuses
  <2> QED BY <2>2 DEF QueueMoves
<1>3. CASE QP!PushBody(Producer)
  <2>1. Len(Line) < Capacity /\ Line' = Append(Line, arg[Producer])
    BY <1>3, QP!PushAppends, QueueAssumptions DEF Line
  <2>2. count < Capacity
    BY <1>3 DEF QP!QueueInv, QP!BodyInv, QP!PushBody, QP!Threads
  <2>3. Accepts  BY <1>3, <2>1, <2>2 DEF QP!PushBody, Accepts
  <2> QED BY <2>3 DEF QueueMoves
<1>4. CASE QP!PushNotify(Producer)
  <2>1. UNCHANGED <<count, Line>>  BY <1>4, LineSame DEF QP!PushNotify
  <2>2. \A t \in notEmpty : t \in {Producer, Worker} /\ pc[t] = "popAsleep"
    BY DEF QP!QueueInv, QP!LockInv, QP!TypeOK, QP!Threads
  <2>3. Onward(Producer) /\ Onward(Worker)
    BY <1>4, <2>2 DEF QP!PushNotify, QP!NotifyOne
  <2> QED BY <1>4, <2>1, <2>3 DEF QP!PushNotify, QP!results, QueueMoves, Quiet
<1> QED BY <1>1, <1>2, <1>3, <1>4 DEF QP!PushStep

LEMMA PopMoves ==
  ASSUME QP!QueueInv, QP!QueueInv', QP!PopStep(Worker)
  PROVE  QueueMoves
<1> USE QueueTyped DEF QP!Goto, PushPc, PopPc, Onward
<1>1. CASE QP!PopLock(Worker) \/ QP!PopTest(Worker) \/ QP!PopSleep(Worker)
  <2>1. UNCHANGED <<count, Line>>
    BY <1>1, LineSame DEF QP!PopLock, QP!PopTest, QP!PopSleep
  <2> QED BY <1>1, <2>1
          DEF QP!PopLock, QP!PopTest, QP!PopSleep, QP!results, QueueMoves, Quiet
<1>2. CASE QP!PopEnds(Worker)
  <2>1. UNCHANGED <<count, Line>>  BY <1>2, LineSame DEF QP!PopEnds
  <2>2. Closes  BY <1>2, <2>1 DEF QP!PopEnds, QP!Return, QP!Drained, Closes
  <2> QED BY <2>2 DEF QueueMoves
<1>3. CASE QP!PopBody(Worker)
  <2>1. Line # <<>> /\ buffer[head] = Head(Line) /\ Line' = Tail(Line)
    BY <1>3, QP!PopTakesHead, QueueAssumptions DEF Line
  <2>2. count > 0
    BY <1>3, QP!PopBodyRing, QueueAssumptions
  <2>3. Serves  BY <1>3, <2>1, <2>2 DEF QP!PopBody, Serves
  <2> QED BY <2>3 DEF QueueMoves
<1>4. CASE QP!PopNotify(Worker)
  <2>1. UNCHANGED <<count, Line>>  BY <1>4, LineSame DEF QP!PopNotify
  <2>2. \A t \in notFull : t \in {Producer, Worker} /\ pc[t] = "pushAsleep"
    BY DEF QP!QueueInv, QP!LockInv, QP!TypeOK, QP!Threads
  <2>3. Onward(Producer) /\ Onward(Worker)
    BY <1>4, <2>2 DEF QP!PopNotify, QP!NotifyOne
  <2> QED BY <1>4, <2>1, <2>3 DEF QP!PopNotify, QP!results, QueueMoves, Quiet
<1> QED BY <1>1, <1>2, <1>3, <1>4 DEF QP!PopStep

LEMMA StopMoves ==
  ASSUME QP!QueueInv, QP!QueueInv', NEW t \in {Producer, Worker},
         QP!StopStep(t) \/ QP!SpuriousWake(t)
  PROVE  QueueMoves
<1> USE QueueTyped DEF QP!Goto, PushPc, PopPc, StopPc, Onward
<1>1. UNCHANGED <<count, Line>>
  BY LineSame DEF QP!StopStep, QP!StopFull, QP!StopEmpty, QP!SpuriousWake
<1>2. /\ \A u \in notFull : u \in {Producer, Worker} /\ pc[u] = "pushAsleep"
      /\ \A u \in notEmpty : u \in {Producer, Worker} /\ pc[u] = "popAsleep"
  BY DEF QP!QueueInv, QP!LockInv, QP!TypeOK, QP!Threads
<1>3. CASE QP!StopFull(t)
  BY <1>1, <1>2, <1>3
  DEF QP!StopFull, QP!NotifyAll, QP!results, QP!Threads, QueueMoves, Quiet
<1>4. CASE QP!StopEmpty(t)
  BY <1>1, <1>2, <1>4
  DEF QP!StopEmpty, QP!NotifyAll, QP!results, QP!Threads, QueueMoves, Quiet
<1>5. CASE QP!SpuriousWake(t)
  BY <1>1, <1>2, <1>5 DEF QP!SpuriousWake, QP!results, QueueMoves, Quiet
<1> QED BY <1>3, <1>4, <1>5 DEF QP!StopStep

-----------------------------------------------------------------------------
(* The invariant: the threads and their calls                                *)

\* The types and ranges that do not depend on what the queue holds.
Typed ==
  /\ prod \in {"none", "loop", "copy", "pushing", "finish", "leaving", "exited"}
  /\ main \in {"setup", "first", "loop", "popping", "encode", "join", "check", "returned"}
  /\ f \in 1..TotalFrames /\ clock \in 0..TotalFrames /\ poolIndex \in 0..TotalFrames
  /\ pool \in [Slots -> 0..(TotalFrames - 1)]
  /\ producerDone \in BOOLEAN /\ producerError \in BOOLEAN /\ consumerError \in BOOLEAN
  /\ cancelled \in BOOLEAN
  /\ frame \in Entries \cup {NoFrame} /\ inFlight \in Seq(Entries)
  /\ encoded \in Nat /\ late \in Nat
  /\ file \in {"absent", "open", "closed"}
  /\ result \in {"none", "SUCCESS", "CANCELLED", "ERROR"}

\* The producer's loop index runs ahead of its clock and of its copies.
Ahead ==
  /\ clock <= f
  /\ prod \in {"none", "loop"} => clock < f
  /\ prod \in {"copy", "pushing"} => f < TotalFrames
  /\ prod \in {"none", "loop", "copy"} => poolIndex <= f
  /\ prod = "pushing" => poolIndex <= f + 1
  /\ prod = "none" => f = 1
  /\ prod # "none" => poolIndex > 0

\* Which call of the queue each thread can be in, and what its last call returned.
InPush      == pc[Producer] \in PushPc /\ ret[Producer] = "none"
PushOver    == pc[Producer] \in {"pushNotify", "idle"} /\ ret[Producer] = "true"
PushRefused == Idle(Producer) /\ ret[Producer] = "false" /\ stopped
Stopping(t) == pc[t] \in StopPc \cup {"idle"}

ProducerCalls ==
  /\ prod = "none" =>
       \/ main \in {"setup", "returned"} /\ Idle(Producer) /\ ret[Producer] = "none"
            /\ poolIndex = 0 /\ count = 0 /\ ~stopped
       \/ main = "first" /\ (InPush \/ PushOver) /\ poolIndex = 1 /\ ~stopped
  /\ prod # "none" => main \notin {"setup", "first"}
  /\ prod \in {"loop", "copy"} => Idle(Producer) /\ ret[Producer] = "true"
  /\ prod = "pushing" => InPush \/ PushOver \/ PushRefused
  /\ prod \in {"finish", "leaving"} => Stopping(Producer) /\ ret[Producer] = "true"
  /\ prod = "exited" => Idle(Producer) /\ ret[Producer] # "none"
  /\ prod \in {"leaving", "exited"} => stopped

WorkerCalls ==
  /\ main = "popping" =>
       \/ pc[Worker] \in PopPc /\ ret[Worker] = "none"
       \/ pc[Worker] \in {"popNotify", "idle"} /\ ret[Worker] = "true"
       \/ Idle(Worker) /\ ret[Worker] = "false" /\ stopped /\ count = 0
  /\ main = "join" => Stopping(Worker) /\ stopped
  /\ main \notin {"popping", "join"} => Idle(Worker)
  /\ main = "check" => prod = "exited"
  /\ main = "returned" => prod \in {"none", "exited"}

Threading == Typed /\ Ahead /\ ProducerCalls /\ WorkerCalls

-----------------------------------------------------------------------------
(* What the actions do to the queue                                          *)

Still     == UNCHANGED <<pc, count, Line, stopped, arg, ret, out>>
Entry(i, t) == [slot |-> PoolSlot(poolIndex), index |-> i, time |-> t]
Begins(i, t) ==
  /\ pool' = [pool EXCEPT ![PoolSlot(poolIndex)] = i]
  /\ poolIndex' = poolIndex + 1
  /\ pc[Producer] = "idle" /\ pc' = [pc EXCEPT ![Producer] = "pushLock"]
  /\ arg' = [arg EXCEPT ![Producer] = Entry(i, t)]
  /\ ret' = [ret EXCEPT ![Producer] = "none"]
  /\ UNCHANGED <<count, Line, stopped, out>>
PopBegins ==
  /\ pc[Worker] = "idle" /\ pc' = [pc EXCEPT ![Worker] = "popLock"]
  /\ ret' = [ret EXCEPT ![Worker] = "none"]
  /\ out' = [out EXCEPT ![Worker] = NoFrame]
  /\ UNCHANGED <<count, Line, stopped, arg>>
Stops(t) ==
  /\ pc[t] = "idle" /\ pc' = [pc EXCEPT ![t] = "stopFull"]
  /\ stopped' = TRUE
  /\ UNCHANGED <<count, Line, arg, ret, out>>

LEMMA Effects ==
  /\ UNCHANGED queueing => Still
  /\ \A i, t : CopyAndPush(i, t) => Begins(i, t)
  /\ Q!BeginPop(Worker) => PopBegins
  /\ \A t : StopQueue(t) => Stops(t)
<1>1. UNCHANGED queueing => Still
  BY DEF queueing, Still, Line, QP!Queued
<1>2. ASSUME NEW i, NEW t, CopyAndPush(i, t) PROVE Begins(i, t)
  <2>1. QP!BeginPush(Producer, Entry(i, t))  BY <1>2, SameBegin DEF CopyAndPush, Entry
  <2>2. UNCHANGED <<count, Line>>  BY <2>1, LineSame DEF QP!BeginPush
  <2> QED BY <1>2, <2>1, <2>2 DEF CopyAndPush, QP!BeginPush, QP!Goto, Begins
<1>3. ASSUME Q!BeginPop(Worker) PROVE PopBegins
  <2>1. QP!BeginPop(Worker)  BY <1>3, SameBegin
  <2>2. UNCHANGED <<count, Line>>  BY <2>1, LineSame DEF QP!BeginPop
  <2> QED BY <2>1, <2>2 DEF QP!BeginPop, QP!Goto, PopBegins
<1>4. ASSUME NEW t, StopQueue(t) PROVE Stops(t)
  <2>1. QP!BeginStop(t)  BY <1>4, SameBegin DEF StopQueue
  <2>2. UNCHANGED <<count, Line>>  BY <2>1, LineSame DEF QP!BeginStop
  <2> QED BY <2>1, <2>2 DEF QP!BeginStop, QP!Goto, QP!results, Stops
<1> QED BY <1>1, <1>2, <1>3, <1>4

\* The entry of a copy is a frame of the queue.
LEMMA EntryTyped ==
  ASSUME NEW n \in Nat, NEW i \in 0..(TotalFrames - 1), NEW t \in 0..TotalFrames
  PROVE  [slot |-> PoolSlot(n), index |-> i, time |-> t] \in Entries
<1>1. PoolSize \in Nat \ {0}  BY CapacityAssumption DEF PoolSize
<1>2. PoolSlot(n) \in Slots  BY <1>1, SMT DEF PoolSlot, Slots
<1>3. t \in 0..(2 * TotalFrames)  BY FramesAssumption
<1> QED BY <1>2, <1>3 DEF Entries

\* Every step of a video is a step of its queue, or leaves the queue alone.
LEMMA QueueUsed ==
  ASSUME Typed, Ahead, [Next]_vars
  PROVE  [QP!Next]_(QP!qvars)
<1>1. UNCHANGED queueing => UNCHANGED QP!qvars
  BY DEF queueing, QP!qvars, QP!ring, QP!waiting, QP!local, QP!results
<1>2. CASE Setup
  <2>1. [slot |-> PoolSlot(poolIndex), index |-> 0, time |-> 0] \in Entries
    BY EntryTyped, FramesAssumption DEF Typed
  <2> QED BY <1>2, <2>1, SameBegin DEF Setup, CopyAndPush, QP!Next, QP!Begin
<1>3. CASE Copy
  <2>1. f \in 0..(TotalFrames - 1)
    BY <1>3, FramesAssumption DEF Copy, Move, Typed, Ahead
  <2>2. [slot |-> PoolSlot(poolIndex), index |-> f, time |-> clock] \in Entries
    BY <2>1, EntryTyped, FramesAssumption DEF Typed
  <2> QED BY <1>3, <2>2, SameBegin DEF Copy, CopyAndPush, QP!Next, QP!Begin
<1>4. CASE CallPop
  BY <1>4, SameBegin DEF CallPop, QP!Next, QP!Begin
<1>5. CASE StopOnCancel \/ ProducerFails \/ ProducerThrows \/ Finish \/ EncodeFails
  BY <1>5, SameBegin DEF StopOnCancel, ProducerFails, ProducerThrows, Finish, EncodeFails,
                         StopQueue, QP!Next, QP!Begin, QP!Threads
<1>6. CASE ProducerQueueStep \/ WorkerQueueStep \/ SpuriousWake
  BY <1>6, SamePush, SamePop, SameStop
  DEF ProducerQueueStep, WorkerQueueStep, SpuriousWake, QP!Next, QP!Threads
<1>7. CASE \/ CancelThrown \/ DropFrame \/ Pushed \/ Leave \/ EndLoop
           \/ \E t \in {clock, clock + 1} : Acquire(t)
  BY <1>7, <1>1 DEF CancelThrown, DropFrame, Pushed, Leave, EndLoop, Acquire
<1>8. CASE \/ Spawn \/ PopFrame \/ PopEnd \/ Encode \/ Join \/ AbortVideo \/ FinalizeVideo
           \/ FinalizeFails \/ \E r \in {"CANCELLED", "ERROR"} : SetupFails(r)
  BY <1>8, <1>1 DEF Spawn, PopFrame, PopEnd, Encode, Join, AbortVideo, FinalizeVideo,
                    FinalizeFails, SetupFails
<1>9. CASE Cancel \/ Release \/ Stopped \/ UNCHANGED vars
  BY <1>9, <1>1 DEF Cancel, Release, Stopped, vars
<1> QED BY <1>2, <1>3, <1>4, <1>5, <1>6, <1>7, <1>8, <1>9 DEF Next, ProducerStep, WorkerStep

LEMMA QueueNext ==
  ASSUME QP!QueueInv, Typed, Ahead, [Next]_vars
  PROVE  QP!QueueInv'
BY QueueUsed, QP!TypeOKStep, QP!LockInvStep, QP!RoleInvStep, QP!BodyInvStep, QP!RingInvStep,
   QueueAssumptions DEF QP!QueueInv

\* A step inside a call of the queue.
LEMMA InsideMoves ==
  ASSUME QP!QueueInv, QP!QueueInv', ProducerQueueStep \/ WorkerQueueStep \/ SpuriousWake
  PROVE  QueueMoves /\ UNCHANGED <<producing, consuming, cancelled>>
BY SamePush, SamePop, SameStop, PushMoves, PopMoves, StopMoves
DEF ProducerQueueStep, WorkerQueueStep, SpuriousWake

-----------------------------------------------------------------------------
(* The invariant: counting copies                                            *)

\* The copies that have been queued, and those of them that have been popped.
Entered == IF poolIndex > 0 /\ ret[Producer] # "true" THEN poolIndex - 1 ELSE poolIndex
Popped  == Entered - count

\* A frame has been popped and not been encoded.
Held      == main = "encode" \/ (main = "popping" /\ ret[Worker] = "true")
HeldFrame == IF main = "encode" THEN frame ELSE out[Worker]

\* A frame popped is encoded, or being encoded, or the consumer has failed on it.
Counts ==
  /\ Popped \in {encoded, encoded + 1}
  /\ Held => Popped = encoded + 1 /\ HeldFrame \in Entries
  /\ main \in {"setup", "first", "loop"} => Popped = encoded
  /\ main = "popping" /\ ~Held => Popped = encoded
  /\ main \in {"join", "check"} /\ ~consumerError => Popped = encoded /\ count = 0
  /\ Len(inFlight) <= encoded /\ Len(inFlight) <= MaxInFlight

\* At most the queue, the frame held and one more are written after a cancellation.
Coming == IF prod = "copy" \/ pc[Producer] \in PushPc THEN 1 ELSE 0
Pending == count + (IF Held THEN 1 ELSE 0) + Coming
Lateness ==
  /\ late <= encoded
  /\ ~cancelled => late = 0
  /\ cancelled => late + Pending <= Capacity + 2

\* Who may have stopped the queue, and what a verdict means.
Verdicts ==
  /\ main \notin {"join", "check", "returned"} => ~consumerError
  /\ stopped /\ ~consumerError => prod \in {"finish", "leaving", "exited"} /\ ret[Producer] = "true"
  /\ main # "returned" => result = "none"
  /\ main = "setup" => file = "absent"
  /\ ResultIsHonest

\* Copy n, if it is still queued, held, being pushed or in flight, is frame e.
Nth(n, e) ==
  \/ Held /\ n = encoded /\ e = HeldFrame
  \/ \E i \in 1..count : n = Popped + i - 1 /\ e = Line[i]
  \/ pc[Producer] \in PushPc /\ n = poolIndex - 1 /\ e = arg[Producer]
  \/ \E i \in 1..Len(inFlight) : n = encoded - Len(inFlight) + i - 1 /\ e = inFlight[i]

\* The copies are numbered in the order of their frames.
Order ==
  /\ \A m, n, d, e : Nth(m, d) /\ Nth(n, e) /\ m < n => d.index < e.index
  /\ \A n, e : Nth(n, e) => e.index <= f /\ e.time <= clock
  /\ prod \in {"none", "loop", "copy"} => \A n, e : Nth(n, e) => e.index < f
\* The last sample comes before every frame that is to be encoded.
Lasts ==
  /\ encoded = 0 => last = NoFrame
  /\ last # NoFrame =>
       /\ last \in Entries
       /\ last.time < clock + encoded /\ last.index <= f
       /\ prod \in {"none", "loop", "copy"} => last.index < f
       /\ \A n, e : Nth(n, e) /\ n >= encoded => last.index < e.index

\* Every texture somebody still has to read holds the frame it was copied for, but for
\* those of samples after which two more have been written.
Textures ==
  \A n, e : Nth(n, e) => /\ e.slot = PoolSlot(n)
                         /\ encoded <= n + 2 => pool[e.slot] = e.index

-----------------------------------------------------------------------------
(* Each part of the invariant, one step per action or group of actions       *)

LEMMA TypedStep ==
  ASSUME QP!QueueInv, QP!QueueInv', Threading, Counts, [Next]_vars
  PROVE  Typed'
<1> USE DEF Threading, Typed, Move, producing, consuming, writing
<1>1. ASSUME UNCHANGED <<producing, consuming>>, cancelled' \in BOOLEAN PROVE Typed'
  BY <1>1
<1>0. CASE \/ SpuriousWake \/ ProducerQueueStep \/ WorkerQueueStep \/ Cancel \/ Stopped
           \/ UNCHANGED vars
  BY <1>0, <1>1 DEF SpuriousWake, ProducerQueueStep, WorkerQueueStep, Cancel, Stopped, vars
<1>2. ASSUME NEW i, NEW t, CopyAndPush(i, t), i \in 0..(TotalFrames - 1), poolIndex < TotalFrames
      PROVE  poolIndex' \in 0..TotalFrames /\ pool' \in [Slots -> 0..(TotalFrames - 1)]
  BY <1>2, Effects, FramesAssumption DEF Begins
<1>3. CASE Setup
  <2>1. 0 \in 0..(TotalFrames - 1) /\ poolIndex < TotalFrames
    BY <1>3, FramesAssumption DEF Setup, ProducerCalls
  <2> QED BY <1>3, <1>2, <2>1 DEF Setup
<1>4. CASE Copy
  <2>1. f \in 0..(TotalFrames - 1) /\ poolIndex < TotalFrames
    BY <1>4, FramesAssumption DEF Copy, Ahead
  <2> QED BY <1>4, <1>2, <2>1 DEF Copy
<1>5. CASE Release
  <2>1. inFlight' \in Seq(Entries)  BY <1>5, HeadTailProperties DEF Release
  <2> QED BY <1>5, <2>1 DEF Release
<1>6. CASE Encode
  <2>1. frame \in Entries  BY <1>6 DEF Encode, Counts, Held, HeldFrame
  <2>2. inFlight' \in Seq(Entries)  BY <1>6, <2>1, AppendProperties DEF Encode
  <2> QED BY <1>6, <2>2 DEF Encode
<1>7. CASE AbortVideo \/ FinalizeVideo \/ FinalizeFails
  <2>1. inFlight' \in Seq(Entries)
    BY <1>7, EmptySeq DEF AbortVideo, FinalizeVideo, FinalizeFails
  <2> QED BY <1>7, <2>1 DEF AbortVideo, FinalizeVideo, FinalizeFails, Verdict
<1>8. CASE PopFrame
  <2>1. out[Worker] \in Entries \cup {NoFrame}  BY QueueTyped
  <2> QED BY <1>8, <2>1 DEF PopFrame
<1>13. CASE PopEnd
  <2>1. consumerError' \in BOOLEAN  BY <1>13 DEF PopEnd
  <2> QED BY <1>13, <2>1 DEF PopEnd
<1>9. CASE Spawn \/ CallPop \/ EncodeFails \/ Join \/ \E r \in {"CANCELLED", "ERROR"} : SetupFails(r)
  BY <1>9 DEF Spawn, CallPop, EncodeFails, Join, SetupFails
<1>10. CASE StopOnCancel \/ CancelThrown \/ Leave \/ EndLoop
  BY <1>10 DEF StopOnCancel, CancelThrown, Leave, EndLoop
<1>14. CASE ProducerFails
  BY <1>14 DEF ProducerFails
<1>15. CASE ProducerThrows
  BY <1>15 DEF ProducerThrows
<1>16. CASE Finish
  BY <1>16 DEF Finish
<1>11. CASE DropFrame \/ Pushed
  BY <1>11, FramesAssumption DEF DropFrame, Pushed, NextFrame, Ahead
<1>12. ASSUME NEW t \in {clock, clock + 1}, Acquire(t) PROVE Typed'
  <2>1. t \in 0..TotalFrames  BY <1>12, FramesAssumption DEF Acquire, Ahead
  <2> QED BY <1>12, <2>1 DEF Acquire
<1> QED BY <1>0, <1>3, <1>4, <1>5, <1>6, <1>7, <1>8, <1>9, <1>10, <1>11, <1>12, <1>13, <1>14,
           <1>15, <1>16
        DEF Next, ProducerStep, WorkerStep

LEMMA AheadStep ==
  ASSUME QP!QueueInv, QP!QueueInv', Threading, [Next]_vars
  PROVE  Ahead'
<1> USE DEF Threading, Typed, Ahead, Move, producing, consuming
<1>1. CASE \/ SpuriousWake \/ ProducerQueueStep \/ WorkerQueueStep \/ Cancel \/ Release \/ Stopped
           \/ UNCHANGED vars
  BY <1>1 DEF SpuriousWake, ProducerQueueStep, WorkerQueueStep, Cancel, Release, Stopped, vars
<1>2. CASE Setup
  BY <1>2, Effects DEF Setup, Begins, ProducerCalls
<1>3. CASE Copy
  BY <1>3, Effects, FramesAssumption DEF Copy, Begins
<1>4. CASE Spawn
  BY <1>4 DEF Spawn, ProducerCalls
<1>5. CASE \/ PopFrame \/ PopEnd \/ CallPop \/ Encode \/ EncodeFails \/ Join \/ AbortVideo
           \/ FinalizeVideo \/ FinalizeFails \/ \E r \in {"CANCELLED", "ERROR"} : SetupFails(r)
  BY <1>5 DEF PopFrame, PopEnd, CallPop, Encode, EncodeFails, Join, AbortVideo, FinalizeVideo,
              FinalizeFails, SetupFails
<1>6. CASE StopOnCancel \/ CancelThrown \/ ProducerFails \/ ProducerThrows \/ Leave \/ EndLoop
            \/ Finish
  BY <1>6 DEF StopOnCancel, CancelThrown, ProducerFails, ProducerThrows, Leave, EndLoop, Finish
<1>7. CASE DropFrame
  BY <1>7, FramesAssumption DEF DropFrame, NextFrame
<1>8. CASE Pushed
  BY <1>8, FramesAssumption DEF Pushed, NextFrame
<1>9. ASSUME NEW t \in {clock, clock + 1}, Acquire(t) PROVE Ahead'
  BY <1>9, FramesAssumption DEF Acquire
<1> QED BY <1>1, <1>2, <1>3, <1>4, <1>5, <1>6, <1>7, <1>8, <1>9 DEF Next, ProducerStep, WorkerStep

\* What the program counters and results of the two threads say of each other.
LEMMA CallFacts ==
  ASSUME QP!QueueInv, Threading
  PROVE  /\ pc[Producer] \in PushPc =>
              /\ ret[Producer] = "none" /\ poolIndex > 0
              /\ (prod = "none" /\ main = "first") \/ prod = "pushing"
         /\ pc[Worker] \in PopPc => main = "popping" /\ ret[Worker] = "none"
         /\ count \in 0..Capacity /\ Producer # Worker
<1> USE DEF Threading, PushPc, PopPc, StopPc
<1>1. ASSUME pc[Producer] \in PushPc
      PROVE  ret[Producer] = "none" /\ ((prod = "none" /\ main = "first") \/ prod = "pushing")
  BY <1>1 DEF ProducerCalls, Typed, InPush, PushOver, PushRefused, Stopping, Idle
<1>2. ASSUME pc[Producer] \in PushPc PROVE poolIndex > 0
  BY <1>1, <1>2 DEF ProducerCalls, Ahead
<1>3. ASSUME pc[Worker] \in PopPc PROVE main = "popping" /\ ret[Worker] = "none"
  BY <1>3 DEF WorkerCalls, Stopping, Idle
<1> QED BY <1>1, <1>2, <1>3, QueueTyped

LEMMA InsideCalls ==
  ASSUME QP!QueueInv, Threading, QueueMoves, UNCHANGED <<producing, consuming>>
  PROVE  ProducerCalls' /\ WorkerCalls'
<1> USE QueueTyped, CallFacts DEF Threading, PushPc, PopPc, StopPc, producing, consuming
<1> USE DEF InPush, PushOver, PushRefused, Stopping, Idle
<1>1. CASE Quiet
  <2>1. ProducerCalls'  BY <1>1 DEF Quiet, Onward, ProducerCalls
  <2>2. WorkerCalls'  BY <1>1 DEF Quiet, Onward, WorkerCalls
  <2> QED BY <2>1, <2>2
<1>2. CASE Accepts
  <2>1. ProducerCalls'  BY <1>2 DEF Accepts, ProducerCalls
  <2>2. WorkerCalls'  BY <1>2 DEF Accepts, WorkerCalls
  <2> QED BY <2>1, <2>2
<1>3. CASE Refuses
  <2>1. ProducerCalls'  BY <1>3 DEF Refuses, ProducerCalls
  <2>2. WorkerCalls'  BY <1>3 DEF Refuses, WorkerCalls
  <2> QED BY <2>1, <2>2
<1>4. CASE Serves
  <2>1. ProducerCalls'  BY <1>4 DEF Serves, ProducerCalls
  <2>2. WorkerCalls'  BY <1>4 DEF Serves, WorkerCalls
  <2> QED BY <2>1, <2>2
<1>5. CASE Closes
  <2>1. ProducerCalls'  BY <1>5 DEF Closes, ProducerCalls
  <2>2. WorkerCalls'  BY <1>5 DEF Closes, WorkerCalls
  <2> QED BY <2>1, <2>2
<1> QED BY <1>1, <1>2, <1>3, <1>4, <1>5 DEF QueueMoves

LEMMA ProducerCallsStep ==
  ASSUME QP!QueueInv, QP!QueueInv', Threading, [Next]_vars
  PROVE  ProducerCalls'
<1> USE QueueTyped, Effects
    DEF Threading, Move, producing, consuming, InPush, PushOver, PushRefused, Stopping, Idle
<1>1. CASE SpuriousWake \/ ProducerQueueStep \/ WorkerQueueStep
  BY <1>1, InsideMoves, InsideCalls
<1>2. CASE Cancel \/ Release \/ Stopped \/ UNCHANGED vars
  BY <1>2 DEF Cancel, Release, Stopped, vars, Still, ProducerCalls
<1>3. CASE Setup
  BY <1>3 DEF Setup, Begins, PushPc, ProducerCalls
<1>4. CASE Copy
  BY <1>4 DEF Copy, Begins, PushPc, ProducerCalls
<1>5. CASE Spawn
  BY <1>5 DEF Spawn, Still, ProducerCalls, PushPc
<1>6. CASE CallPop
  BY <1>6 DEF CallPop, PopBegins, ProducerCalls
<1>7. CASE EncodeFails
  <2>1. prod # "none"  BY <1>7 DEF EncodeFails, ProducerCalls
  <2> QED BY <1>7, <2>1 DEF EncodeFails, Stops, ProducerCalls
<1>8. CASE PopFrame \/ PopEnd \/ Encode \/ Join
  BY <1>8 DEF PopFrame, PopEnd, Encode, Join, Still, ProducerCalls
<1>9. CASE AbortVideo \/ FinalizeVideo \/ FinalizeFails
  BY <1>9 DEF AbortVideo, FinalizeVideo, FinalizeFails, Still, ProducerCalls
<1>10. CASE \E r \in {"CANCELLED", "ERROR"} : SetupFails(r)
  BY <1>10 DEF SetupFails, Still, ProducerCalls
<1>11. CASE StopOnCancel
  BY <1>11 DEF StopOnCancel, Stops, StopPc, ProducerCalls
<1>12. CASE ProducerFails
  BY <1>12 DEF ProducerFails, Stops, StopPc, ProducerCalls
<1>13. CASE ProducerThrows
  BY <1>13 DEF ProducerThrows, Stops, StopPc, ProducerCalls
<1>14. CASE Finish
  BY <1>14 DEF Finish, Stops, StopPc, ProducerCalls
<1>15. CASE CancelThrown \/ DropFrame \/ EndLoop
  BY <1>15 DEF CancelThrown, DropFrame, EndLoop, Still, StopPc, ProducerCalls
<1>16. CASE Pushed
  BY <1>16 DEF Pushed, Still, ProducerCalls
<1>17. CASE Leave
  BY <1>17 DEF Leave, Still, StopPc, ProducerCalls
<1>18. ASSUME NEW t \in {clock, clock + 1}, Acquire(t) PROVE ProducerCalls'
  BY <1>18 DEF Acquire, Still, ProducerCalls
<1> QED BY <1>1, <1>2, <1>3, <1>4, <1>5, <1>6, <1>7, <1>8, <1>9, <1>10, <1>11, <1>12, <1>13,
           <1>14, <1>15, <1>16, <1>17, <1>18 DEF Next, ProducerStep, WorkerStep

LEMMA WorkerCallsStep ==
  ASSUME QP!QueueInv, QP!QueueInv', Threading, [Next]_vars
  PROVE  WorkerCalls'
<1> USE QueueTyped, Effects DEF Threading, Move, producing, consuming, Stopping, Idle
<1>1. CASE SpuriousWake \/ ProducerQueueStep \/ WorkerQueueStep
  BY <1>1, InsideMoves, InsideCalls
<1>2. CASE Cancel \/ Release \/ Stopped \/ UNCHANGED vars
  BY <1>2 DEF Cancel, Release, Stopped, vars, Still, WorkerCalls
<1>3. CASE Setup
  BY <1>3 DEF Setup, Begins, WorkerCalls
<1>4. CASE Copy
  BY <1>4 DEF Copy, Begins, WorkerCalls
<1>5. CASE Spawn
  BY <1>5 DEF Spawn, Still, WorkerCalls
<1>6. CASE CallPop
  BY <1>6 DEF CallPop, PopBegins, PopPc, WorkerCalls
<1>7. CASE EncodeFails
  BY <1>7 DEF EncodeFails, Stops, StopPc, WorkerCalls
<1>8. CASE PopFrame \/ Encode
  BY <1>8 DEF PopFrame, Encode, Still, WorkerCalls
<1>9. CASE PopEnd \/ Join
  BY <1>9 DEF PopEnd, Join, Joined, Still, StopPc, PopPc, WorkerCalls
<1>10. CASE AbortVideo \/ FinalizeVideo \/ FinalizeFails
  BY <1>10 DEF AbortVideo, FinalizeVideo, FinalizeFails, Still, WorkerCalls
<1>11. CASE \E r \in {"CANCELLED", "ERROR"} : SetupFails(r)
  BY <1>11 DEF SetupFails, Still, WorkerCalls, ProducerCalls
<1>12. CASE StopOnCancel \/ ProducerFails \/ ProducerThrows \/ Finish
  BY <1>12 DEF StopOnCancel, ProducerFails, ProducerThrows, Finish, Stops, WorkerCalls
<1>13. CASE CancelThrown \/ DropFrame \/ EndLoop \/ Pushed \/ Leave
  BY <1>13 DEF CancelThrown, DropFrame, EndLoop, Pushed, Leave, Still, WorkerCalls
<1>14. ASSUME NEW t \in {clock, clock + 1}, Acquire(t) PROVE WorkerCalls'
  BY <1>14 DEF Acquire, Still, WorkerCalls
<1> QED BY <1>1, <1>2, <1>3, <1>4, <1>5, <1>6, <1>7, <1>8, <1>9, <1>10, <1>11, <1>12, <1>13,
           <1>14 DEF Next, ProducerStep, WorkerStep

-----------------------------------------------------------------------------
(* Counting                                                                  *)

LEMMA LineTyped ==
  ASSUME QP!QueueInv
  PROVE  /\ Line \in Seq(Entries) /\ Len(Line) = count
         /\ pc[Producer] \in PushPc => arg[Producer] \in Entries
<1>1. QP!QueuedSeq  BY QP!QueuedTyped, QueueAssumptions
<1>2. pc[Producer] \in PushPc => arg[Producer] \in Entries
  BY DEF QP!QueueInv, QP!RoleInv, QP!Threads, PushPc
<1> QED BY <1>1, <1>2 DEF QP!QueuedSeq, Line

LEMMA CountsInside ==
  ASSUME QP!QueueInv, QP!QueueInv', Threading, Counts, QueueMoves, UNCHANGED <<producing, consuming>>
  PROVE  Counts'
<1> USE QueueTyped, CallFacts DEF Threading, Typed, PushPc, PopPc, producing, consuming, writing
<1>1. CASE Quiet \/ Closes \/ Refuses
  <2>1. Entered' = Entered  BY <1>1 DEF Quiet, Closes, Refuses, Entered
  <2>2. Popped' = Popped  BY <1>1, <2>1 DEF Quiet, Closes, Refuses, Popped
  <2>3. Held' = Held  BY <1>1 DEF Quiet, Closes, Refuses, Held
  <2>4. HeldFrame' = HeldFrame  BY <1>1 DEF Quiet, Closes, Refuses, HeldFrame
  <2> QED BY <1>1, <2>2, <2>3, <2>4 DEF Quiet, Closes, Refuses, Counts
<1>2. CASE Accepts
  <2>1. Entered' = Entered + 1  BY <1>2 DEF Accepts, Entered
  <2>2. Popped' = Popped  BY <1>2, <2>1 DEF Accepts, Popped, Entered
  <2>3. Held' = Held  BY <1>2 DEF Accepts, Held
  <2>4. HeldFrame' = HeldFrame  BY <1>2 DEF Accepts, HeldFrame
  <2>5. ~(main \in {"join", "check"} /\ ~consumerError)
    BY <1>2 DEF Accepts, WorkerCalls, ProducerCalls
  <2> QED BY <1>2, <2>2, <2>3, <2>4, <2>5 DEF Accepts, Counts
<1>3. CASE Serves
  <2>1. Entered' = Entered  BY <1>3 DEF Serves, Entered
  <2>2. Popped' = Popped + 1  BY <1>3, <2>1 DEF Serves, Popped, Entered
  <2>3. main = "popping" /\ ~Held /\ Held'  BY <1>3 DEF Serves, Held
  <2>4. HeldFrame' \in Entries
    <3>1. Line # <<>>  BY <1>3, LineTyped, EmptySeq DEF Serves
    <3>2. Head(Line) \in Entries  BY <3>1, LineTyped, HeadTailProperties
    <3> QED BY <1>3, <2>3, <3>2 DEF Serves, HeldFrame
  <2> QED BY <1>3, <2>2, <2>3, <2>4 DEF Serves, Counts
<1> QED BY <1>1, <1>2, <1>3 DEF QueueMoves

LEMMA CountsStep ==
  ASSUME QP!QueueInv, QP!QueueInv', Threading, Counts, Verdicts, [Next]_vars
  PROVE  Counts'
<1> USE QueueTyped, Effects, CallFacts
    DEF Threading, Typed, Move, producing, consuming, writing
<1>1. CASE SpuriousWake \/ ProducerQueueStep \/ WorkerQueueStep
  BY <1>1, InsideMoves, CountsInside
<1>2. ASSUME Still \/ (\E t : Stops(t)), UNCHANGED <<poolIndex, encoded>>
      PROVE  Popped' = Popped /\ count' = count /\ ret' = ret /\ out' = out
  BY <1>2 DEF Still, Stops, Popped, Entered
<1>3. CASE Setup \/ Copy
  <2>1. PICK i, t : Begins(i, t)  BY <1>3 DEF Setup, Copy
  <2>2. ret[Producer] = "true" \/ poolIndex = 0
    BY <1>3 DEF Setup, Copy, ProducerCalls
  <2>3. Popped' = Popped  BY <2>1, <2>2 DEF Begins, Popped, Entered
  <2>4. Held' = Held /\ HeldFrame' = HeldFrame
    BY <1>3, <2>1 DEF Setup, Copy, Begins, Held, HeldFrame
  <2> QED BY <1>3, <2>1, <2>3, <2>4 DEF Setup, Copy, Begins, Counts
<1>4. CASE CallPop
  <2>1. Popped' = Popped  BY <1>4 DEF CallPop, PopBegins, Popped, Entered
  <2>2. ~Held'  BY <1>4 DEF CallPop, PopBegins, Held
  <2> QED BY <1>4, <2>1, <2>2 DEF CallPop, PopBegins, Counts
<1>5. CASE PopFrame
  <2>1. Popped' = Popped  BY <1>5, <1>2 DEF PopFrame
  <2>2. Held /\ Held' /\ HeldFrame' = HeldFrame  BY <1>5 DEF PopFrame, Held, HeldFrame
  <2> QED BY <1>5, <2>1, <2>2 DEF PopFrame, Counts
<1>6. CASE PopEnd
  <2>1. Popped' = Popped  BY <1>6, <1>2 DEF PopEnd
  <2>2. ~Held /\ ~Held' /\ count' = 0
    BY <1>6, <1>2 DEF PopEnd, Held, WorkerCalls, PopPc, Idle
  <2> QED BY <1>6, <2>1, <2>2 DEF PopEnd, Counts
<1>7. CASE Encode
  <2>1. Popped' = Popped  BY <1>7 DEF Encode, Still, Popped, Entered
  <2>2. Held /\ ~Held'  BY <1>7 DEF Encode, Held
  <2>3. Len(inFlight') = Len(inFlight) + 1
    BY <1>7, <2>2, AppendProperties DEF Encode, Counts, HeldFrame
  <2>4. Len(inFlight) \in Nat  BY LenProperties
  <2> QED BY <1>7, <2>1, <2>2, <2>3, <2>4, ThrottleAssumption DEF Encode, Counts
<1>8. CASE EncodeFails
  <2>1. Popped' = Popped  BY <1>8, <1>2 DEF EncodeFails
  <2>2. ~Held'  BY <1>8 DEF EncodeFails, Held
  <2> QED BY <1>8, <2>1, <2>2 DEF EncodeFails, Counts
<1>9. CASE Join \/ Spawn \/ \E r \in {"CANCELLED", "ERROR"} : SetupFails(r)
  <2>1. Popped' = Popped /\ count' = count  BY <1>9, <1>2 DEF Join, Spawn, SetupFails
  <2>2. ~Held'  BY <1>9 DEF Join, Spawn, SetupFails, Held
  <2> QED BY <1>9, <2>1, <2>2 DEF Join, Spawn, SetupFails, Counts
<1>10. CASE AbortVideo \/ FinalizeVideo \/ FinalizeFails
  <2>1. Popped' = Popped  BY <1>10, <1>2 DEF AbortVideo, FinalizeVideo, FinalizeFails
  <2>2. ~Held'  BY <1>10 DEF AbortVideo, FinalizeVideo, FinalizeFails, Held
  <2>3. Len(inFlight') = 0  BY <1>10, EmptySeq DEF AbortVideo, FinalizeVideo, FinalizeFails
  <2> QED BY <1>10, <2>1, <2>2, <2>3, ThrottleAssumption
          DEF AbortVideo, FinalizeVideo, FinalizeFails, Counts
<1>11. CASE Release
  <2>1. Popped' = Popped /\ count' = count  BY <1>11, <1>2 DEF Release
  <2>2. Held' = Held /\ HeldFrame' = HeldFrame  BY <1>11 DEF Release, Still, Held, HeldFrame
  <2>3. Len(inFlight') = Len(inFlight) - 1 /\ Len(inFlight) \in Nat
    BY <1>11, HeadTailProperties, LenProperties DEF Release
  <2> QED BY <1>11, <2>1, <2>2, <2>3, ThrottleAssumption DEF Release, Counts
<1>12. ASSUME UNCHANGED <<poolIndex, consuming>>, Still \/ \E t : Stops(t) PROVE Counts'
  <2>1. Popped' = Popped /\ count' = count  BY <1>12, <1>2
  <2>2. Held' = Held /\ HeldFrame' = HeldFrame  BY <1>12, <1>2 DEF Held, HeldFrame
  <2> QED BY <1>12, <2>1, <2>2 DEF Counts
<1>13. CASE Cancel \/ Stopped \/ UNCHANGED vars
  BY <1>13, <1>12 DEF Cancel, Stopped, vars
<1>14. CASE StopOnCancel \/ ProducerFails \/ ProducerThrows \/ Finish
  BY <1>14, <1>12 DEF StopOnCancel, ProducerFails, ProducerThrows, Finish
<1>15. CASE CancelThrown \/ DropFrame \/ EndLoop \/ Pushed \/ Leave
  BY <1>15, <1>12 DEF CancelThrown, DropFrame, EndLoop, Pushed, Leave
<1>16. ASSUME NEW t \in {clock, clock + 1}, Acquire(t) PROVE Counts'
  BY <1>16, <1>12 DEF Acquire
<1> QED BY <1>1, <1>3, <1>4, <1>5, <1>6, <1>7, <1>8, <1>9, <1>10, <1>11, <1>13, <1>14, <1>15,
           <1>16 DEF Next, ProducerStep, WorkerStep

-----------------------------------------------------------------------------
(* Verdicts and lateness                                                     *)

LEMMA VerdictsStep ==
  ASSUME QP!QueueInv, QP!QueueInv', Threading, Counts, Verdicts, [Next]_vars
  PROVE  Verdicts'
<1> USE QueueTyped, Effects, CallFacts
    DEF Threading, Typed, Move, producing, consuming, writing, Verdicts
<1>1. CASE SpuriousWake \/ ProducerQueueStep \/ WorkerQueueStep
  <2>1. QueueMoves /\ UNCHANGED <<producing, consuming, cancelled>>  BY <1>1, InsideMoves
  <2>2. ResultIsHonest'  BY <2>1 DEF ResultIsHonest
  <2>3. stopped' = stopped
    BY <2>1 DEF QueueMoves, Quiet, Accepts, Refuses, Serves, Closes
  <2>4. stopped /\ ~consumerError => ret'[Producer] = ret[Producer]
    BY <2>1 DEF QueueMoves, Quiet, Accepts, Refuses, Serves, Closes, ProducerCalls, PushPc
  <2> QED BY <2>1, <2>2, <2>3, <2>4
<1>2. ASSUME main # "returned", main' # "returned", result' = result PROVE ResultIsHonest'
  BY <1>2 DEF ResultIsHonest
<1>3. CASE Setup \/ Copy
  <2>1. UNCHANGED stopped  BY <1>3 DEF Setup, Copy, Begins
  <2>2. ResultIsHonest'
    BY <1>3, <1>2 DEF Setup, Copy, WorkerCalls
  <2>3. stopped => consumerError  BY <1>3 DEF Setup, Copy, ProducerCalls
  <2> QED BY <1>3, <2>1, <2>2, <2>3 DEF Setup, Copy
<1>4. CASE CallPop
  <2>1. ResultIsHonest'  BY <1>4, <1>2 DEF CallPop
  <2> QED BY <1>4, <2>1 DEF CallPop, PopBegins
<1>5. CASE PopFrame \/ Join
  <2>1. ResultIsHonest'  BY <1>5, <1>2 DEF PopFrame, Join
  <2> QED BY <1>5, <2>1 DEF PopFrame, Join, Still
<1>6. CASE PopEnd
  <2>1. ResultIsHonest'  BY <1>6, <1>2 DEF PopEnd
  <2> QED BY <1>6, <2>1 DEF PopEnd, Still
<1>7. CASE Encode
  <2>1. ResultIsHonest'  BY <1>7, <1>2 DEF Encode
  <2> QED BY <1>7, <2>1 DEF Encode, Still
<1>8. CASE EncodeFails
  <2>1. ResultIsHonest'  BY <1>8, <1>2 DEF EncodeFails
  <2> QED BY <1>8, <2>1 DEF EncodeFails
<1>9. CASE Spawn
  <2>1. ResultIsHonest'  BY <1>9, <1>2 DEF Spawn
  <2> QED BY <1>9, <2>1 DEF Spawn, Still, ProducerCalls
<1>10. CASE \E r \in {"CANCELLED", "ERROR"} : SetupFails(r)
  <2>1. ResultIsHonest'  BY <1>10 DEF SetupFails, ResultIsHonest
  <2> QED BY <1>10, <2>1 DEF SetupFails, Still
<1>11. CASE AbortVideo
  <2>1. ResultIsHonest'  BY <1>11 DEF AbortVideo, Verdict, ResultIsHonest
  <2> QED BY <1>11, <2>1 DEF AbortVideo, Still
<1>12. ASSUME main = "check", Verdict = "SUCCESS"
       PROVE  ~consumerError /\ ~producerError /\ ~cancelled /\ encoded = poolIndex /\ encoded > 0
  <2>1. ~consumerError /\ ~producerError /\ ~cancelled  BY <1>12 DEF Verdict
  <2>2. prod = "exited" /\ stopped /\ poolIndex > 0
    BY <1>12 DEF WorkerCalls, ProducerCalls, Ahead
  <2>3. ret[Producer] = "true"  BY <2>1, <2>2
  <2>4. Popped = poolIndex - count  BY <2>3 DEF Popped, Entered
  <2>5. Popped = encoded /\ count = 0  BY <1>12, <2>1 DEF Counts
  <2> QED BY <2>1, <2>2, <2>4, <2>5
<1>13. CASE FinalizeVideo
  <2>1. ResultIsHonest'  BY <1>13, <1>12 DEF FinalizeVideo, ResultIsHonest
  <2> QED BY <1>13, <2>1 DEF FinalizeVideo, Still
<1>14. CASE FinalizeFails
  <2>1. ResultIsHonest'  BY <1>14, <1>12 DEF FinalizeFails, ResultIsHonest
  <2> QED BY <1>14, <2>1 DEF FinalizeFails, Still
<1>15. CASE Release \/ Stopped \/ UNCHANGED vars
  <2>1. ResultIsHonest'  BY <1>15 DEF Release, Stopped, vars, ResultIsHonest
  <2> QED BY <1>15, <2>1 DEF Release, Stopped, vars, Still
<1>16. CASE Cancel
  <2>1. ResultIsHonest'  BY <1>16 DEF Cancel, ResultIsHonest
  <2> QED BY <1>16, <2>1 DEF Cancel, Still
<1>17. ASSUME UNCHANGED consuming, UNCHANGED cancelled,
              prod \notin {"none", "exited"}
       PROVE  ResultIsHonest' /\ main # "returned"
  BY <1>17 DEF ResultIsHonest, WorkerCalls
<1>18. CASE StopOnCancel \/ ProducerFails \/ ProducerThrows \/ Finish
  <2>1. UNCHANGED <<consuming, cancelled>> /\ prod \notin {"none", "exited"}
        /\ prod' \in {"finish", "leaving"} /\ ret' = ret /\ ret[Producer] = "true"
    BY <1>18 DEF StopOnCancel, ProducerFails, ProducerThrows, Finish, Stops, ProducerCalls
  <2> QED BY <2>1, <1>17
<1>19. CASE CancelThrown \/ DropFrame \/ EndLoop \/ Pushed \/ Leave
  <2>1. UNCHANGED <<consuming, cancelled>> /\ prod \notin {"none", "exited"} /\ Still
    BY <1>19 DEF CancelThrown, DropFrame, EndLoop, Pushed, Leave
  <2>2. prod \in {"finish", "leaving", "exited"} => prod' \in {"finish", "leaving", "exited"}
    BY <1>19 DEF CancelThrown, DropFrame, EndLoop, Pushed, Leave
  <2> QED BY <2>1, <2>2, <1>17 DEF Still
<1>20. ASSUME NEW t \in {clock, clock + 1}, Acquire(t) PROVE Verdicts'
  <2>1. UNCHANGED <<consuming, cancelled>> /\ prod \notin {"none", "exited"} /\ Still
        /\ prod \notin {"finish", "leaving", "exited"}
    BY <1>20 DEF Acquire
  <2> QED BY <2>1, <1>17 DEF Still
<1> QED BY <1>1, <1>3, <1>4, <1>5, <1>6, <1>7, <1>8, <1>9, <1>10, <1>11, <1>13, <1>14, <1>15,
           <1>16, <1>18, <1>19, <1>20 DEF Next, ProducerStep, WorkerStep

PendingFacts ==
  /\ Pending \in 0..(Capacity + 2) /\ count \in Nat /\ Coming \in 0..1
  /\ ~Held => Pending = count + Coming
  /\ Held => Pending = count + 1 + Coming

LEMMA PendingTyped == QP!QueueInv => PendingFacts
<1> SUFFICES ASSUME QP!QueueInv PROVE PendingFacts  OBVIOUS
<1>1. count \in 0..Capacity  BY QueueTyped
<1>2. Coming \in 0..1  BY DEF Coming
<1> QED BY <1>1, <1>2, CapacityAssumption DEF Pending, PendingFacts

\* A step after which no more is pending than before keeps Lateness.
LEMMA LatenessFrom ==
  ASSUME Typed, Lateness, UNCHANGED <<encoded, late, cancelled>>,
         Pending \in Int, Pending' \in Int, Pending' <= Pending
  PROVE  Lateness'
<1>1. late \in Nat /\ encoded \in Nat  BY DEF Typed
<1>2. ASSUME cancelled PROVE late + Pending' <= Capacity + 2
  <2>1. late + Pending <= Capacity + 2  BY <1>2 DEF Lateness
  <2>2. \A a, b, c, d \in Int : c <= b /\ a + b <= d => a + c <= d  OBVIOUS
  <2>3. late \in Int /\ Capacity + 2 \in Int  BY <1>1, CapacityAssumption
  <2> QED BY <2>1, <2>2, <2>3
<1> QED BY <1>1, <1>2 DEF Lateness

LEMMA LatenessStep ==
  ASSUME QP!QueueInv, QP!QueueInv', Threading, Counts, Lateness, [Next]_vars
  PROVE  Lateness'
<1> USE QueueTyped, Effects, CallFacts, CapacityAssumption
    DEF Threading, Typed, Move, producing, consuming, writing
<1>1. PendingFacts /\ PendingFacts'  BY PendingTyped, PTL
<1>2. Pending \in Int /\ Pending' \in Int  BY <1>1 DEF PendingFacts
<1>3. ASSUME UNCHANGED <<encoded, late, cancelled>>, Held' <=> Held, count' + Coming' <= count + Coming
      PROVE  Lateness'
  <2>1. Pending' <= Pending  BY <1>1, <1>3 DEF PendingFacts
  <2> QED BY <1>2, <1>3, <2>1, LatenessFrom
<1>4. CASE SpuriousWake \/ ProducerQueueStep \/ WorkerQueueStep
  <2>1. QueueMoves /\ UNCHANGED <<producing, consuming, cancelled>>  BY <1>4, InsideMoves
  <2>2. CASE Quiet \/ Closes \/ Refuses
    <3>1. Held' = Held /\ count' = count  BY <2>1, <2>2 DEF Quiet, Closes, Refuses, Held, PopPc
    <3>2. Coming' <= Coming
      BY <2>1, <2>2 DEF Quiet, Closes, Refuses, Onward, PushPc, PopPc, StopPc, Coming
    <3>3. count' + Coming' <= count + Coming  BY <3>1, <3>2, <1>1 DEF PendingFacts
    <3> QED BY <2>1, <3>1, <3>3, <1>3
  <2>3. CASE Accepts
    <3>1. Held' = Held /\ count' = count + 1  BY <2>1, <2>3 DEF Accepts, Held
    <3>2. Coming = 1 /\ Coming' = 0
      BY <2>1, <2>3 DEF Accepts, PushPc, Coming
    <3>3. count' + Coming' <= count + Coming  BY <3>1, <3>2, <1>1 DEF PendingFacts
    <3> QED BY <2>1, <3>1, <3>3, <1>3
  <2>4. CASE Serves
    <3>1. ~Held /\ Held' /\ count' = count - 1  BY <2>1, <2>4 DEF Serves, Held, PopPc
    <3>2. Coming' = Coming  BY <2>1, <2>4 DEF Serves, Coming
    <3>3. Pending' <= Pending  BY <3>1, <3>2, <1>1 DEF PendingFacts
    <3> QED BY <2>1, <1>2, <3>3, LatenessFrom
  <2> QED BY <2>1, <2>2, <2>3, <2>4 DEF QueueMoves
<1>5. CASE Setup
  <2>1. encoded = 0 /\ count = 0 /\ count' = 0
    BY <1>5 DEF Setup, Begins, ProducerCalls, Counts, Popped, Entered
  <2>2. ~Held' /\ UNCHANGED <<encoded, late, cancelled>>  BY <1>5 DEF Setup, Held
  <2>3. Pending' <= 1  BY <2>1, <2>2, <1>1 DEF PendingFacts
  <2> QED BY <2>1, <2>2, <2>3, <1>2 DEF Lateness
<1>6. CASE Copy
  <2>1. Held' = Held /\ count' = count /\ UNCHANGED <<encoded, late, cancelled>>
    BY <1>6 DEF Copy, Begins, Held
  <2>2. Coming = 1  BY <1>6 DEF Copy, Coming
  <2>3. count' + Coming' <= count + Coming  BY <2>1, <2>2, <1>1 DEF PendingFacts
  <2> QED BY <2>1, <2>3, <1>3
<1>7. CASE CallPop \/ PopEnd \/ PopFrame
  <2>1. Held' = Held /\ count' = count /\ UNCHANGED <<encoded, late, cancelled>>
    BY <1>7 DEF CallPop, PopEnd, PopFrame, PopBegins, Still, Held
  <2>2. Coming' = Coming
    BY <1>7 DEF CallPop, PopEnd, PopFrame, PopBegins, Still, Coming
  <2> QED BY <2>1, <2>2, <1>1, <1>3 DEF PendingFacts
<1>8. CASE Encode
  <2>1. Held /\ ~Held' /\ count' = count /\ UNCHANGED cancelled /\ encoded' = encoded + 1
        /\ late' = IF cancelled THEN late + 1 ELSE late
    BY <1>8 DEF Encode, Still, Held
  <2>2. Coming' = Coming  BY <1>8 DEF Encode, Still, Coming
  <2>3. Pending' = Pending - 1  BY <2>1, <2>2, <1>1 DEF PendingFacts
  <2> QED BY <2>1, <2>3, <1>2 DEF Lateness
<1>9. CASE EncodeFails
  <2>1. Held /\ ~Held' /\ count' = count /\ UNCHANGED <<encoded, late, cancelled>>
    BY <1>9 DEF EncodeFails, Stops, Held
  <2>2. Coming' = Coming  BY <1>9 DEF EncodeFails, Stops, Coming
  <2>3. Pending' <= Pending  BY <2>1, <2>2, <1>1 DEF PendingFacts
  <2> QED BY <1>2, <2>1, <2>3, LatenessFrom
<1>10. ASSUME Still, ~Held, ~Held', UNCHANGED <<encoded, late, cancelled, prod>> PROVE Lateness'
  <2>1. Coming' = Coming /\ count' = count  BY <1>10 DEF Still, Coming
  <2> QED BY <1>10, <2>1, <1>1, <1>3 DEF PendingFacts
<1>11. CASE \/ Join \/ Spawn \/ AbortVideo \/ FinalizeVideo \/ FinalizeFails
            \/ \E r \in {"CANCELLED", "ERROR"} : SetupFails(r)
  <2>1. CASE Spawn
    <3>1. Held' = Held /\ count' = count /\ UNCHANGED <<encoded, late, cancelled>>
      BY <2>1 DEF Spawn, Still, Held
    <3>2. Coming' <= Coming  BY <2>1 DEF Spawn, Still, Coming
    <3>3. count' + Coming' <= count + Coming  BY <3>1, <3>2, <1>1 DEF PendingFacts
    <3> QED BY <3>1, <3>3, <1>3
  <2>2. CASE Join \/ AbortVideo \/ FinalizeVideo \/ FinalizeFails
    BY <2>2, <1>10 DEF Join, AbortVideo, FinalizeVideo, FinalizeFails, Held
  <2>3. CASE \E r \in {"CANCELLED", "ERROR"} : SetupFails(r)
    BY <2>3, <1>10 DEF SetupFails, Held
  <2> QED BY <1>11, <2>1, <2>2, <2>3
<1>12. ASSUME Still \/ (\E t \in {Producer, Worker} : Stops(t)), prod' # "copy",
              UNCHANGED <<main, encoded, late, cancelled>>
       PROVE  Lateness'
  <2>1. Held' = Held /\ count' = count  BY <1>12 DEF Still, Stops, Held
  <2>2. Coming' <= Coming  BY <1>12 DEF Still, Stops, Coming, PushPc
  <2>3. count' + Coming' <= count + Coming  BY <2>1, <2>2, <1>1 DEF PendingFacts
  <2> QED BY <1>12, <2>1, <2>3, <1>3
<1>13. CASE StopOnCancel \/ ProducerFails \/ ProducerThrows \/ Finish
  BY <1>13, <1>12 DEF StopOnCancel, ProducerFails, ProducerThrows, Finish
<1>14. CASE CancelThrown \/ DropFrame \/ EndLoop \/ Pushed \/ Leave
  BY <1>14, <1>12 DEF CancelThrown, DropFrame, EndLoop, Pushed, Leave
<1>15. ASSUME NEW t \in {clock, clock + 1}, Acquire(t) PROVE Lateness'
  BY <1>15 DEF Acquire, CancelSeen, Lateness
<1>16. CASE Release \/ Stopped \/ UNCHANGED vars
  <2>1. Held' = Held /\ count' = count /\ UNCHANGED <<encoded, late, cancelled>>
    BY <1>16 DEF Release, Stopped, vars, Still, Held
  <2>2. Coming' = Coming  BY <1>16 DEF Release, Stopped, vars, Still, Coming
  <2> QED BY <2>1, <2>2, <1>1, <1>3 DEF PendingFacts
<1>17. CASE Cancel
  <2>1. late' = 0 /\ encoded' = encoded  BY <1>17 DEF Cancel, Lateness
  <2> QED BY <2>1, <1>1, <1>17 DEF PendingFacts, Lateness, Cancel
<1> QED BY <1>4, <1>5, <1>6, <1>7, <1>8, <1>9, <1>11, <1>13, <1>14, <1>15, <1>16, <1>17
        DEF Next, ProducerStep, WorkerStep

-----------------------------------------------------------------------------
(* The copies in existence                                                   *)

NthFacts ==
  \A n, e : Nth(n, e) => n \in Nat /\ n < poolIndex /\ encoded <= n + MaxInFlight /\ e \in Entries

LEMMA NthRange == QP!QueueInv /\ Threading /\ Counts => NthFacts
<1> SUFFICES ASSUME QP!QueueInv, Threading, Counts, NEW n, NEW e, Nth(n, e)
             PROVE  n \in Nat /\ n < poolIndex /\ encoded <= n + MaxInFlight /\ e \in Entries
  BY DEF NthFacts
<1>1. /\ encoded \in Nat /\ count \in Nat /\ poolIndex \in Nat /\ MaxInFlight \in Nat
      /\ Entered \in Int /\ Entered <= poolIndex /\ Popped = Entered - count
      /\ encoded <= Popped /\ Popped <= encoded + 1
      /\ inFlight \in Seq(Entries)
  <2>1. encoded \in Nat /\ poolIndex \in Nat /\ inFlight \in Seq(Entries)
    BY FramesAssumption DEF Threading, Typed
  <2>2. Entered \in Int /\ Entered <= poolIndex  BY <2>1 DEF Entered
  <2>3. count \in Nat  BY QueueTyped, CapacityAssumption
  <2>4. MaxInFlight \in Nat  BY ThrottleAssumption
  <2>5. encoded <= Popped /\ Popped <= encoded + 1  BY <2>1 DEF Counts
  <2> QED BY <2>1, <2>2, <2>3, <2>4, <2>5 DEF Popped
<1>2. CASE Held /\ n = encoded /\ e = HeldFrame
  BY <1>1, <1>2 DEF Counts
<1>3. CASE \E i \in 1..count : n = Popped + i - 1 /\ e = Line[i]
  <2>1. PICK i \in 1..count : n = Popped + i - 1 /\ e = Line[i]  BY <1>3
  <2>2. e \in Entries  BY <2>1, LineTyped, ElementOfSeq
  <2> QED BY <1>1, <2>1, <2>2
<1>4. CASE pc[Producer] \in PushPc /\ n = poolIndex - 1 /\ e = arg[Producer]
  <2>1. poolIndex > 0 /\ ret[Producer] = "none"  BY <1>4, CallFacts
  <2>2. Entered = poolIndex - 1  BY <2>1 DEF Entered
  <2> QED BY <1>1, <1>4, <2>1, <2>2, LineTyped
<1>5. CASE \E i \in 1..Len(inFlight) : n = encoded - Len(inFlight) + i - 1 /\ e = inFlight[i]
  <2>1. PICK i \in 1..Len(inFlight) : n = encoded - Len(inFlight) + i - 1 /\ e = inFlight[i]
    BY <1>5
  <2>2. e \in Entries  BY <1>1, <2>1, ElementOfSeq
  <2>3. Len(inFlight) \in Nat /\ Len(inFlight) <= encoded /\ Len(inFlight) <= MaxInFlight
    BY <1>1, LenProperties DEF Counts
  <2> QED BY <1>1, <2>1, <2>2, <2>3
<1> QED BY <1>2, <1>3, <1>4, <1>5 DEF Nth

\* Copy n has just been made, and its frame e is about to be pushed.
Fresh(n, e) ==
  /\ n = poolIndex /\ poolIndex' = n + 1
  /\ pool' = [pool EXCEPT ![PoolSlot(n)] = e.index] /\ e.slot = PoolSlot(n)
  /\ (Setup /\ e.index = 0 /\ e.time = 0) \/ (Copy /\ e.index = f /\ e.time = clock)

LEMMA NthInside ==
  ASSUME QP!QueueInv, QP!QueueInv', Threading, Counts, QueueMoves, UNCHANGED <<producing, consuming>>,
         NEW n, NEW e, Nth(n, e)'
  PROVE  Nth(n, e)
<1> USE QueueTyped, CallFacts DEF producing, consuming, writing
<1>1. CASE Quiet \/ Closes \/ Refuses
  <2>1. Entered' = Entered  BY <1>1 DEF Quiet, Closes, Refuses, Entered, PushPc
  <2>2. Popped' = Popped /\ count' = count /\ Line' = Line /\ arg' = arg
    BY <1>1, <2>1 DEF Quiet, Closes, Refuses, Popped
  <2>3. Held' <=> Held  BY <1>1 DEF Quiet, Closes, Refuses, Held, PopPc
  <2>4. HeldFrame' = HeldFrame  BY <1>1 DEF Quiet, Closes, Refuses, HeldFrame
  <2>5. pc'[Producer] \in PushPc => pc[Producer] \in PushPc
    BY <1>1 DEF Quiet, Closes, Refuses, Onward, PushPc, PopPc, StopPc
  <2> QED BY <2>2, <2>3, <2>4, <2>5 DEF Nth
<1>2. CASE Accepts
  <2>1. Entered' = Entered + 1 /\ Entered = poolIndex - 1
    BY <1>2 DEF Accepts, Entered, PushPc, Threading, Typed
  <2>2. Popped' = Popped /\ Popped + count = poolIndex - 1
    <3>1. poolIndex \in Nat /\ count \in Nat
      BY FramesAssumption, CapacityAssumption DEF Threading, Typed
    <3>2. count' = count + 1  BY <1>2 DEF Accepts
    <3> QED BY <2>1, <3>1, <3>2 DEF Popped
  <2>3. Held' <=> Held  BY <1>2 DEF Accepts, Held
  <2>4. HeldFrame' = HeldFrame  BY <1>2 DEF Accepts, HeldFrame
  <2>5. pc[Producer] \in PushPc /\ pc'[Producer] \notin PushPc  BY <1>2 DEF Accepts, PushPc
  <2>6. ASSUME NEW i \in 1..count', n = Popped' + i - 1, e = Line'[i]
        PROVE  Nth(n, e)
    <3>1. /\ Line' = Append(Line, arg[Producer]) /\ count' = count + 1 /\ count \in Nat
          /\ Len(Line) = count
          /\ \A j \in 1..count : Line'[j] = Line[j]
          /\ Line'[count + 1] = arg[Producer]
      BY <1>2, <2>5, LineTyped, AppendProperties, CapacityAssumption DEF Accepts
    <3>2. CASE i \in 1..count
      BY <2>2, <2>6, <3>1, <3>2 DEF Nth
    <3>3. CASE i = count + 1
      <4>1. n = poolIndex - 1 /\ e = arg[Producer]
        BY <2>2, <2>6, <3>1, <3>3, FramesAssumption DEF Threading, Typed
      <4> QED BY <4>1, <2>5 DEF Nth
    <3> QED BY <3>1, <3>2, <3>3
  <2> QED BY <2>3, <2>4, <2>5, <2>6 DEF Nth
<1>3. CASE Serves
  <2>1. Entered' = Entered  BY <1>3 DEF Serves, Entered
  <2>2. main = "popping" /\ ~Held /\ Held' /\ HeldFrame' = Head(Line) /\ HeldFrame' = Line[1]
    BY <1>3 DEF Serves, Held, PopPc, HeldFrame
  <2>3. Popped = encoded /\ Popped' = Popped + 1 /\ encoded \in Nat /\ count \in Nat
    BY <1>3, <2>1, <2>2, CapacityAssumption DEF Serves, Popped, Entered, Counts, Threading, Typed
  <2>4. pc'[Producer] = pc[Producer] /\ UNCHANGED <<arg, poolIndex, encoded, inFlight>>
    BY <1>3 DEF Serves
  <2>5. ASSUME NEW i \in 1..count', n = Popped' + i - 1, e = Line'[i]
        PROVE  Nth(n, e)
    <3>1. Line # <<>>  BY <1>3, LineTyped, EmptySeq DEF Serves
    <3>2. count' = count - 1 /\ Line'[i] = Line[i + 1]
      BY <1>3, <2>5, <3>1, LineTyped, HeadTailProperties DEF Serves
    <3>3. i + 1 \in 1..count /\ n = Popped + (i + 1) - 1  BY <2>3, <2>5, <3>2
    <3> QED BY <2>5, <3>2, <3>3 DEF Nth
  <2>6. ASSUME n = encoded, e = Line[1] PROVE Nth(n, e)
    <3>1. 1 \in 1..count /\ n = Popped + 1 - 1  BY <1>3, <2>3, <2>6 DEF Serves
    <3> QED BY <2>6, <3>1 DEF Nth
  <2> QED BY <2>2, <2>4, <2>5, <2>6 DEF Nth
<1> QED BY <1>1, <1>2, <1>3 DEF QueueMoves

\* The copies after a step existed before, but for one that Setup or Copy makes.
LEMMA NthStep ==
  ASSUME QP!QueueInv, QP!QueueInv', Threading, Counts, [Next]_vars, NEW n, NEW e, Nth(n, e)'
  PROVE  Nth(n, e) \/ Fresh(n, e)
<1> USE QueueTyped, Effects, CallFacts DEF Move, producing, consuming, writing
<1>1. CASE SpuriousWake \/ ProducerQueueStep \/ WorkerQueueStep
  BY <1>1, InsideMoves, NthInside
<1>2. ASSUME UNCHANGED <<count, Line, arg, poolIndex, encoded, inFlight>>, Popped' = Popped,
             Held' => Held /\ HeldFrame' = HeldFrame,
             pc'[Producer] \in PushPc => pc[Producer] \in PushPc
      PROVE  Nth(n, e)
  BY <1>2 DEF Nth
<1>3. ASSUME Still \/ (\E t \in {Producer, Worker} : Stops(t)), UNCHANGED poolIndex
      PROVE  /\ UNCHANGED <<count, Line, arg, ret, out>> /\ Popped' = Popped
             /\ pc'[Producer] \in PushPc => pc[Producer] \in PushPc
  BY <1>3 DEF Still, Stops, Popped, Entered, PushPc
<1>4. ASSUME Still \/ (\E t \in {Producer, Worker} : Stops(t)),
             UNCHANGED <<poolIndex, encoded, inFlight>>,
             Held' => Held /\ HeldFrame' = HeldFrame
      PROVE  Nth(n, e)
  BY <1>2, <1>3, <1>4
<1>5. CASE Setup \/ Copy
  <2>1. PICK i, t : CopyAndPush(i, t) /\ ((Setup /\ i = 0 /\ t = 0) \/ (Copy /\ i = f /\ t = clock))
    BY <1>5 DEF Setup, Copy
  <2>2. Begins(i, t)  BY <2>1
  <2>3. ret[Producer] = "true" \/ poolIndex = 0  BY <1>5 DEF Setup, Copy, Threading, ProducerCalls
  <2>4. Popped' = Popped  BY <2>2, <2>3 DEF Begins, Popped, Entered, Threading, Typed
  <2>5. /\ Held' => Held /\ HeldFrame' = HeldFrame
        /\ UNCHANGED <<count, Line, encoded, inFlight>>
    BY <1>5, <2>2 DEF Setup, Copy, Begins, Held, HeldFrame
  <2>6. ASSUME n = poolIndex' - 1, e = arg'[Producer] PROVE Fresh(n, e)
    <3>1. n = poolIndex /\ poolIndex' = n + 1
      BY <2>2, <2>6, FramesAssumption DEF Begins, Threading, Typed
    <3>2. e = [slot |-> PoolSlot(n), index |-> i, time |-> t]
      BY <2>2, <2>6, <3>1 DEF Begins, Entry
    <3>3. e.slot = PoolSlot(n) /\ e.index = i /\ e.time = t  BY <3>2
    <3> QED BY <2>1, <2>2, <3>1, <3>3 DEF Begins, Fresh
  <2> QED BY <2>4, <2>5, <2>6 DEF Nth
<1>6. CASE CallPop
  <2>1. Popped' = Popped  BY <1>6 DEF CallPop, PopBegins, Popped, Entered
  <2>2. ~Held' /\ pc'[Producer] = pc[Producer]  BY <1>6 DEF CallPop, PopBegins, Held
  <2> QED BY <1>2, <1>6, <2>1, <2>2 DEF CallPop, PopBegins
<1>7. CASE PopFrame
  <2>1. Held' => Held /\ HeldFrame' = HeldFrame  BY <1>7 DEF PopFrame, Held, HeldFrame
  <2> QED BY <1>4, <1>7, <2>1 DEF PopFrame
<1>8. CASE PopEnd \/ EncodeFails \/ Join \/ Spawn \/ \E r \in {"CANCELLED", "ERROR"} : SetupFails(r)
  <2>1. ~Held'  BY <1>8 DEF PopEnd, EncodeFails, Join, Spawn, SetupFails, Held
  <2>2. UNCHANGED <<poolIndex, encoded, inFlight>> /\ (Still \/ \E t \in {Producer, Worker} : Stops(t))
    BY <1>8 DEF PopEnd, EncodeFails, Join, Spawn, SetupFails
  <2> QED BY <1>4, <2>1, <2>2
<1>9. CASE Encode
  <2>1. UNCHANGED <<count, Line, arg>> /\ Popped' = Popped
        /\ (pc'[Producer] \in PushPc => pc[Producer] \in PushPc)
    BY <1>3, <1>9 DEF Encode
  <2>2. Held /\ HeldFrame = frame /\ frame \in Entries /\ ~Held' /\ UNCHANGED poolIndex
    BY <1>9 DEF Encode, Held, HeldFrame, Counts
  <2>3. encoded' = encoded + 1 /\ encoded \in Nat /\ inFlight \in Seq(Entries)
    BY <1>9 DEF Encode, Threading, Typed
  <2>4. /\ Len(inFlight') = Len(inFlight) + 1 /\ Len(inFlight) \in Nat
        /\ \A i \in 1..Len(inFlight) : inFlight'[i] = inFlight[i]
        /\ inFlight'[Len(inFlight) + 1] = frame
    BY <1>9, <2>2, <2>3, AppendProperties, LenProperties DEF Encode
  <2>5. ASSUME NEW i \in 1..Len(inFlight'), n = encoded' - Len(inFlight') + i - 1, e = inFlight'[i]
        PROVE  Nth(n, e)
    <3>1. n = encoded - Len(inFlight) + i - 1  BY <2>3, <2>4, <2>5
    <3>2. CASE i \in 1..Len(inFlight)
      BY <2>4, <2>5, <3>1, <3>2 DEF Nth
    <3>3. CASE i = Len(inFlight) + 1
      <4>1. n = encoded /\ e = frame  BY <2>3, <2>4, <2>5, <3>1, <3>3
      <4> QED BY <2>2, <4>1 DEF Nth
    <3> QED BY <2>4, <3>2, <3>3
  <2> QED BY <2>1, <2>2, <2>5 DEF Nth
<1>10. CASE Release
  <2>1. UNCHANGED <<count, Line, arg, poolIndex, encoded>> /\ Popped' = Popped
        /\ (pc'[Producer] \in PushPc => pc[Producer] \in PushPc)
    BY <1>3, <1>10 DEF Release
  <2>2. Held' => Held /\ HeldFrame' = HeldFrame  BY <1>10 DEF Release, Still, Held, HeldFrame
  <2>3. /\ Len(inFlight') = Len(inFlight) - 1 /\ Len(inFlight) \in Nat
        /\ \A i \in 1..Len(inFlight') : inFlight'[i] = inFlight[i + 1]
    BY <1>10, HeadTailProperties, LenProperties DEF Release, Threading, Typed
  <2>4. ASSUME NEW i \in 1..Len(inFlight'), n = encoded' - Len(inFlight') + i - 1, e = inFlight'[i]
        PROVE  Nth(n, e)
    <3>1. i + 1 \in 1..Len(inFlight) /\ e = inFlight[i + 1]  BY <2>3, <2>4
    <3>2. encoded \in Nat  BY DEF Threading, Typed
    <3>3. n = encoded - Len(inFlight) + (i + 1) - 1  BY <2>1, <2>3, <2>4, <3>2
    <3> QED BY <3>1, <3>3 DEF Nth
  <2> QED BY <2>1, <2>2, <2>4 DEF Nth
<1>11. CASE AbortVideo \/ FinalizeVideo \/ FinalizeFails
  <2>1. UNCHANGED <<count, Line, arg, poolIndex, encoded>> /\ Popped' = Popped
        /\ (pc'[Producer] \in PushPc => pc[Producer] \in PushPc)
    BY <1>3, <1>11 DEF AbortVideo, FinalizeVideo, FinalizeFails
  <2>2. ~Held' /\ inFlight' = <<>>
    BY <1>11 DEF AbortVideo, FinalizeVideo, FinalizeFails, Held
  <2>3. ~\E i \in 1..Len(inFlight') : TRUE  BY <2>2, EmptySeq
  <2> QED BY <2>1, <2>2, <2>3 DEF Nth
<1>12. ASSUME Still \/ (\E t \in {Producer, Worker} : Stops(t)), UNCHANGED <<poolIndex, consuming>>
       PROVE  Nth(n, e)
  <2>1. Held' => Held /\ HeldFrame' = HeldFrame  BY <1>3, <1>12 DEF Held, HeldFrame
  <2> QED BY <1>4, <1>12, <2>1
<1>13. CASE Cancel \/ Stopped \/ UNCHANGED vars
  BY <1>13, <1>12 DEF Cancel, Stopped, vars
<1>14. CASE StopOnCancel \/ ProducerFails \/ ProducerThrows \/ Finish
  BY <1>14, <1>12 DEF StopOnCancel, ProducerFails, ProducerThrows, Finish
<1>15. CASE CancelThrown \/ DropFrame \/ EndLoop \/ Pushed \/ Leave
  BY <1>15, <1>12 DEF CancelThrown, DropFrame, EndLoop, Pushed, Leave
<1>16. ASSUME NEW t \in {clock, clock + 1}, Acquire(t) PROVE Nth(n, e)
  BY <1>16, <1>12 DEF Acquire
<1> QED BY <1>1, <1>5, <1>6, <1>7, <1>8, <1>9, <1>10, <1>11, <1>13, <1>14, <1>15, <1>16
        DEF Next, ProducerStep, WorkerStep

-----------------------------------------------------------------------------
(* The order of the frames                                                   *)

\* Where an action leaves the producer with its next frame.
LEMMA NextFrameStep ==
  ASSUME QP!QueueInv, QP!QueueInv', Threading, [Next]_vars
  PROVE  /\ f \in Nat /\ f' \in Nat /\ clock \in Nat /\ clock' \in Nat
         /\ f <= f' /\ clock <= clock'
         /\ prod' \in {"none", "loop", "copy"} => prod \in {"none", "loop", "copy"} \/ f < f'
<1> USE FramesAssumption DEF Threading, Typed, Move, producing, consuming
<1>1. CASE \/ SpuriousWake \/ ProducerQueueStep \/ WorkerQueueStep \/ Cancel \/ Release \/ Stopped
           \/ UNCHANGED vars
  BY <1>1 DEF SpuriousWake, ProducerQueueStep, WorkerQueueStep, Cancel, Release, Stopped, vars
<1>2. CASE Setup \/ Copy \/ Spawn
  BY <1>2 DEF Setup, Copy, Spawn, ProducerCalls
<1>3. CASE \/ PopFrame \/ PopEnd \/ CallPop \/ Encode \/ EncodeFails \/ Join \/ AbortVideo
           \/ FinalizeVideo \/ FinalizeFails \/ \E r \in {"CANCELLED", "ERROR"} : SetupFails(r)
  BY <1>3 DEF PopFrame, PopEnd, CallPop, Encode, EncodeFails, Join, AbortVideo, FinalizeVideo,
              FinalizeFails, SetupFails
<1>4. CASE StopOnCancel \/ CancelThrown \/ ProducerFails \/ ProducerThrows \/ Leave \/ EndLoop
            \/ Finish
  BY <1>4 DEF StopOnCancel, CancelThrown, ProducerFails, ProducerThrows, Leave, EndLoop, Finish
<1>5. CASE DropFrame \/ Pushed
  BY <1>5 DEF DropFrame, Pushed, NextFrame
<1>6. ASSUME NEW t \in {clock, clock + 1}, Acquire(t)
      PROVE  /\ f \in Nat /\ f' = f /\ clock \in Nat /\ clock' \in Nat /\ clock <= clock'
             /\ prod \in {"none", "loop", "copy"}
  BY <1>6 DEF Acquire
<1> QED BY <1>1, <1>2, <1>3, <1>4, <1>5, <1>6 DEF Next, ProducerStep, WorkerStep

\* A fresh copy comes after all the others and goes out with the producer's next frame.
LEMMA FreshLast ==
  ASSUME QP!QueueInv, Threading, Counts, NEW n, NEW e, Fresh(n, e)
  PROVE  /\ \A m, d : Nth(m, d) => m < n
         /\ e.time <= clock /\ f' = f /\ clock' = clock /\ UNCHANGED <<last, encoded>>
         /\ \/ prod = "copy" /\ prod' = "pushing" /\ e.index = f
            \/ prod = "none" /\ prod' = "none" /\ e.index < f /\ \A m, d : ~Nth(m, d)
         /\ n = poolIndex
         /\ prod = "none" => encoded = 0
<1> USE DEF Threading, Typed, Move, producing, consuming, writing
<1>1. NthFacts  BY NthRange
<1>2. \A m, d : Nth(m, d) => m < n  BY <1>1 DEF NthFacts, Fresh
<1>3. CASE Setup /\ e.index = 0 /\ e.time = 0
  <2>1. prod = "none" /\ poolIndex = 0 /\ f = 1 /\ count = 0 /\ ret[Producer] = "none"
    BY <1>3 DEF Setup, ProducerCalls, Ahead
  <2>2. encoded = 0  BY <1>3, <2>1 DEF Setup, Counts, Popped, Entered
  <2>3. \A m, d : ~Nth(m, d)  BY <1>1, <2>1 DEF NthFacts
  <2> QED BY <1>2, <1>3, <2>1, <2>2, <2>3, FramesAssumption DEF Setup, Fresh
<1>4. CASE Copy /\ e.index = f /\ e.time = clock
  BY <1>2, <1>4, FramesAssumption DEF Copy, Fresh
<1> QED BY <1>3, <1>4 DEF Fresh

LEMMA OrderStep ==
  ASSUME QP!QueueInv, QP!QueueInv', Threading, Threading', Counts, Counts', Order, [Next]_vars
  PROVE  Order'
<1>1. NthFacts /\ NthFacts'  BY NthRange, PTL
<1>2. ASSUME NEW m, NEW n, NEW d, NEW e, Nth(m, d)', Nth(n, e)', m < n
      PROVE  d.index < e.index
  <2>1. (Nth(m, d) \/ Fresh(m, d)) /\ (Nth(n, e) \/ Fresh(n, e))  BY <1>2, NthStep
  <2>2. CASE Nth(m, d) /\ Nth(n, e)
    BY <1>2, <2>2 DEF Order
  <2>3. CASE Nth(m, d) /\ Fresh(n, e)
    <3>1. d.index <= f /\ (prod \in {"none", "loop", "copy"} => d.index < f)
      BY <2>3 DEF Order
    <3> QED BY <2>3, <3>1, FreshLast
  <2>4. CASE Fresh(m, d)
    <3>1. n < m \/ n = m  BY <2>1, <2>4, FreshLast
    <3>2. n \in Nat /\ m \in Nat  BY <1>1, <1>2 DEF NthFacts
    <3> QED BY <1>2, <3>1, <3>2
  <2> QED BY <2>1, <2>2, <2>3, <2>4
<1>3. ASSUME NEW n, NEW e, Nth(n, e)'
      PROVE  /\ e.index <= f' /\ e.time <= clock'
             /\ prod' \in {"none", "loop", "copy"} => e.index < f'
  <2>1. e \in Entries  BY <1>1, <1>3 DEF NthFacts
  <2>2. e.index \in Nat /\ e.time \in Nat  BY <2>1, FramesAssumption DEF Entries
  <2>3. CASE Nth(n, e)
    <3>1. e.index <= f /\ e.time <= clock /\ (prod \in {"none", "loop", "copy"} => e.index < f)
      BY <2>3 DEF Order
    <3> QED BY <2>2, <3>1, NextFrameStep
  <2>4. CASE Fresh(n, e)
    BY <2>2, <2>4, FreshLast, NextFrameStep
  <2> QED BY <1>3, <2>3, <2>4, NthStep
<1> QED BY <1>2, <1>3 DEF Order

LEMMA LastsStep ==
  ASSUME QP!QueueInv, QP!QueueInv', Threading, Threading', Counts, Counts', Order, Lasts, [Next]_vars
  PROVE  Lasts'
<1> USE DEF Lasts
<1>1. NthFacts /\ NthFacts'  BY NthRange, PTL
<1>2. ASSUME UNCHANGED <<last, encoded>> PROVE Lasts'
  <2>1. ASSUME last # NoFrame
        PROVE  /\ last \in Entries /\ last.time < clock' + encoded /\ last.index <= f'
               /\ prod' \in {"none", "loop", "copy"} => last.index < f'
    <3>1. last.index \in Nat /\ last.time \in Nat /\ encoded \in Nat
      BY <2>1, FramesAssumption DEF Entries, Threading, Typed
    <3>2. f \in Nat /\ f' \in Nat /\ clock \in Nat /\ clock' \in Nat /\ f <= f' /\ clock <= clock'
      BY NextFrameStep
    <3>3. last.time < clock' + encoded  BY <2>1, <3>1, <3>2
    <3> QED BY <2>1, <3>1, <3>2, <3>3, NextFrameStep
  <2>2. ASSUME last # NoFrame, NEW n, NEW e, Nth(n, e)', n >= encoded PROVE last.index < e.index
    <3>1. CASE Nth(n, e)
      BY <2>2, <3>1
    <3>2. CASE Fresh(n, e)
      BY <2>2, <3>2, FreshLast
    <3> QED BY <2>2, <3>1, <3>2, NthStep
  <2> QED BY <1>2, <2>1, <2>2
<1>3. CASE Encode
  <2>1. /\ last' = [frame EXCEPT !.time = SampleTime(frame.time)] /\ encoded' = encoded + 1
        /\ UNCHANGED <<f, clock, prod, poolIndex, pool>>
        /\ Held /\ HeldFrame = frame /\ frame \in Entries
    BY <1>3 DEF Encode, Move, producing, Held, HeldFrame, Counts
  <2>2. Nth(encoded, frame)  BY <2>1 DEF Nth
  <2>3. /\ frame.index <= f /\ frame.time <= clock
        /\ prod \in {"none", "loop", "copy"} => frame.index < f
    BY <2>2 DEF Order
  <2>4. /\ frame.slot \in Slots /\ frame.index \in 0..(TotalFrames - 1) /\ frame.time \in Nat
        /\ encoded \in Nat /\ encoded < poolIndex /\ poolIndex <= TotalFrames
        /\ clock \in 0..TotalFrames
    BY <1>1, <2>1, <2>2, FramesAssumption DEF Entries, NthFacts, Threading, Typed
  <2>5. SampleTime(frame.time) \in Nat /\ SampleTime(frame.time) < clock + encoded + 1
    <3>1. CASE last # NoFrame /\ last.time >= frame.time
      <4>1. last.time \in Nat /\ last.time < clock + encoded  BY <3>1 DEF Entries
      <4>2. SampleTime(frame.time) = last.time + 1  BY <3>1 DEF SampleTime
      <4> QED BY <2>4, <4>1, <4>2
    <3>2. CASE ~(last # NoFrame /\ last.time >= frame.time)
      BY <2>3, <2>4, <3>2 DEF SampleTime
    <3> QED BY <3>1, <3>2
  <2>6. last' = [slot |-> frame.slot, index |-> frame.index, time |-> SampleTime(frame.time)]
    BY <2>1 DEF Entries
  <2>7. SampleTime(frame.time) \in 0..(2 * TotalFrames)
    <3>1. \A a, c, n, t \in Nat : a < c + n + 1 /\ c <= t /\ n < t => a \in 0..(2 * t)  OBVIOUS
    <3>2. clock \in Nat /\ clock <= TotalFrames /\ encoded < TotalFrames /\ TotalFrames \in Nat
      BY <2>4, FramesAssumption DEF Threading, Typed
    <3> QED BY <2>4, <2>5, <3>1, <3>2
  <2>8. last' \in Entries  BY <2>4, <2>6, <2>7 DEF Entries
  <2>9. last'.index = frame.index /\ last'.time = SampleTime(frame.time)  BY <2>6
  <2>10. ASSUME NEW n, NEW e, Nth(n, e)', n >= encoded' PROVE last'.index < e.index
    <3>1. Nth(n, e)  BY <1>3, <2>10, <2>1, NthStep DEF Fresh, Setup, Copy, Move, Encode
    <3>2. n \in Nat  BY <1>1, <3>1 DEF NthFacts
    <3>3. encoded < n  BY <2>1, <2>4, <2>10, <3>2
    <3> QED BY <2>2, <2>9, <3>1, <3>3 DEF Order
  <2>11. encoded' # 0  BY <2>1, <2>4
  <2>12. last'.time < clock' + encoded'  BY <2>1, <2>4, <2>5, <2>9
  <2> QED BY <2>1, <2>3, <2>8, <2>9, <2>10, <2>11, <2>12
<1>4. Encode \/ UNCHANGED <<last, encoded>>
  <2> USE DEF consuming, writing
  <2>1. CASE SpuriousWake \/ ProducerQueueStep \/ WorkerQueueStep \/ Cancel \/ Release \/ Stopped
             \/ UNCHANGED vars
    BY <2>1 DEF SpuriousWake, ProducerQueueStep, WorkerQueueStep, Cancel, Release, Stopped, vars
  <2>2. CASE ProducerStep
    BY <2>2 DEF ProducerStep, StopOnCancel, CancelThrown, DropFrame, Acquire, ProducerFails,
                ProducerThrows, Copy, Pushed, Leave, EndLoop, Finish
  <2>3. CASE WorkerStep
    BY <2>3 DEF WorkerStep, Setup, Spawn, CallPop, PopFrame, PopEnd, EncodeFails, Join, AbortVideo,
                FinalizeVideo, FinalizeFails, SetupFails
  <2> QED BY <2>1, <2>2, <2>3 DEF Next
<1> QED BY <1>2, <1>3, <1>4

-----------------------------------------------------------------------------
(* The textures                                                              *)

\* Two copies less than a pool apart have different slots.
LEMMA SlotsDiffer ==
  ASSUME NEW m \in Nat, NEW n \in Nat, m < n, n < m + PoolSize
  PROVE  PoolSlot(m) # PoolSlot(n)
<1>1. PoolSize \in Nat \ {0}  BY CapacityAssumption DEF PoolSize
<1>2. SUFFICES ASSUME NEW p \in Nat \ {0}, n < m + p PROVE m % p # n % p
  BY <1>1 DEF PoolSlot
<1>3. /\ m = p * (m \div p) + (m % p) /\ n = p * (n \div p) + (n % p)
      /\ m \div p \in Int /\ n \div p \in Int
  BY SMT
<1>4. ASSUME NEW a \in Int, NEW b \in Int, NEW r \in Int, m = p * a + r, n = p * b + r PROVE FALSE
  <2>1. n - m = p * (b - a)  BY <1>4
  <2>2. CASE b - a <= 0
    <3>1. p * (b - a) <= 0  BY <2>2
    <3> QED BY <1>2, <2>1, <3>1
  <2>3. CASE b - a >= 1
    <3>1. p * (b - a) >= p  BY <2>3
    <3> QED BY <1>2, <2>1, <3>1
  <2>4. b - a <= 0 \/ b - a >= 1
    OBVIOUS
  <2> QED BY <2>2, <2>3, <2>4
<1>5. SUFFICES ASSUME m % p = n % p PROVE FALSE
  OBVIOUS
<1>6. m % p \in Int  BY <1>2
<1> DEFINE a == m \div p
           b == n \div p
           r == m % p
<1>7. /\ a \in Int /\ b \in Int /\ r \in Int
      /\ m = p * a + r /\ n = p * b + r
  BY <1>3, <1>5, <1>6
<1> HIDE DEF a, b, r
<1> QED BY <1>4, <1>7

LEMMA TexturesStep ==
  ASSUME QP!QueueInv, QP!QueueInv', Threading, Threading', Counts, Counts', Order,
         Textures, [Next]_vars
  PROVE  Textures'
<1>1. NthFacts /\ NthFacts'  BY NthRange, PTL
<1>2. UNCHANGED pool \/ Setup \/ Copy
  <2> USE DEF producing
  <2>1. CASE SpuriousWake \/ ProducerQueueStep \/ WorkerQueueStep \/ Cancel \/ Release \/ Stopped
             \/ UNCHANGED vars
    BY <2>1 DEF SpuriousWake, ProducerQueueStep, WorkerQueueStep, Cancel, Release, Stopped, vars
  <2>2. CASE ProducerStep
    BY <2>2 DEF ProducerStep, StopOnCancel, CancelThrown, DropFrame, Acquire, ProducerFails,
                ProducerThrows, Pushed, Leave, EndLoop, Finish
  <2>3. CASE WorkerStep
    BY <2>3 DEF WorkerStep, Spawn, CallPop, PopFrame, PopEnd, Encode, EncodeFails, Join, AbortVideo,
                FinalizeVideo, FinalizeFails, SetupFails
  <2> QED BY <2>1, <2>2, <2>3 DEF Next
<1>e. encoded' = encoded \/ encoded' = encoded + 1
  <2> USE DEF producing, consuming, writing
  <2>1. CASE SpuriousWake \/ ProducerQueueStep \/ WorkerQueueStep \/ Cancel \/ Release \/ Stopped
             \/ UNCHANGED vars
    BY <2>1 DEF SpuriousWake, ProducerQueueStep, WorkerQueueStep, Cancel, Release, Stopped, vars
  <2>2. CASE ProducerStep
    BY <2>2 DEF ProducerStep, StopOnCancel, CancelThrown, DropFrame, Acquire, ProducerFails,
                ProducerThrows, Pushed, Leave, EndLoop, Finish, Copy
  <2>3. CASE WorkerStep
    BY <2>3 DEF WorkerStep, Setup, Spawn, CallPop, PopFrame, PopEnd, Encode, EncodeFails, Join,
                AbortVideo, FinalizeVideo, FinalizeFails, SetupFails
  <2> QED BY <2>1, <2>2, <2>3 DEF Next
<1>f. encoded \in Nat  BY FramesAssumption DEF Threading, Typed
<1>3. SUFFICES ASSUME NEW n, NEW e, Nth(n, e)'
               PROVE  e.slot = PoolSlot(n) /\ (encoded' <= n + 2 => pool'[e.slot] = e.index)
  BY DEF Textures
<1>4. e \in Entries /\ n \in Nat  BY <1>1, <1>3 DEF NthFacts
<1>5. pool \in [Slots -> 0..(TotalFrames - 1)] /\ e.slot \in Slots
  BY <1>4 DEF Threading, Typed, Entries
<1>6. CASE Fresh(n, e)
  BY <1>5, <1>6 DEF Fresh
<1>7. CASE Nth(n, e) /\ UNCHANGED pool
  <2>1. e.slot = PoolSlot(n) /\ (encoded <= n + 2 => pool[e.slot] = e.index)
    BY <1>7 DEF Textures
  <2>2. encoded' <= n + 2 => encoded <= n + 2
    BY <1>4, <1>e, <1>f
  <2> QED BY <1>7, <2>1, <2>2
<1>8. CASE Nth(n, e) /\ Setup
  <2>1. poolIndex = 0  BY <1>8 DEF Setup, Move, Threading, ProducerCalls
  <2> QED BY <1>1, <1>8, <2>1 DEF NthFacts
<1>9. CASE Nth(n, e) /\ Copy
  <2>1. pool' = [pool EXCEPT ![PoolSlot(poolIndex)] = f]  BY <1>9 DEF Copy, CopyAndPush
  <2> SUFFICES ASSUME encoded' <= n + 2 PROVE e.slot = PoolSlot(n) /\ pool'[e.slot] = e.index
    BY <1>9 DEF Textures
  <2>8. encoded <= n + 2  BY <1>4, <1>e, <1>f
  <2>2. e.slot = PoolSlot(n) /\ pool[e.slot] = e.index  BY <1>9, <2>8 DEF Textures
  <2>3. n < poolIndex  BY <1>1, <1>9 DEF NthFacts
  <2>4. poolIndex \in Nat /\ encoded \in Nat /\ count \in 0..Capacity
    BY CallFacts, FramesAssumption DEF Threading, Typed
  <2>5. poolIndex <= encoded + 1 + Capacity
    <3>1. Popped = poolIndex - count
      BY <1>9 DEF Copy, Move, Threading, ProducerCalls, Popped, Entered
    <3>2. Popped = encoded \/ Popped = encoded + 1  BY DEF Counts
    <3> QED BY <2>4, <3>1, <3>2, CapacityAssumption
  <2>6. poolIndex < n + PoolSize
    BY <1>4, <2>4, <2>5, <2>8, CapacityAssumption DEF PoolSize
  <2>7. PoolSlot(n) # PoolSlot(poolIndex)  BY <1>4, <2>3, <2>4, <2>6, SlotsDiffer
  <2> QED BY <1>5, <2>1, <2>2, <2>7
<1> QED BY <1>2, <1>3, <1>6, <1>7, <1>8, <1>9, NthStep

-----------------------------------------------------------------------------
(* The theorems                                                              *)

VideoInv == /\ QP!QueueInv /\ Threading /\ Counts /\ Lateness /\ Verdicts
            /\ Order /\ Lasts

LEMMA VideoInit ==
  ASSUME Init
  PROVE  VideoInv /\ Textures
<1> USE DEF Init
<1>1. QP!QueueInv  BY SameState, QP!QueueInit, QueueAssumptions
<1>2. /\ pc[Producer] = "idle" /\ pc[Worker] = "idle"
      /\ ret[Producer] = "none" /\ ret[Worker] = "none" /\ ~stopped /\ count = 0
  BY DEF Q!Init, Q!Threads
<1>3. Typed
  <2>1. <<>> \in Seq(Entries)  BY EmptySeq
  <2>2. 0 \in 0..TotalFrames /\ 1 \in 1..TotalFrames  BY FramesAssumption
  <2>3. pool \in [Slots -> 0..(TotalFrames - 1)]  BY FramesAssumption
  <2> QED BY <2>1, <2>2, <2>3 DEF Typed
<1>4. Ahead  BY DEF Ahead
<1>5. ProducerCalls /\ WorkerCalls  BY <1>2 DEF ProducerCalls, WorkerCalls, Idle
<1>6. Popped = 0 /\ ~Held  BY <1>2 DEF Popped, Entered, Held
<1>7. Len(inFlight) = 0  BY EmptySeq
<1>8. Counts  BY <1>6, <1>7, ThrottleAssumption DEF Counts
<1>9. Lateness  BY DEF Lateness
<1>10. Verdicts  BY <1>2 DEF Verdicts, ResultIsHonest
<1>11. \A n, e : ~Nth(n, e)  BY <1>2, <1>6, <1>7 DEF Nth, PushPc
<1>12. Order  BY <1>11 DEF Order
<1>13. Lasts  BY DEF Lasts
<1>14. Textures  BY <1>11 DEF Textures
<1> QED BY <1>1, <1>3, <1>4, <1>5, <1>8, <1>9, <1>10, <1>12, <1>13, <1>14 DEF VideoInv, Threading

LEMMA VideoStep == VideoInv /\ [Next]_vars => VideoInv'
<1> SUFFICES ASSUME VideoInv, [Next]_vars PROVE VideoInv'  OBVIOUS
<1> USE DEF VideoInv
<1>1. QP!QueueInv'  BY QueueNext DEF Threading
<1>2. Threading'
  BY <1>1, TypedStep, AheadStep, ProducerCallsStep, WorkerCallsStep DEF Threading
<1>3. Counts'  BY <1>1, CountsStep
<1>4. Lateness'  BY <1>1, LatenessStep
<1>5. Verdicts'  BY <1>1, VerdictsStep
<1>6. Order'  BY <1>1, <1>2, <1>3, OrderStep
<1>7. Lasts'  BY <1>1, <1>2, <1>3, LastsStep
<1> QED BY <1>1, <1>2, <1>3, <1>4, <1>5, <1>6, <1>7

\* The invariant of a video holds in every state.
LEMMA VideoInvariance == Spec => []VideoInv
<1>1. Init => VideoInv  BY VideoInit
<1> QED BY <1>1, VideoStep, PTL DEF Spec

\* The queue, the pool and the error strings outlive every thread that uses them.
THEOREM VideoNothingOutlivesRunVideo == Spec => []NothingOutlivesRunVideo
<1>1. VideoInv => NothingOutlivesRunVideo
  BY DEF VideoInv, Threading, ProducerCalls, WorkerCalls, NothingOutlivesRunVideo, Idle
<1> QED BY <1>1, VideoInvariance, PTL

\* A cancelled video writes at most the queue and two more frames.
THEOREM VideoCancelIsPrompt == Spec => []CancelIsPrompt
<1>1. VideoInv => CancelIsPrompt
  <2> SUFFICES ASSUME VideoInv PROVE CancelIsPrompt  OBVIOUS
  <2>1. PendingFacts  BY PendingTyped DEF VideoInv
  <2>2. late \in Nat  BY DEF VideoInv, Threading, Typed
  <2>3. cancelled => late + Pending <= Capacity + 2  BY DEF VideoInv, Lateness
  <2>4. ~cancelled => late = 0  BY DEF VideoInv, Lateness
  <2>5. \A a, b, c \in Nat : a + b <= c => a <= c  OBVIOUS
  <2>6. Pending \in Nat /\ Capacity + 2 \in Nat
    BY <2>1, CapacityAssumption DEF PendingFacts
  <2>7. late <= Capacity + 2  BY <2>2, <2>3, <2>4, <2>5, <2>6, CapacityAssumption
  <2> QED BY <2>7 DEF CancelIsPrompt
<1> QED BY <1>1, VideoInvariance, PTL

\* What RunVideo() returns agrees with its frames, its errors, its file and the token.
THEOREM VideoResultIsHonest == Spec => []ResultIsHonest
<1>1. VideoInv => ResultIsHonest  BY DEF VideoInv, Verdicts
<1> QED BY <1>1, VideoInvariance, PTL

\* The sink writer is given samples in capture order and at strictly increasing times.
THEOREM VideoSamplesInOrder == Spec => SamplesInOrder
<1>1. VideoInv /\ [Next]_vars =>
        [last # NoFrame /\ last' # last => last'.index > last.index /\ last'.time > last.time]_vars
  <2> SUFFICES ASSUME VideoInv, [Next]_vars, last # NoFrame, last' # last
               PROVE  last'.index > last.index /\ last'.time > last.time
    OBVIOUS
  <2> USE DEF VideoInv
  <2>1. Encode
    <3> USE DEF consuming, writing
    <3>1. ~(SpuriousWake \/ ProducerQueueStep \/ WorkerQueueStep \/ Cancel \/ Release \/ Stopped
             \/ UNCHANGED vars)
      BY DEF SpuriousWake, ProducerQueueStep, WorkerQueueStep, Cancel, Release, Stopped, vars
    <3>2. ~ProducerStep
      BY DEF ProducerStep, StopOnCancel, CancelThrown, DropFrame, Acquire, ProducerFails,
             ProducerThrows, Copy, Pushed, Leave, EndLoop, Finish
    <3> QED BY <3>1, <3>2
            DEF Next, WorkerStep, Setup, Spawn, CallPop, PopFrame, PopEnd, EncodeFails, Join,
                AbortVideo, FinalizeVideo, FinalizeFails, SetupFails
  <2>2. /\ last' = [frame EXCEPT !.time = SampleTime(frame.time)]
        /\ Held /\ HeldFrame = frame /\ frame \in Entries
    BY <2>1 DEF Encode, Move, Held, HeldFrame, Counts
  <2>3. Nth(encoded, frame) /\ encoded \in Nat  BY <2>2 DEF Nth, Threading, Typed
  <2>4. last \in Entries /\ last.index < frame.index  BY <2>3 DEF Lasts
  <2>5. /\ last.index \in Nat /\ frame.index \in Nat /\ last.time \in Nat /\ frame.time \in Nat
    BY <2>2, <2>4, FramesAssumption DEF Entries
  <2>6. last'.index = frame.index /\ last'.time = SampleTime(frame.time)
    BY <2>2 DEF Entries
  <2>7. SampleTime(frame.time) > last.time  BY <2>5 DEF SampleTime
  <2> QED BY <2>4, <2>5, <2>6, <2>7
<1> QED BY <1>1, VideoInvariance, PTL DEF SamplesInOrder, Spec

\* Every variable of a video has its type, and no queue, count or time leaves its range.
THEOREM VideoTypeOK == Spec => []TypeOK
<1>1. VideoInv => TypeOK
  <2> SUFFICES ASSUME VideoInv PROVE TypeOK  OBVIOUS
  <2> USE DEF VideoInv, Threading
  <2>1. Q!TypeOK  BY SameState DEF QP!QueueInv
  <2>2. last \in Entries \cup {NoFrame}  BY DEF Lasts
  <2>3. encoded \in 0..TotalFrames
    <3>1. encoded \in Nat /\ poolIndex \in 0..TotalFrames  BY DEF Typed
    <3>2. count \in Nat  BY QueueTyped, CapacityAssumption
    <3>3. Entered <= poolIndex /\ Entered \in Int  BY <3>1, FramesAssumption DEF Entered
    <3>4. encoded <= Entered - count  BY <3>1 DEF Counts, Popped
    <3> QED BY <3>1, <3>2, <3>3, <3>4, FramesAssumption
  <2>4. late \in 0..TotalFrames  BY <2>3, FramesAssumption DEF Lateness, Typed
  <2>5. Len(inFlight) <= MaxInFlight  BY DEF Counts
  <2> QED BY <2>1, <2>2, <2>3, <2>4, <2>5 DEF TypeOK, Typed
<1> QED BY <1>1, VideoInvariance, PTL

\* The frames the sink writer has not been given yet keep their textures.
WaitingSafe == \A e \in InUse \ Elements(inFlight) : pool[e.slot] = e.index

\* "the pool is larger than the queue so a slot is not rewritten while an entry referencing it
\* can still be in flight": however many samples the sink writer may hold, no texture is
\* rewritten while somebody has to read it and the sink writer holds at most two, and never
\* before it has been given the frame.
THEOREM VideoPoolSafe == Spec => []((Len(inFlight) <= 2 => PoolSafe) /\ WaitingSafe)
<1>1. Init => Textures  BY VideoInit
<1>2. VideoInv /\ VideoInv' /\ Textures /\ [Next]_vars => Textures'
  BY TexturesStep DEF VideoInv
<1>3. VideoInv /\ Textures => (Len(inFlight) <= 2 => PoolSafe) /\ WaitingSafe
  <2> SUFFICES ASSUME VideoInv, Textures, NEW e \in InUse,
                      e \in Elements(inFlight) => Len(inFlight) <= 2
               PROVE  pool[e.slot] = e.index
    BY DEF PoolSafe, WaitingSafe
  <2>1. \E n : Nth(n, e) /\ encoded <= n + 2
    <3>t. /\ encoded \in Nat /\ count \in Nat /\ Popped \in {encoded, encoded + 1}
          /\ Len(inFlight) \in Nat /\ Popped \in Int
      <4>1. encoded \in Nat /\ inFlight \in Seq(Entries)
        BY FramesAssumption DEF VideoInv, Threading, Typed
      <4>2. count \in Nat  BY QueueTyped, CapacityAssumption DEF VideoInv
      <4>3. Popped \in {encoded, encoded + 1}  BY DEF VideoInv, Counts
      <4> QED BY <4>1, <4>2, <4>3
    <3>1. CASE e \in Elements(Q!Queued)
      <4>1. PICK i \in 1..count : e = Line[i]
        BY <3>1, SameState, LineTyped DEF Elements, Line, VideoInv
      <4>2. Nth(Popped + i - 1, e)  BY <4>1 DEF Nth
      <4>3. encoded <= (Popped + i - 1) + 2  BY <3>t, <4>1
      <4> QED BY <4>2, <4>3
    <3>2. CASE e \in Elements(inFlight)
      <4>1. PICK i \in 1..Len(inFlight) : e = inFlight[i]  BY <3>2 DEF Elements
      <4>2. Nth(encoded - Len(inFlight) + i - 1, e)  BY <4>1 DEF Nth
      <4>3. Len(inFlight) <= 2  BY <3>2
      <4>4. encoded <= (encoded - Len(inFlight) + i - 1) + 2  BY <3>t, <4>1, <4>3
      <4> QED BY <4>2, <4>4
    <3>3. CASE main = "popping" /\ ret[Worker] = "true" /\ e = out[Worker]
      <4>1. Nth(encoded, e)  BY <3>3 DEF Nth, Held, HeldFrame
      <4> QED BY <3>t, <4>1
    <3>4. CASE main = "encode" /\ e = frame
      <4>1. Nth(encoded, e)  BY <3>4 DEF Nth, Held, HeldFrame
      <4> QED BY <3>t, <4>1
    <3> QED BY <3>1, <3>2, <3>3, <3>4 DEF InUse
  <2> QED BY <2>1 DEF Textures
<1> QED BY <1>1, <1>2, <1>3, VideoInvariance, PTL DEF Spec

-----------------------------------------------------------------------------
(* The queue of a video and its end                                          *)

\* No wakeup is lost between the two threads.
Watched == QP!FramesSeen /\ QP!RoomSeen

LEMMA WatchedStep == VideoInv /\ Watched /\ [Next]_vars => Watched'
<1> SUFFICES ASSUME VideoInv, Watched, [Next]_vars PROVE Watched'  OBVIOUS
<1>1. [QP!Next]_(QP!qvars)  BY QueueUsed DEF VideoInv, Threading
<1> QED BY <1>1, QP!FramesSeenStep, QP!RoomSeenStep, QueueAssumptions DEF VideoInv, Watched

LEMMA WatchedInvariance == Spec => []Watched
<1>1. Init => Watched
  BY CapacityAssumption DEF Init, Q!Init, Watched, QP!FramesSeen, QP!RoomSeen
<1> QED BY <1>1, VideoInvariance, WatchedStep, PTL DEF Spec

\* A thread that holds the mutex of the queue waits for nothing.
LEMMA HolderGoesOn ==
  ASSUME QP!QueueInv, lock # NoThread
  PROVE  \E t \in {Producer, Worker} : /\ ~Idle(t) /\ ~Q!Asleep(t)
                                       /\ pc[t] \notin {"pushLock", "popLock"}
<1>1. lock \in {Producer, Worker} /\ QP!Holding(lock)
  BY DEF QP!QueueInv, QP!TypeOK, QP!LockInv, QP!Threads
<1> QED BY <1>1 DEF QP!Holding, Idle, Q!Asleep

\* While the queue is open, the threads do not both sleep.
LEMMA NeverBothAsleep ==
  ASSUME QP!QueueInv, Watched, ~stopped
  PROVE  ~(pc[Producer] = "pushAsleep" /\ pc[Worker] = "popAsleep")
<1> SUFFICES ASSUME pc[Producer] = "pushAsleep", pc[Worker] = "popAsleep" PROVE FALSE
  OBVIOUS
<1>1. QP!Threads = {Producer, Worker}  BY DEF QP!Threads
<1>2. /\ QP!Popping = {} /\ QP!Pushing = {}
      /\ QP!Notifying("pushNotify") = {} /\ QP!Notifying("popNotify") = {}
  BY <1>1 DEF QP!Popping, QP!Pushing, QP!Notifying
<1>3. notFull # {} /\ notEmpty # {}
  BY <1>1 DEF QP!QueueInv, QP!LockInv
<1>4. count \in 0..Capacity /\ QP!Cardinality({}) = 0
  BY QueueTyped, QP!FS_EmptySet, QueueAssumptions
<1>5. count <= 0
  BY <1>2, <1>3, <1>4 DEF Watched, QP!FramesSeen
<1>6. Capacity - count <= 0
  BY <1>2, <1>3, <1>4 DEF Watched, QP!RoomSeen
<1> QED BY <1>4, <1>5, <1>6, CapacityAssumption

\* Frame 0 finds room, and nobody in its way.
LEMMA FirstPushGoesOn ==
  ASSUME VideoInv, Watched, main = "first"
  PROVE  ~Waiting(Producer)
<1> USE DEF VideoInv, Threading
<1>1. prod = "none"  BY DEF Typed, ProducerCalls
<1>2. (InPush \/ PushOver) /\ poolIndex = 1 /\ ~stopped /\ Idle(Worker)
  BY <1>1 DEF ProducerCalls, WorkerCalls
<1>3. pc[Producer] # "popAsleep" /\ pc[Producer] # "popLock"
  BY <1>2 DEF InPush, PushOver, PushPc
<1>4. Producer # Worker  BY QueueTyped
<1>5. CASE pc[Producer] = "pushAsleep"
  <2>1. ret[Producer] = "none"  BY <1>2, <1>5 DEF InPush, PushOver
  <2>2. Popped = 0 - count  BY <1>2, <2>1 DEF Popped, Entered
  <2>3. count = 0
    BY <2>2, QueueTyped, CapacityAssumption DEF Counts, Typed
  <2>4. QP!Threads = {Producer, Worker}  BY DEF QP!Threads
  <2>5. QP!Pushing = {} /\ QP!Notifying("popNotify") = {} /\ notFull # {}
    BY <1>2, <1>5, <2>4 DEF QP!Pushing, QP!Notifying, Idle, QP!QueueInv, QP!LockInv
  <2>6. Capacity - count <= 0
    BY <1>2, <2>5, QP!FS_EmptySet, QueueAssumptions DEF Watched, QP!RoomSeen
  <2> QED BY <2>3, <2>6, CapacityAssumption
<1>6. CASE pc[Producer] = "pushLock"
  BY <1>2, <1>4, <1>6, HolderGoesOn DEF Waiting, Q!Asleep, Idle
<1> QED BY <1>2, <1>3, <1>4, <1>5, <1>6 DEF Waiting, Q!Asleep

\* For every length of the video and every capacity of the queue: only a missed Stop() halts
\* both threads.  Without one, the producer, the worker and the join behind the consumer's
\* loop never wait for each other.
THEOREM VideoOnlyStopDeadlocks == Spec => []OnlyStopDeadlocks
<1>1. VideoInv /\ Watched => OnlyStopDeadlocks
  <2> SUFFICES ASSUME VideoInv, Watched, Deadlocked PROVE StopMissed
    BY DEF OnlyStopDeadlocks
  <2> USE DEF VideoInv, Threading
  <2>1. Producer # Worker  BY QueueTyped
  <2>2. main # "first" /\ Waiting(Worker) /\ (Waiting(Producer) \/ prod \in {"none", "exited"})
    BY FirstPushGoesOn DEF Deadlocked
  <2>3. ~Idle(Worker) => main \in {"popping", "join"}
    BY DEF WorkerCalls
  <2>4. main \in {"popping", "join"}
    BY <2>2, <2>3 DEF Waiting, Idle, Q!Asleep
  <2>5. prod # "none"
    BY <2>2, <2>4 DEF ProducerCalls
  <2>6. prod = "exited" => Idle(Producer) /\ stopped
    BY DEF ProducerCalls
  <2>7. /\ pc[Producer] \notin {"popAsleep", "popLock"}
        /\ pc[Worker] \notin {"pushAsleep", "pushLock"}
    BY <2>1 DEF QP!QueueInv, QP!RoleInv, QP!Threads
  <2>8. lock = NoThread
    BY <2>1, <2>2, <2>5, <2>6, HolderGoesOn DEF Waiting, Idle, Q!Asleep
  <2>9. CASE Q!Asleep(Worker)
    <3>1. CASE stopped
      BY <2>9, <3>1 DEF StopMissed
    <3>2. CASE ~stopped
      <4>1. Waiting(Producer)  BY <2>2, <2>5, <2>6, <3>2
      <4>2. pc[Producer] = "pushAsleep"
        BY <2>1, <2>7, <2>8, <4>1 DEF Waiting, Q!Asleep
      <4> QED BY <2>7, <2>9, <3>2, <4>2, NeverBothAsleep DEF Q!Asleep
    <3> QED BY <3>1, <3>2
  <2>10. CASE ~Q!Asleep(Worker)
    <3>1. main = "join" /\ prod # "exited"
      BY <2>2, <2>8, <2>10 DEF Waiting, Joined
    <3>2. stopped  BY <3>1 DEF WorkerCalls
    <3>3. Q!Asleep(Producer)
      BY <2>1, <2>2, <2>5, <2>8, <3>1 DEF Waiting
    <3> QED BY <3>2, <3>3 DEF StopMissed
  <2> QED BY <2>9, <2>10
<1> QED BY <1>1, VideoInvariance, WatchedInvariance, PTL

\* Within a video too the queue is a bounded FIFO channel: RunVideo() uses it in no way that
\* FrameQueue does not allow, so what is proved of the queue alone holds of this one.
THEOREM VideoQueueImplementsChannel == Spec => QP!ImplementsChannel
<1>1. Init => QP!Init  BY SameState DEF Init
<1>2. VideoInv /\ [Next]_vars => [QP!Next]_(QP!qvars)
  BY QueueUsed DEF VideoInv, Threading
<1>3. Spec => QP!Spec
  BY <1>1, <1>2, VideoInvariance, PTL DEF Spec, QP!Spec
<1>4. QP!Spec => QP!ImplementsChannel
  BY QP!QueueImplementsChannel, QueueAssumptions
<1> QED BY <1>3, <1>4
==============================================================================
