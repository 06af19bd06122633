---------------------------- MODULE FrameQueueProofs ----------------------------
(***************************************************************************)
(* Proofs about FrameQueue, for any number of producers and consumers and  *)
(* any capacity.                                                           *)
(***************************************************************************)
EXTENDS FrameQueue, SequenceTheorems, FiniteSetTheorems, TLAPS

\* Which calls a thread can be in, and what a push under way carries.
RoleInv ==
  \A t \in Threads :
    /\ pc[t] \in {"pushLock", "pushTest", "pushSleep", "pushAsleep", "pushBody", "pushNotify"}
         => t \in Producers /\ arg[t] \in Frames
    /\ pc[t] \in {"popLock", "popTest", "popSleep", "popAsleep", "popBody", "popNotify"}
         => t \in Consumers

\* A body is entered only with room for a push, or a frame for a pop, unless stopped.
BodyInv ==
  \A t \in Threads :
    /\ pc[t] = "pushBody" => count < Capacity \/ stopped
    /\ pc[t] = "popBody"  => count > 0 \/ stopped

QueueInv == TypeOK /\ LockInv /\ RoleInv /\ BodyInv /\ RingInv

-----------------------------------------------------------------------------
(* Arithmetic of the ring.                                                   *)

LEMMA SuccTyped == ASSUME NEW i \in Slots PROVE Succ(i) \in Slots
  BY CapacityAssumption, SMT DEF Slots, Succ

LEMMA OffsetTyped ==
  ASSUME TypeOK, NEW i \in Slots
  PROVE  /\ Offset(i) \in 0..(Capacity - 1)
         /\ Offset(i) = IF i >= head THEN i - head ELSE i + Capacity - head
  BY CapacityAssumption, SMT DEF TypeOK, Slots, Offset

\* tail_ is count_ entries after head_, unless the ring is full; no other entry is.
LEMMA OffsetTail ==
  ASSUME TypeOK, tail = (head + count) % Capacity, count < Capacity, NEW i \in Slots
  PROVE  Offset(i) = count <=> i = tail
<1>1. head \in 0..(Capacity - 1) /\ count \in 0..(Capacity - 1) /\ i \in 0..(Capacity - 1)
  BY CapacityAssumption DEF TypeOK, Slots
<1>2. tail = IF head + count < Capacity THEN head + count ELSE head + count - Capacity
  BY <1>1, CapacityAssumption, SMT
<1>3. QED
  BY <1>1, <1>2, OffsetTyped, CapacityAssumption, SMT

\* When head_ moves on, every entry but the old head comes one earlier.
LEMMA OffsetSucc ==
  ASSUME TypeOK, head' = Succ(head), NEW i \in Slots
  PROVE  Offset(i)' = IF i = head THEN Capacity - 1 ELSE Offset(i) - 1
<1>1. head \in 0..(Capacity - 1) /\ i \in 0..(Capacity - 1)
  BY CapacityAssumption DEF TypeOK, Slots
<1>2. head' = IF head = Capacity - 1 THEN 0 ELSE head + 1
  BY <1>1, CapacityAssumption, SMT DEF Succ
<1>3. Offset(i)' = IF i >= head' THEN i - head' ELSE i + Capacity - head'
  BY <1>1, <1>2, CapacityAssumption, SMT DEF Offset
<1>4. QED
  BY <1>1, <1>2, <1>3, OffsetTyped, CapacityAssumption, SMT

-----------------------------------------------------------------------------
(* QueueInv is inductive.                                                    *)

LEMMA QueueInit == Init => QueueInv
<1> SUFFICES ASSUME Init PROVE QueueInv
  OBVIOUS
<1>1. 0 \in Slots /\ 0 \in 0..Capacity
  BY CapacityAssumption DEF Slots
<1>2. TypeOK
  BY <1>1 DEF Init, TypeOK
<1>3. LockInv /\ RoleInv /\ BodyInv
  BY ThreadsAssumption DEF Init, LockInv, Holding, RoleInv, BodyInv, Threads
<1>4. RingInv
  <2>1. \A i \in Slots : ~(Offset(i) < count)
    BY <1>2, OffsetTyped DEF Init
  <2>2. tail = (head + count) % Capacity
    BY CapacityAssumption, SMT DEF Init
  <2>3. QED
    BY <2>1, <2>2 DEF Init, RingInv
<1>5. QED
  BY <1>2, <1>3, <1>4 DEF QueueInv

LEMMA RingSame == RingInv /\ UNCHANGED ring => RingInv'
  BY DEF RingInv, ring, Offset

LEMMA PushBodyRing ==
  ASSUME QueueInv, NEW p \in Producers, PushBody(p)
  PROVE  RingInv' /\ count' \in 0..Capacity /\ tail' \in Slots
<1>1. count < Capacity /\ count \in 0..Capacity /\ arg[p] \in Frames /\ arg[p] # NoFrame
  BY FramesAssumption DEF QueueInv, BodyInv, RoleInv, TypeOK, PushBody, Goto, Threads
<1>2. tail = (head + count) % Capacity /\ tail' = (tail + 1) % Capacity /\ head' = head
      /\ count' = count + 1
  BY DEF QueueInv, RingInv, PushBody, Succ
<1>3. head \in 0..(Capacity - 1) /\ tail \in 0..(Capacity - 1)
  BY DEF QueueInv, TypeOK, Slots
<1>4. tail' = (head' + count') % Capacity
  <2>1. tail = IF head + count < Capacity THEN head + count ELSE head + count - Capacity
    BY <1>1, <1>2, <1>3, CapacityAssumption, SMT
  <2>2. tail' = IF tail = Capacity - 1 THEN 0 ELSE tail + 1
    BY <1>2, <1>3, CapacityAssumption, SMT
  <2>3. (head + (count + 1)) % Capacity
           = IF head + count + 1 < Capacity THEN head + count + 1 ELSE head + count + 1 - Capacity
    BY <1>1, <1>3, CapacityAssumption, SMT
  <2>4. QED
    BY <1>1, <1>2, <1>3, <2>1, <2>2, <2>3, CapacityAssumption, SMT
<1>5. ASSUME NEW i \in Slots PROVE buffer'[i] # NoFrame <=> Offset(i)' < count'
  <2>1. Offset(i)' = Offset(i)
    BY <1>2 DEF Offset
  <2>2. Offset(i) = count <=> i = tail
    BY <1>1, <1>2, OffsetTail DEF QueueInv
  <2>3. Offset(i) \in 0..(Capacity - 1)
    BY OffsetTyped DEF QueueInv
  <2>4. buffer'[i] = IF i = tail THEN arg[p] ELSE buffer[i]
    BY DEF QueueInv, TypeOK, PushBody
  <2>5. QED
    BY <1>1, <1>2, <2>1, <2>2, <2>3, <2>4 DEF QueueInv, RingInv
<1>6. QED
  BY <1>1, <1>2, <1>4, <1>5, SuccTyped, CapacityAssumption DEF RingInv, QueueInv, TypeOK, PushBody

LEMMA PopBodyRing ==
  ASSUME QueueInv, NEW c \in Consumers, PopBody(c)
  PROVE  /\ RingInv' /\ count' \in 0..Capacity /\ head' \in Slots
         /\ count > 0 /\ buffer[head] \in Frames
<1>1. count > 0 /\ count \in 0..Capacity
  BY DEF QueueInv, BodyInv, TypeOK, PopBody, Goto, Threads, Drained
<1>2. head' = Succ(head) /\ tail' = tail /\ count' = count - 1
  BY DEF PopBody
<1>3. head \in 0..(Capacity - 1) /\ tail \in 0..(Capacity - 1)
  BY DEF QueueInv, TypeOK, Slots
<1>4. tail' = (head' + count') % Capacity
  <2>1. head' = IF head = Capacity - 1 THEN 0 ELSE head + 1
    BY <1>2, <1>3, CapacityAssumption, SMT DEF Succ
  <2>2. (head + count) % Capacity = (head' + (count - 1)) % Capacity
    BY <1>1, <1>3, <2>1, CapacityAssumption, SMT
  <2>3. QED
    BY <1>2, <2>2 DEF QueueInv, RingInv
<1>5. ASSUME NEW i \in Slots PROVE buffer'[i] # NoFrame <=> Offset(i)' < count'
  <2>1. Offset(i)' = IF i = head THEN Capacity - 1 ELSE Offset(i) - 1
    BY <1>2, OffsetSucc DEF QueueInv
  <2>2. Offset(i) \in 0..(Capacity - 1) /\ (i # head => Offset(i) > 0)
    BY <1>3, OffsetTyped, CapacityAssumption DEF QueueInv, Slots
  <2>3. buffer'[i] = IF i = head THEN NoFrame ELSE buffer[i]
    BY DEF QueueInv, TypeOK, PopBody
  <2>4. QED
    BY <1>1, <1>2, <2>1, <2>2, <2>3, CapacityAssumption DEF QueueInv, RingInv
<1>6. buffer[head] \in Frames
  <2>1. head \in Slots /\ Offset(head) = 0
    BY <1>3, OffsetTyped DEF QueueInv, Slots
  <2>2. QED
    BY <1>1, <2>1 DEF QueueInv, RingInv, TypeOK
<1>7. QED
  BY <1>1, <1>2, <1>4, <1>5, <1>6, SuccTyped, CapacityAssumption DEF RingInv, QueueInv, TypeOK
-----------------------------------------------------------------------------
(* Each conjunct of QueueInv, one step per action.                           *)

LEMMA TypeOKStep ==
  ASSUME QueueInv, [Next]_qvars
  PROVE  TypeOK'
<1> USE ThreadsAssumption DEF QueueInv, TypeOK, ring, waiting, local, results, Threads
<1>1. ASSUME NEW p \in Producers, NEW f \in Frames, BeginPush(p, f) PROVE TypeOK'
  BY <1>1 DEF BeginPush, Goto
<1>2. ASSUME NEW c \in Consumers, BeginPop(c) PROVE TypeOK'
  BY <1>2 DEF BeginPop, Goto
<1>3. ASSUME NEW p \in Producers, PushLock(p) PROVE TypeOK'
  BY <1>3 DEF PushLock, Goto
<1>4. ASSUME NEW p \in Producers, PushTest(p) PROVE TypeOK'
  BY <1>4 DEF PushTest, Goto
<1>5. ASSUME NEW p \in Producers, PushSleep(p) PROVE TypeOK'
  BY <1>5 DEF PushSleep, Goto
<1>6. ASSUME NEW p \in Producers, PushRefused(p) PROVE TypeOK'
  BY <1>6 DEF PushRefused, Return, Goto
<1>7. ASSUME NEW p \in Producers, PushBody(p) PROVE TypeOK'
  BY <1>7, PushBodyRing DEF PushBody, Goto, RoleInv
<1>8. ASSUME NEW p \in Producers, PushNotify(p) PROVE TypeOK'
  BY <1>8 DEF PushNotify, NotifyOne, Goto
<1>9. ASSUME NEW c \in Consumers, PopLock(c) PROVE TypeOK'
  BY <1>9 DEF PopLock, Goto
<1>10. ASSUME NEW c \in Consumers, PopTest(c) PROVE TypeOK'
  BY <1>10 DEF PopTest, Goto
<1>11. ASSUME NEW c \in Consumers, PopSleep(c) PROVE TypeOK'
  BY <1>11 DEF PopSleep, Goto
<1>12. ASSUME NEW c \in Consumers, PopEnds(c) PROVE TypeOK'
  BY <1>12 DEF PopEnds, Return, Goto
<1>13. ASSUME NEW c \in Consumers, PopBody(c) PROVE TypeOK'
  BY <1>13, PopBodyRing DEF PopBody, Goto
<1>14. ASSUME NEW c \in Consumers, PopNotify(c) PROVE TypeOK'
  BY <1>14 DEF PopNotify, NotifyOne, Goto
<1>15. ASSUME NEW t \in Threads, BeginStop(t) PROVE TypeOK'
  BY <1>15 DEF BeginStop, Goto
<1>16. ASSUME NEW t \in Threads, StopFull(t) PROVE TypeOK'
  BY <1>16 DEF StopFull, NotifyAll, Goto
<1>17. ASSUME NEW t \in Threads, StopEmpty(t) PROVE TypeOK'
  BY <1>17 DEF StopEmpty, NotifyAll, Goto
<1>18. ASSUME NEW t \in Threads, SpuriousWake(t) PROVE TypeOK'
  BY <1>18 DEF SpuriousWake, Goto
<1>19. CASE UNCHANGED qvars
  BY <1>19 DEF qvars
<1>20. QED
  BY <1>1, <1>2, <1>3, <1>4, <1>5, <1>6, <1>7, <1>8, <1>9, <1>10, <1>11, <1>12,
     <1>13, <1>14, <1>15, <1>16, <1>17, <1>18, <1>19 DEF Next, Begin, PushStep, PopStep, StopStep

LEMMA RoleInvStep ==
  ASSUME QueueInv, [Next]_qvars
  PROVE  RoleInv'
<1> USE ThreadsAssumption DEF QueueInv, TypeOK, RoleInv, LockInv, ring, waiting, local, results, Threads
<1>1. ASSUME NEW p \in Producers, NEW f \in Frames, BeginPush(p, f) PROVE RoleInv'
  BY <1>1 DEF BeginPush, Goto
<1>2. ASSUME NEW c \in Consumers, BeginPop(c) PROVE RoleInv'
  BY <1>2 DEF BeginPop, Goto
<1>3. ASSUME NEW p \in Producers, PushLock(p) PROVE RoleInv'
  BY <1>3 DEF PushLock, Goto
<1>4. ASSUME NEW p \in Producers, PushTest(p) PROVE RoleInv'
  BY <1>4 DEF PushTest, Goto
<1>5. ASSUME NEW p \in Producers, PushSleep(p) PROVE RoleInv'
  BY <1>5 DEF PushSleep, Goto
<1>6. ASSUME NEW p \in Producers, PushRefused(p) PROVE RoleInv'
  BY <1>6 DEF PushRefused, Return, Goto
<1>7. ASSUME NEW p \in Producers, PushBody(p) PROVE RoleInv'
  BY <1>7 DEF PushBody, Goto
<1>8. ASSUME NEW p \in Producers, PushNotify(p) PROVE RoleInv'
  BY <1>8 DEF PushNotify, NotifyOne, Goto
<1>9. ASSUME NEW c \in Consumers, PopLock(c) PROVE RoleInv'
  BY <1>9 DEF PopLock, Goto
<1>10. ASSUME NEW c \in Consumers, PopTest(c) PROVE RoleInv'
  BY <1>10 DEF PopTest, Goto
<1>11. ASSUME NEW c \in Consumers, PopSleep(c) PROVE RoleInv'
  BY <1>11 DEF PopSleep, Goto
<1>12. ASSUME NEW c \in Consumers, PopEnds(c) PROVE RoleInv'
  BY <1>12 DEF PopEnds, Return, Goto
<1>13. ASSUME NEW c \in Consumers, PopBody(c) PROVE RoleInv'
  BY <1>13 DEF PopBody, Goto
<1>14. ASSUME NEW c \in Consumers, PopNotify(c) PROVE RoleInv'
  BY <1>14 DEF PopNotify, NotifyOne, Goto
<1>15. ASSUME NEW t \in Threads, BeginStop(t) PROVE RoleInv'
  BY <1>15 DEF BeginStop, Goto
<1>16. ASSUME NEW t \in Threads, StopFull(t) PROVE RoleInv'
  BY <1>16 DEF StopFull, NotifyAll, Goto
<1>17. ASSUME NEW t \in Threads, StopEmpty(t) PROVE RoleInv'
  BY <1>17 DEF StopEmpty, NotifyAll, Goto
<1>18. ASSUME NEW t \in Threads, SpuriousWake(t) PROVE RoleInv'
  BY <1>18 DEF SpuriousWake, Goto
<1>19. CASE UNCHANGED qvars
  BY <1>19 DEF qvars
<1>20. QED
  BY <1>1, <1>2, <1>3, <1>4, <1>5, <1>6, <1>7, <1>8, <1>9, <1>10, <1>11, <1>12,
     <1>13, <1>14, <1>15, <1>16, <1>17, <1>18, <1>19 DEF Next, Begin, PushStep, PopStep, StopStep

LEMMA LockInvStep ==
  ASSUME QueueInv, [Next]_qvars
  PROVE  LockInv'
<1> USE ThreadsAssumption DEF QueueInv, TypeOK, RoleInv, LockInv, Holding, HasRoom,
           ring, waiting, local, results, Threads
<1>1. ASSUME NEW p \in Producers, NEW f \in Frames, BeginPush(p, f) PROVE LockInv'
  BY <1>1 DEF BeginPush, Goto
<1>2. ASSUME NEW c \in Consumers, BeginPop(c) PROVE LockInv'
  BY <1>2 DEF BeginPop, Goto
<1>3. ASSUME NEW p \in Producers, PushLock(p) PROVE LockInv'
  BY <1>3 DEF PushLock, Goto
<1>4. ASSUME NEW p \in Producers, PushTest(p) PROVE LockInv'
  BY <1>4, CapacityAssumption DEF PushTest, Goto
<1>5. ASSUME NEW p \in Producers, PushSleep(p) PROVE LockInv'
  BY <1>5 DEF PushSleep, Goto
<1>6. ASSUME NEW p \in Producers, PushRefused(p) PROVE LockInv'
  BY <1>6 DEF PushRefused, Return, Goto
<1>7. ASSUME NEW p \in Producers, PushBody(p) PROVE LockInv'
  BY <1>7 DEF PushBody, Goto
<1>8. ASSUME NEW p \in Producers, PushNotify(p) PROVE LockInv'
  BY <1>8 DEF PushNotify, NotifyOne, Goto
<1>9. ASSUME NEW c \in Consumers, PopLock(c) PROVE LockInv'
  BY <1>9 DEF PopLock, Goto
<1>10. ASSUME NEW c \in Consumers, PopTest(c) PROVE LockInv'
  BY <1>10 DEF PopTest, Goto
<1>11. ASSUME NEW c \in Consumers, PopSleep(c) PROVE LockInv'
  BY <1>11 DEF PopSleep, Goto
<1>12. ASSUME NEW c \in Consumers, PopEnds(c) PROVE LockInv'
  BY <1>12 DEF PopEnds, Return, Goto
<1>13. ASSUME NEW c \in Consumers, PopBody(c) PROVE LockInv'
  BY <1>13 DEF PopBody, Goto
<1>14. ASSUME NEW c \in Consumers, PopNotify(c) PROVE LockInv'
  BY <1>14 DEF PopNotify, NotifyOne, Goto
<1>15. ASSUME NEW t \in Threads, BeginStop(t) PROVE LockInv'
  BY <1>15 DEF BeginStop, Goto
<1>16. ASSUME NEW t \in Threads, StopFull(t) PROVE LockInv'
  BY <1>16 DEF StopFull, NotifyAll, Goto
<1>17. ASSUME NEW t \in Threads, StopEmpty(t) PROVE LockInv'
  BY <1>17 DEF StopEmpty, NotifyAll, Goto
<1>18. ASSUME NEW t \in Threads, SpuriousWake(t) PROVE LockInv'
  BY <1>18 DEF SpuriousWake, Goto
<1>19. CASE UNCHANGED qvars
  BY <1>19 DEF qvars
<1>20. QED
  BY <1>1, <1>2, <1>3, <1>4, <1>5, <1>6, <1>7, <1>8, <1>9, <1>10, <1>11, <1>12,
     <1>13, <1>14, <1>15, <1>16, <1>17, <1>18, <1>19 DEF Next, Begin, PushStep, PopStep, StopStep

LEMMA BodyInvStep ==
  ASSUME QueueInv, [Next]_qvars
  PROVE  BodyInv'
<1> USE ThreadsAssumption DEF QueueInv, TypeOK, LockInv, BodyInv, Holding, HasRoom,
           ring, waiting, local, results, Threads
<1>1. ASSUME NEW p \in Producers, NEW f \in Frames, BeginPush(p, f) PROVE BodyInv'
  BY <1>1 DEF BeginPush, Goto
<1>2. ASSUME NEW c \in Consumers, BeginPop(c) PROVE BodyInv'
  BY <1>2 DEF BeginPop, Goto
<1>3. ASSUME NEW p \in Producers, PushLock(p) PROVE BodyInv'
  BY <1>3 DEF PushLock, Goto
<1>4. ASSUME NEW p \in Producers, PushTest(p) PROVE BodyInv'
  BY <1>4 DEF PushTest, Goto
<1>5. ASSUME NEW p \in Producers, PushSleep(p) PROVE BodyInv'
  BY <1>5 DEF PushSleep, Goto
<1>6. ASSUME NEW p \in Producers, PushRefused(p) PROVE BodyInv'
  BY <1>6 DEF PushRefused, Return, Goto
<1>7. ASSUME NEW p \in Producers, PushBody(p) PROVE BodyInv'
  BY <1>7 DEF PushBody, Goto
<1>8. ASSUME NEW p \in Producers, PushNotify(p) PROVE BodyInv'
  BY <1>8 DEF PushNotify, NotifyOne, Goto
<1>9. ASSUME NEW c \in Consumers, PopLock(c) PROVE BodyInv'
  BY <1>9 DEF PopLock, Goto
<1>10. ASSUME NEW c \in Consumers, PopTest(c) PROVE BodyInv'
  BY <1>10 DEF PopTest, Goto
<1>11. ASSUME NEW c \in Consumers, PopSleep(c) PROVE BodyInv'
  BY <1>11 DEF PopSleep, Goto
<1>12. ASSUME NEW c \in Consumers, PopEnds(c) PROVE BodyInv'
  BY <1>12 DEF PopEnds, Return, Goto
<1>13. ASSUME NEW c \in Consumers, PopBody(c) PROVE BodyInv'
  BY <1>13 DEF PopBody, Goto
<1>14. ASSUME NEW c \in Consumers, PopNotify(c) PROVE BodyInv'
  BY <1>14 DEF PopNotify, NotifyOne, Goto
<1>15. ASSUME NEW t \in Threads, BeginStop(t) PROVE BodyInv'
  BY <1>15 DEF BeginStop, Goto
<1>16. ASSUME NEW t \in Threads, StopFull(t) PROVE BodyInv'
  BY <1>16 DEF StopFull, NotifyAll, Goto
<1>17. ASSUME NEW t \in Threads, StopEmpty(t) PROVE BodyInv'
  BY <1>17 DEF StopEmpty, NotifyAll, Goto
<1>18. ASSUME NEW t \in Threads, SpuriousWake(t) PROVE BodyInv'
  BY <1>18 DEF SpuriousWake, Goto
<1>19. CASE UNCHANGED qvars
  BY <1>19 DEF qvars
<1>20. QED
  BY <1>1, <1>2, <1>3, <1>4, <1>5, <1>6, <1>7, <1>8, <1>9, <1>10, <1>11, <1>12,
     <1>13, <1>14, <1>15, <1>16, <1>17, <1>18, <1>19 DEF Next, Begin, PushStep, PopStep, StopStep

LEMMA RingInvStep ==
  ASSUME QueueInv, [Next]_qvars
  PROVE  RingInv'
<1>1. ASSUME NEW p \in Producers, PushBody(p) PROVE RingInv'
  BY <1>1, PushBodyRing
<1>2. ASSUME NEW c \in Consumers, PopBody(c) PROVE RingInv'
  BY <1>2, PopBodyRing
<1>3. \/ UNCHANGED ring
      \/ \E p \in Producers : PushBody(p)
      \/ \E c \in Consumers : PopBody(c)
  <2>1. Begin => UNCHANGED ring
    BY DEF Begin, BeginPush, BeginPop, BeginStop, ring
  <2>2. \A p \in Producers : PushStep(p) => UNCHANGED ring \/ PushBody(p)
    BY DEF PushStep, PushLock, PushTest, PushSleep, PushRefused, PushNotify, ring
  <2>3. \A c \in Consumers : PopStep(c) => UNCHANGED ring \/ PopBody(c)
    BY DEF PopStep, PopLock, PopTest, PopSleep, PopEnds, PopNotify, ring
  <2>4. \A t \in Threads : StopStep(t) \/ SpuriousWake(t) => UNCHANGED ring
    BY DEF StopStep, StopFull, StopEmpty, SpuriousWake, ring
  <2>5. UNCHANGED qvars => UNCHANGED ring
    BY DEF qvars, ring
  <2>6. QED
    BY <2>1, <2>2, <2>3, <2>4, <2>5 DEF Next
<1>4. QED
  BY <1>1, <1>2, <1>3, RingSame DEF QueueInv

\* The inductive invariant of the queue.
THEOREM QueueInvariance == Spec => []QueueInv
<1>1. QueueInv /\ [Next]_qvars => QueueInv'
  BY TypeOKStep, LockInvStep, RoleInvStep, BodyInvStep, RingInvStep DEF QueueInv
<1>2. QED
  BY <1>1, QueueInit, PTL DEF Spec

\* The ring stays within its buffer: every index and the count keep their ranges.
THEOREM QueueTypeCorrect == Spec => []TypeOK
<1>1. QueueInv => TypeOK
  BY DEF QueueInv
<1>2. QED
  BY <1>1, QueueInvariance, PTL

\* Push() and Pop() never meet: the entries that hold a frame are exactly the count_
\* entries from head_ on, so no queued frame is overwritten and none is read twice.
THEOREM RingIsSound == Spec => []RingInv
<1>1. QueueInv => RingInv
  BY DEF QueueInv
<1>2. QED
  BY <1>1, QueueInvariance, PTL

\* The mutex excludes, and a thread goes to sleep only when its test still holds.
THEOREM QueueLockIsSound == Spec => []LockInv
<1>1. QueueInv => LockInv
  BY DEF QueueInv
<1>2. QED
  BY <1>1, QueueInvariance, PTL

-----------------------------------------------------------------------------
(* No wakeup is lost.                                                        *)

\* Counting the threads of a set that grows, shrinks or exchanges members.
LEMMA ThreadsFinite ==
  ASSUME NEW S, S \subseteq Threads
  PROVE  IsFiniteSet(S) /\ Cardinality(S) \in Nat
<1>1. IsFiniteSet(Threads)
  BY FinitelyMany, FS_Union DEF Threads
<1>2. QED
  BY <1>1, FS_Subset, FS_CardinalityType

LEMMA CountGrows ==
  ASSUME NEW S, NEW T, S \subseteq T, T \subseteq Threads
  PROVE  Cardinality(S) <= Cardinality(T)
  BY ThreadsFinite, FS_Subset

LEMMA CountJoins ==
  ASSUME NEW S, NEW T, S \subseteq Threads, NEW t, t \notin S, T = S \cup {t}
  PROVE  Cardinality(T) = Cardinality(S) + 1
  BY ThreadsFinite, FS_AddElement

LEMMA CountLeaves ==
  ASSUME NEW S, NEW T, S \subseteq Threads, NEW t \in S, T = S \ {t}
  PROVE  Cardinality(T) = Cardinality(S) - 1
  BY ThreadsFinite, FS_RemoveElement

Sets == /\ Popping \subseteq Threads /\ Pushing \subseteq Threads
        /\ \A label : Notifying(label) \subseteq Threads

LEMMA SetsTyped == Sets /\ Sets'
  BY DEF Sets, Popping, Pushing, Notifying, Threads

\* The two halves of NoLostWakeup.
FramesSeen == notEmpty # {} => count <= Cardinality(Notifying("pushNotify")) + Cardinality(Popping)
RoomSeen   == notFull # {} /\ ~stopped =>
                Capacity - count <= Cardinality(Notifying("popNotify")) + Cardinality(Pushing)

\* Nobody who watches the frames, or the room, goes away; nothing is added to watch.
LEMMA FramesWatched ==
  ASSUME TypeOK, FramesSeen, count' = count, notEmpty' # {} => notEmpty # {},
         Popping \subseteq Popping', Notifying("pushNotify") \subseteq Notifying("pushNotify")'
  PROVE  FramesSeen'
<1>1. /\ Cardinality(Popping) <= Cardinality(Popping')
      /\ Cardinality(Notifying("pushNotify")) <= Cardinality(Notifying("pushNotify")')
  BY SetsTyped, CountGrows DEF Sets
<1>2. /\ Cardinality(Popping) \in Nat /\ Cardinality(Popping') \in Nat
      /\ Cardinality(Notifying("pushNotify")) \in Nat
      /\ Cardinality(Notifying("pushNotify")') \in Nat
  BY SetsTyped, ThreadsFinite DEF Sets
<1>3. QED
  BY <1>1, <1>2, CapacityAssumption DEF FramesSeen, TypeOK

LEMMA RoomWatched ==
  ASSUME TypeOK, RoomSeen, count' = count, notFull' # {} => notFull # {}, ~stopped' => ~stopped,
         Pushing \subseteq Pushing', Notifying("popNotify") \subseteq Notifying("popNotify")'
  PROVE  RoomSeen'
<1>1. /\ Cardinality(Pushing) <= Cardinality(Pushing')
      /\ Cardinality(Notifying("popNotify")) <= Cardinality(Notifying("popNotify")')
  BY SetsTyped, CountGrows DEF Sets
<1>2. /\ Cardinality(Pushing) \in Nat /\ Cardinality(Pushing') \in Nat
      /\ Cardinality(Notifying("popNotify")) \in Nat
      /\ Cardinality(Notifying("popNotify")') \in Nat
  BY SetsTyped, ThreadsFinite DEF Sets
<1>3. QED
  BY <1>1, <1>2, CapacityAssumption DEF RoomSeen, TypeOK

\* An empty queue needs nobody to watch its frames, a full one nobody to watch its room.
LEMMA NothingToSee ==
  /\ count' = 0 => FramesSeen'
  /\ count' = Capacity \/ stopped' => RoomSeen'
<1>1. /\ Cardinality(Popping') \in Nat /\ Cardinality(Notifying("pushNotify")') \in Nat
      /\ Cardinality(Pushing') \in Nat /\ Cardinality(Notifying("popNotify")') \in Nat
  BY SetsTyped, ThreadsFinite DEF Sets
<1>2. QED
  BY <1>1, CapacityAssumption DEF FramesSeen, RoomSeen

LEMMA FramesSeenStep ==
  ASSUME QueueInv, FramesSeen, [Next]_qvars
  PROVE  FramesSeen'
<1> USE ThreadsAssumption DEF ring, waiting, local, results, Threads
<1>0. TypeOK
  BY DEF QueueInv
<1>1. CASE Begin
  BY <1>0, <1>1, FramesWatched
  DEF Begin, BeginPush, BeginPop, BeginStop, Goto, Popping, Notifying, TypeOK
<1>2. ASSUME NEW p \in Producers, PushStep(p) PROVE FramesSeen'
  <2>1. CASE PushLock(p) \/ PushTest(p) \/ PushSleep(p) \/ PushRefused(p)
    BY <1>0, <2>1, FramesWatched
    DEF PushLock, PushTest, PushSleep, PushRefused, Return, Goto, Popping, Notifying, TypeOK
  <2>2. CASE PushBody(p)
    <3>1. p \notin Notifying("pushNotify")
          /\ Notifying("pushNotify")' = Notifying("pushNotify") \cup {p}
      BY <1>0, <2>2 DEF PushBody, Goto, Notifying, TypeOK
    <3>2. Popping' = Popping
      BY <1>0, <2>2 DEF PushBody, Goto, Popping, TypeOK
    <3>3. Cardinality(Notifying("pushNotify")') = Cardinality(Notifying("pushNotify")) + 1
      BY <3>1, SetsTyped, CountJoins DEF Sets
    <3>4. Cardinality(Popping) \in Nat /\ Cardinality(Notifying("pushNotify")) \in Nat
      BY SetsTyped, ThreadsFinite DEF Sets
    <3>5. count' = count + 1 /\ notEmpty' = notEmpty /\ count \in Nat
      BY <1>0, <2>2, CapacityAssumption DEF PushBody, TypeOK
    <3>6. QED
      BY <3>2, <3>3, <3>4, <3>5 DEF FramesSeen
  <2>3. CASE PushNotify(p)
    <3>1. CASE notEmpty = {}
      BY <2>3, <3>1 DEF PushNotify, NotifyOne, FramesSeen
    <3>2. CASE notEmpty # {}
      <4>1. PICK t \in notEmpty : pc' = [pc EXCEPT ![t] = "popLock", ![p] = "idle"]
        BY <2>3, <3>2 DEF PushNotify, NotifyOne
      <4>2. t \in Threads /\ pc[t] = "popAsleep" /\ p \in Threads /\ pc[p] = "pushNotify"
        BY <1>0, <2>3, <4>1 DEF QueueInv, LockInv, TypeOK, PushNotify, NotifyOne
      <4>3. p \in Notifying("pushNotify")
            /\ Notifying("pushNotify")' = Notifying("pushNotify") \ {p}
        BY <1>0, <4>1, <4>2 DEF Notifying, TypeOK
      <4>4. t \notin Popping /\ Popping' = Popping \cup {t}
        BY <1>0, <4>1, <4>2 DEF Popping, TypeOK
      <4>5. Cardinality(Notifying("pushNotify")') = Cardinality(Notifying("pushNotify")) - 1
        BY <4>3, SetsTyped, CountLeaves DEF Sets
      <4>6. Cardinality(Popping') = Cardinality(Popping) + 1
        BY <4>4, SetsTyped, CountJoins DEF Sets
      <4>7. Cardinality(Popping) \in Nat /\ Cardinality(Notifying("pushNotify")) \in Nat
        BY SetsTyped, ThreadsFinite DEF Sets
      <4>8. count' = count /\ count \in Nat
        BY <1>0, <2>3, CapacityAssumption DEF PushNotify, TypeOK
      <4>9. QED
        BY <3>2, <4>5, <4>6, <4>7, <4>8 DEF FramesSeen
    <3>3. QED
      BY <3>1, <3>2
  <2>4. QED
    BY <1>2, <2>1, <2>2, <2>3 DEF PushStep
<1>3. ASSUME NEW c \in Consumers, PopStep(c) PROVE FramesSeen'
  <2>1. CASE PopLock(c)
    BY <1>0, <2>1, FramesWatched DEF PopLock, Goto, Popping, Notifying, TypeOK
  <2>2. CASE PopTest(c)
    <3>1. CASE count > 0 \/ stopped
      BY <1>0, <2>2, <3>1, FramesWatched DEF PopTest, Goto, Popping, Notifying, TypeOK
    <3>2. CASE ~(count > 0 \/ stopped)
      BY <1>0, <2>2, <3>2, NothingToSee, CapacityAssumption DEF PopTest, TypeOK
    <3>3. QED
      BY <3>1, <3>2
  <2>3. CASE PopSleep(c)
    BY <2>3, NothingToSee DEF PopSleep, Goto, QueueInv, LockInv
  <2>4. CASE PopEnds(c)
    BY <2>4, NothingToSee DEF PopEnds, Drained
  <2>5. CASE PopBody(c)
    <3>1. c \in Popping /\ Popping' = Popping \ {c}
      BY <1>0, <2>5 DEF PopBody, Goto, Popping, TypeOK
    <3>2. Notifying("pushNotify")' = Notifying("pushNotify")
      BY <1>0, <2>5 DEF PopBody, Goto, Notifying, TypeOK
    <3>3. Cardinality(Popping') = Cardinality(Popping) - 1
      BY <3>1, SetsTyped, CountLeaves DEF Sets
    <3>4. Cardinality(Popping) \in Nat /\ Cardinality(Notifying("pushNotify")) \in Nat
      BY SetsTyped, ThreadsFinite DEF Sets
    <3>5. count' = count - 1 /\ notEmpty' = notEmpty /\ count \in Nat
      BY <1>0, <2>5, CapacityAssumption DEF PopBody, TypeOK
    <3>6. QED
      BY <3>2, <3>3, <3>4, <3>5 DEF FramesSeen
  <2>6. CASE PopNotify(c)
    <3>1. ASSUME NEW t \in notFull PROVE t \in Threads /\ pc[t] = "pushAsleep"
      BY <1>0, <3>1 DEF QueueInv, LockInv, TypeOK
    <3>2. Popping \subseteq Popping' /\ Notifying("pushNotify") \subseteq Notifying("pushNotify")'
      BY <1>0, <2>6, <3>1 DEF PopNotify, NotifyOne, Goto, Popping, Notifying, TypeOK
    <3>3. QED
      BY <1>0, <2>6, <3>2, FramesWatched DEF PopNotify
  <2>7. QED
    BY <1>3, <2>1, <2>2, <2>3, <2>4, <2>5, <2>6 DEF PopStep
<1>4. ASSUME NEW t \in Threads, StopFull(t) PROVE FramesSeen'
  <2>1. \A u \in notFull : pc[u] = "pushAsleep"
    BY <1>0 DEF QueueInv, LockInv, TypeOK
  <2>2. Popping \subseteq Popping' /\ Notifying("pushNotify") \subseteq Notifying("pushNotify")'
    BY <1>0, <1>4, <2>1 DEF StopFull, NotifyAll, Popping, Notifying, TypeOK
  <2>3. QED
    BY <1>0, <1>4, <2>2, FramesWatched DEF StopFull
<1>5. ASSUME NEW t \in Threads, StopEmpty(t) PROVE FramesSeen'
  BY <1>5 DEF StopEmpty, NotifyAll, FramesSeen
<1>6. ASSUME NEW t \in Threads, SpuriousWake(t) PROVE FramesSeen'
  BY <1>0, <1>6, FramesWatched DEF SpuriousWake, Goto, Popping, Notifying, TypeOK
<1>7. CASE UNCHANGED qvars
  BY <1>0, <1>7, FramesWatched DEF qvars, Popping, Notifying
<1>8. QED
  BY <1>1, <1>2, <1>3, <1>4, <1>5, <1>6, <1>7 DEF Next, StopStep

LEMMA RoomSeenStep ==
  ASSUME QueueInv, RoomSeen, [Next]_qvars
  PROVE  RoomSeen'
<1> USE ThreadsAssumption DEF ring, waiting, local, results, Threads
<1>0. TypeOK
  BY DEF QueueInv
<1>1. CASE Begin
  BY <1>0, <1>1, RoomWatched
  DEF Begin, BeginPush, BeginPop, BeginStop, Goto, Pushing, Notifying, TypeOK
<1>2. ASSUME NEW c \in Consumers, PopStep(c) PROVE RoomSeen'
  <2>1. CASE PopLock(c) \/ PopTest(c) \/ PopSleep(c) \/ PopEnds(c)
    BY <1>0, <2>1, RoomWatched
    DEF PopLock, PopTest, PopSleep, PopEnds, Return, Goto, Pushing, Notifying, TypeOK
  <2>2. CASE PopBody(c)
    <3>1. c \notin Notifying("popNotify")
          /\ Notifying("popNotify")' = Notifying("popNotify") \cup {c}
      BY <1>0, <2>2 DEF PopBody, Goto, Notifying, TypeOK
    <3>2. Pushing' = Pushing
      BY <1>0, <2>2 DEF PopBody, Goto, Pushing, TypeOK
    <3>3. Cardinality(Notifying("popNotify")') = Cardinality(Notifying("popNotify")) + 1
      BY <3>1, SetsTyped, CountJoins DEF Sets
    <3>4. Cardinality(Pushing) \in Nat /\ Cardinality(Notifying("popNotify")) \in Nat
      BY SetsTyped, ThreadsFinite DEF Sets
    <3>5. count' = count - 1 /\ notFull' = notFull /\ stopped' = stopped /\ count \in Nat
      BY <1>0, <2>2, CapacityAssumption DEF PopBody, TypeOK
    <3>6. QED
      BY <3>2, <3>3, <3>4, <3>5, CapacityAssumption DEF RoomSeen
  <2>3. CASE PopNotify(c)
    <3>1. CASE notFull = {}
      BY <2>3, <3>1 DEF PopNotify, NotifyOne, RoomSeen
    <3>2. CASE notFull # {}
      <4>1. PICK t \in notFull : pc' = [pc EXCEPT ![t] = "pushLock", ![c] = "idle"]
        BY <2>3, <3>2 DEF PopNotify, NotifyOne
      <4>2. t \in Threads /\ pc[t] = "pushAsleep" /\ c \in Threads /\ pc[c] = "popNotify"
        BY <1>0, <2>3, <4>1 DEF QueueInv, LockInv, TypeOK, PopNotify, NotifyOne
      <4>3. c \in Notifying("popNotify")
            /\ Notifying("popNotify")' = Notifying("popNotify") \ {c}
        BY <1>0, <4>1, <4>2 DEF Notifying, TypeOK
      <4>4. t \notin Pushing /\ Pushing' = Pushing \cup {t}
        BY <1>0, <4>1, <4>2 DEF Pushing, TypeOK
      <4>5. Cardinality(Notifying("popNotify")') = Cardinality(Notifying("popNotify")) - 1
        BY <4>3, SetsTyped, CountLeaves DEF Sets
      <4>6. Cardinality(Pushing') = Cardinality(Pushing) + 1
        BY <4>4, SetsTyped, CountJoins DEF Sets
      <4>7. Cardinality(Pushing) \in Nat /\ Cardinality(Notifying("popNotify")) \in Nat
        BY SetsTyped, ThreadsFinite DEF Sets
      <4>8. count' = count /\ stopped' = stopped /\ count \in Nat
        BY <1>0, <2>3, CapacityAssumption DEF PopNotify, TypeOK
      <4>9. QED
        BY <3>2, <4>5, <4>6, <4>7, <4>8, CapacityAssumption DEF RoomSeen
    <3>3. QED
      BY <3>1, <3>2
  <2>4. QED
    BY <1>2, <2>1, <2>2, <2>3 DEF PopStep
<1>3. ASSUME NEW p \in Producers, PushStep(p) PROVE RoomSeen'
  <2>1. CASE PushLock(p)
    BY <1>0, <2>1, RoomWatched DEF PushLock, Goto, Pushing, Notifying, TypeOK
  <2>2. CASE PushTest(p)
    <3>1. CASE HasRoom \/ stopped
      BY <1>0, <2>2, <3>1, RoomWatched DEF PushTest, Goto, Pushing, Notifying, TypeOK
    <3>2. CASE ~(HasRoom \/ stopped)
      BY <1>0, <2>2, <3>2, NothingToSee, CapacityAssumption DEF PushTest, HasRoom, TypeOK
    <3>3. QED
      BY <3>1, <3>2
  <2>3. CASE PushSleep(p)
    BY <2>3, NothingToSee DEF PushSleep, Goto, QueueInv, LockInv
  <2>4. CASE PushRefused(p)
    BY <2>4, NothingToSee DEF PushRefused
  <2>5. CASE PushBody(p)
    <3>1. p \in Pushing /\ Pushing' = Pushing \ {p}
      BY <1>0, <2>5 DEF PushBody, Goto, Pushing, TypeOK
    <3>2. Notifying("popNotify")' = Notifying("popNotify")
      BY <1>0, <2>5 DEF PushBody, Goto, Notifying, TypeOK
    <3>3. Cardinality(Pushing') = Cardinality(Pushing) - 1
      BY <3>1, SetsTyped, CountLeaves DEF Sets
    <3>4. Cardinality(Pushing) \in Nat /\ Cardinality(Notifying("popNotify")) \in Nat
      BY SetsTyped, ThreadsFinite DEF Sets
    <3>5. count' = count + 1 /\ notFull' = notFull /\ stopped' = stopped /\ count \in Nat
      BY <1>0, <2>5, CapacityAssumption DEF PushBody, TypeOK
    <3>6. QED
      BY <3>2, <3>3, <3>4, <3>5, CapacityAssumption DEF RoomSeen
  <2>6. CASE PushNotify(p)
    <3>1. ASSUME NEW t \in notEmpty PROVE t \in Threads /\ pc[t] = "popAsleep"
      BY <1>0, <3>1 DEF QueueInv, LockInv, TypeOK
    <3>2. Pushing \subseteq Pushing' /\ Notifying("popNotify") \subseteq Notifying("popNotify")'
      BY <1>0, <2>6, <3>1 DEF PushNotify, NotifyOne, Goto, Pushing, Notifying, TypeOK
    <3>3. QED
      BY <1>0, <2>6, <3>2, RoomWatched DEF PushNotify
  <2>7. QED
    BY <1>3, <2>1, <2>2, <2>3, <2>4, <2>5, <2>6 DEF PushStep
<1>4. ASSUME NEW t \in Threads, StopFull(t) PROVE RoomSeen'
  BY <1>4 DEF StopFull, NotifyAll, RoomSeen
<1>5. ASSUME NEW t \in Threads, StopEmpty(t) PROVE RoomSeen'
  <2>1. \A u \in notEmpty : pc[u] = "popAsleep"
    BY <1>0 DEF QueueInv, LockInv, TypeOK
  <2>2. Pushing \subseteq Pushing' /\ Notifying("popNotify") \subseteq Notifying("popNotify")'
    BY <1>0, <1>5, <2>1 DEF StopEmpty, NotifyAll, Pushing, Notifying, TypeOK
  <2>3. QED
    BY <1>0, <1>5, <2>2, RoomWatched DEF StopEmpty
<1>6. ASSUME NEW t \in Threads, SpuriousWake(t) PROVE RoomSeen'
  BY <1>0, <1>6, RoomWatched DEF SpuriousWake, Goto, Pushing, Notifying, TypeOK
<1>7. CASE UNCHANGED qvars
  BY <1>0, <1>7, RoomWatched DEF qvars, Pushing, Notifying
<1>8. QED
  BY <1>1, <1>2, <1>3, <1>4, <1>5, <1>6, <1>7 DEF Next, StopStep

\* For any finite number of threads no wakeup is lost: a notification sent after the unlock,
\* perhaps to a thread that finds the queue empty or full again, still leaves somebody who
\* will look at each queued frame and, until Stop() is called, at each free entry.
THEOREM QueueLosesNoWakeup == Spec => []NoLostWakeup
<1>1. Init => FramesSeen /\ RoomSeen
  BY DEF Init, FramesSeen, RoomSeen
<1>2. QueueInv /\ FramesSeen /\ RoomSeen /\ [Next]_qvars => FramesSeen' /\ RoomSeen'
  BY FramesSeenStep, RoomSeenStep
<1>3. FramesSeen /\ RoomSeen => NoLostWakeup
  BY DEF FramesSeen, RoomSeen, NoLostWakeup
<1>4. QED
  BY <1>1, <1>2, <1>3, QueueInvariance, PTL DEF Spec

-----------------------------------------------------------------------------
(* The queue implements the channel.                                         *)

LEMMA EntryIndex ==
  TypeOK => \A i \in 1..Capacity : LET j == (head + i - 1) % Capacity IN
              /\ j \in Slots
              /\ Offset(j) = i - 1
<1> SUFFICES ASSUME TypeOK, NEW i \in 1..Capacity
             PROVE  /\ (head + i - 1) % Capacity \in Slots
                    /\ Offset((head + i - 1) % Capacity) = i - 1
  OBVIOUS
<1> DEFINE j == (head + i - 1) % Capacity
<1>1. head \in 0..(Capacity - 1)
  BY DEF TypeOK, Slots
<1>2. j = IF head + i - 1 < Capacity THEN head + i - 1 ELSE head + i - 1 - Capacity
  BY <1>1, CapacityAssumption, SMT
<1>3. j \in Slots
  BY <1>1, <1>2, CapacityAssumption DEF Slots
<1>4. Offset(j) = IF j >= head THEN j - head ELSE j + Capacity - head
  BY <1>3, OffsetTyped
<1> HIDE DEF j
<1>5. Offset(j) = i - 1
  BY <1>1, <1>2, <1>4, CapacityAssumption
<1>6. QED
  BY <1>3, <1>5 DEF j

\* The queued frames are a sequence of frames, as long as count_ says.
QueuedSeq == /\ Queued \in Seq(Frames)
             /\ Len(Queued) = count
             /\ \A i \in 1..count : Queued[i] = buffer[(head + i - 1) % Capacity]

LEMMA QueuedTyped == QueueInv => QueuedSeq
<1> SUFFICES ASSUME QueueInv PROVE QueuedSeq
  OBVIOUS
<1>1. count \in Nat /\ count <= Capacity
  BY CapacityAssumption DEF QueueInv, TypeOK
<1>2. ASSUME NEW i \in 1..count PROVE buffer[(head + i - 1) % Capacity] \in Frames
  <2> DEFINE j == (head + i - 1) % Capacity
  <2>1. j \in Slots /\ Offset(j) = i - 1
    BY <1>1, EntryIndex, CapacityAssumption DEF QueueInv
  <2> HIDE DEF j
  <2>2. buffer[j] # NoFrame
    BY <1>1, <2>1 DEF QueueInv, RingInv
  <2>3. QED
    BY <2>1, <2>2 DEF j, QueueInv, TypeOK
<1>3. Queued \in [1..count -> Frames]
  BY <1>2 DEF Queued
<1>4. Queued \in Seq(Frames)
  BY <1>1, <1>3, SeqDef
<1>5. QED
  BY <1>1, <1>3, <1>4, LenProperties DEF Queued, QueuedSeq

\* A push appends its frame to the queued ones.
LEMMA PushAppends ==
  ASSUME QueueInv, QueueInv', NEW p \in Producers, PushBody(p)
  PROVE  Len(Queued) < Capacity /\ Queued' = Append(Queued, arg[p])
<1>1. count < Capacity /\ count \in Nat /\ arg[p] \in Frames
  BY DEF QueueInv, BodyInv, RoleInv, TypeOK, PushBody, Goto, Threads
<1>2. /\ Queued \in Seq(Frames) /\ Len(Queued) = count
      /\ \A i \in 1..count : Queued[i] = buffer[(head + i - 1) % Capacity]
  BY QueuedTyped DEF QueuedSeq
<1>3. /\ Queued' \in Seq(Frames) /\ Len(Queued') = count'
      /\ \A i \in 1..count' : Queued'[i] = buffer'[(head' + i - 1) % Capacity]
  <2>1. QueuedSeq'
    BY QueuedTyped, PTL
  <2>2. QED
    BY <2>1 DEF QueuedSeq
<1>4. /\ Append(Queued, arg[p]) \in Seq(Frames)
      /\ Len(Append(Queued, arg[p])) = count + 1
      /\ \A i \in 1..count : Append(Queued, arg[p])[i] = Queued[i]
      /\ Append(Queued, arg[p])[count + 1] = arg[p]
  BY <1>1, <1>2, AppendProperties
<1>5. head' = head /\ count' = count + 1 /\ tail = (head + count) % Capacity
      /\ buffer' = [buffer EXCEPT ![tail] = arg[p]]
  BY DEF PushBody, QueueInv, RingInv
<1>6. ASSUME NEW i \in 1..count PROVE Queued'[i] = Append(Queued, arg[p])[i]
  <2> DEFINE j == (head + i - 1) % Capacity
  <2>1. j \in Slots /\ Offset(j) = i - 1
    BY <1>1, EntryIndex, CapacityAssumption DEF QueueInv
  <2>2. Queued'[i] = buffer'[j] /\ Queued[i] = buffer[j]
    BY <1>1, <1>2, <1>3, <1>5
  <2> HIDE DEF j
  <2>3. j # tail
    BY <1>1, <1>5, <2>1, OffsetTail DEF QueueInv
  <2>4. QED
    BY <1>4, <1>5, <2>1, <2>2, <2>3 DEF QueueInv, TypeOK
<1>7. Queued'[count + 1] = arg[p]
  <2>1. Queued'[count + 1] = buffer'[(head + (count + 1) - 1) % Capacity]
    BY <1>1, <1>3, <1>5
  <2>2. head + (count + 1) - 1 = head + count /\ tail \in Slots
    BY <1>1, CapacityAssumption DEF QueueInv, TypeOK, Slots
  <2>3. QED
    BY <1>5, <2>1, <2>2 DEF QueueInv, TypeOK
<1>8. \A i \in 1..(count + 1) : Queued'[i] = Append(Queued, arg[p])[i]
  BY <1>1, <1>4, <1>6, <1>7
<1>9. QED
  BY <1>1, <1>2, <1>3, <1>4, <1>5, <1>8, SeqEqual

\* A pop takes the oldest frame.
LEMMA PopTakesHead ==
  ASSUME QueueInv, QueueInv', NEW c \in Consumers, PopBody(c)
  PROVE  Queued # <<>> /\ buffer[head] = Head(Queued) /\ Queued' = Tail(Queued)
<1>1. count > 0 /\ count \in Nat /\ count <= Capacity
  BY PopBodyRing, CapacityAssumption DEF QueueInv, TypeOK
<1>2. /\ Queued \in Seq(Frames) /\ Len(Queued) = count
      /\ \A i \in 1..count : Queued[i] = buffer[(head + i - 1) % Capacity]
  BY QueuedTyped DEF QueuedSeq
<1>3. /\ Queued' \in Seq(Frames) /\ Len(Queued') = count'
      /\ \A i \in 1..count' : Queued'[i] = buffer'[(head' + i - 1) % Capacity]
  <2>1. QueuedSeq'
    BY QueuedTyped, PTL
  <2>2. QED
    BY <2>1 DEF QueuedSeq
<1>4. Queued # <<>>
  BY <1>1, <1>2, EmptySeq
<1>5. /\ Tail(Queued) \in Seq(Frames) /\ Len(Tail(Queued)) = count - 1
      /\ \A i \in 1..(count - 1) : Tail(Queued)[i] = Queued[i + 1]
  BY <1>2, <1>4, HeadTailProperties
<1>6. buffer[head] = Head(Queued)
  <2>1. Queued[1] = buffer[(head + 1 - 1) % Capacity]
    BY <1>1, <1>2
  <2>2. (head + 1 - 1) % Capacity = head
    <3>1. head \in 0..(Capacity - 1)
      BY DEF QueueInv, TypeOK, Slots
    <3>2. QED
      BY <3>1, CapacityAssumption, SMT
  <2>3. QED
    BY <2>1, <2>2, <1>2, <1>4
<1>7. head' = Succ(head) /\ count' = count - 1 /\ buffer' = [buffer EXCEPT ![head] = NoFrame]
  BY DEF PopBody
<1>8. ASSUME NEW i \in 1..(count - 1) PROVE Queued'[i] = Tail(Queued)[i]
  <2> DEFINE j == (head + (i + 1) - 1) % Capacity
  <2>1. j \in Slots /\ Offset(j) = i
    <3>1. i + 1 \in 1..Capacity /\ (i + 1) - 1 = i
      BY <1>1, CapacityAssumption
    <3>2. QED
      BY <3>1, EntryIndex DEF QueueInv
  <2>2. Queued[i + 1] = buffer[j]
    BY <1>1, <1>2
  <2>3. (head' + i - 1) % Capacity = j
    <3>1. head \in 0..(Capacity - 1)
      BY DEF QueueInv, TypeOK, Slots
    <3>2. head' = IF head = Capacity - 1 THEN 0 ELSE head + 1
      BY <1>7, <3>1, CapacityAssumption, SMT DEF Succ
    <3>3. QED
      BY <1>1, <3>1, <3>2, CapacityAssumption, SMT
  <2>4. Queued'[i] = buffer'[j]
    BY <1>1, <1>3, <1>7, <2>3
  <2> HIDE DEF j
  <2>5. j # head
    <3>1. head \in Slots /\ Offset(head) = 0
      BY OffsetTyped DEF QueueInv, TypeOK, Slots
    <3>2. QED
      BY <2>1, <3>1
  <2>6. QED
    BY <1>5, <1>7, <2>1, <2>2, <2>4, <2>5 DEF QueueInv, TypeOK
<1>9. Queued' = Tail(Queued)
  BY <1>1, <1>3, <1>5, <1>7, <1>8, SeqEqual
<1>10. QED
  BY <1>4, <1>6, <1>9

LEMMA ChannelStep ==
  ASSUME QueueInv, QueueInv', [Next]_qvars
  PROVE  [Channel!Next]_(Channel!chvars)
<1> USE DEF Channel!Threads, Threads, Channel!chvars, results
<1>1. ASSUME UNCHANGED ring PROVE UNCHANGED Queued
  BY <1>1 DEF ring, Queued
<1>2. ASSUME NEW t \in Threads, UNCHANGED <<ring, stopped>>, ret' = [ret EXCEPT ![t] = "none"],
             out' \in {out, [out EXCEPT ![t] = NoFrame]}
      PROVE  Channel!Next
  BY <1>1, <1>2 DEF Channel!Forget, Channel!Next
<1>3. ASSUME UNCHANGED <<ring, stopped, results>> PROVE UNCHANGED Channel!chvars
  BY <1>1, <1>3
<1>4. CASE Begin
  <2>1. ASSUME NEW p \in Producers, NEW f \in Frames, BeginPush(p, f) PROVE Channel!Next
    BY <1>2, <2>1 DEF BeginPush
  <2>2. ASSUME NEW c \in Consumers, BeginPop(c) PROVE Channel!Next
    BY <1>2, <2>2 DEF BeginPop
  <2>3. ASSUME NEW t \in Threads, BeginStop(t) PROVE Channel!Next
    BY <1>1, <2>3 DEF BeginStop, Channel!Close, Channel!Next
  <2>4. QED
    BY <1>4, <2>1, <2>2, <2>3 DEF Begin
<1>5. ASSUME NEW p \in Producers, PushStep(p) PROVE [Channel!Next]_(Channel!chvars)
  <2>1. CASE PushRefused(p)
    BY <1>1, <2>1 DEF PushRefused, Return, Channel!RefusePush, Channel!Next
  <2>2. CASE PushBody(p)
    <3>1. arg[p] \in Frames
      BY <2>2 DEF QueueInv, RoleInv, PushBody, Goto
    <3>2. Channel!Push(p, arg[p])
      BY <2>2, PushAppends DEF PushBody, Channel!Push
    <3>3. QED
      BY <3>1, <3>2 DEF Channel!Next
  <2>3. CASE PushLock(p) \/ PushTest(p) \/ PushSleep(p) \/ PushNotify(p)
    BY <1>3, <2>3 DEF PushLock, PushTest, PushSleep, PushNotify
  <2>4. QED
    BY <1>5, <2>1, <2>2, <2>3 DEF PushStep
<1>6. ASSUME NEW c \in Consumers, PopStep(c) PROVE [Channel!Next]_(Channel!chvars)
  <2>1. CASE PopEnds(c)
    <3>1. Queued = <<>>
      BY <2>1, QueuedTyped, EmptySeq DEF QueuedSeq, PopEnds, Drained
    <3>2. QED
      BY <1>1, <2>1, <3>1 DEF PopEnds, Return, Channel!EndPop, Channel!Next
  <2>2. CASE PopBody(c)
    <3>1. Channel!Pop(c)
      BY <2>2, PopTakesHead DEF PopBody, Channel!Pop
    <3>2. QED
      BY <3>1 DEF Channel!Next
  <2>3. CASE PopLock(c) \/ PopTest(c) \/ PopSleep(c) \/ PopNotify(c)
    BY <1>3, <2>3 DEF PopLock, PopTest, PopSleep, PopNotify
  <2>4. QED
    BY <1>6, <2>1, <2>2, <2>3 DEF PopStep
<1>7. ASSUME NEW t \in Threads, StopStep(t) \/ SpuriousWake(t)
      PROVE  UNCHANGED Channel!chvars
  BY <1>3, <1>7 DEF StopStep, StopFull, StopEmpty, SpuriousWake
<1>8. CASE UNCHANGED qvars
  BY <1>3, <1>8 DEF qvars, local
<1>9. QED
  BY <1>4, <1>5, <1>6, <1>7, <1>8 DEF Next

\* For any capacity, any frames and any number of threads, the queue is a bounded FIFO
\* channel: every pop returns the oldest frame pushed and not yet popped, a push is refused
\* only after Stop(), and a pop comes back empty-handed only after Stop(), once drained.
THEOREM QueueImplementsChannel == Spec => ImplementsChannel
<1>1. Init => Channel!Init
  <2>1. Init => Queued = <<>>
    BY QueueInit, QueuedTyped, EmptySeq DEF QueuedSeq, Init
  <2>2. QED
    BY <2>1 DEF Init, Channel!Init, Channel!Threads, Threads
<1>2. QueueInv /\ QueueInv' /\ [Next]_qvars => [Channel!Next]_(Channel!chvars)
  BY ChannelStep
<1>3. QED
  BY <1>1, <1>2, QueueInvariance, PTL DEF Spec, Channel!Spec, ImplementsChannel
================================================================================
