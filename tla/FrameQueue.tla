------------------------------- MODULE FrameQueue -------------------------------
(***************************************************************************)
(* capture/FrameQueue.cpp: the ring buffer between the acquisition thread  *)
(* and the encoder, with its mutex and two condition variables.            *)
(*                                                                         *)
(* wait(lk, pred) is three actions: the predicate is evaluated with the    *)
(* mutex held, the thread then releases the mutex and sleeps in one step,  *)
(* and a notified (or spuriously woken) thread takes the mutex again.      *)
(* Stop() takes no mutex, so it can run between any two of them.           *)
(***************************************************************************)
EXTENDS Naturals, FiniteSets

CONSTANTS Producers, Consumers,  \* threads that call Push(), Pop(); all may call Stop()
          Frames,                \* what is queued: texture, index and timestamp
          Capacity,              \* capacity_
          NoThread,              \* owner of the free mutex
          NoFrame                \* an entry without a texture

ASSUME ThreadsAssumption == /\ Producers \cap Consumers = {}
                            /\ NoThread \notin Producers \cup Consumers
ASSUME FinitelyMany == IsFiniteSet(Producers) /\ IsFiniteSet(Consumers)
ASSUME CapacityAssumption == Capacity \in Nat \ {0}
ASSUME FramesAssumption == NoFrame \notin Frames

Threads == Producers \cup Consumers
Slots   == 0..(Capacity - 1)

VARIABLES
  lock,                      \* owner of mutex_
  buffer, head, tail, count, \* buffer_, head_, tail_, count_
  stopped,                   \* stopped_
  notFull, notEmpty,         \* the threads asleep on notFull_, notEmpty_
  pc,                        \* per thread: where it is
  arg,                       \* per thread: the frame it pushes
  ret, out                   \* per thread: what its last call returned, the frame it popped

ring    == <<buffer, head, tail, count>>
waiting == <<notFull, notEmpty>>
results == <<ret, out>>
local   == <<pc, arg, results>>
qvars   == <<lock, ring, stopped, waiting, local>>

TypeOK ==
  /\ lock \in Threads \cup {NoThread}
  /\ buffer \in [Slots -> Frames \cup {NoFrame}]
  /\ head \in Slots /\ tail \in Slots /\ count \in 0..Capacity
  /\ stopped \in BOOLEAN
  /\ notFull \subseteq Producers /\ notEmpty \subseteq Consumers
  /\ pc \in [Threads -> {"idle", "pushLock", "pushTest", "pushSleep", "pushAsleep", "pushBody",
                         "pushNotify", "popLock", "popTest", "popSleep", "popAsleep", "popBody",
                         "popNotify", "stopFull", "stopEmpty"}]
  /\ arg \in [Threads -> Frames \cup {NoFrame}]
  /\ ret \in [Threads -> {"none", "true", "false"}]
  /\ out \in [Threads -> Frames \cup {NoFrame}]

Init ==
  /\ lock = NoThread
  /\ buffer = [i \in Slots |-> NoFrame]
  /\ head = 0 /\ tail = 0 /\ count = 0
  /\ stopped = FALSE
  /\ notFull = {} /\ notEmpty = {}
  /\ pc = [t \in Threads |-> "idle"]
  /\ arg = [t \in Threads |-> NoFrame]
  /\ ret = [t \in Threads |-> "none"]
  /\ out = [t \in Threads |-> NoFrame]

-----------------------------------------------------------------------------
(* An operator marked "defect" is a plausible error of the one after it.     *)

Goto(t, l, m) == pc[t] = l /\ pc' = [pc EXCEPT ![t] = m]

\* Thread t returns r from label l.
Return(t, l, r) == Goto(t, l, "idle") /\ ret' = [ret EXCEPT ![t] = r]

\* The next ring position.
Succ(i) == (i + 1) % Capacity

HasRoom_OffByOne == count <= Capacity      \* defect: one frame too many
\* A push may go ahead.
HasRoom == count < Capacity

Drained_Ignored == TRUE                    \* defect: Pop gives up although frames are queued
\* Nothing is queued.
Drained == count = 0

\* notify_one() on waiters w, sleeping at label l; they resume at label m.  The caller n
\* goes from label k to idle.
NotifyOne_None(w, l, m, n, k) ==           \* defect: nobody is notified
  w' = w /\ Goto(n, k, "idle")
NotifyOne(w, l, m, n, k) ==
  /\ pc[n] = k
  /\ IF w = {} THEN w' = w /\ Goto(n, k, "idle")
     ELSE \E t \in w : /\ w' = w \ {t}
                       /\ pc' = [pc EXCEPT ![t] = m, ![n] = "idle"]

\* notify_all(): every waiter of w resumes at label m; n goes from label k to label j.
NotifyAll_None(w, m, n, k, j) ==           \* defect: nobody is notified
  w' = w /\ Goto(n, k, j)
NotifyAll(w, m, n, k, j) ==
  /\ pc[n] = k
  /\ w' = {}
  /\ pc' = [t \in Threads |-> IF t = n THEN j ELSE IF t \in w THEN m ELSE pc[t]]

-----------------------------------------------------------------------------
(* Push()                                                                    *)

BeginPush(p, f) ==
  /\ Goto(p, "idle", "pushLock")
  /\ arg' = [arg EXCEPT ![p] = f]
  /\ ret' = [ret EXCEPT ![p] = "none"]
  /\ UNCHANGED <<lock, ring, stopped, waiting, out>>

PushLock(p) ==
  /\ Goto(p, "pushLock", "pushTest")
  /\ lock = NoThread /\ lock' = p
  /\ UNCHANGED <<ring, stopped, waiting, arg, results>>

\* The predicate of notFull_.wait.
PushTest(p) ==
  /\ Goto(p, "pushTest", IF HasRoom \/ stopped THEN "pushBody" ELSE "pushSleep")
  /\ UNCHANGED <<lock, ring, stopped, waiting, arg, results>>

PushSleep(p) ==
  /\ Goto(p, "pushSleep", "pushAsleep")
  /\ notFull' = notFull \cup {p}
  /\ lock' = NoThread
  /\ UNCHANGED <<ring, stopped, notEmpty, arg, results>>

PushRefused(p) ==
  /\ stopped
  /\ Return(p, "pushBody", "false")
  /\ lock' = NoThread
  /\ UNCHANGED <<ring, stopped, waiting, arg, out>>

PushBody(p) ==
  /\ ~stopped
  /\ Goto(p, "pushBody", "pushNotify")
  /\ buffer' = [buffer EXCEPT ![tail] = arg[p]]
  /\ tail' = Succ(tail)
  /\ count' = count + 1
  /\ ret' = [ret EXCEPT ![p] = "true"]
  /\ lock' = NoThread
  /\ UNCHANGED <<head, stopped, waiting, arg, out>>

PushNotify(p) ==
  /\ NotifyOne(notEmpty, "popAsleep", "popLock", p, "pushNotify")
  /\ UNCHANGED <<lock, ring, stopped, notFull, arg, results>>

-----------------------------------------------------------------------------
(* Pop()                                                                     *)

BeginPop(c) ==
  /\ Goto(c, "idle", "popLock")
  /\ ret' = [ret EXCEPT ![c] = "none"]
  /\ out' = [out EXCEPT ![c] = NoFrame]
  /\ UNCHANGED <<lock, ring, stopped, waiting, arg>>

PopLock(c) ==
  /\ Goto(c, "popLock", "popTest")
  /\ lock = NoThread /\ lock' = c
  /\ UNCHANGED <<ring, stopped, waiting, arg, results>>

\* The predicate of notEmpty_.wait.
PopTest(c) ==
  /\ Goto(c, "popTest", IF count > 0 \/ stopped THEN "popBody" ELSE "popSleep")
  /\ UNCHANGED <<lock, ring, stopped, waiting, arg, results>>

PopSleep(c) ==
  /\ Goto(c, "popSleep", "popAsleep")
  /\ notEmpty' = notEmpty \cup {c}
  /\ lock' = NoThread
  /\ UNCHANGED <<ring, stopped, notFull, arg, results>>

PopEnds(c) ==
  /\ Drained /\ stopped
  /\ Return(c, "popBody", "false")
  /\ lock' = NoThread
  /\ UNCHANGED <<ring, stopped, waiting, arg, out>>

PopBody(c) ==
  /\ ~(Drained /\ stopped)
  /\ Goto(c, "popBody", "popNotify")
  /\ ret' = [ret EXCEPT ![c] = "true"]
  /\ out' = [out EXCEPT ![c] = buffer[head]]
  /\ buffer' = [buffer EXCEPT ![head] = NoFrame]
  /\ head' = Succ(head)
  /\ count' = count - 1
  /\ lock' = NoThread
  /\ UNCHANGED <<tail, stopped, waiting, arg>>

PopNotify(c) ==
  /\ NotifyOne(notFull, "pushAsleep", "pushLock", c, "popNotify")
  /\ UNCHANGED <<lock, ring, stopped, notEmpty, arg, results>>

-----------------------------------------------------------------------------
(* Stop(), which takes no mutex, and spurious wakeups                        *)

BeginStop(t) ==
  /\ Goto(t, "idle", "stopFull")
  /\ stopped' = TRUE
  /\ UNCHANGED <<lock, ring, waiting, arg, results>>

StopFull(t) ==
  /\ NotifyAll(notFull, "pushLock", t, "stopFull", "stopEmpty")
  /\ UNCHANGED <<lock, ring, stopped, notEmpty, arg, results>>

StopEmpty(t) ==
  /\ NotifyAll(notEmpty, "popLock", t, "stopEmpty", "idle")
  /\ UNCHANGED <<lock, ring, stopped, notFull, arg, results>>

SpuriousWake(t) ==
  /\ \/ t \in notFull /\ Goto(t, "pushAsleep", "pushLock")
     \/ t \in notEmpty /\ Goto(t, "popAsleep", "popLock")
  /\ notFull' = notFull \ {t} /\ notEmpty' = notEmpty \ {t}
  /\ UNCHANGED <<lock, ring, stopped, arg, results>>

-----------------------------------------------------------------------------
PushStep(p) == \/ PushLock(p) \/ PushTest(p) \/ PushSleep(p)
               \/ PushRefused(p) \/ PushBody(p) \/ PushNotify(p)
PopStep(c)  == \/ PopLock(c) \/ PopTest(c) \/ PopSleep(c)
               \/ PopEnds(c) \/ PopBody(c) \/ PopNotify(c)
StopStep(t) == StopFull(t) \/ StopEmpty(t)

Begin == \/ \E p \in Producers, f \in Frames : BeginPush(p, f)
         \/ \E c \in Consumers : BeginPop(c)
         \/ \E t \in Threads : BeginStop(t)

Next == \/ Begin
        \/ \E p \in Producers : PushStep(p)
        \/ \E c \in Consumers : PopStep(c)
        \/ \E t \in Threads : StopStep(t) \/ SpuriousWake(t)

Spec == Init /\ [][Next]_qvars

\* A thread that is not asleep goes on with the call it is in.  Nothing obliges a thread
\* to begin another call, and no spurious wakeup is owed.
Fairness == /\ \A p \in Producers : SF_qvars(PushStep(p))
            /\ \A c \in Consumers : SF_qvars(PopStep(c))
            /\ \A t \in Threads : WF_qvars(StopStep(t))

FairSpec == Spec /\ Fairness

-----------------------------------------------------------------------------
(* Properties                                                                *)

Asleep(t)  == pc[t] \in {"pushAsleep", "popAsleep"}
Popping    == {t \in Threads : pc[t] \in {"popLock", "popTest", "popBody"}}     \* will look at
Pushing    == {t \in Threads : pc[t] \in {"pushLock", "pushTest", "pushBody"}}  \* count_ again
Notifying(label) == {t \in Threads : pc[t] = label}                       \* will notify
Holding(t) == pc[t] \in {"pushTest", "pushSleep", "pushBody", "popTest", "popSleep", "popBody"}

\* How many entries after head_ entry i comes.
Offset(i) == (i + Capacity - head) % Capacity

\* The entries from head_ on, count_ of them, hold the queued frames, every other entry
\* has released its texture, and tail_ is the next free entry.
RingInv ==
  /\ tail = (head + count) % Capacity
  /\ \A i \in Slots : buffer[i] # NoFrame <=> Offset(i) < count

\* The mutex is held exactly by a thread inside a critical section, a thread is in a wait
\* set exactly while it sleeps, and a thread decides to sleep only on a stale-free test.
LockInv ==
  /\ \A t \in Threads : lock = t <=> Holding(t)
  /\ \A t \in Threads : t \in notFull <=> pc[t] = "pushAsleep"
  /\ \A t \in Threads : t \in notEmpty <=> pc[t] = "popAsleep"
  /\ \A t \in Threads : pc[t] = "pushSleep" => count = Capacity
  /\ \A t \in Threads : pc[t] = "popSleep" => count = 0

\* A wakeup is never lost.  Sleeping consumers are not forgotten: for each queued frame some
\* push has its notification still to send or some pop is about to look again.  Nor are
\* sleeping producers, as long as nobody has called Stop(): the same holds for each free entry.
NoLostWakeup ==
  /\ notEmpty # {} => count <= Cardinality(Notifying("pushNotify")) + Cardinality(Popping)
  /\ notFull # {} /\ ~stopped =>
       Capacity - count <= Cardinality(Notifying("popNotify")) + Cardinality(Pushing)

\* The queued frames, oldest first.
Queued == [i \in 1..count |-> buffer[(head + i - 1) % Capacity]]

\* The queue implements the channel: bounded, in order, nothing lost or duplicated, a
\* push refused only when stopped, a pop empty-handed only when stopped and drained.
Channel == INSTANCE FrameChannel WITH queue <- Queued, closed <- stopped
ImplementsChannel == Channel!Spec

\* A pop under way while a frame is queued returns, with that frame or another.
PopServed == \A c \in Consumers :
               pc[c] \in {"popLock", "popTest", "popSleep", "popAsleep"} /\ count > 0 ~> pc[c] = "idle"

\* Stop() wakes the threads that are asleep when it is called.
StopWakesSleepers ==
  \A t, u \in Threads : pc[u] = "stopFull" /\ Asleep(t) ~> ~Asleep(t)

\* "Signal shutdown - unblocks all waiting Push/Pop calls": once Stop() has been called no
\* thread stays asleep.
StopUnblocks == \A t \in Threads : stopped /\ Asleep(t) ~> ~Asleep(t)
================================================================================
