----------------------------- MODULE VideoPipeline -----------------------------
(***************************************************************************)
(* RunVideo() of capture/CaptureSession.cpp: the producer thread acquires  *)
(* frames into a pool of textures and pushes them into a FrameQueue; the   *)
(* worker thread of the capture pops them and hands them to VideoCapture   *)
(* (VideoCapture.cpp), whose sink writer keeps references to the textures  *)
(* for a while.  The queue is the module FrameQueue, step by step.         *)
(*                                                                         *)
(* Frame 0 is pushed before the producer thread exists; that push goes     *)
(* under the producer's name.  Media Foundation is external: it releases   *)
(* samples in order and WriteSample() blocks at MaxInFlight of them.       *)
(***************************************************************************)
EXTENDS Naturals, FiniteSets, Sequences

CONSTANTS Producer, Worker,  \* the two threads
          TotalFrames,       \* totalFrames
          Capacity,          \* kQueueCapacity
          MaxInFlight,       \* samples the sink writer holds before it throttles
          NoThread, NoFrame

ASSUME FramesAssumption   == TotalFrames \in Nat \ {0}
ASSUME CapacityAssumption == Capacity \in Nat \ {0}
ASSUME ThrottleAssumption == MaxInFlight \in Nat \ {0}
ASSUME ThreadsAssumption  == Producer # Worker /\ NoThread \notin {Producer, Worker}

PoolSize == Capacity + 4     \* kPoolSize
Slots    == 0..(PoolSize - 1)

\* A queued frame: the pool slot of its texture, its index and its capture time.
Entries == [slot : Slots, index : 0..(TotalFrames - 1), time : 0..(2 * TotalFrames)]
ASSUME EntryAssumption == NoFrame \notin Entries

VARIABLES
  lock, buffer, head, tail, count, stopped, notFull, notEmpty, pc, arg, ret, out, \* frameQueue
  prod,          \* the producer thread: where it is
  f,             \* its loop index
  clock,         \* capture time of the last frame it acquired
  poolIndex,     \* copies made so far
  pool,          \* texturePool: the index of the frame in each slot
  producerDone, producerError,
  main,          \* the worker thread: where it is
  frame,         \* the frame it encodes
  consumerError,
  last,          \* the last sample written, with its sample time; NoFrame before
  encoded,       \* m_frameCount
  inFlight,      \* the samples the sink writer holds, oldest first
  file,          \* the output file
  result,        \* what RunVideo() returned
  cancelled,     \* the token has been cancelled
  late           \* samples written after that

Q == INSTANCE FrameQueue WITH Producers <- {Producer}, Consumers <- {Worker}, Frames <- Entries

queueing  == <<lock, buffer, head, tail, count, stopped, notFull, notEmpty, pc, arg, ret, out>>
producing == <<prod, f, clock, poolIndex, pool, producerDone, producerError>>
writing   == <<last, encoded, inFlight, late>>
consuming == <<main, frame, consumerError, writing, file, result>>
vars      == <<queueing, producing, consuming, cancelled>>

TypeOK ==
  /\ Q!TypeOK
  /\ prod \in {"none", "loop", "copy", "pushing", "finish", "leaving", "exited"}
  /\ f \in 1..TotalFrames
  /\ clock \in 0..TotalFrames
  /\ poolIndex \in 0..TotalFrames
  /\ pool \in [Slots -> 0..(TotalFrames - 1)]
  /\ producerDone \in BOOLEAN /\ producerError \in BOOLEAN
  /\ main \in {"setup", "first", "loop", "popping", "encode", "join", "check", "returned"}
  /\ frame \in Entries \cup {NoFrame}
  /\ consumerError \in BOOLEAN
  /\ last \in Entries \cup {NoFrame}
  /\ encoded \in 0..TotalFrames
  /\ inFlight \in Seq(Entries) /\ Len(inFlight) <= MaxInFlight
  /\ file \in {"absent", "open", "closed"}
  /\ result \in {"none", "SUCCESS", "CANCELLED", "ERROR"}
  /\ cancelled \in BOOLEAN
  /\ late \in 0..TotalFrames

Init ==
  /\ Q!Init
  /\ prod = "none" /\ f = 1 /\ clock = 0 /\ poolIndex = 0
  /\ pool = [s \in Slots |-> 0]
  /\ producerDone = FALSE /\ producerError = FALSE
  /\ main = "setup" /\ frame = NoFrame /\ consumerError = FALSE
  /\ last = NoFrame /\ encoded = 0 /\ inFlight = <<>> /\ late = 0
  /\ file = "absent" /\ result = "none"
  /\ cancelled = FALSE

-----------------------------------------------------------------------------
(* An operator marked "defect" is a plausible error of the one after it.     *)

\* The loop goes on with the next frame.
NextFrame == f + 1

PoolSlot_QueueSized(n) == n % Capacity     \* defect: a pool as large as the queue
\* The slot that copy n goes to.
PoolSlot(n) == n % PoolSize

CancelSeen_Never == FALSE                  \* defect: the producer never looks at the token
\* A check of the token by the producer, or by the acquirer for it.
CancelSeen == cancelled

StopQueue_Skipped(t) == UNCHANGED queueing  \* defect: the queue is not stopped
\* Thread t calls frameQueue.Stop(); it goes on when the call is over.
StopQueue(t) == Q!BeginStop(t)

SampleTime_Raw(t) == t                     \* defect: equal capture times are not separated
\* std::max(captureTimeHns, prevSampleTimeHns + 1)
SampleTime(t) == IF last # NoFrame /\ last.time >= t THEN last.time + 1 ELSE t

Joined_Detached == TRUE                    \* defect: detach() for join()
\* producerThread.join() returns.
Joined == prod = "exited"

\* defect: only the error the consumer noticed is reported
Verdict_ConsumerOnly == IF consumerError THEN "ERROR"
                        ELSE IF cancelled THEN "CANCELLED" ELSE "SUCCESS"
\* The checks after the join, in their order.
Verdict == IF consumerError \/ producerError THEN "ERROR"
           ELSE IF cancelled THEN "CANCELLED" ELSE "SUCCESS"

Idle(t) == pc[t] = "idle"
Move(v, l, m) == v = l /\ v' = m

\* The frame with index i, captured at time t, is copied into its pool slot and Push() begins.
CopyAndPush(i, t) ==
  /\ pool' = [pool EXCEPT ![PoolSlot(poolIndex)] = i]
  /\ poolIndex' = poolIndex + 1
  /\ Q!BeginPush(Producer, [slot |-> PoolSlot(poolIndex), index |-> i, time |-> t])

-----------------------------------------------------------------------------
(* Set-up, on the worker thread                                              *)

\* Acquirer, first frame, VideoCapture, scaler or pool fails, or the token is cancelled;
\* Abort() with no frame encoded, or Initialize(), has removed the output file.
SetupFails(r) ==
  /\ Move(main, "setup", "returned")
  /\ r = "CANCELLED" => cancelled
  /\ result' = r
  /\ UNCHANGED <<queueing, producing, frame, consumerError, writing, file, cancelled>>

\* The output file is being written and frame 0 is queued, at time 0.
Setup ==
  /\ Move(main, "setup", "first")
  /\ CopyAndPush(0, 0)
  /\ file' = "open"
  /\ UNCHANGED <<prod, f, clock, producerDone, producerError, frame, consumerError, writing,
                 result, cancelled>>

\* The producer thread is created; nobody can have stopped the queue yet.
Spawn ==
  /\ Move(main, "first", "loop")
  /\ Idle(Producer)
  /\ prod' = "loop"
  /\ UNCHANGED <<queueing, f, clock, poolIndex, pool, producerDone, producerError, frame,
                 consumerError, writing, file, result, cancelled>>

-----------------------------------------------------------------------------
(* The producer thread                                                       *)

\* The token is cancelled: Stop() and return, producerDone stays false ...
StopOnCancel ==
  /\ f < TotalFrames /\ CancelSeen
  /\ Move(prod, "loop", "leaving")
  /\ StopQueue(Producer)
  /\ UNCHANGED <<f, clock, poolIndex, pool, producerDone, producerError, consuming, cancelled>>

\* ... or CheckCancel() of the acquirer throws Cancelled, which is no error.
CancelThrown ==
  /\ f < TotalFrames /\ CancelSeen
  /\ Move(prod, "loop", "finish")
  /\ UNCHANGED <<queueing, f, clock, poolIndex, pool, producerDone, producerError, consuming,
                 cancelled>>

\* More than a frame late: frame f is skipped.  (A frame that is not ready is retried
\* until it is late or acquired.)
DropFrame ==
  /\ prod = "loop" /\ f < TotalFrames /\ ~CancelSeen
  /\ f' = NextFrame
  /\ UNCHANGED <<queueing, prod, clock, poolIndex, pool, producerDone, producerError, consuming,
                 cancelled>>

\* Frame f is acquired at time t; the clock may not have moved.
Acquire(t) ==
  /\ f < TotalFrames /\ ~CancelSeen
  /\ Move(prod, "loop", "copy")
  /\ clock' = t
  /\ UNCHANGED <<queueing, f, poolIndex, pool, producerDone, producerError, consuming, cancelled>>

\* AcquireFrameGPU() or Scale() fails: the error is recorded, Stop() and return.
ProducerFails ==
  /\ f < TotalFrames
  /\ \/ Move(prod, "loop", "leaving") /\ ~CancelSeen
     \/ Move(prod, "copy", "leaving")
  /\ producerError' = TRUE
  /\ StopQueue(Producer)
  /\ UNCHANGED <<f, clock, poolIndex, pool, producerDone, consuming, cancelled>>

\* Any other exception: recorded, Stop(), and on to the end of the thread function.
ProducerThrows ==
  /\ f < TotalFrames
  /\ Move(prod, "loop", "finish") \/ Move(prod, "copy", "finish")
  /\ producerError' = TRUE
  /\ StopQueue(Producer)
  /\ UNCHANGED <<f, clock, poolIndex, pool, producerDone, consuming, cancelled>>

Copy ==
  /\ Move(prod, "copy", "pushing")
  /\ CopyAndPush(f, clock)
  /\ UNCHANGED <<f, clock, producerDone, producerError, consuming, cancelled>>

Pushed ==
  /\ Move(prod, "pushing", "loop")
  /\ Idle(Producer) /\ ret[Producer] = "true"
  /\ f' = NextFrame
  /\ UNCHANGED <<queueing, clock, poolIndex, pool, producerDone, producerError, consuming,
                 cancelled>>

\* Push() was refused, or Stop() has returned.
Leave ==
  /\ \/ Move(prod, "pushing", "exited") /\ ret[Producer] = "false"
     \/ Move(prod, "leaving", "exited")
  /\ Idle(Producer)
  /\ UNCHANGED <<queueing, f, clock, poolIndex, pool, producerDone, producerError, consuming,
                 cancelled>>

EndLoop ==
  /\ f = TotalFrames
  /\ Move(prod, "loop", "finish")
  /\ UNCHANGED <<queueing, f, clock, poolIndex, pool, producerDone, producerError, consuming,
                 cancelled>>

\* producerDone, then Stop().
Finish ==
  /\ Move(prod, "finish", "leaving")
  /\ Idle(Producer)
  /\ producerDone' = TRUE
  /\ StopQueue(Producer)
  /\ UNCHANGED <<f, clock, poolIndex, pool, producerError, consuming, cancelled>>

-----------------------------------------------------------------------------
(* The consumer, on the worker thread                                        *)

CallPop ==
  /\ Move(main, "loop", "popping")
  /\ Q!BeginPop(Worker)
  /\ UNCHANGED <<producing, frame, consumerError, writing, file, result, cancelled>>

PopFrame ==
  /\ Move(main, "popping", "encode")
  /\ Idle(Worker) /\ ret[Worker] = "true"
  /\ frame' = out[Worker]
  /\ UNCHANGED <<queueing, producing, consumerError, writing, file, result, cancelled>>

\* The queue is stopped and drained: a producer's error is taken over, unless the
\* producer is done and the queue empty.
PopEnd ==
  /\ Move(main, "popping", "join")
  /\ Idle(Worker) /\ ret[Worker] = "false"
  /\ consumerError' = (producerError /\ ~(producerDone /\ count = 0))
  /\ UNCHANGED <<queueing, producing, frame, writing, file, result, cancelled>>

\* EncodeFrame(): WriteSample() blocks while the sink writer holds MaxInFlight samples.
Encode ==
  /\ Move(main, "encode", "loop")
  /\ Len(inFlight) < MaxInFlight
  /\ last' = [frame EXCEPT !.time = SampleTime(frame.time)]
  /\ inFlight' = Append(inFlight, frame)
  /\ encoded' = encoded + 1
  /\ late' = IF cancelled THEN late + 1 ELSE late
  /\ UNCHANGED <<queueing, producing, frame, consumerError, file, result, cancelled>>

EncodeFails ==
  /\ Move(main, "encode", "join")
  /\ consumerError' = TRUE
  /\ StopQueue(Worker)
  /\ UNCHANGED <<producing, frame, writing, file, result, cancelled>>

Join ==
  /\ Move(main, "join", "check")
  /\ Idle(Worker) /\ Joined
  /\ UNCHANGED <<queueing, producing, frame, consumerError, writing, file, result, cancelled>>

\* Abort(): the file survives only if frames were encoded and the partial finalize works.
AbortVideo ==
  /\ Move(main, "check", "returned")
  /\ Verdict # "SUCCESS"
  /\ result' = Verdict
  /\ \/ file' = "absent"
     \/ encoded > 0 /\ file' = "closed"
  /\ inFlight' = <<>>
  /\ UNCHANGED <<queueing, producing, frame, consumerError, last, encoded, late, cancelled>>

\* Finalize() works, and the file turns out to be there and not empty, or not.
FinalizeVideo ==
  /\ Move(main, "check", "returned")
  /\ Verdict = "SUCCESS"
  /\ result' \in {"SUCCESS", "ERROR"}
  /\ file' = "closed"
  /\ inFlight' = <<>>
  /\ UNCHANGED <<queueing, producing, frame, consumerError, last, encoded, late, cancelled>>

\* Finalize() fails and removes the file.
FinalizeFails ==
  /\ Move(main, "check", "returned")
  /\ Verdict = "SUCCESS"
  /\ result' = "ERROR"
  /\ file' = "absent"
  /\ inFlight' = <<>>
  /\ UNCHANGED <<queueing, producing, frame, consumerError, last, encoded, late, cancelled>>

-----------------------------------------------------------------------------
(* The environment                                                           *)

\* The user, a menu or a load cancels the capture.
Cancel ==
  /\ ~cancelled /\ main # "returned"
  /\ cancelled' = TRUE
  /\ UNCHANGED <<queueing, producing, consuming>>

\* The encoder is done with the oldest sample.
Release ==
  /\ inFlight # <<>>
  /\ inFlight' = Tail(inFlight)
  /\ UNCHANGED <<queueing, producing, main, frame, consumerError, last, encoded, late, file,
                 result, cancelled>>

-----------------------------------------------------------------------------
ProducerStep == \/ StopOnCancel \/ CancelThrown \/ DropFrame
                \/ \E t \in {clock, clock + 1} : Acquire(t)
                \/ ProducerFails \/ ProducerThrows \/ Copy \/ Pushed \/ Leave
                \/ EndLoop \/ Finish

WorkerStep == \/ Setup \/ Spawn \/ CallPop \/ PopFrame \/ PopEnd \/ Encode \/ EncodeFails
              \/ Join \/ AbortVideo \/ FinalizeVideo \/ FinalizeFails
              \/ \E r \in {"CANCELLED", "ERROR"} : SetupFails(r)

\* The steps inside the calls of the queue.
ProducerQueueStep == /\ Q!PushStep(Producer) \/ Q!StopStep(Producer)
                     /\ UNCHANGED <<producing, consuming, cancelled>>
WorkerQueueStep   == /\ Q!PopStep(Worker) \/ Q!StopStep(Worker)
                     /\ UNCHANGED <<producing, consuming, cancelled>>
SpuriousWake      == /\ Q!SpuriousWake(Producer) \/ Q!SpuriousWake(Worker)
                     /\ UNCHANGED <<producing, consuming, cancelled>>

\* RunVideo() is over.
Stopped == main = "returned" /\ UNCHANGED vars

Next == \/ ProducerStep \/ ProducerQueueStep
        \/ WorkerStep \/ WorkerQueueStep
        \/ SpuriousWake \/ Cancel \/ Release
        \/ Stopped

Spec == Init /\ [][Next]_vars

\* Both threads run and get the queue's mutex in the end, and the encoder finishes its
\* samples.  Nobody has to cancel, and no spurious wakeup is owed.
Fairness == /\ WF_vars(ProducerStep) /\ SF_vars(ProducerQueueStep)
            /\ WF_vars(WorkerStep) /\ SF_vars(WorkerQueueStep)
            /\ WF_vars(Release)

FairSpec == Spec /\ Fairness

-----------------------------------------------------------------------------
(* Properties                                                                *)

Elements(s) == {s[i] : i \in 1..Len(s)}

\* The frames whose texture somebody still has to read.
InUse == Elements(Q!Queued) \cup Elements(inFlight)
           \cup (IF main = "popping" /\ ret[Worker] = "true" THEN {out[Worker]} ELSE {})
           \cup (IF main = "encode" THEN {frame} ELSE {})

\* "the pool is larger than the queue so a slot is not rewritten while an entry
\* referencing it can still be in flight": a texture in use holds the frame it was queued
\* with.
PoolSafe == \A e \in InUse : pool[e.slot] = e.index

\* The samples are written in the order of capture, with strictly increasing times: the
\* sink writer is never given a sample twice, out of order or at an earlier time.
SamplesInOrder ==
  [][last # NoFrame /\ last' # last => last'.index > last.index /\ last'.time > last.time]_vars

\* Success means that every frame copied was encoded, nothing failed and the file is
\* complete; a cancelled or failed video leaves a file only if it holds a frame, and is
\* never reported cancelled unless somebody cancelled it.
ResultIsHonest ==
  /\ result = "SUCCESS" => /\ ~producerError /\ ~consumerError
                           /\ encoded = poolIndex /\ encoded > 0
                           /\ file = "closed"
  /\ result = "CANCELLED" => cancelled
  /\ main = "returned" /\ encoded = 0 => file = "absent"
  /\ main = "returned" => file # "open"

\* The queue, the pool and the error strings are locals of RunVideo(): no thread uses them
\* after it returns.
NothingOutlivesRunVideo ==
  main = "returned" => prod \in {"none", "exited"} /\ Idle(Producer) /\ Idle(Worker)

\* After a cancellation at most the queue, the frame being encoded and the frame being
\* pushed are still written: the capture winds down in bounded time.
CancelIsPrompt == late <= Capacity + 2

\* The stop of the queue was missed by a thread that is asleep.
StopMissed == stopped /\ \E t \in {Producer, Worker} : Q!Asleep(t)

\* Thread t can go on only when another thread has done something: it is asleep in the
\* queue, the queue's mutex is taken, or it joins the other thread.
Waiting(t) == \/ Q!Asleep(t)
              \/ pc[t] \in {"pushLock", "popLock"} /\ lock # NoThread
              \/ t = Worker /\ main = "join" /\ Idle(Worker) /\ ~Joined

\* No thread of RunVideo() can go on.  (While the worker thread pushes frame 0, its place
\* in the queue is the producer's.)
Deadlocked == IF main = "first" THEN Waiting(Producer)
              ELSE Waiting(Worker) /\ (Waiting(Producer) \/ prod \in {"none", "exited"})

\* Nothing but a missed stop brings the two threads to a halt: they never both sleep
\* while the queue is open, neither sleeps when the other has gone, and the join never
\* waits for a producer that waits for room.
OnlyStopDeadlocks == Deadlocked => StopMissed

\* A video ends, by whatever failure, or a thread sleeps through a stop of the queue for
\* ever (a spurious wakeup would end it).
EveryVideoEnds == (main = "first" ~> main = "returned") \/ <>[]StopMissed
================================================================================
