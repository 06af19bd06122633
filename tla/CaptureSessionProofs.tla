-------------------------- MODULE CaptureSessionProofs --------------------------
(***************************************************************************)
(* Proofs about CaptureSession, for any set of callers and any number of   *)
(* captures.  SessionInv is inductive on its own; TypeOK is proved first.  *)
(***************************************************************************)
EXTENDS CaptureSession, TLAPS

LEMMA NoneTyped == None \in 0..MaxCaptures
  BY CapturesAssumption DEF None

LEMMA ZeroTyped == 0 \in 0..MaxCaptures
  BY CapturesAssumption

LEMMA CaptureTyped == \A w \in Captures : w \in 0..MaxCaptures
  BY CapturesAssumption DEF Captures

LEMMA CancelTyped ==
  ASSUME NEW t \in 0..MaxCaptures, TypeOK, CancelToken(t)
  PROVE  cancelled' \subseteq Captures
  BY CapturesAssumption DEF TypeOK, CancelToken, Captures, None

LEMMA TypeInit == Init => TypeOK
<1> SUFFICES ASSUME Init PROVE TypeOK
  OBVIOUS
<1> USE NoneTyped, ZeroTyped DEF Init
<1>1. /\ pc \in [Callers -> {"out", "wait", "join", "relock", "assign", "request", "copied",
                            "reset", "destroyed"}]
      /\ path \in [Callers -> {"none", "busy", "idle", "cancel", "reset", "dtor"}]
      /\ seen \in [Callers -> 0..MaxCaptures]
  OBVIOUS
<1>2. /\ wpc \in [Captures -> {"none", "created", "entered", "running", "acquired", "encoding",
                              "finished", "callback", "exited"}]
      /\ wtoken \in [Captures -> 0..MaxCaptures]
      /\ wonAcquired \in [Captures -> 0..MaxCaptures]
      /\ wonComplete \in [Captures -> 0..MaxCaptures]
      /\ outcome \in [Captures -> Outcomes \cup {"none"}]
      /\ delivered \in [Captures -> Outcomes \cup {"none"}]
  OBVIOUS
<1>3. terminated \in BOOLEAN
  OBVIOUS
<1>4. QED
  BY <1>1, <1>2, <1>3 DEF TypeOK

LEMMA TypeNext == TypeOK /\ SessionInv /\ [Next]_vars => TypeOK'
<1> SUFFICES ASSUME TypeOK, SessionInv, [Next]_vars PROVE TypeOK'
  OBVIOUS
<1> USE NoneTyped DEF TypeOK, locks, session, callerVars, thread, copies, reports, workerVars
<1>1. ASSUME NEW c \in Callers, CallerBegin(c) PROVE TypeOK'
  <2>1. CASE StartBusy(c)
    BY <2>1, CancelTyped DEF StartBusy, Enter, Goto
  <2>2. CASE StartIdle(c)
    BY <2>2 DEF StartIdle, ConsumeDone, Enter, Goto, ReapFirst
  <2>3. CASE BeginCancel(c)
    BY <2>3 DEF BeginCancel, Enter, Goto
  <2>4. CASE BeginReset(c)
    BY <2>4 DEF BeginReset, Enter, Goto
  <2>5. CASE GetResult(c)
    BY <2>5 DEF GetResult, ConsumeDone
  <2>6. CASE Destroy(c)
    BY <2>6, CancelTyped DEF Destroy, Enter, Goto
  <2>7. QED
    BY <1>1, <2>1, <2>2, <2>3, <2>4, <2>5, <2>6 DEF CallerBegin
<1>2. ASSUME NEW c \in Callers, StartStep(c) PROVE TypeOK'
  <2>1. CASE JoinLock(c)
    BY <2>1 DEF JoinLock, Goto
  <2>2. CASE JoinWorker(c)
    BY <2>2 DEF JoinWorker, ReleaseJoin, Goto
  <2>3. CASE BusyReset(c)
    BY <2>3 DEF BusyReset, ConsumeDone, Return, Goto
  <2>4. CASE StartLost(c)
    BY <2>4 DEF StartLost, Return, Goto
  <2>5. CASE StartCommit(c)
    <3>1. captures + 1 \in 0..MaxCaptures
      BY <2>5, CapturesAssumption DEF StartCommit
    <3>2. QED
      BY <2>5, <3>1 DEF StartCommit, MakeToken, NewCallbacks, Goto
  <2>6. CASE AssignThread(c)
    <3>1. captures + 1 \in Captures /\ captures + 1 \in 0..MaxCaptures
      BY <2>6, CapturesAssumption DEF AssignThread, SessionInv, CommitInv, Captures
    <3>2. QED
      BY <2>6, <3>1 DEF AssignThread, Return, Goto
  <2>7. CASE AssignOverJoinable(c)
    BY <2>7 DEF AssignOverJoinable
  <2>8. QED
    BY <1>2, <2>1, <2>2, <2>3, <2>4, <2>5, <2>6, <2>7 DEF StartStep
<1>3. ASSUME NEW c \in Callers, ResetStep(c) PROVE TypeOK'
  <2>1. CASE CopyToken(c)
    BY <2>1 DEF CopyToken, Goto
  <2>2. CASE CancelCopied(c)
    BY <2>2, CancelTyped DEF CancelCopied, Return, Goto
  <2>3. CASE ForceReset(c)
    BY <2>3 DEF ForceReset, Return, Goto
  <2>4. QED
    BY <1>3, <2>1, <2>2, <2>3 DEF ResetStep
<1>4. ASSUME NEW w \in Captures, WorkerStep(w) PROVE TypeOK'
  <2> USE DEF Move
  <2>1. CASE WorkerEnter(w)
    BY <2>1 DEF WorkerEnter
  <2>2. CASE WorkerCheck(w)
    BY <2>2 DEF WorkerCheck, Outcomes
  <2>3. CASE AcquireFrames(w)
    BY <2>3 DEF AcquireFrames
  <2>4. CASE OnAcquired(w)
    <3>1. {wonAcquired[w]} \ {None} \subseteq Captures
      BY CapturesAssumption DEF Captures, None
    <3>2. QED
      BY <2>4, <3>1 DEF OnAcquired
  <2>5. ASSUME NEW o \in Outcomes, Finish(w, o) PROVE TypeOK'
    BY <2>5 DEF Finish
  <2>6. CASE Publish(w)
    BY <2>6 DEF Publish, SessionInv, ThreadInv
  <2>7. CASE Deliver(w)
    <3>1. wonComplete[w] # None => wonComplete[w] \in Captures
      BY CapturesAssumption DEF Captures, None
    <3>2. QED
      BY <2>7, <3>1 DEF Deliver, Notify
  <2>8. QED
    BY <1>4, <2>1, <2>2, <2>3, <2>4, <2>5, <2>6, <2>7 DEF WorkerStep
<1>5. CASE UNCHANGED vars
  BY <1>5 DEF vars
<1>6. QED
  BY <1>1, <1>2, <1>3, <1>4, <1>5 DEF Next, CallerStep, Stopped

-----------------------------------------------------------------------------
(* SessionInv is inductive.                                                  *)

LEMMA InvInit == Init => SessionInv
<1> SUFFICES ASSUME Init PROVE SessionInv
  OBVIOUS
<1> USE CallersAssumption, CapturesAssumption
    DEF TypeOK, SessionInv, LockInv, PathInv, ThreadInv, TokenInv, LiveInv, CommitInv, BusyInv,
        OneWorker, StateMatchesWorker, OwnCallbacks, BusyCancelledMeansGone,
        Live, Active, IsActive, IsIdle, Captures, None, Outcomes, locks, session, callerVars,
        thread, copies, reports, workerVars
<1>1. LockInv /\ PathInv /\ ThreadInv /\ TokenInv
  BY DEF Init
<1>2. LiveInv /\ CommitInv /\ BusyInv /\ OneWorker /\ StateMatchesWorker /\ OwnCallbacks
  BY DEF Init
<1>3. BusyCancelledMeansGone
  BY DEF Init
<1>4. QED
  BY <1>1, <1>2, <1>3

LEMMA JoinLockOwner ==
  ASSUME TypeOK, LockInv, PathInv, NEW c \in Callers, JoinLock(c)
  PROVE  LockInv' /\ PathInv'
<1>1. LockInv'
  BY CallersAssumption DEF TypeOK, LockInv, JoinLock, Goto
<1>2. PathInv'
  BY DEF TypeOK, PathInv, JoinLock, Goto
<1>3. QED
  BY <1>1, <1>2

LEMMA CancelCopiedPath ==
  ASSUME TypeOK, PathInv, TokenInv, NEW c \in Callers, CancelCopied(c)
  PROVE  PathInv' /\ TokenInv'
<1>1. PathInv'
  <2>1. CASE path[c] = "reset"
    BY <2>1 DEF TypeOK, PathInv, CancelCopied, Goto
  <2>2. CASE path[c] # "reset"
    BY <2>2 DEF TypeOK, PathInv, CancelCopied, Return, Goto
  <2>3. QED
    BY <2>1, <2>2
<1>2. TokenInv'
  <2>1. \A t \in cancelled' : t <= captures
    BY DEF TokenInv, CancelCopied, CancelToken
  <2>2. \A d \in Callers : seen'[d] \in {seen[d], None}
    BY DEF TypeOK, CancelCopied, Return
  <2>3. None <= captures
    BY CapturesAssumption DEF TypeOK, None
  <2>4. \A d \in Callers : pc[d] = "assign" => pc'[d] = "assign"
    BY DEF TypeOK, CancelCopied, Return, Goto
  <2>5. UNCHANGED <<token, captures>>
    BY DEF CancelCopied, thread
  <2>6. QED
    BY <2>1, <2>2, <2>3, <2>4, <2>5 DEF TokenInv
<1>3. QED
  BY <1>1, <1>2

\* A call begins: only the caller's place, the state (Done dropped) and the cancelled set change.
LEMMA InvCallerBegin ==
  ASSUME TypeOK, SessionInv, NEW c \in Callers, CallerBegin(c)
  PROVE  SessionInv'
<1> USE CallersAssumption, CapturesAssumption
    DEF TypeOK, SessionInv, LockInv, PathInv, ThreadInv, TokenInv, LiveInv, CommitInv, BusyInv,
        OneWorker, StateMatchesWorker, OwnCallbacks, BusyCancelledMeansGone,
        Live, Active, IsActive, IsIdle, Captures, None, Outcomes, locks, session, callerVars,
        thread, copies, reports, workerVars
<1>1. CASE StartBusy(c)
  <2>1. LockInv' /\ PathInv' /\ ThreadInv'
    BY <1>1 DEF StartBusy, CancelToken, Enter, MayEnter, Goto
  <2>2. TokenInv' /\ LiveInv' /\ BusyInv'
    BY <1>1 DEF StartBusy, CancelToken, Enter, MayEnter, Goto
  <2>3. CommitInv' /\ OneWorker'
    BY <1>1 DEF StartBusy, CancelToken, Enter, MayEnter, Goto
  <2>4. StateMatchesWorker' /\ OwnCallbacks'
    BY <1>1 DEF StartBusy, CancelToken, Enter, MayEnter, Goto
  <2>5. BusyCancelledMeansGone'
    BY <1>1 DEF StartBusy, CancelToken, Enter, MayEnter, Goto
  <2>6. QED
    BY <2>1, <2>2, <2>3, <2>4, <2>5
<1>2. CASE StartIdle(c)
  <2>1. LockInv' /\ PathInv' /\ ThreadInv'
    BY <1>2 DEF StartIdle, ConsumeDone, ReapFirst, Enter, MayEnter, Goto
  <2>2. TokenInv' /\ LiveInv' /\ BusyInv'
    BY <1>2 DEF StartIdle, ConsumeDone, ReapFirst, Enter, MayEnter, Goto
  <2>3. CommitInv' /\ OneWorker'
    BY <1>2 DEF StartIdle, ConsumeDone, ReapFirst, Enter, MayEnter, Goto
  <2>4. StateMatchesWorker' /\ OwnCallbacks'
    BY <1>2 DEF StartIdle, ConsumeDone, ReapFirst, Enter, MayEnter, Goto
  <2>5. BusyCancelledMeansGone'
    BY <1>2 DEF StartIdle, ConsumeDone, ReapFirst, Enter, MayEnter, Goto
  <2>6. QED
    BY <2>1, <2>2, <2>3, <2>4, <2>5
<1>3. CASE BeginCancel(c)
  <2>1. LockInv' /\ PathInv' /\ ThreadInv'
    BY <1>3 DEF BeginCancel, Enter, MayEnter, Goto
  <2>2. TokenInv' /\ LiveInv' /\ BusyInv'
    BY <1>3 DEF BeginCancel, Enter, MayEnter, Goto
  <2>3. CommitInv' /\ OneWorker'
    BY <1>3 DEF BeginCancel, Enter, MayEnter, Goto
  <2>4. StateMatchesWorker' /\ OwnCallbacks'
    BY <1>3 DEF BeginCancel, Enter, MayEnter, Goto
  <2>5. BusyCancelledMeansGone'
    BY <1>3 DEF BeginCancel, Enter, MayEnter, Goto
  <2>6. QED
    BY <2>1, <2>2, <2>3, <2>4, <2>5
<1>4. CASE BeginReset(c)
  <2>1. LockInv' /\ PathInv' /\ ThreadInv'
    BY <1>4 DEF BeginReset, Enter, MayEnter, Goto
  <2>2. TokenInv' /\ LiveInv' /\ BusyInv'
    BY <1>4 DEF BeginReset, Enter, MayEnter, Goto
  <2>3. CommitInv' /\ OneWorker'
    BY <1>4 DEF BeginReset, Enter, MayEnter, Goto
  <2>4. StateMatchesWorker' /\ OwnCallbacks'
    BY <1>4 DEF BeginReset, Enter, MayEnter, Goto
  <2>5. BusyCancelledMeansGone'
    BY <1>4 DEF BeginReset, Enter, MayEnter, Goto
  <2>6. QED
    BY <2>1, <2>2, <2>3, <2>4, <2>5
<1>5. CASE GetResult(c)
  <2>1. LockInv' /\ PathInv' /\ ThreadInv'
    BY <1>5 DEF GetResult, ConsumeDone
  <2>2. TokenInv' /\ LiveInv' /\ BusyInv'
    BY <1>5 DEF GetResult, ConsumeDone
  <2>3. CommitInv' /\ OneWorker'
    BY <1>5 DEF GetResult, ConsumeDone
  <2>4. StateMatchesWorker' /\ OwnCallbacks'
    BY <1>5 DEF GetResult, ConsumeDone
  <2>5. BusyCancelledMeansGone'
    BY <1>5 DEF GetResult, ConsumeDone
  <2>6. QED
    BY <2>1, <2>2, <2>3, <2>4, <2>5
<1>6. CASE Destroy(c)
  <2>1. LockInv' /\ PathInv' /\ ThreadInv' /\ LiveInv' /\ BusyInv' /\ OneWorker'
    BY <1>6 DEF Destroy, Enter, MayEnter, Goto
  <2>2. CommitInv' /\ StateMatchesWorker' /\ OwnCallbacks'
    BY <1>6 DEF Destroy, Enter, MayEnter, Goto
  <2>3. TokenInv' /\ BusyCancelledMeansGone'
    BY <1>6 DEF Destroy, CancelToken, Enter, MayEnter, Goto
  <2>4. QED
    BY <2>1, <2>2, <2>3
<1>7. QED
  BY <1>1, <1>2, <1>3, <1>4, <1>5, <1>6 DEF CallerBegin

\* Start() after its first critical section.  A thread is assigned only when CommitInv says
\* that no worker is live and the handle is empty; a join empties the handle of a worker
\* that has exited.
LEMMA InvStartStep ==
  ASSUME TypeOK, SessionInv, NEW c \in Callers, StartStep(c)
  PROVE  SessionInv'
<1> USE CallersAssumption, CapturesAssumption
    DEF TypeOK, SessionInv, LockInv, PathInv, ThreadInv, TokenInv, LiveInv, CommitInv, BusyInv,
        OneWorker, StateMatchesWorker, OwnCallbacks, BusyCancelledMeansGone,
        Live, Active, IsActive, IsIdle, Captures, None, Outcomes, locks, session, callerVars,
        thread, copies, reports, workerVars
<1>1. CASE JoinLock(c)
  <2>1. LockInv' /\ PathInv'
    BY <1>1, JoinLockOwner
  <2>2. ThreadInv' /\ TokenInv' /\ LiveInv' /\ CommitInv' /\ BusyInv' /\ OneWorker'
    BY <1>1 DEF JoinLock, Goto
  <2>3. StateMatchesWorker' /\ OwnCallbacks' /\ BusyCancelledMeansGone'
    BY <1>1 DEF JoinLock, Goto
  <2>4. QED
    BY <2>1, <2>2, <2>3
<1>2. CASE JoinWorker(c)
  <2>1. LockInv' /\ PathInv'
    BY <1>2 DEF JoinWorker, ReleaseJoin, Goto
  <2>2. ThreadInv' /\ TokenInv' /\ LiveInv' /\ CommitInv' /\ BusyInv'
    BY <1>2 DEF JoinWorker, Goto
  <2>3. OneWorker'
    BY <1>2 DEF JoinWorker, Joined
  <2>4. StateMatchesWorker' /\ OwnCallbacks'
    BY <1>2 DEF JoinWorker, Goto
  <2>5. BusyCancelledMeansGone'
    BY <1>2 DEF JoinWorker, Joined, Goto
  <2>6. QED
    BY <2>1, <2>2, <2>3, <2>4, <2>5
<1>3. CASE BusyReset(c)
  <2>1. LockInv' /\ PathInv' /\ ThreadInv'
    BY <1>3 DEF BusyReset, ConsumeDone, Return, Goto
  <2>2. TokenInv' /\ LiveInv' /\ BusyInv'
    BY <1>3 DEF BusyReset, ConsumeDone, Return, Goto
  <2>3. CommitInv' /\ OneWorker'
    BY <1>3 DEF BusyReset, ConsumeDone, Return, Goto
  <2>4. StateMatchesWorker' /\ OwnCallbacks'
    BY <1>3 DEF BusyReset, ConsumeDone, Return, Goto
  <2>5. BusyCancelledMeansGone'
    BY <1>3 DEF BusyReset, ConsumeDone, Return, Goto
  <2>6. QED
    BY <2>1, <2>2, <2>3, <2>4, <2>5
<1>4. CASE StartLost(c)
  <2>1. LockInv' /\ PathInv' /\ ThreadInv'
    BY <1>4 DEF StartLost, CanCommit, Return, Goto
  <2>2. TokenInv' /\ LiveInv' /\ BusyInv'
    BY <1>4 DEF StartLost, CanCommit, Return, Goto
  <2>3. CommitInv' /\ OneWorker'
    BY <1>4 DEF StartLost, CanCommit, Return, Goto
  <2>4. StateMatchesWorker' /\ OwnCallbacks'
    BY <1>4 DEF StartLost, CanCommit, Return, Goto
  <2>5. BusyCancelledMeansGone'
    BY <1>4 DEF StartLost, CanCommit, Return, Goto
  <2>6. QED
    BY <2>1, <2>2, <2>3, <2>4, <2>5
<1>5. CASE StartCommit(c)
  <2>1. LockInv' /\ PathInv' /\ ThreadInv'
    BY <1>5 DEF StartCommit, CanCommit, MakeToken, NewCallbacks, Goto
  <2>2. TokenInv' /\ LiveInv' /\ BusyInv'
    BY <1>5 DEF StartCommit, CanCommit, MakeToken, NewCallbacks, Goto
  <2>3. CommitInv' /\ OneWorker'
    BY <1>5 DEF StartCommit, CanCommit, MakeToken, NewCallbacks, Goto
  <2>4. StateMatchesWorker' /\ OwnCallbacks'
    BY <1>5 DEF StartCommit, CanCommit, MakeToken, NewCallbacks, Goto
  <2>5. BusyCancelledMeansGone'
    BY <1>5 DEF StartCommit, CanCommit, MakeToken, NewCallbacks, Goto
  <2>6. QED
    BY <2>1, <2>2, <2>3, <2>4, <2>5
<1>6. CASE AssignThread(c)
  <2>1. LockInv' /\ PathInv' /\ BusyInv'
    BY <1>6 DEF AssignThread, Return, Goto
  <2>2. ThreadInv'
    BY <1>6 DEF AssignThread
  <2>3. TokenInv' /\ LiveInv'
    BY <1>6 DEF AssignThread, Return, Goto
  <2>4. CommitInv' /\ OneWorker'
    BY <1>6 DEF AssignThread, Return, Goto
  <2>5. StateMatchesWorker' /\ OwnCallbacks'
    BY <1>6 DEF AssignThread, Return, Goto
  <2>6. BusyCancelledMeansGone'
    BY <1>6 DEF AssignThread, Return, Goto
  <2>7. QED
    BY <2>1, <2>2, <2>3, <2>4, <2>5, <2>6
<1>7. CASE AssignOverJoinable(c)
  BY <1>7 DEF AssignOverJoinable
<1>8. QED
  BY <1>1, <1>2, <1>3, <1>4, <1>5, <1>6, <1>7 DEF StartStep

LEMMA InvResetStep ==
  ASSUME TypeOK, SessionInv, NEW c \in Callers, ResetStep(c)
  PROVE  SessionInv'
<1> USE CallersAssumption, CapturesAssumption
    DEF TypeOK, SessionInv, LockInv, PathInv, ThreadInv, TokenInv, LiveInv, CommitInv, BusyInv,
        OneWorker, StateMatchesWorker, OwnCallbacks, BusyCancelledMeansGone,
        Live, Active, IsActive, IsIdle, Captures, None, Outcomes, locks, session, callerVars,
        thread, copies, reports, workerVars
<1>1. CASE CopyToken(c)
  <2> USE <1>1 DEF CopyToken, Goto
  <2>1. LockInv' /\ PathInv' /\ ThreadInv' /\ LiveInv' /\ CommitInv' /\ OneWorker'
    OBVIOUS
  <2>2. TokenInv'
    OBVIOUS
  <2>3. path[c] # "busy"
    OBVIOUS
  <2>4. BusyInv' /\ BusyCancelledMeansGone'
    BY <2>3
  <2>5. StateMatchesWorker' /\ OwnCallbacks'
    OBVIOUS
  <2>6. QED
    BY <2>1, <2>2, <2>4, <2>5
<1>2. CASE CancelCopied(c)
  <2> USE <1>2 DEF CancelCopied, Return, Goto
  <2>1. LockInv' /\ BusyInv'
    OBVIOUS
  <2>2. PathInv'
    BY CancelCopiedPath
  <2>3. ThreadInv' /\ LiveInv' /\ CommitInv' /\ OneWorker'
    OBVIOUS
  <2>4. TokenInv'
    BY CancelCopiedPath
  <2>5. StateMatchesWorker' /\ OwnCallbacks'
    OBVIOUS
  <2>6. BusyCancelledMeansGone'
    <3>1. cancelled \subseteq cancelled'
      BY DEF CancelToken
    <3>2. \A d \in Callers : path'[d] = "busy" => path[d] = "busy" /\ pc'[d] = pc[d] /\ seen'[d] = seen[d]
      OBVIOUS
    <3>3. QED
      BY <3>1, <3>2
  <2>7. QED
    BY <2>1, <2>2, <2>3, <2>4, <2>5, <2>6
<1>3. CASE ForceReset(c)
  <2>1. LockInv' /\ PathInv' /\ ThreadInv'
    BY <1>3 DEF ForceReset, CanReset, Return, Goto
  <2>2. TokenInv' /\ LiveInv' /\ BusyInv'
    BY <1>3 DEF ForceReset, CanReset, Return, Goto
  <2>3. CommitInv' /\ OneWorker'
    BY <1>3 DEF ForceReset, CanReset, Return, Goto
  <2>4. StateMatchesWorker' /\ OwnCallbacks'
    BY <1>3 DEF ForceReset, CanReset, Return, Goto
  <2>5. BusyCancelledMeansGone'
    BY <1>3 DEF ForceReset, CanReset, Return, Goto
  <2>6. QED
    BY <2>1, <2>2, <2>3, <2>4, <2>5
<1>4. QED
  BY <1>1, <1>2, <1>3 DEF ResetStep

\* What a step of one worker leaves to every other worker and to the callers.
LEMMA BusyGone ==
  ASSUME TypeOK, SessionInv, NEW w \in Captures, wpc[w] # "exited",
         UNCHANGED <<path, seen, cancelled, pc>>,
         \A v \in Captures : v # w => wpc'[v] = wpc[v]
  PROVE  BusyCancelledMeansGone'
<1>1. ASSUME NEW c \in Callers, path[c] = "busy"
      PROVE  seen[c] \in Captures
  BY <1>1, CapturesAssumption DEF TypeOK, SessionInv, BusyInv, Captures, None
<1>2. QED
  BY <1>1 DEF SessionInv, BusyCancelledMeansGone

\* The worker moves on between its copies of the members and SetResult(): no other
\* variable of the session changes, except the outcome when it finishes.
LEMMA WorkerInside ==
  ASSUME TypeOK, SessionInv, NEW w \in Captures,
         NEW m \in {"running", "acquired", "encoding", "finished"},
         wpc[w] \in {"entered", "running", "acquired", "encoding"},
         wpc' = [wpc EXCEPT ![w] = m],
         \/ m # "finished" /\ outcome' = outcome
         \/ m = "finished" /\ \E o \in Outcomes : outcome' = [outcome EXCEPT ![w] = o],
         UNCHANGED <<locks, session, callerVars, thread, copies, delivered>>
  PROVE  SessionInv'
<1> USE CallersAssumption, CapturesAssumption
    DEF TypeOK, SessionInv, Live, Active, IsActive, IsIdle, locks, session, callerVars, thread, copies
<1>1. LockInv' /\ PathInv' /\ TokenInv' /\ BusyInv'
  BY DEF LockInv, PathInv, TokenInv, BusyInv
<1>2. \A v \in Captures : /\ v # w => wpc'[v] = wpc[v] /\ outcome'[v] = outcome[v]
                          /\ v = w => wpc'[v] = m
  OBVIOUS
<1>3. outcome'[w] # "none" <=> m = "finished"
  BY DEF Outcomes, ThreadInv
<1>4. ThreadInv'
  BY <1>2, <1>3 DEF ThreadInv
<1>5. LiveInv' /\ CommitInv' /\ OneWorker'
  BY <1>2 DEF LiveInv, CommitInv, OneWorker
<1>6. OwnCallbacks'
  BY <1>2 DEF OwnCallbacks
<1>7. StateMatchesWorker'
  <2>1. state = "Running" /\ Live(w) /\ Live(w)'
    BY DEF StateMatchesWorker
  <2>2. QED
    BY <1>2, <2>1 DEF StateMatchesWorker
<1>8. BusyCancelledMeansGone'
  BY <1>2, BusyGone
<1>9. QED
  BY <1>1, <1>4, <1>5, <1>6, <1>7, <1>8

LEMMA InvWorkerStep ==
  ASSUME TypeOK, SessionInv, NEW w \in Captures, WorkerStep(w)
  PROVE  SessionInv'
<1>1. CASE WorkerEnter(w)
  <2> USE <1>1, CallersAssumption, CapturesAssumption
      DEF TypeOK, SessionInv, WorkerEnter, Move, Live, Active, IsActive, IsIdle, Captures, None,
          Outcomes, locks, callerVars, thread, reports
  <2>1. LockInv' /\ PathInv' /\ TokenInv' /\ BusyInv'
    BY DEF LockInv, PathInv, TokenInv, BusyInv
  <2>2. ThreadInv' /\ LiveInv' /\ OneWorker'
    <3>1. ThreadInv'
      BY DEF ThreadInv
    <3>2. LiveInv' /\ OneWorker'
      BY DEF LiveInv, OneWorker
    <3>3. QED
      BY <3>1, <3>2
  <2>3. CommitInv' /\ StateMatchesWorker'
    BY DEF CommitInv, StateMatchesWorker, LockInv, LiveInv
  <2>4. OwnCallbacks'
    <3>1. token = w /\ callbacks = w
      BY DEF LiveInv
    <3>2. wtoken'[w] = w /\ wonAcquired'[w] = w /\ wpc'[w] = "entered"
      BY <3>1
    <3>3. \A v \in Captures : v # w => /\ wpc'[v] = wpc[v] /\ wtoken'[v] = wtoken[v]
                                      /\ wonAcquired'[v] = wonAcquired[v]
      OBVIOUS
    <3>4. UNCHANGED <<wonComplete, delivered, outcome>>
      OBVIOUS
    <3>5. QED
      BY <3>2, <3>3, <3>4 DEF OwnCallbacks
  <2>5. BusyCancelledMeansGone'
    BY BusyGone
  <2>6. QED
    BY <2>1, <2>2, <2>3, <2>4, <2>5
<1>2. CASE WorkerCheck(w)
  <2>1. CASE IsCancelled(w)
    BY <1>2, <2>1, WorkerInside DEF WorkerCheck, Move, Outcomes, reports
  <2>2. CASE ~IsCancelled(w)
    BY <1>2, <2>2, WorkerInside DEF WorkerCheck, Move, reports
  <2>3. QED
    BY <2>1, <2>2
<1>3. CASE AcquireFrames(w)
  BY <1>3, WorkerInside DEF AcquireFrames, Move, reports
<1>4. CASE OnAcquired(w)
  BY <1>4, WorkerInside DEF OnAcquired, Move
<1>5. ASSUME NEW o \in Outcomes, Finish(w, o)
      PROVE  SessionInv'
  BY <1>5, WorkerInside DEF Finish, Move, reports
<1>6. CASE Publish(w)
  <2> USE <1>6, CallersAssumption, CapturesAssumption
      DEF TypeOK, SessionInv, Publish, Move, Live, Active, IsActive, IsIdle, Captures, None,
          Outcomes, locks, callerVars, thread, reports
  <2>1. LockInv' /\ PathInv' /\ TokenInv' /\ BusyInv'
    BY DEF LockInv, PathInv, TokenInv, BusyInv
  <2>2. ThreadInv' /\ LiveInv' /\ OneWorker'
    BY DEF ThreadInv, LiveInv, OneWorker
  <2>3. CommitInv' /\ OwnCallbacks'
    BY DEF CommitInv, OwnCallbacks, LiveInv
  <2>4. StateMatchesWorker'
    <3>1. w = captures /\ \A v \in Captures : ~Live(v)'
      BY DEF LiveInv
    <3>2. result' = outcome'[captures'] /\ captures' # 0 /\ state' = "Done"
      BY <3>1
    <3>3. QED
      BY <3>1, <3>2 DEF StateMatchesWorker
  <2>5. BusyCancelledMeansGone'
    BY BusyGone
  <2>6. QED
    BY <2>1, <2>2, <2>3, <2>4, <2>5
<1>7. CASE Deliver(w)
  <2> USE <1>7, CallersAssumption, CapturesAssumption
      DEF TypeOK, SessionInv, Deliver, Notify, Move, Live, Active, IsActive, IsIdle, Captures, None,
          Outcomes, locks, session, callerVars, thread, copies
  <2>1. LockInv' /\ PathInv' /\ TokenInv' /\ BusyInv'
    BY DEF LockInv, PathInv, TokenInv, BusyInv
  <2>2. delivered' = [delivered EXCEPT ![w] = outcome[w]]
    <3>1. wonComplete[w] = w /\ w # 0
      BY DEF OwnCallbacks
    <3>2. QED
      BY <3>1
  <2>3. ThreadInv' /\ LiveInv' /\ OneWorker' /\ CommitInv'
    BY <2>2 DEF ThreadInv, LiveInv, OneWorker, CommitInv
  <2>4. OwnCallbacks'
    BY <2>2 DEF OwnCallbacks
  <2>5. StateMatchesWorker'
    <3>1. \A v \in Captures : Live(v)' <=> Live(v)
      OBVIOUS
    <3>2. \A v \in Captures : wpc[v] = "created" <=> wpc'[v] = "created"
      OBVIOUS
    <3>3. QED
      BY <3>1, <3>2 DEF StateMatchesWorker
  <2>6. BusyCancelledMeansGone'
    BY DEF BusyCancelledMeansGone, BusyInv
  <2>7. QED
    BY <2>1, <2>3, <2>4, <2>5, <2>6
<1>8. QED
  BY <1>1, <1>2, <1>3, <1>4, <1>5, <1>6, <1>7 DEF WorkerStep

LEMMA InvStutter == TypeOK /\ SessionInv /\ UNCHANGED vars => SessionInv'
  BY DEF vars, locks, session, callerVars, thread, copies, reports, workerVars, SessionInv,
     LockInv, PathInv, ThreadInv, TokenInv, LiveInv, CommitInv, BusyInv, OneWorker,
     StateMatchesWorker, OwnCallbacks, BusyCancelledMeansGone, Live, Active, IsActive

LEMMA InvNext == TypeOK /\ SessionInv /\ [Next]_vars => SessionInv'
  BY InvCallerBegin, InvStartStep, InvResetStep, InvWorkerStep, InvStutter
     DEF Next, CallerStep, Stopped

-----------------------------------------------------------------------------
(* The theorems.                                                             *)

\* Every variable keeps its type and the inductive invariant always holds: the ownership
\* of the two mutexes, the numbering of captures, tokens and threads, and what a call in
\* progress has already established, for any set of callers and any number of captures.
THEOREM Invariance == Spec => [](TypeOK /\ SessionInv)
<1>1. Init => TypeOK /\ SessionInv
  BY TypeInit, InvInit
<1>2. (TypeOK /\ SessionInv) /\ [Next]_vars => (TypeOK /\ SessionInv)'
  BY TypeNext, InvNext
<1>3. QED
  BY <1>1, <1>2, PTL DEF Spec

\* Every variable keeps its type, whatever the callers and workers do.
THEOREM TypeCorrect == Spec => []TypeOK
  BY Invariance, PTL

\* Never two worker thread functions at once: the running one is the one the session holds.
THEOREM AtMostOneWorker == Spec => []OneWorker
<1>1. SessionInv => OneWorker
  BY DEF SessionInv
<1>2. QED
  BY <1>1, Invariance, PTL

\* state_ tells which capture is active, and a Done result is the latest capture's.
THEOREM StateIsWorkers == Spec => []StateMatchesWorker
<1>1. SessionInv => StateMatchesWorker
  BY DEF SessionInv
<1>2. QED
  BY <1>1, Invariance, PTL

\* Every worker uses its own token and callbacks, and reports its own outcome.
THEOREM CallbacksAreOwn == Spec => []OwnCallbacks
<1>1. SessionInv => OwnCallbacks
  BY DEF SessionInv
<1>2. QED
  BY <1>1, Invariance, PTL

\* BusyCancelled is returned only after the capture that was met is cancelled and gone.
THEOREM BusyCancelledIsHonest == Spec => []BusyCancelledMeansGone
<1>1. SessionInv => BusyCancelledMeansGone
  BY DEF SessionInv
<1>2. QED
  BY <1>1, Invariance, PTL

\* mutex_ then joinMutex_ in Start(), joinMutex_ then a join in JoinWorker(), mutex_ in the
\* worker: no deadlock, for any number of callers, because no worker is live while a Start()
\* commits, so a worker being joined then has no use of mutex_ left.
THEOREM SessionNeverDeadlocks == Spec => []NoWaitCycle
<1>1. TypeOK /\ SessionInv => NoWaitCycle
  <2> SUFFICES ASSUME TypeOK, SessionInv, NEW S \in SUBSET Callers, NEW W \in SUBSET Captures,
                      \A c \in S : CallerWaits(c, S, W), \A w \in W : WorkerWaits(w, S)
               PROVE  S = {} /\ W = {}
    BY DEF NoWaitCycle
  <2>1. /\ mutex \in S => pc[mutex] = "assign" /\ \A w \in Captures : ~Live(w)
        /\ joinMutex \in S => pc[joinMutex] = "join"
    BY DEF SessionInv, LockInv, CommitInv
  <2>2. W = {}
    BY <2>1 DEF WorkerWaits, Live
  <2>3. \A c \in S : pc[c] # "join"
    BY <2>2 DEF CallerWaits
  <2>4. \A c \in S : pc[c] \notin {"wait", "assign"}
    BY <2>1, <2>3 DEF CallerWaits
  <2>5. \A c \in S : pc[c] \notin {"relock", "request", "reset"}
    BY <2>1, <2>4 DEF CallerWaits
  <2>6. QED
    BY <2>2, <2>3, <2>4, <2>5 DEF CallerWaits
<1>2. QED
  BY <1>1, Invariance, PTL

-----------------------------------------------------------------------------
(* One starting thread never meets a joinable thread object.                 *)

StarterInv == \A c \in Callers : path[c] \in {"busy", "idle"} => c \in Starters
ReapedInv  == \A c \in Callers :
                path[c] = "idle" /\ pc[c] \in {"relock", "assign"} => workerThread = None
OneStarterInv == StarterInv /\ ReapedInv /\ NeverTerminates

LEMMA OneStarterNext ==
  ASSUME \A c, d \in Starters : c = d,
         TypeOK, SessionInv, OneStarterInv, [Next]_vars
  PROVE  OneStarterInv'
<1> USE DEF TypeOK, OneStarterInv, StarterInv, ReapedInv, NeverTerminates, locks, callerVars, thread
<1>1. ASSUME NEW c \in Callers, CallerBegin(c)
      PROVE  OneStarterInv'
  BY <1>1 DEF CallerBegin, StartBusy, StartIdle, BeginCancel, BeginReset, GetResult, Destroy,
              Enter, MayEnter, Goto, ReapFirst
<1>2. ASSUME NEW c \in Callers, StartStep(c)
      PROVE  OneStarterInv'
  <2>1. CASE JoinLock(c)
    BY <2>1 DEF JoinLock, Goto
  <2>2. CASE JoinWorker(c)
    BY <2>2 DEF JoinWorker, Goto
  <2>3. CASE BusyReset(c) \/ StartLost(c)
    BY <2>3 DEF BusyReset, StartLost, Return, Goto
  <2>4. CASE StartCommit(c)
    BY <2>4 DEF StartCommit, Goto
  <2>5. CASE AssignThread(c)
    <3>1. path[c] = "idle" /\ c \in Starters
      BY <2>5 DEF AssignThread, SessionInv, PathInv
    <3>2. \A d \in Callers : d # c => path'[d] = path[d] /\ path[d] # "idle"
      BY <2>5, <3>1 DEF AssignThread, Return
    <3>3. path'[c] = "none"
      BY <2>5 DEF AssignThread, Return
    <3>4. QED
      BY <2>5, <3>2, <3>3 DEF AssignThread
  <2>6. CASE AssignOverJoinable(c)
    BY <2>6 DEF AssignOverJoinable, SessionInv, PathInv
  <2>7. QED
    BY <1>2, <2>1, <2>2, <2>3, <2>4, <2>5, <2>6 DEF StartStep
<1>3. ASSUME NEW c \in Callers, ResetStep(c)
      PROVE  OneStarterInv'
  BY <1>3 DEF ResetStep, CopyToken, CancelCopied, ForceReset, Return, Goto
<1>4. ASSUME NEW w \in Captures, WorkerStep(w)
      PROVE  OneStarterInv'
  BY <1>4 DEF WorkerStep, WorkerEnter, WorkerCheck, AcquireFrames, OnAcquired, Finish, Publish,
              Deliver
<1>5. CASE UNCHANGED vars
  BY <1>5 DEF vars
<1>6. QED
  BY <1>1, <1>2, <1>3, <1>4, <1>5 DEF Next, CallerStep, Stopped

\* As long as one thread at most calls Start(), however many others cancel, reset and read
\* the result, a thread is never assigned over a joinable one and the process survives.
THEOREM OneStarterNeverTerminates ==
  ASSUME \A c, d \in Starters : c = d
  PROVE  Spec => []NeverTerminates
<1>1. Init => OneStarterInv
  BY DEF Init, OneStarterInv, StarterInv, ReapedInv, NeverTerminates
<1>2. TypeOK /\ SessionInv /\ OneStarterInv /\ [Next]_vars => OneStarterInv'
  BY OneStarterNext
<1>3. OneStarterInv => NeverTerminates
  BY DEF OneStarterInv
<1>4. QED
  BY <1>1, <1>2, <1>3, Invariance, PTL DEF Spec

-----------------------------------------------------------------------------
(* The session implements the contract.                                      *)

LEMMA CancelIsCancel ==
  ASSUME TypeOK, NEW t \in 0..MaxCaptures, t <= captures, CancelToken(t),
         UNCHANGED <<captures, outcome, delivered>>
  PROVE  [Contract!Next]_(Contract!cvars)
<1>1. CASE t = None
  BY <1>1 DEF CancelToken, Contract!cvars
<1>2. CASE t # None
  <2>1. t \in Contract!Captures
    BY <1>2, CapturesAssumption DEF Contract!Captures, None
  <2>2. Contract!Cancel(t)
    BY <1>2 DEF CancelToken, Contract!Cancel
  <2>3. QED
    BY <2>1, <2>2 DEF Contract!Next
<1>3. QED
  BY <1>1, <1>2

LEMMA StepImplements ==
  ASSUME TypeOK, SessionInv, [Next]_vars
  PROVE  [Contract!Next]_(Contract!cvars)
<1> USE DEF locks, session, callerVars, thread, copies, reports, workerVars, Contract!cvars
<1>1. ASSUME NEW c \in Callers, CallerBegin(c)
      PROVE  [Contract!Next]_(Contract!cvars)
  <2>1. CASE StartBusy(c)
    <3>1. \A d \in Callers : pc[d] # "assign"
      BY <2>1, CallersAssumption DEF StartBusy, SessionInv, LockInv
    <3>2. token <= captures
      BY <3>1 DEF SessionInv, TokenInv
    <3>3. QED
      BY <2>1, <3>2, CancelIsCancel DEF StartBusy, TypeOK
  <2>2. CASE Destroy(c)
    <3>1. token <= captures
      BY <2>2 DEF Destroy, SessionInv, TokenInv
    <3>2. QED
      BY <2>2, <3>1, CancelIsCancel DEF Destroy, TypeOK
  <2>3. CASE StartIdle(c) \/ BeginCancel(c) \/ BeginReset(c) \/ GetResult(c)
    BY <2>3 DEF StartIdle, BeginCancel, BeginReset, GetResult
  <2>4. QED
    BY <1>1, <2>1, <2>2, <2>3 DEF CallerBegin
<1>2. ASSUME NEW c \in Callers, StartStep(c)
      PROVE  [Contract!Next]_(Contract!cvars)
  <2>1. CASE AssignThread(c)
    <3>1. captures < MaxCaptures
      BY <2>1 DEF AssignThread, SessionInv, CommitInv
    <3>2. captures # 0 => delivered[captures] # "none"
      <4>1. captures # 0 => captures \in Captures
        BY CapturesAssumption DEF TypeOK, Captures
      <4>2. captures # 0 => wpc[captures] = "exited"
        BY <2>1, <4>1 DEF AssignThread, TypeOK, SessionInv, ThreadInv, OneWorker, Active, None
      <4>3. QED
        BY <4>1, <4>2 DEF SessionInv, ThreadInv
    <3>3. Contract!Accept
      BY <2>1, <3>1, <3>2 DEF AssignThread, Contract!Accept
    <3>4. QED
      BY <3>3 DEF Contract!Next
  <2>2. CASE JoinLock(c) \/ JoinWorker(c) \/ BusyReset(c) \/ StartLost(c) \/ StartCommit(c)
    BY <2>2 DEF JoinLock, JoinWorker, BusyReset, StartLost, StartCommit
  <2>3. CASE AssignOverJoinable(c)
    BY <2>3 DEF AssignOverJoinable
  <2>4. QED
    BY <1>2, <2>1, <2>2, <2>3 DEF StartStep
<1>3. ASSUME NEW c \in Callers, ResetStep(c)
      PROVE  [Contract!Next]_(Contract!cvars)
  <2>1. CASE CancelCopied(c)
    <3>1. seen[c] <= captures
      BY DEF SessionInv, TokenInv
    <3>2. seen[c] \in 0..MaxCaptures /\ CancelToken(seen[c]) /\ UNCHANGED <<captures, outcome, delivered>>
      BY <2>1 DEF CancelCopied, TypeOK
    <3>3. QED
      BY <3>1, <3>2, CancelIsCancel
  <2>2. CASE CopyToken(c) \/ ForceReset(c)
    BY <2>2 DEF CopyToken, ForceReset
  <2>3. QED
    BY <1>3, <2>1, <2>2 DEF ResetStep
<1>4. ASSUME NEW w \in Captures, WorkerStep(w)
      PROVE  [Contract!Next]_(Contract!cvars)
  <2>0. w \in Contract!Captures
    BY DEF Captures, Contract!Captures
  <2>1. ASSUME NEW o \in Outcomes, outcome' = [outcome EXCEPT ![w] = o],
               wpc[w] \in {"entered", "running", "encoding"}, o = "CANCELLED" => IsCancelled(w),
               UNCHANGED <<captures, cancelled, delivered>>
        PROVE  [Contract!Next]_(Contract!cvars)
    <3>1. w = captures
      BY <2>1 DEF SessionInv, LiveInv, Live
    <3>2. outcome[w] = "none"
      BY <2>1 DEF SessionInv, ThreadInv
    <3>3. o = "CANCELLED" => w \in cancelled
      BY <2>1 DEF SessionInv, OwnCallbacks, IsCancelled
    <3>4. Contract!Complete(w, o) /\ o \in Contract!Outcomes
      BY <2>1, <3>1, <3>2, <3>3 DEF Contract!Complete, Contract!Outcomes, Outcomes
    <3>5. QED
      BY <2>0, <3>4 DEF Contract!Next
  <2>2. CASE WorkerCheck(w)
    <3>1. CASE IsCancelled(w)
      <4>1. "CANCELLED" \in Outcomes
        BY DEF Outcomes
      <4>2. QED
        BY <2>2, <3>1, <4>1, <2>1 DEF WorkerCheck, Move
    <3>2. CASE ~IsCancelled(w)
      BY <2>2, <3>2 DEF WorkerCheck
    <3>3. QED
      BY <3>1, <3>2
  <2>3. ASSUME NEW o \in Outcomes, Finish(w, o)
        PROVE  [Contract!Next]_(Contract!cvars)
    BY <2>3, <2>1 DEF Finish, Move
  <2>4. CASE Deliver(w)
    <3>1. wonComplete[w] = w /\ w # None
      BY <2>4, CapturesAssumption DEF Deliver, Move, SessionInv, OwnCallbacks, Captures, None
    <3>2. w = captures
      BY <2>4, <3>1 DEF Deliver, Move, SessionInv, OneWorker, Active, ThreadInv
    <3>3. outcome[w] # "none" /\ delivered[w] = "none"
      BY <2>4 DEF Deliver, Move, SessionInv, ThreadInv
    <3>4. Contract!Deliver(w)
      BY <2>4, <3>1, <3>2, <3>3 DEF Deliver, Notify, Contract!Deliver
    <3>5. QED
      BY <2>0, <3>4 DEF Contract!Next
  <2>5. CASE WorkerEnter(w) \/ AcquireFrames(w) \/ OnAcquired(w) \/ Publish(w)
    BY <2>5 DEF WorkerEnter, AcquireFrames, OnAcquired, Publish
  <2>6. QED
    BY <1>4, <2>2, <2>3, <2>4, <2>5 DEF WorkerStep
<1>5. CASE UNCHANGED vars
  BY <1>5 DEF vars
<1>6. QED
  BY <1>1, <1>2, <1>3, <1>4, <1>5 DEF Next, CallerStep, Stopped

\* The session implements CaptureContract: captures are accepted one after the other, each
\* ends with one outcome that its callback is given once, before the next is accepted.
THEOREM SessionImplementsContract == Spec => ImplementsContract
<1>1. Init => Contract!Init
  BY DEF Init, Contract!Init, Captures, Contract!Captures
<1>2. TypeOK /\ SessionInv /\ [Next]_vars => [Contract!Next]_(Contract!cvars)
  BY StepImplements
<1>3. QED
  BY <1>1, <1>2, Invariance, PTL DEF Spec, Contract!Spec, ImplementsContract
================================================================================
