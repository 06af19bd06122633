---------------------------- MODULE CaptureSession ----------------------------
(***************************************************************************)
(* capture/CaptureSession.cpp: the single-flight capture session.          *)
(*                                                                         *)
(* Threads that call into the session ("callers": Papyrus tasklets, the    *)
(* game thread on load) share it with the worker thread of each capture.   *)
(* Captures are numbered in the order their worker threads are created;    *)
(* capture w is also the name of its token, of its callbacks and of its    *)
(* worker thread.  A critical section that takes only mutex_ and cannot    *)
(* block inside is one action; Start() keeps mutex_ while it waits for     *)
(* joinMutex_, so that part is several actions.                            *)
(***************************************************************************)
EXTENDS Naturals, FiniteSets

CONSTANTS Callers,        \* the threads that call into the session
          Starters,       \* those that call Start()
          MaxCaptures,    \* bound on the captures started in one behaviour
          NoThread        \* owner of a free mutex

ASSUME CallersAssumption == Starters \subseteq Callers /\ NoThread \notin Callers
ASSUME CapturesAssumption == MaxCaptures \in Nat

None     == 0             \* the null token, callback, thread handle
Captures == 1..MaxCaptures
Outcomes == {"SUCCESS", "CANCELLED", "ERROR"}      \* the CALLBACK_* results

VARIABLES
  mutex, joinMutex,  \* owners of mutex_ and joinMutex_
  state, result,     \* state_, result_
  token,             \* token_
  cancelled,         \* the captures whose token has been cancelled
  callbacks,         \* onComplete_ and onAcquisitionComplete_, set together
  workerThread,      \* workerThread_: the capture it can join, None if not joinable
  pc, path, seen,    \* per caller: where it is, in which call, the token it read
  captures,          \* worker threads created
  wpc,               \* per worker: where it is
  wtoken, wonAcquired, wonComplete, \* per worker: its copies of the members
  outcome,           \* per worker: completionResult
  acquired,          \* the captures whose acquisition callback has run
  delivered,         \* per capture: what its completion callback was given
  terminated         \* std::terminate has been called

locks      == <<mutex, joinMutex>>
session    == <<state, result, token, cancelled, callbacks>>
callerVars == <<pc, path, seen>>
thread     == <<workerThread, captures, terminated>>
copies     == <<wtoken, wonAcquired, wonComplete>>
reports    == <<acquired, delivered>>
workerVars == <<wpc, copies, outcome, reports>>
vars == <<locks, session, callerVars, thread, workerVars>>

TypeOK ==
  /\ mutex \in Callers \cup {NoThread}
  /\ joinMutex \in Callers \cup {NoThread}
  /\ state \in {"Idle", "Starting", "Running", "Done"}
  /\ result \in {"Ready", "Starting", "Running"} \cup Outcomes
  /\ captures \in 0..MaxCaptures
  /\ token \in 0..MaxCaptures
  /\ cancelled \subseteq Captures
  /\ callbacks \in 0..MaxCaptures
  /\ workerThread \in 0..MaxCaptures
  /\ pc \in [Callers -> {"out", "wait", "join", "relock", "assign", "request", "copied",
                         "reset", "destroyed"}]
  /\ path \in [Callers -> {"none", "busy", "idle", "cancel", "reset", "dtor"}]
  /\ seen \in [Callers -> 0..MaxCaptures]
  /\ wpc \in [Captures -> {"none", "created", "entered", "running", "acquired", "encoding",
                           "finished", "callback", "exited"}]
  /\ wtoken \in [Captures -> 0..MaxCaptures]
  /\ wonAcquired \in [Captures -> 0..MaxCaptures]
  /\ wonComplete \in [Captures -> 0..MaxCaptures]
  /\ outcome \in [Captures -> Outcomes \cup {"none"}]
  /\ acquired \subseteq Captures
  /\ delivered \in [Captures -> Outcomes \cup {"none"}]
  /\ terminated \in BOOLEAN

Init ==
  /\ mutex = NoThread /\ joinMutex = NoThread
  /\ state = "Idle" /\ result = "Ready"
  /\ token = None /\ cancelled = {} /\ callbacks = None /\ workerThread = None
  /\ pc = [c \in Callers |-> "out"]
  /\ path = [c \in Callers |-> "none"]
  /\ seen = [c \in Callers |-> None]
  /\ captures = 0
  /\ wpc = [w \in Captures |-> "none"]
  /\ wtoken = [w \in Captures |-> None]
  /\ wonAcquired = [w \in Captures |-> None]
  /\ wonComplete = [w \in Captures |-> None]
  /\ outcome = [w \in Captures |-> "none"]
  /\ acquired = {}
  /\ delivered = [w \in Captures |-> "none"]
  /\ terminated = FALSE

-----------------------------------------------------------------------------
(* Helpers.  An operator marked "defect" is a plausible error of the one     *)
(* defined after it; no action uses it, the mutation runs substitute it.     *)

IsActive == state \in {"Starting", "Running"}
IsIdle   == ~IsActive

\* The token a new capture gets.
MakeToken == captures + 1

NewCallbacks_Late == callbacks             \* defect: set only after the thread starts
\* The callbacks of the new capture are in place before its thread starts.
NewCallbacks == MakeToken

CancelToken_Lost(t) == UNCHANGED cancelled \* defect: the flag is never set
\* Cancelling a null token does nothing.
CancelToken(t) == cancelled' = cancelled \cup ({t} \ {None})

Joined_Detach(w) == TRUE                   \* defect: detach() for join()
Joined_Published(w) ==                     \* defect: waits for Done, not for the thread
  w # None => wpc[w] \in {"callback", "exited"}
\* std::thread::join() returns once the thread function has.
Joined(w) == w # None => wpc[w] = "exited"

ReleaseJoin_Forgotten == UNCHANGED joinMutex    \* defect: joinMutex_ stays locked
\* End of the lock_guard of JoinWorker().
ReleaseJoin == joinMutex' = NoThread

\* Start() joins the previous worker before it re-validates the state.
ReapFirst == "wait"

CanCommit_Unchecked == TRUE                \* defect: no re-validation after the join
\* Re-validation: Idle, or a Done that is dropped.
CanCommit == IsIdle

\* ForceReset() leaves a live session alone, its worker will publish Done.
CanReset == IsIdle

IsCancelled(w) == wtoken[w] \in cancelled

\* The Done state of a finished capture is dropped: back to Idle and "Ready".
ConsumeDone == /\ state'  = IF state = "Done" THEN "Idle" ELSE state
               /\ result' = IF state = "Done" THEN "Ready" ELSE result

Notify_Dropped(w) == UNCHANGED delivered   \* defect: the copied callback is not called
\* The completion callback w copied is called with the outcome of w.
Notify(w) == delivered' = IF wonComplete[w] = None THEN delivered
                          ELSE [delivered EXCEPT ![wonComplete[w]] = outcome[w]]

Goto(c, l) == pc' = [pc EXCEPT ![c] = l]

\* The call of c returns.
Return(c) == /\ Goto(c, "out")
             /\ path' = [path EXCEPT ![c] = "none"]
             /\ seen' = [seen EXCEPT ![c] = None]

\* Caller c may enter an operation: it is in none, and the session is not being destroyed.
MayEnter(c) == pc[c] = "out" /\ \A d \in Callers : path[d] # "dtor"

\* Caller c enters operation p at label l, having read token t.
Enter(c, p, l, t) == /\ MayEnter(c)
                     /\ Goto(c, l)
                     /\ path' = [path EXCEPT ![c] = p]
                     /\ seen' = [seen EXCEPT ![c] = t]

\* Bound: enough captures are left for every Start() under way.
Room == captures + Cardinality({c \in Callers : path[c] = "idle"}) < MaxCaptures

-----------------------------------------------------------------------------
(* Start()                                                                   *)

\* A capture is active: cancel it, then join it without mutex_.
StartBusy(c) ==
  /\ c \in Starters
  /\ mutex = NoThread /\ IsActive
  /\ CancelToken(token)
  /\ Enter(c, "busy", "wait", token)
  /\ UNCHANGED <<locks, state, result, token, callbacks, thread, workerVars>>

\* No capture is active: drop a stale Done, then reap the previous worker without mutex_.
StartIdle(c) ==
  /\ c \in Starters /\ Room
  /\ mutex = NoThread /\ IsIdle
  /\ ConsumeDone
  /\ Enter(c, "idle", ReapFirst, None)
  /\ UNCHANGED <<locks, token, cancelled, callbacks, thread, workerVars>>

\* JoinWorker(): joinMutex_ is held while the worker is joined.
JoinLock(c) ==
  /\ pc[c] = "wait"
  /\ joinMutex = NoThread
  /\ joinMutex' = c
  /\ Goto(c, "join")
  /\ UNCHANGED <<mutex, session, path, seen, thread, workerVars>>

JoinWorker(c) ==
  /\ pc[c] = "join"
  /\ Joined(workerThread)
  /\ workerThread' = None
  /\ ReleaseJoin
  /\ Goto(c, IF path[c] = "dtor" THEN "destroyed" ELSE "relock")
  /\ UNCHANGED <<mutex, session, path, seen, captures, terminated, workerVars>>

\* The busy path with mutex_ again: a session that is Done is reset, BusyCancelled.
BusyReset(c) ==
  /\ pc[c] = "relock" /\ path[c] = "busy"
  /\ mutex = NoThread
  /\ ConsumeDone
  /\ token' = IF state = "Done" THEN None ELSE token
  /\ Return(c)
  /\ UNCHANGED <<locks, cancelled, callbacks, thread, workerVars>>

\* Another Start() slipped in and is active: AlreadyRunning.
StartLost(c) ==
  /\ pc[c] = "relock" /\ path[c] = "idle"
  /\ mutex = NoThread /\ ~CanCommit
  /\ Return(c)
  /\ UNCHANGED <<locks, session, thread, workerVars>>

\* The session is committed to the new capture; mutex_ is kept until its thread exists.
StartCommit(c) ==
  /\ pc[c] = "relock" /\ path[c] = "idle"
  /\ mutex = NoThread /\ CanCommit /\ captures < MaxCaptures
  /\ mutex' = c
  /\ token' = MakeToken
  /\ callbacks' = NewCallbacks
  /\ state' = "Starting" /\ result' = "Starting"
  /\ Goto(c, "assign")
  /\ UNCHANGED <<joinMutex, cancelled, path, seen, thread, workerVars>>

\* workerThread_ = std::thread(...) under both mutexes: Accepted.
AssignThread(c) ==
  /\ pc[c] = "assign"
  /\ joinMutex = NoThread
  /\ workerThread = None
  /\ captures' = captures + 1
  /\ workerThread' = captures + 1
  /\ wpc' = [wpc EXCEPT ![captures + 1] = "created"]
  /\ mutex' = NoThread
  /\ Return(c)
  /\ UNCHANGED <<joinMutex, session, terminated, copies, outcome, reports>>

\* Assigning over a std::thread that is still joinable calls std::terminate.
AssignOverJoinable(c) ==
  /\ pc[c] = "assign"
  /\ joinMutex = NoThread
  /\ workerThread # None
  /\ terminated' = TRUE
  /\ UNCHANGED <<locks, session, callerVars, workerThread, captures, workerVars>>

-----------------------------------------------------------------------------
(* Cancel, ForceReset(), GetResult(), the destructor                         *)

\* The Cancel native goes on to RequestCancel() only when IsIdle() is false.
BeginCancel(c) ==
  /\ mutex = NoThread /\ IsActive
  /\ Enter(c, "cancel", "request", None)
  /\ UNCHANGED <<locks, session, thread, workerVars>>

\* ForceReset() starts with RequestCancel().
BeginReset(c) ==
  /\ Enter(c, "reset", "request", None)
  /\ UNCHANGED <<locks, session, thread, workerVars>>

\* RequestCancel(): the token is copied under mutex_ ...
CopyToken(c) ==
  /\ pc[c] = "request"
  /\ mutex = NoThread
  /\ seen' = [seen EXCEPT ![c] = token]
  /\ Goto(c, "copied")
  /\ UNCHANGED <<locks, session, path, thread, workerVars>>

\* ... and cancelled after it is released.
CancelCopied(c) ==
  /\ pc[c] = "copied"
  /\ CancelToken(seen[c])
  /\ IF path[c] = "reset" THEN Goto(c, "reset") /\ UNCHANGED <<path, seen>> ELSE Return(c)
  /\ UNCHANGED <<locks, state, result, token, callbacks, thread, workerVars>>

ForceReset(c) ==
  /\ pc[c] = "reset"
  /\ mutex = NoThread
  /\ IF CanReset THEN state' = "Idle" /\ result' = "Ready" ELSE UNCHANGED <<state, result>>
  /\ Return(c)
  /\ UNCHANGED <<locks, token, cancelled, callbacks, thread, workerVars>>

\* GetResult() consumes Done; it changes nothing otherwise.
GetResult(c) ==
  /\ MayEnter(c)
  /\ mutex = NoThread
  /\ state = "Done"
  /\ ConsumeDone
  /\ UNCHANGED <<locks, token, cancelled, callbacks, callerVars, thread, workerVars>>

\* The destructor runs when no call is in progress; it reads token_ without mutex_.
Destroy(c) ==
  /\ \A d \in Callers : pc[d] = "out"
  /\ CancelToken(token)
  /\ Enter(c, "dtor", "wait", token)
  /\ UNCHANGED <<locks, state, result, token, callbacks, thread, workerVars>>

-----------------------------------------------------------------------------
(* The worker thread of capture w                                            *)

\* Worker w moves from label l to label m.
Move(w, l, m) == wpc[w] = l /\ wpc' = [wpc EXCEPT ![w] = m]

\* Running; the members are copied under mutex_.
WorkerEnter(w) ==
  /\ Move(w, "created", "entered")
  /\ mutex = NoThread
  /\ state' = "Running" /\ result' = "Running"
  /\ wtoken' = [wtoken EXCEPT ![w] = token]
  /\ wonAcquired' = [wonAcquired EXCEPT ![w] = callbacks]
  /\ UNCHANGED <<locks, token, cancelled, callbacks, callerVars, thread, wonComplete, outcome, reports>>

\* ThrowIfCancelled("worker start").
WorkerCheck(w) ==
  /\ IF IsCancelled(w)
     THEN Move(w, "entered", "finished") /\ outcome' = [outcome EXCEPT ![w] = "CANCELLED"]
     ELSE Move(w, "entered", "running") /\ UNCHANGED outcome
  /\ UNCHANGED <<locks, session, callerVars, thread, copies, reports>>

\* RunStill, RunAnimated: all frames are in hand and the token is not cancelled ...
AcquireFrames(w) ==
  /\ Move(w, "running", "acquired")
  /\ ~IsCancelled(w)
  /\ UNCHANGED <<locks, session, callerVars, thread, copies, outcome, reports>>

\* ... so the acquisition callback runs, before encoding.
OnAcquired(w) ==
  /\ Move(w, "acquired", "encoding")
  /\ acquired' = acquired \cup ({wonAcquired[w]} \ {None})
  /\ UNCHANGED <<locks, session, callerVars, thread, copies, outcome, delivered>>

\* RunStill, RunAnimated or RunVideo returns or throws.  A video ends without an
\* acquisition callback; CANCELLED is reported only when the token is cancelled.
Finish(w, o) ==
  /\ Move(w, "running", "finished") \/ Move(w, "encoding", "finished")
  /\ o = "CANCELLED" => IsCancelled(w)
  /\ outcome' = [outcome EXCEPT ![w] = o]
  /\ UNCHANGED <<locks, session, callerVars, thread, copies, reports>>

\* SetResult(): Done and the result are published and the callback copied under mutex_ ...
Publish(w) ==
  /\ Move(w, "finished", "callback")
  /\ mutex = NoThread
  /\ state' = "Done" /\ result' = outcome[w]
  /\ wonComplete' = [wonComplete EXCEPT ![w] = callbacks]
  /\ UNCHANGED <<locks, token, cancelled, callbacks, callerVars, thread, wtoken, wonAcquired,
                 outcome, reports>>

\* ... and the callback runs after it is released; then the thread function returns.
Deliver(w) ==
  /\ Move(w, "callback", "exited")
  /\ Notify(w)
  /\ UNCHANGED <<locks, session, callerVars, thread, copies, outcome, acquired>>

-----------------------------------------------------------------------------
StartStep(c) == \/ JoinLock(c) \/ JoinWorker(c) \/ BusyReset(c)
                \/ StartLost(c) \/ StartCommit(c) \/ AssignThread(c)
                \/ AssignOverJoinable(c)

ResetStep(c) == CopyToken(c) \/ CancelCopied(c) \/ ForceReset(c)

CallerBegin(c) == \/ StartBusy(c) \/ StartIdle(c) \/ BeginCancel(c)
                  \/ BeginReset(c) \/ GetResult(c) \/ Destroy(c)

CallerStep(c) == CallerBegin(c) \/ StartStep(c) \/ ResetStep(c)

WorkerStep(w) == \/ WorkerEnter(w) \/ WorkerCheck(w) \/ AcquireFrames(w) \/ OnAcquired(w)
                 \/ \E o \in Outcomes : Finish(w, o)
                 \/ Publish(w) \/ Deliver(w)

\* The process is over: the session is destroyed or std::terminate was called.
Stopped == /\ terminated \/ \E c \in Callers : pc[c] = "destroyed"
           /\ UNCHANGED vars

Next == \/ /\ ~terminated
           /\ \/ \E c \in Callers : CallerStep(c)
              \/ \E w \in Captures : WorkerStep(w)
        \/ Stopped

Spec == Init /\ [][Next]_vars

\* Every thread keeps running: a call that has begun goes on (nothing obliges a
\* caller to begin one), and the encoders and acquirers of a worker return.
Fairness == /\ \A c \in Callers : WF_vars(~terminated /\ (StartStep(c) \/ ResetStep(c)))
            /\ \A w \in Captures : WF_vars(~terminated /\ WorkerStep(w))

FairSpec == Spec /\ Fairness

-----------------------------------------------------------------------------
(* Properties                                                                *)

Live(w) == wpc[w] \notin {"none", "callback", "exited"}    \* has not published yet
Active(w) == wpc[w] \notin {"none", "exited"}              \* its thread function runs

\* At most one worker thread function is running at any time, the one the session
\* can join, whatever the callers do: "two workers at once" cannot happen.
OneWorker == \A w \in Captures : Active(w) => workerThread = w

\* state_ speaks of the latest capture: it is active exactly while a worker has been
\* promised or has not published, and a Done result is that capture's outcome.
StateMatchesWorker ==
  /\ \A w \in Captures : Live(w) => state = IF wpc[w] = "created" THEN "Starting" ELSE "Running"
  /\ IsActive => \/ \E c \in Callers : pc[c] = "assign"
                 \/ \E w \in Captures : Live(w)
  /\ state = "Done" => captures # 0 /\ result = outcome[captures]

\* What keeps a thread inside the session waiting, of the callers S and the workers W.
CallerWaits(c, S, W) ==
  \/ pc[c] \in {"relock", "request", "reset"} /\ mutex \in S
  \/ pc[c] \in {"wait", "assign"} /\ joinMutex \in S
  \/ pc[c] = "join" /\ workerThread \in W /\ ~Joined(workerThread)
WorkerWaits(w, S) == wpc[w] \in {"created", "finished"} /\ mutex \in S

\* No threads wait for each other in a circle.  Start() takes joinMutex_ while it holds
\* mutex_, JoinWorker() joins a worker while it holds joinMutex_, and that worker takes
\* mutex_ to begin and to publish: the circle is closed but for the state, by which the
\* worker being joined then is past its last use of mutex_.
NoWaitCycle ==
  \A S \in SUBSET Callers, W \in SUBSET Captures :
    (\A c \in S : CallerWaits(c, S, W)) /\ (\A w \in W : WorkerWaits(w, S)) => S = {} /\ W = {}

\* Every worker uses the token and the callbacks of its own capture, and its
\* completion callback was given its own outcome when the thread ends.
OwnCallbacks ==
  \A w \in Captures :
    /\ wpc[w] \notin {"none", "created"} => wtoken[w] = w /\ wonAcquired[w] = w
    /\ wpc[w] \in {"callback", "exited"} => wonComplete[w] = w
    /\ wpc[w] = "exited" => delivered[w] = outcome[w]

\* A Start() that met an active capture has cancelled that very capture, and its
\* worker thread has exited before Start() returns BusyCancelled.
BusyCancelledMeansGone ==
  \A c \in Callers :
    path[c] = "busy" => /\ seen[c] \in cancelled
                        /\ pc[c] = "relock" => wpc[seen[c]] = "exited"

\* The inductive invariant behind the five properties above: who owns the mutexes, where
\* a call can be, what the numbers of captures, tokens and threads say of each other.
LockInv ==
  \A c \in Callers : /\ mutex = c <=> pc[c] = "assign"
                     /\ joinMutex = c <=> pc[c] = "join"
PathInv ==
  \A c \in Callers :
    /\ path[c] = "none" <=> pc[c] = "out"
    /\ path[c] \in {"busy", "idle"} => pc[c] \in {"wait", "join", "relock", "assign"}
    /\ path[c] = "busy" => pc[c] # "assign"
    /\ path[c] = "dtor" => pc[c] \in {"wait", "join", "destroyed"}
    /\ path[c] \in {"cancel", "reset"} => pc[c] \in {"request", "copied", "reset"}
ThreadInv ==
  /\ workerThread \in {None, captures}
  /\ \A w \in Captures : w <= captures <=> wpc[w] # "none"
  /\ \A w \in Captures : outcome[w] # "none" <=> wpc[w] \in {"finished", "callback", "exited"}
  /\ \A w \in Captures : delivered[w] # "none" <=> wpc[w] = "exited"
TokenInv ==
  /\ \A t \in cancelled : t <= captures
  /\ \A c \in Callers : seen[c] <= captures
  /\ token <= captures \/ \E c \in Callers : pc[c] = "assign"
LiveInv ==
  \A w \in Captures : Live(w) => w = captures /\ token = w /\ callbacks = w
CommitInv ==
  \A c \in Callers : pc[c] = "assign" => /\ state = "Starting"
                                        /\ captures < MaxCaptures
                                        /\ token = captures + 1 /\ callbacks = captures + 1
                                        /\ \A w \in Captures : ~Live(w)
BusyInv ==
  \A c \in Callers : path[c] = "busy" => seen[c] # None

SessionInv ==
  /\ LockInv /\ PathInv /\ ThreadInv /\ TokenInv /\ LiveInv /\ CommitInv /\ BusyInv
  /\ OneWorker /\ StateMatchesWorker /\ OwnCallbacks /\ BusyCancelledMeansGone

\* The session implements the contract; a worker thread created is a capture accepted.
Contract == INSTANCE CaptureContract
ImplementsContract == Contract!Spec

\* Header: "Serialized by joinMutex_ so two concurrent Start() calls can't both
\* join / assign the same std::thread object (which is UB)": a Start() never assigns
\* over a joinable thread, so the process is never terminated.
NeverTerminates == ~terminated

\* Every capture whose worker thread was created reports to its completion callback.
EveryCaptureReports ==
  \A w \in Captures : wpc[w] = "created" ~> delivered[w] # "none" \/ terminated

\* Every call into the session returns: no caller waits for a mutex or a join for ever.
EveryCallReturns ==
  \A c \in Callers : pc[c] # "out" ~> pc[c] \in {"out", "destroyed"} \/ terminated
================================================================================
