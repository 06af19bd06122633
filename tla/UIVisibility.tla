------------------------------ MODULE UIVisibility ------------------------------
(***************************************************************************)
(* How a capture hides the interface and brings it back: TakePhoto(),      *)
(* Cancel(), MYReset() and OnPostLoadGame() of papyrus/Bindings.cpp, the   *)
(* callbacks the worker runs, the SKSE task queue, the menu event sink     *)
(* (ui/MenuEventSink.cpp) and the calls of UIController, step by step.     *)
(*                                                                         *)
(* The session is its contract, CaptureContract, with the token it holds.  *)
(* One thread, VM, takes photos; Other stands for the other script stacks. *)
(* HideAll() and RestoreAll() are called by the game thread only.          *)
(*                                                                         *)
(* todo[t] lists what thread t has still to do in its call, in the order   *)
(* of the code; each access to shared state is one step.                   *)
(***************************************************************************)
EXTENDS Naturals, Sequences

CONSTANTS VM, Other, Worker, Game,  \* the threads
          PauseMenus, Popups,       \* menus that pause or take input; other menus not ignored
          Calls,                    \* what else happens, of {"cancel", "reset", "load"}
          MaxCaptures,              \* bound on the captures accepted
          MaxTasks                  \* bound on the queued tasks when a native is called

Threads == {VM, Other, Worker, Game}

ASSUME ThreadsAssumption == /\ VM \notin {Other, Worker, Game} /\ Other \notin {Worker, Game}
                            /\ Worker # Game
ASSUME MenusAssumption  == PauseMenus \cap Popups = {}
ASSUME BoundsAssumption == MaxCaptures \in Nat /\ MaxTasks \in Nat

VARIABLES
  captures, cancelled, outcome, delivered,  \* the session, see CaptureContract
  token,                             \* the capture whose token the session holds; 0: none
  showing, hidden, saved, wanted, at,       \* the interface, see UIController
  hider,                             \* history: the capture the interface is hidden for; 0: none
  menusHidden, sinkToken,            \* menusHidden_, captureToken_ (0: reset)
  tasks,                             \* the SKSE task queue, oldest first
  todo,                              \* per thread: the rest of its call
  hiding,                            \* the captures started with autoUI
  acquiring,                         \* the worker still acquires frames
  disturbed                          \* history: a reset took the sink's token of this capture

Session == INSTANCE CaptureContract
UI      == INSTANCE UIController WITH Threads <- {Game}

Captures == 1..MaxCaptures
session  == <<captures, cancelled, outcome, delivered>>
interface == <<showing, hidden, saved, wanted, at, hider>>
sink     == <<menusHidden, sinkToken>>
work     == <<hiding, acquiring, disturbed>>
vars     == <<session, token, interface, sink, tasks, todo, work>>

Tasks == {"hide", "restore", "event"} \X (0..MaxCaptures)
Steps == {"hide", "mask", "start", "joinBusy", "joinReap", "set", "restore", "clear", "unmask",
          "event", "popup", "pause", "loaded"}

TypeOK ==
  /\ captures \in 0..MaxCaptures /\ cancelled \subseteq Captures
  /\ outcome \in [Captures -> Session!Outcomes \cup {"none"}]
  /\ delivered \in [Captures -> Session!Outcomes \cup {"none"}]
  /\ token \in 0..MaxCaptures
  /\ UI!TypeOK
  /\ hider \in 0..MaxCaptures
  /\ menusHidden \in BOOLEAN /\ sinkToken \in 0..MaxCaptures
  /\ tasks \in Seq(Tasks)
  /\ todo \in [Threads -> Seq(Steps)]
  /\ hiding \subseteq Captures /\ disturbed \in BOOLEAN
  /\ acquiring \in BOOLEAN

Init ==
  /\ Session!Init
  /\ token = 0
  /\ UI!Init /\ hider = 0
  /\ menusHidden = FALSE /\ sinkToken = 0
  /\ tasks = <<>>
  /\ todo = [t \in Threads |-> <<>>]
  /\ hiding = {} /\ acquiring = FALSE /\ disturbed = FALSE

-----------------------------------------------------------------------------
(* An operator marked "defect" is a plausible error of the one after it.     *)

\* The capture that TakePhoto() starts, if it is accepted.
Coming == captures + 1

Running == captures # 0 /\ outcome[captures] = "none"        \* Starting or Running
Gone    == captures # 0 => /\ delivered[captures] # "none"   \* the worker can be joined
                           /\ todo[Worker] = <<>>

Idle(t)  == todo[t] = <<>>
GameFree == Idle(Game) /\ at[Game] = "out"

Begin(t, steps)     == Idle(t) /\ todo' = [todo EXCEPT ![t] = steps]
Due(t, s)           == ~Idle(t) /\ Head(todo[t]) = s
Step(t, s)          == Due(t, s) /\ todo' = [todo EXCEPT ![t] = Tail(@)]
Become(t, s, steps) == Due(t, s) /\ todo' = [todo EXCEPT ![t] = steps]

If(cond, steps) == IF cond THEN steps ELSE <<>>
Queue(kind, w)  == tasks' = Append(tasks, <<kind, w>>)

\* A weak token can be locked while the session or the worker holds the token.
Live(w) == w # 0 /\ (w = token \/ delivered[w] = "none")

\* RequestCancel().
CancelToken(w) == IF w = 0 THEN UNCHANGED session ELSE Session!Cancel(w)

Opening(ui) == IF ui THEN <<"hide", "mask", "start">> ELSE <<"start">>

\* defect: the interface stays hidden when the start is rejected
Rejection_Silent == <<>>
\* TakePhoto() undoes its hide when Start() does not accept.
Rejection == If(Coming \in hiding, <<"restore", "unmask">>)

\* defect: the sink never learns the token
Acceptance_NoToken == <<>>
\* TakePhoto() gives the sink the token.
Acceptance == If(Coming \in hiding, <<"set">>)

\* defect: the event is queued before the restore
Report_EventFirst(w) ==
  IF w \in hiding THEN <<"clear", "event", "restore", "unmask">> ELSE <<"clear", "event">>
\* The completion callback.
Report(w) ==
  IF w \in hiding THEN <<"clear", "restore", "unmask", "event">> ELSE <<"clear", "event">>

-----------------------------------------------------------------------------
(* TakePhoto().                                                              *)

TakePhoto(ui) ==
  /\ captures < MaxCaptures /\ Len(tasks) < MaxTasks
  /\ Begin(VM, Opening(ui))
  /\ hiding' = IF ui THEN hiding \cup {Coming} ELSE hiding \ {Coming}
  /\ UNCHANGED <<session, token, interface, sink, tasks, acquiring, disturbed>>

QueueHide ==
  /\ Step(VM, "hide")
  /\ Queue("hide", Coming)
  /\ UNCHANGED <<session, token, interface, sink, work>>

MaskMenus ==
  /\ Step(VM, "mask")
  /\ menusHidden' = TRUE
  /\ UNCHANGED <<session, token, interface, sinkToken, tasks, work>>

StartBusy ==
  /\ Running
  /\ Become(VM, "start", <<"joinBusy">>)
  /\ CancelToken(token)
  /\ UNCHANGED <<token, interface, sink, tasks, work>>

StartFree ==
  /\ ~Running
  /\ Become(VM, "start", <<"joinReap">>)
  /\ UNCHANGED <<session, token, interface, sink, tasks, work>>

\* The token stays if a reset has made the state Idle in the meantime.
BusyCancelled ==
  /\ Gone
  /\ Become(VM, "joinBusy", Rejection)
  /\ token' \in {0, token}
  /\ UNCHANGED <<session, interface, sink, tasks, work>>

\* With a single thread that starts captures, none slips in during the join.
Accepted ==
  /\ Gone
  /\ Become(VM, "joinReap", Acceptance)
  /\ Session!Accept
  /\ token' = Coming
  /\ acquiring' = TRUE /\ disturbed' = FALSE
  /\ UNCHANGED <<interface, sink, tasks, hiding>>

SetCaptureToken ==
  /\ Step(VM, "set")
  /\ sinkToken' = token
  /\ UNCHANGED <<session, token, interface, menusHidden, tasks, work>>

-----------------------------------------------------------------------------
(* Cancel(), MYReset() and the steps that several threads take.              *)

\* Cancel(); its idle test is done in the same step, see CaptureSession for the race.
Cancel ==
  /\ "cancel" \in Calls
  /\ Idle(Other) /\ Running
  /\ CancelToken(token)
  /\ UNCHANGED <<token, interface, sink, tasks, todo, work>>

MYReset(force) ==
  /\ "reset" \in Calls
  /\ force \/ ~Running
  /\ Len(tasks) < MaxTasks
  /\ Begin(Other, <<"restore", "clear", "unmask">>)
  /\ CancelToken(token)
  /\ UNCHANGED <<token, interface, sink, tasks, work>>

RestoreUIAsync(t) ==
  /\ Step(t, "restore")
  /\ Queue("restore", 0)
  /\ UNCHANGED <<session, token, interface, sink, work>>

UnmaskMenus(t) ==
  /\ Step(t, "unmask")
  /\ menusHidden' = FALSE
  /\ UNCHANGED <<session, token, interface, sinkToken, tasks, work>>

ClearCaptureToken(t) ==
  /\ Step(t, "clear")
  /\ sinkToken' = 0
  /\ disturbed' = (disturbed \/ t # Worker)
  /\ UNCHANGED <<session, token, interface, menusHidden, tasks,
                 hiding, acquiring>>

-----------------------------------------------------------------------------
(* The worker.                                                               *)

\* Stills and animations have their frames; a video never gets here.
Acquired ==
  /\ Running /\ acquiring
  /\ Begin(Worker, If(captures \in hiding, <<"restore", "unmask">>))
  /\ acquiring' = FALSE
  /\ UNCHANGED <<session, token, interface, sink, tasks, hiding, disturbed>>

\* What it reports makes no difference to the interface.
SetResult ==
  /\ Running
  /\ Session!Complete(captures, IF captures \in cancelled THEN "CANCELLED" ELSE "SUCCESS")
  /\ Begin(Worker, Report(captures))
  /\ acquiring' = FALSE
  /\ UNCHANGED <<token, interface, sink, tasks, hiding, disturbed>>

QueueModEvent ==
  /\ Step(Worker, "event")
  /\ Queue("event", captures)
  /\ UNCHANGED <<session, token, interface, sink, work>>

CallbackReturns ==
  /\ captures # 0 /\ Idle(Worker)
  /\ Session!Deliver(captures)
  /\ UNCHANGED <<token, interface, sink, tasks, todo, work>>

-----------------------------------------------------------------------------
(* The game thread: queued tasks, menu events, a load.                       *)

NextTask(kind) == /\ GameFree /\ tasks # <<>> /\ Head(tasks)[1] = kind
                  /\ tasks' = Tail(tasks)

RunHide ==
  /\ NextTask("hide")
  /\ UI!ClaimHide(Game)
  /\ hider' = IF hidden THEN hider ELSE Head(tasks)[2]
  /\ UNCHANGED <<session, token, sink, todo, work>>

RunRestore ==
  /\ NextTask("restore")
  /\ UI!ClaimRestore(Game) /\ hider' = 0
  /\ UNCHANGED <<session, token, sink, todo, work>>

RunEvent ==
  /\ NextTask("event")
  /\ UNCHANGED <<session, token, interface, sink, todo, work>>

\* The rest of HideAll() or RestoreAll().
SwitchMenus ==
  /\ UI!SaveMenus(Game) \/ UI!HideMenus(Game) \/ UI!RestoreMenus(Game)
  /\ UNCHANGED <<session, token, hider, sink, tasks, todo, work>>

\* ProcessEvent() for a menu that is not ignored.  Left out: isPaused_, which only feeds the
\* native IsGamePaused(), and menus that close, which do nothing else.
MenuOpens(m) ==
  /\ at[Game] = "out"
  /\ Begin(Game, If(menusHidden, <<IF m \in PauseMenus THEN "pause" ELSE "popup">>))
  /\ UNCHANGED <<session, token, interface, sink, tasks, work>>

MenuWithoutCapture ==
  /\ ~Live(sinkToken)
  /\ Step(Game, "pause") \/ Step(Game, "popup")
  /\ UI!ClaimRestore(Game) /\ hider' = 0
  /\ UNCHANGED <<session, token, sink, tasks, work>>

PopupIgnored ==
  /\ Live(sinkToken)
  /\ Step(Game, "popup")
  /\ UNCHANGED <<session, token, interface, sink, tasks, work>>

MenuCancelsCapture ==
  /\ Live(sinkToken)
  /\ Step(Game, "pause")
  /\ CancelToken(sinkToken)
  /\ UI!ClaimRestore(Game) /\ hider' = 0
  /\ UNCHANGED <<token, sink, tasks, work>>

OnPostLoadGame ==
  /\ "load" \in Calls
  /\ at[Game] = "out" /\ Len(tasks) < MaxTasks
  /\ Begin(Game, <<"loaded">>)
  /\ CancelToken(token)
  /\ UNCHANGED <<token, interface, sink, tasks, work>>

RestoreAfterLoad ==
  /\ Become(Game, "loaded",
            IF menusHidden THEN <<"restore", "unmask", "clear">> ELSE <<"clear">>)
  /\ UNCHANGED <<session, token, interface, sink, tasks, work>>

-----------------------------------------------------------------------------
Photographing == QueueHide \/ MaskMenus \/ StartBusy \/ StartFree \/ BusyCancelled \/ Accepted
                 \/ SetCaptureToken
Shared(t)     == RestoreUIAsync(t) \/ UnmaskMenus(t) \/ ClearCaptureToken(t)
Finishing     == SetResult \/ QueueModEvent \/ CallbackReturns
Playing       == RunHide \/ RunRestore \/ RunEvent \/ SwitchMenus \/ MenuWithoutCapture
                 \/ PopupIgnored \/ MenuCancelsCapture \/ RestoreAfterLoad

Next ==
  \/ \E ui \in BOOLEAN : TakePhoto(ui)
  \/ Photographing
  \/ Cancel \/ \E force \in BOOLEAN : MYReset(force)
  \/ \E t \in Threads : Shared(t)
  \/ Acquired \/ Finishing
  \/ Playing \/ OnPostLoadGame
  \/ \E m \in PauseMenus \cup Popups : MenuOpens(m)

Spec == Init /\ [][Next]_vars

-----------------------------------------------------------------------------
Quiescent == /\ \A t \in Threads : Idle(t)
             /\ at[Game] = "out" /\ tasks = <<>> /\ Gone

\* When no capture is left, no call is under way and no task is queued, the interface is as
\* the user wants it and the sink no longer believes it hidden, whichever way each capture
\* went: rejected, cancelled by script, menu or load, failed, or saved.
InterfaceComesBack == Quiescent => ~hidden /\ showing = wanted /\ ~menusHidden

\* "the restore has run by the time Papyrus receives the event": when the completion event of
\* a capture is sent, the interface is not hidden for it or for an earlier one.
RestoredBeforeEvent ==
  GameFree /\ tasks # <<>> /\ Head(tasks)[1] = "event" =>
    hider = 0 \/ hider > Head(tasks)[2]

\* Once TakePhoto() has returned, the sink holds the token of the capture that runs with a
\* hidden interface, whatever the previous worker cleared late, unless a reset or a load
\* came in between.
SinkHoldsRunning ==
  Idle(VM) /\ Running /\ captures \in hiding /\ ~disturbed => sinkToken = captures

\* The user's own setting survives every hide and restore of the game thread.
SavedValueSurvives == UI!SavedValueSurvives

-----------------------------------------------------------------------------
(* What the documentation says and the code does not do.                     *)

\* UserGuide: an animation records "with the HUD hidden the whole time", and a menu that
\* pauses the game cancels it: when nobody has asked the capture to stop and no task waits,
\* the interface is hidden and the sink, which acts only if it believes so, knows.
HiddenWhileRecording ==
  /\ Running /\ acquiring /\ captures \in hiding \ cancelled /\ ~disturbed
  /\ Idle(VM) /\ Idle(Worker) /\ GameFree /\ tasks = <<>>
  => hidden /\ menusHidden
================================================================================
