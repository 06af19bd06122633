-------------------------- MODULE UIVisibilityProofs --------------------------
(***************************************************************************)
(* What holds of the hidden interface for any menus, any calls and any     *)
(* number of captures and queued tasks.                                    *)
(***************************************************************************)
EXTENDS UIVisibility, TLAPS

-----------------------------------------------------------------------------
(* The invariant                                                             *)

\* What is left of a call, of each thread.
VMPrograms     == {<<>>, <<"hide", "mask", "start">>, <<"mask", "start">>, <<"start">>,
                   <<"joinBusy">>, <<"joinReap">>, <<"restore", "unmask">>, <<"unmask">>, <<"set">>}
OtherPrograms  == {<<>>, <<"restore", "clear", "unmask">>, <<"clear", "unmask">>, <<"unmask">>}
BusyPrograms   == {<<>>, <<"restore", "unmask">>, <<"unmask">>}
WorkerPrograms == BusyPrograms \cup
                  {<<"clear", "restore", "unmask", "event">>, <<"clear", "event">>,
                   <<"restore", "unmask", "event">>, <<"unmask", "event">>, <<"event">>}
GamePrograms   == {<<>>, <<"pause">>, <<"popup">>, <<"loaded">>, <<"restore", "unmask", "clear">>,
                   <<"unmask", "clear">>, <<"clear">>}

Programs ==
  /\ todo \in [Threads -> Seq(Steps)]
  /\ todo[VM] \in VMPrograms /\ todo[Other] \in OtherPrograms
  /\ todo[Worker] \in WorkerPrograms /\ todo[Game] \in GamePrograms

\* Everything but the calls and the tasks.
StateTyped ==
  /\ captures \in 0..MaxCaptures /\ cancelled \subseteq Captures
  /\ outcome \in [Captures -> Session!Outcomes \cup {"none"}]
  /\ delivered \in [Captures -> Session!Outcomes \cup {"none"}]
  /\ token \in 0..captures
  /\ hider \in 0..MaxCaptures
  /\ menusHidden \in BOOLEAN /\ sinkToken \in 0..captures
  /\ hiding \subseteq Captures /\ disturbed \in BOOLEAN
  /\ acquiring \in BOOLEAN

TasksTyped ==
  /\ tasks \in Seq(Tasks)
  /\ \A i \in 1..Len(tasks) : tasks[i][1] = "hide" => tasks[i][2] \in Captures

\* TakePhoto() has begun and Start() has not yet accepted.
Opened == todo[VM] \notin {<<>>, <<"set">>}
Room   == Opened => captures < MaxCaptures
Hides  == todo[VM] \in {<<"hide", "mask", "start">>, <<"mask", "start">>, <<"restore", "unmask">>,
                        <<"unmask">>} => Coming \in hiding

SessionInv ==
  /\ \A w \in Captures : w > captures => outcome[w] = "none"
  /\ \A w \in Captures : delivered[w] # "none" => outcome[w] # "none"
  /\ Running => todo[Worker] \in BusyPrograms
  /\ captures = 0 => todo[Worker] = <<>>

\* One thread hides and restores, so that the saved value is the user's.
SaveInv ==
  /\ at[Game] = "out" => IF hidden THEN saved = wanted /\ ~showing ELSE showing = wanted
  /\ at[Game] = "save" => hidden /\ showing = wanted
  /\ at[Game] = "hide" => hidden /\ saved = wanted
  /\ at[Game] = "show" => ~hidden /\ saved = wanted

\* Somebody is still going to undo the mask, or to queue the restore.
VMUndoes     == Opened /\ Coming \in hiding
WorkerActs   == captures # 0 /\ captures \in hiding
WorkerUndoes == WorkerActs /\ (Running \/ todo[Worker] \in
                  {<<"clear", "restore", "unmask", "event">>, <<"restore", "unmask", "event">>,
                   <<"unmask", "event">>})
VMRestores     == VMUndoes /\ todo[VM] # <<"unmask">>
WorkerRestores == WorkerUndoes /\ todo[Worker] # <<"unmask", "event">>

MaskInv == menusHidden => VMUndoes \/ WorkerUndoes

\* The first n tasks leave the interface hidden for capture u.
Restored(k, n) == \E j \in k..n : tasks[j][1] = "restore"
HiddenFor(u, n) ==
  \/ hider = u /\ ~Restored(1, n)
  \/ \E k \in 1..n : tasks[k] = <<"hide", u>> /\ ~Restored(k, n)

HideInv ==
  /\ hidden => hider # 0
  /\ \A u \in Captures : HiddenFor(u, Len(tasks)) =>
       (u = Coming /\ VMRestores) \/ (u = captures /\ WorkerRestores)

EventInv ==
  \A i \in 1..Len(tasks) : tasks[i][1] = "event" =>
    \A u \in Captures : u <= tasks[i][2] => ~HiddenFor(u, i)

SinkInv ==
  /\ Running /\ captures \in hiding /\ ~disturbed => sinkToken = captures \/ todo[VM] = <<"set">>
  /\ todo[VM] = <<"set">> => token = captures

IInv == /\ StateTyped /\ TasksTyped /\ UI!TypeOK /\ Programs
        /\ Room /\ Hides /\ SessionInv /\ SaveInv /\ MaskInv /\ HideInv /\ EventInv /\ SinkInv

-----------------------------------------------------------------------------
(* How the calls go on                                                       *)

LEMMA Tails ==
  /\ Tail(<<"hide", "mask", "start">>) = <<"mask", "start">>
  /\ Tail(<<"mask", "start">>) = <<"start">>
  /\ Tail(<<"restore", "unmask">>) = <<"unmask">>
  /\ Tail(<<"restore", "clear", "unmask">>) = <<"clear", "unmask">>
  /\ Tail(<<"clear", "unmask">>) = <<"unmask">>
  /\ Tail(<<"clear", "restore", "unmask", "event">>) = <<"restore", "unmask", "event">>
  /\ Tail(<<"restore", "unmask", "event">>) = <<"unmask", "event">>
  /\ Tail(<<"unmask", "event">>) = <<"event">>
  /\ Tail(<<"clear", "event">>) = <<"event">>
  /\ Tail(<<"restore", "unmask", "clear">>) = <<"unmask", "clear">>
  /\ Tail(<<"unmask", "clear">>) = <<"clear">>
  /\ \A s : Tail(<<s>>) = <<>>
<1>1. Tail(<<"hide", "mask", "start">>) = <<"mask", "start">>  OBVIOUS
<1>2. Tail(<<"mask", "start">>) = <<"start">>  OBVIOUS
<1>3. Tail(<<"restore", "unmask">>) = <<"unmask">>  OBVIOUS
<1>4. Tail(<<"restore", "clear", "unmask">>) = <<"clear", "unmask">>  OBVIOUS
<1>5. Tail(<<"clear", "unmask">>) = <<"unmask">>  OBVIOUS
<1>6. Tail(<<"clear", "restore", "unmask", "event">>) = <<"restore", "unmask", "event">>  OBVIOUS
<1>7. Tail(<<"restore", "unmask", "event">>) = <<"unmask", "event">>  OBVIOUS
<1>8. Tail(<<"unmask", "event">>) = <<"event">>  OBVIOUS
<1>9. Tail(<<"clear", "event">>) = <<"event">>  OBVIOUS
<1>10. Tail(<<"restore", "unmask", "clear">>) = <<"unmask", "clear">>  OBVIOUS
<1>11. Tail(<<"unmask", "clear">>) = <<"clear">>  OBVIOUS
<1>12. \A s : Tail(<<s>>) = <<>>
  <2> SUFFICES ASSUME NEW s PROVE Tail(<<s>>) = <<>>  OBVIOUS
  <2>1. Len(Tail(<<s>>)) = 0 /\ Tail(<<s>>) \in Seq({s})  OBVIOUS
  <2> QED BY <2>1
<1> QED BY <1>1, <1>2, <1>3, <1>4, <1>5, <1>6, <1>7, <1>8, <1>9, <1>10, <1>11, <1>12

\* Thread t goes on from p to q.
Moved(t, p, q) == todo[t] = p /\ todo' = [todo EXCEPT ![t] = q]

\* A step of t takes the first instruction off its call.
LEMMA StepMoves ==
  ASSUME NEW t, NEW s, Step(t, s), NEW p, todo[t] = p
  PROVE  Moved(t, p, Tail(p))
BY Zenon DEF Step, Moved

LEMMA VMMoves ==
  ASSUME Programs
  PROVE  /\ QueueHide => Moved(VM, <<"hide", "mask", "start">>, <<"mask", "start">>)
         /\ MaskMenus => Moved(VM, <<"mask", "start">>, <<"start">>)
         /\ StartBusy => Moved(VM, <<"start">>, <<"joinBusy">>)
         /\ StartFree => Moved(VM, <<"start">>, <<"joinReap">>)
         /\ BusyCancelled => Moved(VM, <<"joinBusy">>, Rejection)
         /\ Accepted => Moved(VM, <<"joinReap">>, Acceptance)
         /\ SetCaptureToken => Moved(VM, <<"set">>, <<>>)
<1> USE DEF Programs, VMPrograms, Due, Idle
<1>1. ASSUME QueueHide PROVE Moved(VM, <<"hide", "mask", "start">>, <<"mask", "start">>)
  <2>1. todo[VM] = <<"hide", "mask", "start">>  BY <1>1 DEF QueueHide, Step
  <2> QED BY <1>1, <2>1, StepMoves, Tails, Zenon DEF QueueHide
<1>2. ASSUME MaskMenus PROVE Moved(VM, <<"mask", "start">>, <<"start">>)
  <2>1. todo[VM] = <<"mask", "start">>  BY <1>2 DEF MaskMenus, Step
  <2> QED BY <1>2, <2>1, StepMoves, Tails, Zenon DEF MaskMenus
<1>3. ASSUME StartBusy PROVE Moved(VM, <<"start">>, <<"joinBusy">>)
  BY <1>3 DEF StartBusy, Become, Moved
<1>4. ASSUME StartFree PROVE Moved(VM, <<"start">>, <<"joinReap">>)
  BY <1>4 DEF StartFree, Become, Moved
<1>5. ASSUME BusyCancelled PROVE Moved(VM, <<"joinBusy">>, Rejection)
  BY <1>5 DEF BusyCancelled, Become, Moved
<1>6. ASSUME Accepted PROVE Moved(VM, <<"joinReap">>, Acceptance)
  <2>1. todo[VM] = <<"joinReap">>  BY <1>6 DEF Accepted, Become
  <2> QED BY <1>6, <2>1, Zenon DEF Accepted, Become, Moved
<1>7. ASSUME SetCaptureToken PROVE Moved(VM, <<"set">>, <<>>)
  <2>1. todo[VM] = <<"set">>  BY <1>7 DEF SetCaptureToken, Step
  <2> QED BY <1>7, <2>1, StepMoves, Tails, Zenon DEF SetCaptureToken
<1> QED BY <1>1, <1>2, <1>3, <1>4, <1>5, <1>6, <1>7

LEMMA RestoreMoves ==
  ASSUME Programs, NEW t \in Threads, RestoreUIAsync(t)
  PROVE  \/ t = VM /\ Moved(VM, <<"restore", "unmask">>, <<"unmask">>)
         \/ t = Other /\ Moved(Other, <<"restore", "clear", "unmask">>, <<"clear", "unmask">>)
         \/ t = Worker /\ Moved(Worker, <<"restore", "unmask">>, <<"unmask">>)
         \/ t = Worker /\ Moved(Worker, <<"restore", "unmask", "event">>, <<"unmask", "event">>)
         \/ t = Game /\ Moved(Game, <<"restore", "unmask", "clear">>, <<"unmask", "clear">>)
<1>1. \/ t = VM /\ todo[t] = <<"restore", "unmask">>
      \/ t = Other /\ todo[t] = <<"restore", "clear", "unmask">>
      \/ t = Worker /\ todo[t] = <<"restore", "unmask">>
      \/ t = Worker /\ todo[t] = <<"restore", "unmask", "event">>
      \/ t = Game /\ todo[t] = <<"restore", "unmask", "clear">>
  <2> USE DEF Programs, Due, Idle, Step, RestoreUIAsync
  <2>1. CASE t = VM  BY <2>1 DEF VMPrograms
  <2>2. CASE t = Other  BY <2>2 DEF OtherPrograms
  <2>3. CASE t = Worker  BY <2>3 DEF WorkerPrograms, BusyPrograms
  <2>4. CASE t = Game  BY <2>4 DEF GamePrograms
  <2> QED BY <2>1, <2>2, <2>3, <2>4 DEF Threads
<1> QED BY <1>1, StepMoves, Tails, Zenon DEF RestoreUIAsync

LEMMA UnmaskMoves ==
  ASSUME Programs, NEW t \in Threads, UnmaskMenus(t)
  PROVE  \/ t = VM /\ Moved(VM, <<"unmask">>, <<>>)
         \/ t = Other /\ Moved(Other, <<"unmask">>, <<>>)
         \/ t = Worker /\ Moved(Worker, <<"unmask">>, <<>>)
         \/ t = Worker /\ Moved(Worker, <<"unmask", "event">>, <<"event">>)
         \/ t = Game /\ Moved(Game, <<"unmask", "clear">>, <<"clear">>)
<1>1. \/ t \in {VM, Other, Worker} /\ todo[t] = <<"unmask">>
      \/ t = Worker /\ todo[t] = <<"unmask", "event">>
      \/ t = Game /\ todo[t] = <<"unmask", "clear">>
  <2> USE DEF Programs, Due, Idle, Step, UnmaskMenus
  <2>1. CASE t = VM  BY <2>1 DEF VMPrograms
  <2>2. CASE t = Other  BY <2>2 DEF OtherPrograms
  <2>3. CASE t = Worker  BY <2>3 DEF WorkerPrograms, BusyPrograms
  <2>4. CASE t = Game  BY <2>4 DEF GamePrograms
  <2> QED BY <2>1, <2>2, <2>3, <2>4 DEF Threads
<1> QED BY <1>1, StepMoves, Tails, Zenon DEF UnmaskMenus

LEMMA ClearMoves ==
  ASSUME Programs, NEW t \in Threads, ClearCaptureToken(t)
  PROVE  \/ t = Other /\ Moved(Other, <<"clear", "unmask">>, <<"unmask">>)
         \/ /\ t = Worker
            /\ Moved(Worker, <<"clear", "restore", "unmask", "event">>,
                             <<"restore", "unmask", "event">>)
         \/ t = Worker /\ Moved(Worker, <<"clear", "event">>, <<"event">>)
         \/ t = Game /\ Moved(Game, <<"clear">>, <<>>)
<1>1. \/ t = Other /\ todo[t] = <<"clear", "unmask">>
      \/ t = Worker /\ todo[t] = <<"clear", "restore", "unmask", "event">>
      \/ t = Worker /\ todo[t] = <<"clear", "event">>
      \/ t = Game /\ todo[t] = <<"clear">>
  <2> USE DEF Programs, Due, Idle, Step, ClearCaptureToken
  <2>1. CASE t = VM  BY <2>1 DEF VMPrograms
  <2>2. CASE t = Other  BY <2>2 DEF OtherPrograms
  <2>3. CASE t = Worker  BY <2>3 DEF WorkerPrograms, BusyPrograms
  <2>4. CASE t = Game  BY <2>4 DEF GamePrograms
  <2> QED BY <2>1, <2>2, <2>3, <2>4 DEF Threads
<1> QED BY <1>1, StepMoves, Tails, Zenon DEF ClearCaptureToken

LEMMA EventMoves ==
  ASSUME Programs, QueueModEvent
  PROVE  Moved(Worker, <<"event">>, <<>>)
<1>1. todo[Worker] = <<"event">>
  BY DEF QueueModEvent, Step, Due, Idle, Programs, WorkerPrograms, BusyPrograms
<1> QED BY <1>1, StepMoves, Tails, Zenon DEF QueueModEvent

LEMMA GameMoves ==
  ASSUME Programs
  PROVE  /\ MenuWithoutCapture => Moved(Game, <<"pause">>, <<>>) \/ Moved(Game, <<"popup">>, <<>>)
         /\ PopupIgnored => Moved(Game, <<"popup">>, <<>>)
         /\ MenuCancelsCapture => Moved(Game, <<"pause">>, <<>>)
<1>1. ASSUME Due(Game, "pause") PROVE todo[Game] = <<"pause">>
  BY <1>1 DEF Programs, GamePrograms, Due, Idle
<1>2. ASSUME Due(Game, "popup") PROVE todo[Game] = <<"popup">>
  BY <1>2 DEF Programs, GamePrograms, Due, Idle
<1>3. Step(Game, "pause") => Moved(Game, <<"pause">>, <<>>)
  BY <1>1, StepMoves, Tails, Zenon DEF Step
<1>4. Step(Game, "popup") => Moved(Game, <<"popup">>, <<>>)
  BY <1>2, StepMoves, Tails, Zenon DEF Step
<1> QED BY <1>3, <1>4 DEF MenuWithoutCapture, PopupIgnored, MenuCancelsCapture

LEMMA ProgramsKept ==
  ASSUME Programs, NEW t, NEW q, todo' = [todo EXCEPT ![t] = q],
         \/ t = VM /\ q \in VMPrograms
         \/ t = Other /\ q \in OtherPrograms
         \/ t = Worker /\ q \in WorkerPrograms
         \/ t = Game /\ q \in GamePrograms
  PROVE  Programs'
<1>1. q \in Seq(Steps)
  <2>1. VMPrograms \subseteq Seq(Steps)  BY DEF VMPrograms, Steps
  <2>2. OtherPrograms \subseteq Seq(Steps)  BY DEF OtherPrograms, Steps
  <2>3. WorkerPrograms \subseteq Seq(Steps)  BY DEF WorkerPrograms, BusyPrograms, Steps
  <2>4. GamePrograms \subseteq Seq(Steps)  BY DEF GamePrograms, Steps
  <2> QED BY <2>1, <2>2, <2>3, <2>4
<1> QED BY <1>1, ThreadsAssumption DEF Programs, Threads

LEMMA Answers ==
  /\ Rejection \in {<<>>, <<"restore", "unmask">>}
  /\ Acceptance \in {<<>>, <<"set">>}
  /\ \A w : Report(w) \in {<<"clear", "restore", "unmask", "event">>, <<"clear", "event">>}
BY DEF Rejection, Acceptance, Report, If

LEMMA ProgramsStep ==
  ASSUME Programs, Next
  PROVE  Programs'
<1> USE DEF Moved
<1>1. ASSUME NEW ui \in BOOLEAN, TakePhoto(ui) PROVE Programs'
  <2>1. todo' = [todo EXCEPT ![VM] = Opening(ui)]  BY <1>1 DEF TakePhoto, Begin
  <2>2. Opening(ui) \in VMPrograms  BY DEF Opening, VMPrograms
  <2> QED BY <2>1, <2>2, ProgramsKept
<1>2. CASE Photographing
  <2>1. \E q \in VMPrograms : todo' = [todo EXCEPT ![VM] = q]
    BY <1>2, VMMoves, Answers DEF Photographing, VMPrograms
  <2> QED BY <2>1, ProgramsKept
<1>3. CASE Cancel  BY <1>3 DEF Cancel, Programs
<1>4. ASSUME NEW force \in BOOLEAN, MYReset(force) PROVE Programs'
  <2>1. todo' = [todo EXCEPT ![Other] = <<"restore", "clear", "unmask">>]
    BY <1>4 DEF MYReset, Begin
  <2> QED BY <2>1, ProgramsKept DEF OtherPrograms
<1>5. ASSUME NEW t \in Threads, Shared(t) PROVE Programs'
  <2>1. CASE RestoreUIAsync(t)
    BY <2>1, RestoreMoves, ProgramsKept
    DEF VMPrograms, OtherPrograms, WorkerPrograms, BusyPrograms, GamePrograms
  <2>2. CASE UnmaskMenus(t)
    BY <2>2, UnmaskMoves, ProgramsKept
    DEF VMPrograms, OtherPrograms, WorkerPrograms, BusyPrograms, GamePrograms
  <2>3. CASE ClearCaptureToken(t)
    BY <2>3, ClearMoves, ProgramsKept
    DEF VMPrograms, OtherPrograms, WorkerPrograms, BusyPrograms, GamePrograms
  <2> QED BY <1>5, <2>1, <2>2, <2>3 DEF Shared
<1>6. CASE Acquired
  <2>1. \E q \in WorkerPrograms : todo' = [todo EXCEPT ![Worker] = q]
    BY <1>6 DEF Acquired, Begin, If, WorkerPrograms, BusyPrograms
  <2> QED BY <2>1, ProgramsKept
<1>7. CASE Finishing
  <2>1. CASE CallbackReturns  BY <2>1 DEF CallbackReturns, Programs
  <2>2. CASE SetResult \/ QueueModEvent
    <3>1. \E q \in WorkerPrograms : todo' = [todo EXCEPT ![Worker] = q]
      BY <2>2, EventMoves, Answers DEF SetResult, Begin, WorkerPrograms, BusyPrograms
    <3> QED BY <3>1, ProgramsKept
  <2> QED BY <1>7, <2>1, <2>2 DEF Finishing
<1>8. CASE Playing
  <2>1. CASE UNCHANGED todo  BY <2>1 DEF Programs
  <2>2. CASE MenuWithoutCapture \/ PopupIgnored \/ MenuCancelsCapture
    BY <2>2, GameMoves, ProgramsKept DEF GamePrograms
  <2>3. CASE RestoreAfterLoad
    <3>1. \E q \in GamePrograms : todo' = [todo EXCEPT ![Game] = q]
      BY <2>3 DEF RestoreAfterLoad, Become, GamePrograms
    <3> QED BY <3>1, ProgramsKept
  <2> QED BY <1>8, <2>1, <2>2, <2>3 DEF Playing, RunHide, RunRestore, RunEvent, SwitchMenus
<1>9. CASE OnPostLoadGame
  BY <1>9, ProgramsKept DEF OnPostLoadGame, Begin, GamePrograms
<1>10. ASSUME NEW m \in PauseMenus \cup Popups, MenuOpens(m) PROVE Programs'
  <2>1. \E q \in GamePrograms : todo' = [todo EXCEPT ![Game] = q]
    BY <1>10 DEF MenuOpens, Begin, If, GamePrograms
  <2> QED BY <2>1, ProgramsKept
<1> QED BY <1>1, <1>2, <1>3, <1>4, <1>5, <1>6, <1>7, <1>8, <1>9, <1>10 DEF Next

-----------------------------------------------------------------------------
(* The session                                                               *)

LEMMA RoomStep ==
  ASSUME StateTyped, Programs, Room, Next
  PROVE  Room'
<1> USE ThreadsAssumption DEF Moved, Room, Opened, Programs, Threads
<1>1. ASSUME NEW ui \in BOOLEAN, TakePhoto(ui) PROVE Room'
  BY <1>1 DEF TakePhoto, session
<1>2. CASE Photographing
  <2>1. CASE Accepted
    <3>1. todo'[VM] \in {<<>>, <<"set">>}  BY <2>1, VMMoves, Answers
    <3> QED BY <3>1
  <2>2. CASE QueueHide \/ MaskMenus \/ StartBusy \/ StartFree \/ BusyCancelled \/ SetCaptureToken
    <3>1. captures' = captures
      BY <2>2 DEF QueueHide, MaskMenus, StartBusy, StartFree, BusyCancelled, SetCaptureToken,
                  session, CancelToken, Session!Cancel
    <3>2. CASE SetCaptureToken  BY <3>2, VMMoves
    <3>3. CASE ~SetCaptureToken
      <4>1. Opened
        <5>1. CASE QueueHide  BY <5>1, VMMoves
        <5>2. CASE MaskMenus  BY <5>2, VMMoves
        <5>3. CASE StartBusy  BY <5>3, VMMoves
        <5>4. CASE StartFree  BY <5>4, VMMoves
        <5>5. CASE BusyCancelled
          <6>1. ~Idle(VM) /\ Head(todo[VM]) = "joinBusy"  BY <5>5, Zenon DEF BusyCancelled, Become, Due
          <6> QED BY <6>1 DEF Idle
        <5> QED BY <2>2, <3>3, <5>1, <5>2, <5>3, <5>4, <5>5
      <4> QED BY <3>1, <4>1
    <3> QED BY <3>2, <3>3
  <2> QED BY <1>2, <2>1, <2>2 DEF Photographing
<1>3. CASE Cancel  BY <1>3 DEF Cancel, CancelToken, session, Session!Cancel
<1>4. ASSUME NEW force \in BOOLEAN, MYReset(force) PROVE Room'
  BY <1>4 DEF MYReset, Begin, CancelToken, session, Session!Cancel
<1>5. ASSUME NEW t \in Threads, Shared(t) PROVE Room'
  <2>1. captures' = captures
    BY <1>5 DEF Shared, RestoreUIAsync, UnmaskMenus, ClearCaptureToken, session
  <2>2. todo'[VM] = todo[VM] \/ Opened
    BY <1>5, RestoreMoves, UnmaskMoves, ClearMoves DEF Shared
  <2> QED BY <2>1, <2>2
<1>6. CASE Acquired  BY <1>6 DEF Acquired, Begin, session
<1>7. CASE Finishing
  BY <1>7, EventMoves DEF Finishing, SetResult, QueueModEvent, CallbackReturns, Begin, session,
                          Session!Complete, Session!Deliver
<1>8. CASE Playing
  BY <1>8, GameMoves DEF Playing, RunHide, RunRestore, RunEvent, SwitchMenus, MenuWithoutCapture,
       PopupIgnored, MenuCancelsCapture, RestoreAfterLoad, Become, CancelToken, session, Session!Cancel
<1>9. CASE OnPostLoadGame
  BY <1>9 DEF OnPostLoadGame, Begin, CancelToken, session, Session!Cancel
<1>10. ASSUME NEW m \in PauseMenus \cup Popups, MenuOpens(m) PROVE Room'
  BY <1>10 DEF MenuOpens, Begin, session
<1> QED BY <1>1, <1>2, <1>3, <1>4, <1>5, <1>6, <1>7, <1>8, <1>9, <1>10 DEF Next

\* Cancelling a live token changes cancelled alone.
LEMMA CancelTyped ==
  ASSUME StateTyped, NEW w \in 0..captures, CancelToken(w)
  PROVE  cancelled' \subseteq Captures /\ UNCHANGED <<captures, outcome, delivered>>
<1>1. CASE w = 0  BY <1>1 DEF CancelToken, session, StateTyped
<1>2. CASE w # 0
  <2>1. w \in Captures  BY <1>2, BoundsAssumption DEF StateTyped, Captures
  <2> QED BY <1>2, <2>1 DEF CancelToken, Session!Cancel, StateTyped
<1> QED BY <1>1, <1>2

\* The steps that cancel, accept or end a capture.
LEMMA SessionSteps ==
  ASSUME StateTyped, Next
  PROVE  \/ UNCHANGED <<captures, outcome, delivered>> /\ cancelled' \subseteq Captures
         \/ Accepted \/ SetResult \/ CallbackReturns
<1>1. token \in 0..captures /\ sinkToken \in 0..captures  BY DEF StateTyped
<1>2. UNCHANGED session => UNCHANGED <<captures, outcome, delivered>> /\ cancelled' \subseteq Captures
  BY DEF session, StateTyped
<1>3. CASE StartBusy \/ Cancel \/ (\E f \in BOOLEAN : MYReset(f)) \/ OnPostLoadGame
  <2>1. CancelToken(token)  BY <1>3 DEF StartBusy, Cancel, MYReset, OnPostLoadGame
  <2> QED BY <1>1, <2>1, CancelTyped
<1>4. CASE MenuCancelsCapture  BY <1>1, <1>4, CancelTyped DEF MenuCancelsCapture
<1>5. CASE \E ui \in BOOLEAN : TakePhoto(ui)  BY <1>2, <1>5 DEF TakePhoto
<1>6. CASE Photographing /\ ~StartBusy /\ ~Accepted
  BY <1>2, <1>6 DEF Photographing, QueueHide, MaskMenus, StartFree, BusyCancelled, SetCaptureToken
<1>7. CASE \E t \in Threads : Shared(t)
  BY <1>2, <1>7 DEF Shared, RestoreUIAsync, UnmaskMenus, ClearCaptureToken
<1>8. CASE Acquired \/ QueueModEvent  BY <1>2, <1>8 DEF Acquired, QueueModEvent
<1>9. CASE Playing /\ ~MenuCancelsCapture
  BY <1>2, <1>9 DEF Playing, RunHide, RunRestore, RunEvent, SwitchMenus, MenuWithoutCapture,
                    PopupIgnored, RestoreAfterLoad
<1>10. CASE \E m \in PauseMenus \cup Popups : MenuOpens(m)  BY <1>2, <1>10 DEF MenuOpens
<1> QED BY <1>3, <1>4, <1>5, <1>6, <1>7, <1>8, <1>9, <1>10 DEF Next, Photographing, Finishing

SessionTyped ==
  /\ captures \in 0..MaxCaptures /\ cancelled \subseteq Captures
  /\ outcome \in [Captures -> Session!Outcomes \cup {"none"}]
  /\ delivered \in [Captures -> Session!Outcomes \cup {"none"}]

LEMMA SessionTypedStep ==
  ASSUME StateTyped, Next
  PROVE  SessionTyped'
<1> USE DEF SessionTyped, StateTyped
<1>1. CASE UNCHANGED <<captures, outcome, delivered>> /\ cancelled' \subseteq Captures
  BY <1>1
<1>2. CASE Accepted  BY <1>2, BoundsAssumption DEF Accepted, Session!Accept
<1>3. CASE SetResult  BY <1>3 DEF SetResult, Session!Complete, Session!Outcomes
<1>4. CASE CallbackReturns  BY <1>4 DEF CallbackReturns, Session!Deliver
<1> QED BY <1>1, <1>2, <1>3, <1>4, SessionSteps

TokensTyped == token \in 0..captures /\ sinkToken \in 0..captures /\ menusHidden \in BOOLEAN
RestTyped   == /\ hider \in 0..MaxCaptures /\ hiding \subseteq Captures
               /\ disturbed \in BOOLEAN /\ acquiring \in BOOLEAN

LEMMA TokensTypedStep ==
  ASSUME StateTyped, Next
  PROVE  TokensTyped'
<1> USE DEF TokensTyped, StateTyped, sink
<1>1. CASE Accepted  BY <1>1 DEF Accepted, Session!Accept, Coming
<1>2. ASSUME ~Accepted PROVE TokensTyped'
  <2>1. captures' = captures
    BY <1>2, SessionSteps DEF SetResult, CallbackReturns, Session!Complete, Session!Deliver
  <2>2. CASE BusyCancelled \/ SetCaptureToken  BY <2>1, <2>2 DEF BusyCancelled, SetCaptureToken
  <2>3. CASE Photographing /\ ~BusyCancelled /\ ~SetCaptureToken
    BY <1>2, <2>1, <2>3 DEF Photographing, QueueHide, MaskMenus, StartBusy, StartFree
  <2>4. CASE \E t \in Threads : Shared(t)
    <3>1. UNCHANGED token /\ sinkToken' \in {0, sinkToken}
      BY <2>4 DEF Shared, RestoreUIAsync, UnmaskMenus, ClearCaptureToken
    <3>2. menusHidden' \in BOOLEAN
      BY <2>4 DEF Shared, RestoreUIAsync, UnmaskMenus, ClearCaptureToken
    <3>3. token' \in 0..captures' /\ sinkToken' \in 0..captures'
      BY <2>1, <3>1
    <3> QED BY <3>2, <3>3
  <2>5. CASE (\E ui \in BOOLEAN : TakePhoto(ui)) \/ Cancel \/ (\E f \in BOOLEAN : MYReset(f))
    BY <2>1, <2>5 DEF TakePhoto, Cancel, MYReset
  <2>6. CASE Acquired \/ Finishing
    BY <2>1, <2>6 DEF Acquired, Finishing, SetResult, QueueModEvent, CallbackReturns
  <2>7. CASE Playing
    BY <2>1, <2>7 DEF Playing, RunHide, RunRestore, RunEvent, SwitchMenus, MenuWithoutCapture,
                      PopupIgnored, MenuCancelsCapture, RestoreAfterLoad
  <2>8. CASE OnPostLoadGame \/ \E m \in PauseMenus \cup Popups : MenuOpens(m)
    BY <2>1, <2>8 DEF OnPostLoadGame, MenuOpens
  <2> QED BY <2>2, <2>3, <2>4, <2>5, <2>6, <2>7, <2>8 DEF Next
<1> QED BY <1>1, <1>2

LEMMA RestTypedStep ==
  ASSUME StateTyped, TasksTyped, Next
  PROVE  RestTyped'
<1> USE DEF RestTyped, StateTyped, interface, work
<1>1. ASSUME NEW ui \in BOOLEAN, TakePhoto(ui) PROVE RestTyped'
  <2>1. captures < MaxCaptures  BY <1>1 DEF TakePhoto
  <2>2. Coming \in Captures  BY <2>1, BoundsAssumption DEF Coming, Captures
  <2> QED BY <1>1, <2>2 DEF TakePhoto
<1>2. CASE Photographing
  BY <1>2 DEF Photographing, QueueHide, MaskMenus, StartBusy, StartFree, BusyCancelled, Accepted,
              SetCaptureToken
<1>3. CASE Cancel \/ \E f \in BOOLEAN : MYReset(f)  BY <1>3 DEF Cancel, MYReset
<1>4. ASSUME NEW t \in Threads, Shared(t) PROVE RestTyped'
  <2>1. (disturbed \/ t # Worker) \in BOOLEAN  OBVIOUS
  <2> QED BY <1>4, <2>1 DEF Shared, RestoreUIAsync, UnmaskMenus, ClearCaptureToken
<1>5. CASE Acquired \/ Finishing
  BY <1>5 DEF Acquired, Finishing, SetResult, QueueModEvent, CallbackReturns
<1>6. CASE RunHide
  <2>1. Head(tasks) \in Tasks  BY <1>6 DEF RunHide, NextTask, TasksTyped
  <2>2. Head(tasks)[2] \in 0..MaxCaptures  BY <2>1 DEF Tasks
  <2> QED BY <1>6, <2>2 DEF RunHide
<1>7. CASE Playing /\ ~RunHide
  <2>1. hider' \in {0, hider}
    BY <1>7 DEF Playing, RunRestore, RunEvent, SwitchMenus, MenuWithoutCapture, PopupIgnored,
                MenuCancelsCapture, RestoreAfterLoad
  <2> QED BY <1>7, <2>1, BoundsAssumption
          DEF Playing, RunRestore, RunEvent, SwitchMenus, MenuWithoutCapture, PopupIgnored,
              MenuCancelsCapture, RestoreAfterLoad
<1>8. CASE OnPostLoadGame \/ \E m \in PauseMenus \cup Popups : MenuOpens(m)
  BY <1>8 DEF OnPostLoadGame, MenuOpens
<1> QED BY <1>1, <1>2, <1>3, <1>4, <1>5, <1>6, <1>7, <1>8 DEF Next

LEMMA StateStep ==
  ASSUME StateTyped, TasksTyped, Next
  PROVE  StateTyped'
BY SessionTypedStep, TokensTypedStep, RestTypedStep
DEF SessionTyped, TokensTyped, RestTyped, StateTyped

\* The session and the worker's call go together.
LEMMA SessionInvStep ==
  ASSUME StateTyped, Programs, SessionInv, Next
  PROVE  SessionInv'
<1> USE ThreadsAssumption DEF SessionInv, Running, Programs, Threads, Moved, StateTyped, BusyPrograms
<1>1. CASE Accepted
  <2>1. todo'[Worker] = <<>>  BY <1>1, VMMoves DEF Accepted, Gone
  <2>2. captures' = captures + 1 /\ UNCHANGED <<outcome, delivered>>
    BY <1>1 DEF Accepted, Session!Accept
  <2> QED BY <2>1, <2>2, BoundsAssumption DEF Captures
<1>2. CASE SetResult
  <2>1. captures \in Captures /\ todo'[Worker] \in WorkerPrograms
    BY <1>2, ProgramsStep DEF SetResult, Captures
  <2>2. outcome' = [outcome EXCEPT ![captures] = IF captures \in cancelled THEN "CANCELLED" ELSE "SUCCESS"]
        /\ UNCHANGED <<captures, delivered>>
    BY <1>2 DEF SetResult, Session!Complete
  <2> QED BY <1>2, <2>1, <2>2 DEF SetResult
<1>3. CASE CallbackReturns
  BY <1>3 DEF CallbackReturns, Session!Deliver, Idle
<1>4. ASSUME UNCHANGED <<captures, outcome, delivered>> PROVE SessionInv'
  <2>1. CASE todo'[Worker] = todo[Worker]  BY <1>4, <2>1
  <2>2. CASE \E t \in Threads : Shared(t)
    <3>1. CASE \E t \in Threads : RestoreUIAsync(t)
      <4>1. \/ todo'[Worker] = todo[Worker]
            \/ todo[Worker] = <<"restore", "unmask">> /\ todo'[Worker] = <<"unmask">>
            \/ todo[Worker] = <<"restore", "unmask", "event">>
        BY <3>1, RestoreMoves
      <4>2. <<"restore", "unmask", "event">> \notin BusyPrograms
            /\ <<"restore", "unmask">> # <<>> /\ <<"restore", "unmask", "event">> # <<>>
        OBVIOUS
      <4> QED BY <1>4, <2>1, <4>1, <4>2
    <3>2. CASE \E t \in Threads : UnmaskMenus(t)
      <4>1. \/ todo'[Worker] = todo[Worker]
            \/ todo[Worker] = <<"unmask">> /\ todo'[Worker] = <<>>
            \/ todo[Worker] = <<"unmask", "event">>
        BY <3>2, UnmaskMoves
      <4>2. <<"unmask", "event">> \notin BusyPrograms /\ <<"unmask">> # <<>>
            /\ <<"unmask", "event">> # <<>>
        OBVIOUS
      <4> QED BY <1>4, <2>1, <4>1, <4>2
    <3>3. CASE \E t \in Threads : ClearCaptureToken(t)  BY <1>4, <3>3, ClearMoves
    <3> QED BY <2>2, <3>1, <3>2, <3>3 DEF Shared
  <2>3. CASE Acquired  BY <1>4, <2>3 DEF Acquired, Begin, If
  <2>4. CASE QueueModEvent  BY <1>4, <2>4, EventMoves
  <2>5. Photographing => todo'[Worker] = todo[Worker]  BY VMMoves DEF Photographing
  <2>6. Playing => todo'[Worker] = todo[Worker]
    BY GameMoves DEF Playing, RunHide, RunRestore, RunEvent, SwitchMenus, RestoreAfterLoad, Become
  <2>7. (\E ui \in BOOLEAN : TakePhoto(ui)) \/ Cancel \/ (\E f \in BOOLEAN : MYReset(f))
        \/ OnPostLoadGame \/ (\E m \in PauseMenus \cup Popups : MenuOpens(m))
        \/ CallbackReturns \/ SetResult => todo'[Worker] = todo[Worker] \/ SetResult
    BY DEF TakePhoto, Cancel, MYReset, OnPostLoadGame, MenuOpens, Begin, CallbackReturns
  <2> QED BY <1>2, <2>1, <2>2, <2>3, <2>4, <2>5, <2>6, <2>7 DEF Next, Finishing
<1> QED BY <1>1, <1>2, <1>3, <1>4, SessionSteps

-----------------------------------------------------------------------------
(* Who still undoes the mask                                                 *)

\* Only TakePhoto() and an accepted start change for which capture the interface is hidden.
LEMMA HidingKept ==
  ASSUME StateTyped, Next
  PROVE  \/ UNCHANGED <<captures, hiding>>
         \/ (\E ui \in BOOLEAN : TakePhoto(ui)) \/ Accepted
<1>1. UNCHANGED captures \/ Accepted
  BY SessionSteps DEF SetResult, CallbackReturns, Session!Complete, Session!Deliver
<1>2. UNCHANGED hiding \/ (\E ui \in BOOLEAN : TakePhoto(ui))
  <2>1. Photographing => UNCHANGED hiding
    BY DEF Photographing, QueueHide, MaskMenus, StartBusy, StartFree, BusyCancelled, Accepted,
           SetCaptureToken, work
  <2>2. (\E t \in Threads : Shared(t)) => UNCHANGED hiding
    BY DEF Shared, RestoreUIAsync, UnmaskMenus, ClearCaptureToken, work
  <2>3. Playing => UNCHANGED hiding
    BY DEF Playing, RunHide, RunRestore, RunEvent, SwitchMenus, MenuWithoutCapture, PopupIgnored,
           MenuCancelsCapture, RestoreAfterLoad, work
  <2>4. Acquired \/ Finishing \/ Cancel \/ OnPostLoadGame => UNCHANGED hiding
    BY DEF Acquired, Finishing, SetResult, QueueModEvent, CallbackReturns, Cancel, OnPostLoadGame, work
  <2>5. (\E f \in BOOLEAN : MYReset(f)) \/ (\E m \in PauseMenus \cup Popups : MenuOpens(m))
        => UNCHANGED hiding
    BY DEF MYReset, MenuOpens, work
  <2> QED BY <2>1, <2>2, <2>3, <2>4, <2>5 DEF Next
<1> QED BY <1>1, <1>2

\* How the call of the VM thread may change in one step.
LEMMA VMCalls ==
  ASSUME Programs, Next
  PROVE  \/ todo'[VM] = todo[VM]
         \/ \E ui \in BOOLEAN : TakePhoto(ui) /\ todo[VM] = <<>> /\ todo'[VM] = Opening(ui)
         \/ QueueHide /\ todo[VM] = <<"hide", "mask", "start">> /\ todo'[VM] = <<"mask", "start">>
         \/ MaskMenus /\ todo[VM] = <<"mask", "start">> /\ todo'[VM] = <<"start">>
         \/ StartBusy /\ todo[VM] = <<"start">> /\ todo'[VM] = <<"joinBusy">>
         \/ StartFree /\ todo[VM] = <<"start">> /\ todo'[VM] = <<"joinReap">>
         \/ BusyCancelled /\ todo[VM] = <<"joinBusy">> /\ todo'[VM] = Rejection
         \/ Accepted /\ todo[VM] = <<"joinReap">> /\ todo'[VM] = Acceptance
         \/ SetCaptureToken /\ todo[VM] = <<"set">> /\ todo'[VM] = <<>>
         \/ RestoreUIAsync(VM) /\ todo[VM] = <<"restore", "unmask">> /\ todo'[VM] = <<"unmask">>
         \/ UnmaskMenus(VM) /\ todo[VM] = <<"unmask">> /\ todo'[VM] = <<>>
<1> USE ThreadsAssumption DEF Programs, Threads, Moved
<1>1. ASSUME NEW ui \in BOOLEAN, TakePhoto(ui)
      PROVE  TakePhoto(ui) /\ todo[VM] = <<>> /\ todo'[VM] = Opening(ui)
  BY <1>1 DEF TakePhoto, Begin, Idle
<1>2. CASE QueueHide  BY <1>2, VMMoves
<1>3. CASE MaskMenus  BY <1>3, VMMoves
<1>4. CASE StartBusy  BY <1>4, VMMoves
<1>5. CASE StartFree  BY <1>5, VMMoves
<1>6. CASE BusyCancelled  BY <1>6, VMMoves
<1>7. CASE Accepted  BY <1>7, VMMoves
<1>8. CASE SetCaptureToken  BY <1>8, VMMoves
<1>9. ASSUME NEW t \in Threads, RestoreUIAsync(t)
      PROVE  todo'[VM] = todo[VM] \/ (RestoreUIAsync(VM) /\ todo[VM] = <<"restore", "unmask">>
                                      /\ todo'[VM] = <<"unmask">>)
  BY <1>9, RestoreMoves
<1>10. ASSUME NEW t \in Threads, UnmaskMenus(t)
       PROVE  todo'[VM] = todo[VM] \/ (UnmaskMenus(VM) /\ todo[VM] = <<"unmask">> /\ todo'[VM] = <<>>)
  BY <1>10, UnmaskMoves
<1>11. (\E t \in Threads : ClearCaptureToken(t)) => todo'[VM] = todo[VM]  BY ClearMoves
<1>12. Acquired \/ Finishing => todo'[VM] = todo[VM]
  BY EventMoves DEF Acquired, Finishing, SetResult, CallbackReturns, Begin
<1>13. Playing => todo'[VM] = todo[VM]
  BY GameMoves DEF Playing, RunHide, RunRestore, RunEvent, SwitchMenus, RestoreAfterLoad, Become
<1>14. Cancel \/ (\E f \in BOOLEAN : MYReset(f)) \/ OnPostLoadGame
       \/ (\E m \in PauseMenus \cup Popups : MenuOpens(m)) => todo'[VM] = todo[VM]
  BY DEF Cancel, MYReset, OnPostLoadGame, MenuOpens, Begin
<1> HIDE DEF Programs, Threads, Moved
<1> QED BY <1>1, <1>2, <1>3, <1>4, <1>5, <1>6, <1>7, <1>8, <1>9, <1>10, <1>11, <1>12, <1>13, <1>14, Zenon
        DEF Next, Photographing, Shared

LEMMA HidesStep ==
  ASSUME StateTyped, Programs, Hides, Next
  PROVE  Hides'
<1> USE DEF Hides, Coming
<1>1. ASSUME NEW ui \in BOOLEAN, TakePhoto(ui), todo'[VM] = Opening(ui) PROVE Hides'
  <2>1. captures' = captures /\ (ui => Coming \in hiding')  BY <1>1 DEF TakePhoto, session
  <2> QED BY <1>1, <2>1 DEF Opening
<1>2. CASE Accepted
  BY <1>2, VMMoves, Answers, ThreadsAssumption DEF Programs, Moved, Threads
<1>3. CASE UNCHANGED <<captures, hiding>>
  <2> USE <1>3
  <2>1. CASE todo'[VM] = Rejection  BY <2>1 DEF Rejection, If
  <2>2. CASE todo'[VM] = todo[VM]  BY <2>2
  <2>3. CASE todo'[VM] \in {<<>>, <<"start">>, <<"joinBusy">>, <<"joinReap">>}  BY <2>3
  <2>4. CASE todo[VM] \in {<<"hide", "mask", "start">>, <<"restore", "unmask">>}  BY <2>4
  <2> QED BY <1>1, <1>2, <2>1, <2>2, <2>3, <2>4, VMCalls
<1>4. CASE \E ui \in BOOLEAN : TakePhoto(ui)
  BY <1>1, <1>4, ThreadsAssumption DEF TakePhoto, Begin, Programs, Threads
<1> QED BY <1>2, <1>3, <1>4, HidingKept

\* How the call of the worker may change in one step.
LEMMA WorkerCalls ==
  ASSUME Programs, Next
  PROVE  \/ todo'[Worker] = todo[Worker]
         \/ Acquired /\ todo[Worker] = <<>>
         \/ SetResult /\ todo[Worker] = <<>> /\ todo'[Worker] = Report(captures)
         \/ /\ RestoreUIAsync(Worker)
            /\ \/ todo[Worker] = <<"restore", "unmask">> /\ todo'[Worker] = <<"unmask">>
               \/ todo[Worker] = <<"restore", "unmask", "event">>
                  /\ todo'[Worker] = <<"unmask", "event">>
         \/ /\ UnmaskMenus(Worker)
            /\ \/ todo[Worker] = <<"unmask">> /\ todo'[Worker] = <<>>
               \/ todo[Worker] = <<"unmask", "event">> /\ todo'[Worker] = <<"event">>
         \/ /\ ClearCaptureToken(Worker)
            /\ \/ todo[Worker] = <<"clear", "restore", "unmask", "event">>
                  /\ todo'[Worker] = <<"restore", "unmask", "event">>
               \/ todo[Worker] = <<"clear", "event">> /\ todo'[Worker] = <<"event">>
         \/ QueueModEvent /\ todo[Worker] = <<"event">> /\ todo'[Worker] = <<>>
<1> USE ThreadsAssumption DEF Programs, Threads, Moved
<1>1. (\E ui \in BOOLEAN : TakePhoto(ui)) => todo'[Worker] = todo[Worker]
  BY DEF TakePhoto, Begin
<1>2. Photographing => todo'[Worker] = todo[Worker]  BY VMMoves DEF Photographing
<1>3. ASSUME NEW t \in Threads, RestoreUIAsync(t)
      PROVE  \/ todo'[Worker] = todo[Worker]
             \/ /\ RestoreUIAsync(Worker)
                /\ \/ todo[Worker] = <<"restore", "unmask">> /\ todo'[Worker] = <<"unmask">>
                   \/ todo[Worker] = <<"restore", "unmask", "event">>
                      /\ todo'[Worker] = <<"unmask", "event">>
  BY <1>3, RestoreMoves
<1>4. ASSUME NEW t \in Threads, UnmaskMenus(t)
      PROVE  \/ todo'[Worker] = todo[Worker]
             \/ /\ UnmaskMenus(Worker)
                /\ \/ todo[Worker] = <<"unmask">> /\ todo'[Worker] = <<>>
                   \/ todo[Worker] = <<"unmask", "event">> /\ todo'[Worker] = <<"event">>
  BY <1>4, UnmaskMoves
<1>5. ASSUME NEW t \in Threads, ClearCaptureToken(t)
      PROVE  \/ todo'[Worker] = todo[Worker]
             \/ /\ ClearCaptureToken(Worker)
                /\ \/ todo[Worker] = <<"clear", "restore", "unmask", "event">>
                      /\ todo'[Worker] = <<"restore", "unmask", "event">>
                   \/ todo[Worker] = <<"clear", "event">> /\ todo'[Worker] = <<"event">>
  BY <1>5, ClearMoves
<1>6. Acquired => todo[Worker] = <<>>  BY DEF Acquired, Begin, Idle
<1>7. SetResult => todo[Worker] = <<>> /\ todo'[Worker] = Report(captures)
  BY DEF SetResult, Begin, Idle
<1>8. QueueModEvent => todo[Worker] = <<"event">> /\ todo'[Worker] = <<>>  BY EventMoves
<1>9. CallbackReturns => todo'[Worker] = todo[Worker]  BY DEF CallbackReturns
<1>10. Playing => todo'[Worker] = todo[Worker]
  BY GameMoves DEF Playing, RunHide, RunRestore, RunEvent, SwitchMenus, RestoreAfterLoad, Become
<1>11. Cancel \/ (\E f \in BOOLEAN : MYReset(f)) \/ OnPostLoadGame
       \/ (\E m \in PauseMenus \cup Popups : MenuOpens(m)) => todo'[Worker] = todo[Worker]
  BY DEF Cancel, MYReset, OnPostLoadGame, MenuOpens, Begin
<1> HIDE DEF Programs, Threads, Moved
<1> QED BY <1>1, <1>2, <1>3, <1>4, <1>5, <1>6, <1>7, <1>8, <1>9, <1>10, <1>11, Zenon
        DEF Next, Shared, Finishing

\* When the capture to come is hidden for and its start is under way, TakePhoto() or the
\* worker it starts undoes both.
LEMMA VMStillUndoes ==
  ASSUME StateTyped, Programs, SessionInv, Next, VMUndoes
  PROVE  \/ /\ UNCHANGED captures /\ VMUndoes'
            /\ VMRestores => VMRestores' \/ RestoreUIAsync(VM)
         \/ UnmaskMenus(VM) /\ ~VMRestores
         \/ captures' = Coming /\ WorkerUndoes' /\ WorkerRestores'
<1> USE DEF VMUndoes, VMRestores, Opened, Coming
<1>1. CASE Accepted
  <2>1. captures' = captures + 1 /\ outcome' = outcome /\ hiding' = hiding
    BY <1>1 DEF Accepted, Session!Accept
  <2>2. todo'[Worker] = <<>>
    BY <1>1, VMMoves, ThreadsAssumption DEF Accepted, Gone, SessionInv, Moved, Programs, Threads
  <2>3. captures' \in Captures /\ captures' > captures
    BY <1>1, <2>1, BoundsAssumption DEF Accepted, Session!Accept, StateTyped, Captures
  <2>4. outcome[captures'] = "none"  BY <2>3 DEF SessionInv
  <2>5. WorkerActs' /\ Running'
    BY <2>1, <2>3, <2>4 DEF WorkerActs, Running, StateTyped
  <2> QED BY <2>1, <2>2, <2>5 DEF WorkerUndoes, WorkerRestores
<1>2. CASE UNCHANGED <<captures, hiding>>
  <2>1. (Coming \in hiding)'  BY <1>2
  <2>2. CASE todo'[VM] = todo[VM]  BY <1>2, <2>1, <2>2
  <2>3. CASE todo'[VM] \in {<<"mask", "start">>, <<"start">>, <<"joinBusy">>, <<"joinReap">>,
                            <<"restore", "unmask">>}
    <3>1. Opened' /\ todo'[VM] # <<"unmask">>  BY <2>3
    <3> QED BY <1>2, <2>1, <3>1
  <2>4. CASE todo'[VM] = Rejection  BY <1>2, <2>1, <2>4 DEF Rejection, If
  <2>5. CASE RestoreUIAsync(VM) /\ todo'[VM] = <<"unmask">>  BY <1>2, <2>1, <2>5
  <2>6. CASE UnmaskMenus(VM) /\ todo[VM] = <<"unmask">>  BY <2>6
  <2> QED BY <1>1, <2>2, <2>3, <2>4, <2>5, <2>6, VMCalls
<1>3. CASE \E ui \in BOOLEAN : TakePhoto(ui)  BY <1>3 DEF TakePhoto, Begin, Idle
<1> QED BY <1>1, <1>2, <1>3, HidingKept

LEMMA NotBusy ==
  /\ <<"restore", "unmask", "event">> \notin BusyPrograms
  /\ <<"unmask", "event">> \notin BusyPrograms
  /\ <<"clear", "restore", "unmask", "event">> \notin BusyPrograms
  /\ <<"clear", "event">> \notin BusyPrograms
  /\ <<"event">> \notin BusyPrograms
<1>1. <<"restore", "unmask", "event">> \notin BusyPrograms  BY DEF BusyPrograms
<1>2. <<"unmask", "event">> \notin BusyPrograms  BY DEF BusyPrograms
<1>3. <<"clear", "restore", "unmask", "event">> \notin BusyPrograms  BY DEF BusyPrograms
<1>4. <<"clear", "event">> \notin BusyPrograms  BY DEF BusyPrograms
<1>5. <<"event">> \notin BusyPrograms  BY DEF BusyPrograms
<1> QED BY <1>1, <1>2, <1>3, <1>4, <1>5

\* The worker goes on until it has undone both.
LEMMA WorkerStillUndoes ==
  ASSUME StateTyped, Programs, SessionInv, Next, WorkerUndoes
  PROVE  /\ UNCHANGED captures
         /\ \/ WorkerUndoes' /\ (WorkerRestores => WorkerRestores' \/ RestoreUIAsync(Worker))
            \/ UnmaskMenus(Worker) /\ ~WorkerRestores
<1>1. ~Accepted
  BY DEF Accepted, Gone, Running, SessionInv, StateTyped, Captures, WorkerUndoes, WorkerActs
<1>2. WorkerActs'
  <2>1. WorkerActs  BY DEF WorkerUndoes
  <2>2. CASE UNCHANGED <<captures, hiding>>  BY <2>1, <2>2 DEF WorkerActs
  <2>3. CASE \E ui \in BOOLEAN : TakePhoto(ui)
    BY <2>1, <2>3 DEF TakePhoto, session, Coming, StateTyped, WorkerActs
  <2> QED BY <1>1, <2>2, <2>3, HidingKept
<1>3. UNCHANGED captures
  BY <1>1, SessionSteps DEF SetResult, CallbackReturns, Session!Complete, Session!Deliver
<1>4. CASE SetResult
  <2>1. captures \in hiding  BY DEF WorkerUndoes, WorkerActs
  <2>2. todo'[Worker] = <<"clear", "restore", "unmask", "event">>
    BY <1>4, <2>1, ThreadsAssumption DEF SetResult, Begin, Report, Programs, Threads
  <2> QED BY <1>2, <1>3, <2>2 DEF WorkerUndoes, WorkerRestores
<1>5. CASE ~SetResult
  <2>1. UNCHANGED outcome  BY <1>1, <1>5, SessionSteps DEF CallbackReturns, Session!Deliver
  <2>2. Running => Running' /\ todo[Worker] \in BusyPrograms
    BY <1>3, <2>1 DEF Running, SessionInv
  <2>3. WorkerActs  BY DEF WorkerUndoes
  <2>4. CASE todo'[Worker] = todo[Worker]
    BY <1>2, <1>3, <2>2, <2>4 DEF WorkerUndoes, WorkerRestores
  <2>5. CASE Running /\ todo'[Worker] # <<"unmask", "event">>
    BY <1>2, <1>3, <2>2, <2>5 DEF WorkerUndoes, WorkerRestores
  <2>6. CASE Acquired
    <3>1. todo'[Worker] \in BusyPrograms
      BY <2>6, ThreadsAssumption DEF Acquired, Begin, If, Programs, Threads, BusyPrograms
    <3> QED BY <2>5, <2>6, <3>1 DEF BusyPrograms, Acquired
  <2>7. CASE ~Running
    <3>1. todo[Worker] \in {<<"clear", "restore", "unmask", "event">>,
                            <<"restore", "unmask", "event">>, <<"unmask", "event">>}
      BY <2>7 DEF WorkerUndoes
    <3>2. CASE todo'[Worker] = <<"restore", "unmask", "event">>
      BY <1>2, <1>3, <3>2 DEF WorkerUndoes, WorkerRestores
    <3>3. CASE RestoreUIAsync(Worker) /\ todo'[Worker] = <<"unmask", "event">>
      BY <1>2, <1>3, <3>3 DEF WorkerUndoes
    <3>4. CASE UnmaskMenus(Worker) /\ todo[Worker] = <<"unmask", "event">>
      BY <1>3, <3>4 DEF WorkerRestores
    <3>5. todo[Worker] \notin {<<>>, <<"restore", "unmask">>, <<"unmask">>}  BY <3>1
    <3>6. todo[Worker] \notin {<<"clear", "event">>, <<"event">>}  BY <3>1
    <3> QED BY <1>5, <2>4, <3>2, <3>3, <3>4, <3>5, <3>6, WorkerCalls, Zenon
  <2>8. CASE Running
    <3>1. todo[Worker] \in BusyPrograms  BY <2>2, <2>8
    <3>2. CASE todo'[Worker] \in {<<"unmask">>, <<>>}  BY <2>5, <2>8, <3>2
    <3>3. /\ todo[Worker] # <<"restore", "unmask", "event">>
          /\ todo[Worker] # <<"unmask", "event">>
          /\ todo[Worker] # <<"clear", "restore", "unmask", "event">>
          /\ todo[Worker] # <<"clear", "event">>
          /\ todo[Worker] # <<"event">>
      BY <3>1, NotBusy, Zenon
    <3>4. todo'[Worker] = <<"unmask">> \/ todo'[Worker] = <<>> => todo'[Worker] \in {<<"unmask">>, <<>>}
      OBVIOUS
    <3> QED BY <1>5, <2>4, <2>6, <3>2, <3>3, <3>4, WorkerCalls, Zenon
  <2> QED BY <2>7, <2>8
<1> QED BY <1>4, <1>5

\* Who touches the mask.
LEMMA MaskSteps ==
  ASSUME Next
  PROVE  UNCHANGED menusHidden \/ MaskMenus \/ \E t \in Threads : UnmaskMenus(t)
<1> USE DEF sink
<1>1. Photographing => UNCHANGED menusHidden \/ MaskMenus
  BY DEF Photographing, QueueHide, StartBusy, StartFree, BusyCancelled, Accepted, SetCaptureToken
<1>2. (\E t \in Threads : Shared(t)) => UNCHANGED menusHidden \/ \E t \in Threads : UnmaskMenus(t)
  BY DEF Shared, RestoreUIAsync, ClearCaptureToken
<1>3. Playing => UNCHANGED menusHidden
  BY DEF Playing, RunHide, RunRestore, RunEvent, SwitchMenus, MenuWithoutCapture, PopupIgnored,
         MenuCancelsCapture, RestoreAfterLoad
<1>4. Acquired \/ Finishing \/ Cancel \/ OnPostLoadGame => UNCHANGED menusHidden
  BY DEF Acquired, Finishing, SetResult, QueueModEvent, CallbackReturns, Cancel, OnPostLoadGame
<1>5. (\E ui \in BOOLEAN : TakePhoto(ui)) \/ (\E f \in BOOLEAN : MYReset(f))
      \/ (\E m \in PauseMenus \cup Popups : MenuOpens(m)) => UNCHANGED menusHidden
  BY DEF TakePhoto, MYReset, MenuOpens
<1> QED BY <1>1, <1>2, <1>3, <1>4, <1>5 DEF Next

\* menusHidden_ is set only while somebody will clear it.
LEMMA MaskStep ==
  ASSUME StateTyped, Programs, Hides, SessionInv, MaskInv, Next
  PROVE  MaskInv'
<1> SUFFICES ASSUME menusHidden' PROVE VMUndoes' \/ WorkerUndoes'
  BY DEF MaskInv
<1>1. CASE MaskMenus
  <2>1. Coming \in hiding  BY <1>1, VMMoves DEF Hides, Moved
  <2>2. todo'[VM] = <<"start">> /\ UNCHANGED <<captures, hiding>>
    BY <1>1, VMMoves, ThreadsAssumption DEF Moved, Programs, Threads, MaskMenus, session, work
  <2>3. Opened'  BY <2>2 DEF Opened
  <2> QED BY <2>1, <2>2, <2>3 DEF VMUndoes, Coming
<1>2. CASE ~MaskMenus
  <2>1. \A t \in Threads : ~UnmaskMenus(t)  BY DEF UnmaskMenus
  <2>2. menusHidden  BY <1>2, <2>1, MaskSteps
  <2>3. VM \in Threads /\ Worker \in Threads  BY DEF Threads
  <2> QED BY <2>1, <2>2, <2>3, VMStillUndoes, WorkerStillUndoes DEF MaskInv
<1> QED BY <1>1, <1>2

-----------------------------------------------------------------------------
(* The task queue                                                            *)

\* How the task queue and what it acts on may change in one step.
LEMMA TaskSteps ==
  ASSUME Next
  PROVE  \/ UNCHANGED <<tasks, hider, hidden>>
         \/ /\ MenuWithoutCapture \/ MenuCancelsCapture
            /\ tasks' = tasks /\ hider' = 0 /\ hidden' = FALSE
         \/ QueueHide /\ tasks' = Append(tasks, <<"hide", Coming>>) /\ UNCHANGED <<hider, hidden>>
         \/ /\ \E t \in Threads : RestoreUIAsync(t)
            /\ tasks' = Append(tasks, <<"restore", 0>>) /\ UNCHANGED <<hider, hidden>>
         \/ /\ QueueModEvent
            /\ tasks' = Append(tasks, <<"event", captures>>) /\ UNCHANGED <<hider, hidden>>
         \/ /\ tasks # <<>> /\ tasks' = Tail(tasks)
            /\ \/ /\ Head(tasks)[1] = "hide" /\ hidden' = TRUE
                  /\ hider' = IF hidden THEN hider ELSE Head(tasks)[2]
               \/ Head(tasks)[1] = "restore" /\ hider' = 0 /\ hidden' = FALSE
               \/ Head(tasks)[1] = "event" /\ UNCHANGED <<hider, hidden>>
<1> USE DEF interface, Queue, NextTask
<1>1. CASE (\E ui \in BOOLEAN : TakePhoto(ui)) \/ Cancel \/ (\E f \in BOOLEAN : MYReset(f))
  BY <1>1 DEF TakePhoto, Cancel, MYReset
<1>2. CASE QueueHide  BY <1>2 DEF QueueHide
<1>3. CASE Photographing /\ ~QueueHide
  BY <1>3 DEF Photographing, MaskMenus, StartBusy, StartFree, BusyCancelled, Accepted, SetCaptureToken
<1>4. CASE \E t \in Threads : RestoreUIAsync(t)  BY <1>4 DEF RestoreUIAsync
<1>5. CASE \E t \in Threads : UnmaskMenus(t) \/ ClearCaptureToken(t)
  BY <1>5 DEF UnmaskMenus, ClearCaptureToken
<1>6. CASE QueueModEvent  BY <1>6 DEF QueueModEvent
<1>7. CASE Acquired \/ SetResult \/ CallbackReturns  BY <1>7 DEF Acquired, SetResult, CallbackReturns
<1>8. CASE RunHide  BY <1>8 DEF RunHide, UI!ClaimHide
<1>9. CASE RunRestore  BY <1>9 DEF RunRestore, UI!ClaimRestore
<1>10. CASE RunEvent  BY <1>10 DEF RunEvent
<1>11. CASE SwitchMenus
  BY <1>11 DEF SwitchMenus, UI!SaveMenus, UI!HideMenus, UI!RestoreMenus
<1>12. CASE MenuWithoutCapture \/ MenuCancelsCapture
  BY <1>12 DEF MenuWithoutCapture, MenuCancelsCapture, UI!ClaimRestore
<1>13. CASE PopupIgnored \/ RestoreAfterLoad  BY <1>13 DEF PopupIgnored, RestoreAfterLoad
<1>14. CASE OnPostLoadGame \/ \E m \in PauseMenus \cup Popups : MenuOpens(m)
  BY <1>14 DEF OnPostLoadGame, MenuOpens
<1> QED BY <1>1, <1>2, <1>3, <1>4, <1>5, <1>6, <1>7, <1>8, <1>9, <1>10, <1>11, <1>12, <1>13, <1>14
        DEF Next, Shared, Finishing, Playing

\* A task that is queued changes nothing for those before it.
LEMMA Queued ==
  ASSUME TasksTyped, NEW e \in Tasks, tasks' = Append(tasks, e), UNCHANGED hider, NEW u,
         NEW m, m = Len(tasks) + 1
  PROVE  /\ \A n \in 0..Len(tasks) : HiddenFor(u, n)' => HiddenFor(u, n)
         /\ HiddenFor(u, m)' => HiddenFor(u, Len(tasks)) \/ e = <<"hide", u>>
         /\ e[1] = "restore" => ~HiddenFor(u, m)'
<1> USE DEF HiddenFor, Restored
<1>1. Len(tasks) \in Nat /\ \A j \in 1..Len(tasks) : tasks'[j] = tasks[j]  BY DEF TasksTyped
<1>2. tasks'[m] = e  BY DEF TasksTyped
<1>3. ASSUME NEW n \in 0..Len(tasks), HiddenFor(u, n)' PROVE HiddenFor(u, n)
  BY <1>1, <1>3
<1>4. ASSUME HiddenFor(u, m)', e # <<"hide", u>> PROVE HiddenFor(u, Len(tasks))
  <2>1. CASE hider' = u /\ ~Restored(1, m)'  BY <1>1, <2>1
  <2>2. CASE \E k \in 1..m : tasks'[k] = <<"hide", u>> /\ ~Restored(k, m)'
    <3>1. PICK k \in 1..m : tasks'[k] = <<"hide", u>> /\ ~Restored(k, m)'
      BY <2>2
    <3>2. k \in 1..Len(tasks)
      <4>1. k # m  BY <1>2, <1>4, <3>1, Zenon
      <4> QED BY <1>1, <4>1
    <3>3. ~Restored(k, Len(tasks))  BY <1>1, <3>1, <3>2
    <3> QED BY <1>1, <3>1, <3>2, <3>3
  <2> QED BY <1>4, <2>1, <2>2, Zenon
<1>5. ASSUME e[1] = "restore" PROVE ~HiddenFor(u, m)'
  <2>1. \A k \in 1..m : Restored(k, m)'  BY <1>1, <1>2, <1>5
  <2>2. 1 \in 1..m  BY <1>1
  <2> QED BY <2>1, <2>2, Zenon
<1> QED BY <1>3, <1>4, <1>5

\* A task that has run is still accounted for.
LEMMA Dequeued ==
  ASSUME TasksTyped, tasks # <<>>, tasks' = Tail(tasks), NEW u \in Captures,
         hider' = u => \/ hider = u /\ Head(tasks)[1] # "restore"
                       \/ Head(tasks) = <<"hide", u>>,
         NEW n \in 0..(Len(tasks) - 1), HiddenFor(u, n)'
  PROVE  HiddenFor(u, n + 1)
<1> USE DEF HiddenFor, Restored
<1>1. Len(tasks) \in Nat \ {0} /\ Head(tasks) = tasks[1]  BY DEF TasksTyped
<1>2. \A j \in 1..(Len(tasks) - 1) : tasks'[j] = tasks[j + 1]  BY DEF TasksTyped
<1>3. CASE hider' = u /\ ~Restored(1, n)'
  <2>1. \A j \in 2..(n + 1) : tasks[j][1] # "restore"
    <3>1. SUFFICES ASSUME NEW j \in 2..(n + 1) PROVE tasks[j][1] # "restore"  OBVIOUS
    <3>2. j - 1 \in 1..n /\ j - 1 \in 1..(Len(tasks) - 1)  BY <1>1
    <3>3. tasks'[j - 1] = tasks[j]  BY <1>2, <3>2
    <3> QED BY <1>3, <3>2, <3>3
  <2>2. CASE hider = u /\ Head(tasks)[1] # "restore"
    <3>1. ~Restored(1, n + 1)  BY <1>1, <2>1, <2>2
    <3> QED BY <2>2, <3>1
  <2>3. CASE Head(tasks) = <<"hide", u>>
    <3>1. tasks[1] = <<"hide", u>> /\ tasks[1][1] = "hide"  BY <1>1, <2>3
    <3>2. ~Restored(1, n + 1)  BY <1>1, <2>1, <3>1
    <3> QED BY <1>1, <3>1, <3>2
  <2> QED BY <1>3, <2>2, <2>3
<1>4. CASE \E k \in 1..n : tasks'[k] = <<"hide", u>> /\ ~Restored(k, n)'
  <2>1. PICK k \in 1..n : tasks'[k] = <<"hide", u>> /\ ~Restored(k, n)'  BY <1>4
  <2>2. k \in 1..(Len(tasks) - 1) /\ tasks[k + 1] = <<"hide", u>>  BY <1>1, <1>2, <2>1
  <2>3. ~Restored(k + 1, n + 1)
    <3>1. SUFFICES ASSUME NEW j \in (k + 1)..(n + 1) PROVE tasks[j][1] # "restore"  OBVIOUS
    <3>2. j - 1 \in k..n /\ j - 1 \in 1..(Len(tasks) - 1)  BY <1>1, <2>2
    <3>3. tasks'[j - 1] = tasks[j]  BY <1>2, <3>2
    <3> QED BY <2>1, <3>2, <3>3
  <2> QED BY <1>1, <2>2, <2>3
<1> QED BY <1>3, <1>4

LEMMA TasksTypedStep ==
  ASSUME StateTyped, Programs, TasksTyped, Room, Next
  PROVE  TasksTyped'
<1>1. CASE tasks' = tasks  BY <1>1 DEF TasksTyped
<1>2. ASSUME NEW e \in Tasks, e[1] = "hide" => e[2] \in Captures, tasks' = Append(tasks, e)
      PROVE  TasksTyped'
  <2>1. tasks' \in Seq(Tasks) /\ Len(tasks') = Len(tasks) + 1 /\ Len(tasks) \in Nat
    BY <1>2 DEF TasksTyped
  <2>2. \A i \in 1..Len(tasks) : tasks'[i] = tasks[i]  BY <1>2 DEF TasksTyped
  <2>3. tasks'[Len(tasks) + 1] = e  BY <1>2 DEF TasksTyped
  <2> QED BY <1>2, <2>1, <2>2, <2>3 DEF TasksTyped
<1>3. CASE tasks # <<>> /\ tasks' = Tail(tasks)
  <2>1. tasks' \in Seq(Tasks) /\ Len(tasks') = Len(tasks) - 1 /\ Len(tasks) \in Nat
    BY <1>3 DEF TasksTyped
  <2>2. \A i \in 1..Len(tasks') : tasks'[i] = tasks[i + 1]  BY <1>3 DEF TasksTyped
  <2> QED BY <2>1, <2>2 DEF TasksTyped
<1>4. CASE QueueHide /\ tasks' = Append(tasks, <<"hide", Coming>>)
  <2>1. todo[VM] = <<"hide", "mask", "start">>  BY <1>4, VMMoves DEF Moved
  <2>2. captures < MaxCaptures  BY <2>1 DEF Room, Opened
  <2>3. Coming \in Captures /\ <<"hide", Coming>> \in Tasks
    BY <2>2, BoundsAssumption DEF StateTyped, Coming, Captures, Tasks
  <2> QED BY <1>2, <1>4, <2>3
<1>5. CASE tasks' = Append(tasks, <<"restore", 0>>)
  <2>1. <<"restore", 0>> \in Tasks  BY BoundsAssumption DEF Tasks
  <2> QED BY <1>2, <1>5, <2>1
<1>6. CASE tasks' = Append(tasks, <<"event", captures>>)
  <2>1. <<"event", captures>> \in Tasks  BY DEF Tasks, StateTyped
  <2> QED BY <1>2, <1>6, <2>1
<1> QED BY <1>1, <1>3, <1>4, <1>5, <1>6, TaskSteps

\* Restoring at once hides nothing either.
LEMMA Kept ==
  ASSUME tasks' = tasks, hider' \in {hider, 0}, NEW u \in Captures, NEW n, HiddenFor(u, n)'
  PROVE  HiddenFor(u, n)
<1>1. u # 0  BY DEF Captures
<1> QED BY <1>1 DEF HiddenFor, Restored

\* One task has run: see RunHide, RunRestore and RunEvent.
LEMMA Ran ==
  ASSUME TasksTyped, tasks # <<>>, tasks' = Tail(tasks), NEW u \in Captures,
         \/ /\ Head(tasks)[1] = "hide" /\ hidden' = TRUE
            /\ hider' = IF hidden THEN hider ELSE Head(tasks)[2]
         \/ hider' = 0 /\ hidden' = FALSE
         \/ Head(tasks)[1] = "event" /\ UNCHANGED <<hider, hidden>>,
         NEW n \in 0..(Len(tasks) - 1), HiddenFor(u, n)'
  PROVE  HiddenFor(u, n + 1)
<1>1. Head(tasks) \in Tasks  BY DEF TasksTyped
<1>2. Head(tasks) = <<Head(tasks)[1], Head(tasks)[2]>>  BY <1>1 DEF Tasks
<1>3. u # 0  BY DEF Captures
<1>4. hider' = u => (hider = u /\ Head(tasks)[1] # "restore") \/ Head(tasks) = <<"hide", u>>
  BY <1>2, <1>3
<1> QED BY <1>4, Dequeued

\* Whatever is hidden after a step was hidden before, or is for the capture to come.
LEMMA HiddenStep ==
  ASSUME StateTyped, TasksTyped, Programs, Room, Next, NEW u \in Captures,
         NEW n, n = Len(tasks'), HiddenFor(u, n)'
  PROVE  /\ \A t \in Threads : ~RestoreUIAsync(t)
         /\ HiddenFor(u, Len(tasks)) \/ (QueueHide /\ u = Coming)
<1>1. Len(tasks) \in Nat /\ u # 0  BY DEF TasksTyped, Captures
<1>2. ASSUME NEW e \in Tasks, tasks' = Append(tasks, e), UNCHANGED hider
      PROVE  e[1] # "restore" /\ (HiddenFor(u, Len(tasks)) \/ e = <<"hide", u>>)
  <2>1. n = Len(tasks) + 1  BY <1>2 DEF TasksTyped
  <2> QED BY <1>2, <2>1, Queued
<1>3. ASSUME NEW t \in Threads, RestoreUIAsync(t) PROVE FALSE
  <2>1. tasks' = Append(tasks, <<"restore", 0>>) /\ UNCHANGED hider
    BY <1>3 DEF RestoreUIAsync, Queue, interface
  <2>2. <<"restore", 0>> \in Tasks  BY BoundsAssumption DEF Tasks
  <2> QED BY <1>2, <2>1, <2>2
<1>4. CASE tasks' = tasks /\ hider' \in {hider, 0}  BY <1>3, <1>4, Kept
<1>5. CASE QueueHide /\ tasks' = Append(tasks, <<"hide", Coming>>) /\ UNCHANGED hider
  <2>1. <<"hide", Coming>> \in Tasks
    <3>1. todo[VM] = <<"hide", "mask", "start">>  BY <1>5, VMMoves DEF Moved
    <3> QED BY <3>1, BoundsAssumption DEF Room, Opened, StateTyped, Coming, Tasks
  <2>2. <<"hide", Coming>> = <<"hide", u>> => u = Coming  OBVIOUS
  <2> QED BY <1>2, <1>3, <1>5, <2>1, <2>2
<1>6. CASE tasks' = Append(tasks, <<"event", captures>>) /\ UNCHANGED hider
  <2>1. <<"event", captures>> \in Tasks  BY DEF Tasks, StateTyped
  <2>2. <<"event", captures>> # <<"hide", u>>  OBVIOUS
  <2> QED BY <1>2, <1>3, <1>6, <2>1, <2>2
<1>7. ASSUME tasks # <<>>, tasks' = Tail(tasks),
             \/ /\ Head(tasks)[1] = "hide" /\ hidden' = TRUE
                /\ hider' = IF hidden THEN hider ELSE Head(tasks)[2]
             \/ hider' = 0 /\ hidden' = FALSE
             \/ Head(tasks)[1] = "event" /\ UNCHANGED <<hider, hidden>>
      PROVE  HiddenFor(u, Len(tasks))
  <2>1. n = Len(tasks) - 1 /\ Len(tasks) > 0  BY <1>1, <1>7 DEF TasksTyped
  <2>2. n \in 0..(Len(tasks) - 1) /\ n + 1 = Len(tasks)  BY <1>1, <2>1
  <2> QED BY <1>3, <1>7, <2>2, Ran
<1> QED BY <1>3, <1>4, <1>5, <1>6, <1>7, TaskSteps

\* The interface is hidden, or about to be, only while somebody will restore it.
LEMMA HideStep ==
  ASSUME StateTyped, TasksTyped, Programs, Room, Hides, SessionInv, HideInv, Next
  PROVE  HideInv'
<1>1. (hidden => hider # 0)'
  <2>1. Head(tasks)[1] = "hide" /\ tasks # <<>> => Head(tasks)[2] # 0  BY DEF TasksTyped, Captures
  <2> QED BY <2>1, TaskSteps DEF HideInv
<1>2. ASSUME NEW u \in Captures, NEW n, n = Len(tasks'), HiddenFor(u, n)'
      PROVE  (u = Coming' /\ VMRestores') \/ (u = captures' /\ WorkerRestores')
  <2>1. /\ \A t \in Threads : ~RestoreUIAsync(t)
        /\ HiddenFor(u, Len(tasks)) \/ (QueueHide /\ u = Coming)
    BY <1>2, HiddenStep
  <2>2. VM \in Threads /\ Worker \in Threads  BY DEF Threads
  <2>3. CASE QueueHide /\ u = Coming
    <3>1. todo'[VM] = <<"mask", "start">> /\ UNCHANGED <<captures, hiding>>
      BY <2>3, VMMoves, ThreadsAssumption DEF Moved, Programs, Threads, QueueHide, session, work
    <3>2. Coming \in hiding  BY <2>3, VMMoves DEF Hides, Moved
    <3>3. Opened' /\ todo'[VM] # <<"unmask">>  BY <3>1 DEF Opened
    <3> QED BY <2>3, <3>1, <3>2, <3>3 DEF VMRestores, VMUndoes, Coming
  <2>4. CASE u = Coming /\ VMRestores
    <3>1. VMUndoes  BY <2>4 DEF VMRestores
    <3>2. UNCHANGED captures => Coming' = Coming  BY DEF Coming
    <3> QED BY <2>1, <2>2, <2>4, <3>1, <3>2, VMStillUndoes, Zenon
  <2>5. CASE u = captures /\ WorkerRestores
    <3>1. WorkerUndoes  BY <2>5 DEF WorkerRestores
    <3> QED BY <2>1, <2>2, <2>5, <3>1, WorkerStillUndoes, Zenon
  <2> QED BY <2>1, <2>3, <2>4, <2>5 DEF HideInv
<1>3. \A u \in Captures : HiddenFor(u, Len(tasks))' =>
        (u = Coming' /\ VMRestores') \/ (u = captures' /\ WorkerRestores')
  BY <1>2 DEF HiddenFor, Restored
<1> QED BY <1>1, <1>3 DEF HideInv

\* An event stands behind every restore that its capture, or an earlier one, needs.
LEMMA EventStep ==
  ASSUME StateTyped, TasksTyped, Programs, Room, SessionInv, HideInv, EventInv, Next
  PROVE  EventInv'
<1> SUFFICES ASSUME NEW i \in 1..Len(tasks'), tasks'[i][1] = "event",
                    NEW u \in Captures, u <= tasks'[i][2], HiddenFor(u, i)'
             PROVE  FALSE
  BY DEF EventInv
<1>1. Len(tasks) \in Nat  BY DEF TasksTyped
<1>2. ASSUME NEW e \in Tasks, tasks' = Append(tasks, e), UNCHANGED hider,
             i = Len(tasks) + 1 => e # <<"hide", u>> /\ ~HiddenFor(u, Len(tasks))
      PROVE  FALSE
  <2>1. CASE i = Len(tasks) + 1  BY <1>2, <2>1, Queued
  <2>2. CASE i # Len(tasks) + 1
    <3>1. Len(tasks') = Len(tasks) + 1  BY <1>2 DEF TasksTyped
    <3>2. i \in 1..Len(tasks) /\ tasks'[i] = tasks[i]  BY <1>1, <1>2, <2>2, <3>1 DEF TasksTyped
    <3>3. HiddenFor(u, i)  BY <1>1, <1>2, <3>2, Queued
    <3> QED BY <3>2, <3>3 DEF EventInv
  <2> QED BY <2>1, <2>2
<1>3. ASSUME NEW e \in Tasks, tasks' = Append(tasks, e) PROVE i = Len(tasks) + 1 => e[1] = "event"
  BY <1>3 DEF TasksTyped
<1>4. CASE tasks' = tasks /\ hider' \in {hider, 0}  BY <1>4, Kept DEF EventInv
<1>5. CASE QueueHide /\ tasks' = Append(tasks, <<"hide", Coming>>) /\ UNCHANGED hider
  <2>1. todo[VM] = <<"hide", "mask", "start">>  BY <1>5, VMMoves DEF Moved
  <2>2. <<"hide", Coming>> \in Tasks
    BY <2>1, BoundsAssumption DEF Room, Opened, StateTyped, Coming, Tasks
  <2> QED BY <1>2, <1>3, <1>5, <2>2
<1>6. CASE tasks' = Append(tasks, <<"restore", 0>>) /\ UNCHANGED hider
  <2>1. <<"restore", 0>> \in Tasks  BY BoundsAssumption DEF Tasks
  <2> QED BY <1>2, <1>3, <1>6, <2>1
<1>7. CASE QueueModEvent /\ tasks' = Append(tasks, <<"event", captures>>) /\ UNCHANGED hider
  <2>1. <<"event", captures>> \in Tasks  BY DEF Tasks, StateTyped
  <2>2. ASSUME i = Len(tasks) + 1, HiddenFor(u, Len(tasks)) PROVE FALSE
    <3>1. u <= captures  BY <1>7, <2>2 DEF TasksTyped
    <3>2. u = captures /\ WorkerRestores  BY <2>2, <3>1 DEF HideInv, Coming, StateTyped, Captures
    <3>3. todo[Worker] = <<"event">>  BY <1>7, EventMoves DEF Moved
    <3>4. ~Running  BY <3>3, NotBusy DEF SessionInv
    <3> QED BY <3>2, <3>3, <3>4 DEF WorkerRestores, WorkerUndoes
  <2>3. <<"event", captures>> # <<"hide", u>>  OBVIOUS
  <2> QED BY <1>2, <1>7, <2>1, <2>2, <2>3
<1>8. ASSUME tasks # <<>>, tasks' = Tail(tasks),
             \/ /\ Head(tasks)[1] = "hide" /\ hidden' = TRUE
                /\ hider' = IF hidden THEN hider ELSE Head(tasks)[2]
             \/ hider' = 0 /\ hidden' = FALSE
             \/ Head(tasks)[1] = "event" /\ UNCHANGED <<hider, hidden>>
      PROVE  FALSE
  <2>1. i \in 0..(Len(tasks) - 1) /\ i + 1 \in 1..Len(tasks) /\ tasks'[i] = tasks[i + 1]
    BY <1>1, <1>8 DEF TasksTyped
  <2>2. HiddenFor(u, i + 1)  BY <1>8, <2>1, Ran
  <2> QED BY <2>1, <2>2 DEF EventInv
<1> QED BY <1>4, <1>5, <1>6, <1>7, <1>8, TaskSteps

-----------------------------------------------------------------------------
(* The interface itself, the sink's token and the theorems                   *)

\* Only the game thread touches the interface.
LEMMA InterfaceSteps ==
  ASSUME Next
  PROVE  UNCHANGED interface \/ RunHide \/ RunRestore \/ MenuWithoutCapture \/ MenuCancelsCapture
         \/ SwitchMenus
<1>1. (\E ui \in BOOLEAN : TakePhoto(ui)) \/ Cancel \/ (\E f \in BOOLEAN : MYReset(f))
      => UNCHANGED interface
  BY DEF TakePhoto, Cancel, MYReset
<1>2. Photographing => UNCHANGED interface
  BY DEF Photographing, QueueHide, MaskMenus, StartBusy, StartFree, BusyCancelled, Accepted,
         SetCaptureToken
<1>3. (\E t \in Threads : Shared(t)) => UNCHANGED interface
  BY DEF Shared, RestoreUIAsync, UnmaskMenus, ClearCaptureToken
<1>4. Acquired \/ Finishing => UNCHANGED interface
  BY DEF Acquired, Finishing, SetResult, QueueModEvent, CallbackReturns
<1>5. RunEvent \/ PopupIgnored \/ RestoreAfterLoad => UNCHANGED interface
  BY DEF RunEvent, PopupIgnored, RestoreAfterLoad
<1>6. OnPostLoadGame \/ (\E m \in PauseMenus \cup Popups : MenuOpens(m)) => UNCHANGED interface
  BY DEF OnPostLoadGame, MenuOpens
<1> QED BY <1>1, <1>2, <1>3, <1>4, <1>5, <1>6 DEF Next, Playing

LEMMA UITypedStep ==
  ASSUME UI!TypeOK, Next
  PROVE  UI!TypeOK'
<1> USE DEF UI!TypeOK, interface
<1>1. CASE UNCHANGED interface  BY <1>1
<1>2. CASE RunHide  BY <1>2 DEF RunHide, UI!ClaimHide, UI!Goto
<1>3. CASE RunRestore  BY <1>3 DEF RunRestore, UI!ClaimRestore, UI!Goto
<1>4. CASE MenuWithoutCapture \/ MenuCancelsCapture
  BY <1>4 DEF MenuWithoutCapture, MenuCancelsCapture, UI!ClaimRestore, UI!Goto
<1>5. CASE SwitchMenus
  BY <1>5 DEF SwitchMenus, UI!SaveMenus, UI!HideMenus, UI!RestoreMenus, UI!Goto
<1> QED BY <1>1, <1>2, <1>3, <1>4, <1>5, InterfaceSteps

LEMMA SaveStep ==
  ASSUME UI!TypeOK, SaveInv, Next
  PROVE  SaveInv'
<1> USE DEF UI!TypeOK, SaveInv, interface
<1>1. CASE UNCHANGED interface  BY <1>1
<1>2. CASE RunHide  BY <1>2 DEF RunHide, UI!ClaimHide, UI!Goto
<1>3. CASE RunRestore  BY <1>3 DEF RunRestore, UI!ClaimRestore, UI!Goto
<1>4. CASE MenuWithoutCapture \/ MenuCancelsCapture
  BY <1>4 DEF MenuWithoutCapture, MenuCancelsCapture, UI!ClaimRestore, UI!Goto
<1>5. CASE SwitchMenus
  <2>1. CASE UI!SaveMenus(Game)  BY <2>1 DEF UI!SaveMenus, UI!Goto
  <2>2. CASE UI!HideMenus(Game)  BY <2>2 DEF UI!HideMenus, UI!Goto
  <2>3. CASE UI!RestoreMenus(Game)  BY <2>3 DEF UI!RestoreMenus, UI!Goto
  <2> QED BY <1>5, <2>1, <2>2, <2>3 DEF SwitchMenus
<1> QED BY <1>1, <1>2, <1>3, <1>4, <1>5, InterfaceSteps

\* Who touches the sink's token, and the session's.
LEMMA TokenSteps ==
  ASSUME Next
  PROVE  /\ UNCHANGED <<sinkToken, disturbed>> \/ SetCaptureToken \/ Accepted
            \/ \E t \in Threads : ClearCaptureToken(t)
         /\ UNCHANGED token \/ BusyCancelled \/ Accepted
<1> USE DEF sink, work
<1>1. (\E ui \in BOOLEAN : TakePhoto(ui)) \/ Cancel \/ (\E f \in BOOLEAN : MYReset(f))
      => UNCHANGED <<sinkToken, disturbed, token>>
  BY DEF TakePhoto, Cancel, MYReset
<1>2. QueueHide \/ MaskMenus \/ StartBusy \/ StartFree => UNCHANGED <<sinkToken, disturbed, token>>
  BY DEF QueueHide, MaskMenus, StartBusy, StartFree
<1>3. (BusyCancelled => UNCHANGED <<sinkToken, disturbed>>) /\ (SetCaptureToken => UNCHANGED token)
  BY DEF BusyCancelled, SetCaptureToken
<1>4. (\E t \in Threads : RestoreUIAsync(t) \/ UnmaskMenus(t)) => UNCHANGED <<sinkToken, disturbed, token>>
  BY DEF RestoreUIAsync, UnmaskMenus
<1>5. (\E t \in Threads : ClearCaptureToken(t)) => UNCHANGED token  BY DEF ClearCaptureToken
<1>6. Acquired \/ Finishing => UNCHANGED <<sinkToken, disturbed, token>>
  BY DEF Acquired, Finishing, SetResult, QueueModEvent, CallbackReturns
<1>7. Playing => UNCHANGED <<sinkToken, disturbed, token>>
  BY DEF Playing, RunHide, RunRestore, RunEvent, SwitchMenus, MenuWithoutCapture, PopupIgnored,
         MenuCancelsCapture, RestoreAfterLoad
<1>8. OnPostLoadGame \/ (\E m \in PauseMenus \cup Popups : MenuOpens(m))
      => UNCHANGED <<sinkToken, disturbed, token>>
  BY DEF OnPostLoadGame, MenuOpens
<1> QED BY <1>1, <1>2, <1>3, <1>4, <1>5, <1>6, <1>7, <1>8 DEF Next, Photographing, Shared

LEMMA SinkStep ==
  ASSUME StateTyped, Programs, SessionInv, SinkInv, Next
  PROVE  SinkInv'
<1>1. CASE Accepted
  <2>1. captures' = Coming /\ token' = Coming /\ UNCHANGED hiding
    BY <1>1 DEF Accepted, Session!Accept, Coming
  <2>2. todo'[VM] = Acceptance
    BY <1>1, VMMoves, ThreadsAssumption DEF Moved, Programs, Threads
  <2> QED BY <2>1, <2>2 DEF SinkInv, Acceptance, If
<1>2. CASE ~Accepted
  <2>1. UNCHANGED captures /\ (Running' => Running)
    <3>1. CASE UNCHANGED <<captures, outcome>>  BY <3>1 DEF Running
    <3>2. CASE SetResult
      BY <3>2, ThreadsAssumption DEF SetResult, Session!Complete, Running, StateTyped, Captures
    <3>3. CASE CallbackReturns  BY <3>3 DEF CallbackReturns, Session!Deliver, Running
    <3> QED BY <1>2, <3>1, <3>2, <3>3, SessionSteps
  <2>2. captures \in hiding' => captures \in hiding
    <3>1. CASE UNCHANGED hiding  BY <3>1
    <3>2. CASE \E ui \in BOOLEAN : TakePhoto(ui)  BY <3>2 DEF TakePhoto, Coming, StateTyped
    <3> QED BY <1>2, <3>1, <3>2, HidingKept
  <2>3. (todo[VM] = <<"set">> => token = captures)'
    <3>1. ASSUME todo'[VM] = <<"set">> PROVE todo[VM] = <<"set">> /\ ~BusyCancelled
      <4>1. Opening(TRUE) # <<"set">> /\ Opening(FALSE) # <<"set">> /\ Rejection # <<"set">>
        BY DEF Opening, Rejection, If
      <4>2. /\ <<"mask", "start">> # <<"set">> /\ <<"start">> # <<"set">> /\ <<"joinBusy">> # <<"set">>
            /\ <<"joinReap">> # <<"set">> /\ <<"unmask">> # <<"set">> /\ <<>> # <<"set">>
        OBVIOUS
      <4>3. BusyCancelled => todo'[VM] = Rejection
        BY VMMoves, ThreadsAssumption DEF Moved, Programs, Threads
      <4> QED BY <1>2, <3>1, <4>1, <4>2, <4>3, VMCalls
    <3> QED BY <1>2, <2>1, <3>1, TokenSteps DEF SinkInv
  <2>4. ASSUME Running', captures \in hiding', ~disturbed'
        PROVE  sinkToken' = captures \/ todo'[VM] = <<"set">>
    <3>1. Running /\ captures \in hiding  BY <2>1, <2>2, <2>4
    <3>2. CASE SetCaptureToken
      <4>1. todo[VM] = <<"set">>  BY <3>2, VMMoves DEF Moved
      <4> QED BY <3>2, <4>1 DEF SetCaptureToken, SinkInv
    <3>3. CASE \E t \in Threads : ClearCaptureToken(t)
      <4>1. PICK t \in Threads : ClearCaptureToken(t)  BY <3>3
      <4>2. t = Worker  BY <2>4, <4>1 DEF ClearCaptureToken
      <4>3. todo[Worker] \notin BusyPrograms
        BY <4>1, <4>2, ClearMoves, NotBusy, ThreadsAssumption DEF Moved
      <4> QED BY <3>1, <4>3 DEF SessionInv
    <3>4. CASE UNCHANGED <<sinkToken, disturbed>> /\ ~SetCaptureToken
      <4>1. sinkToken = captures \/ todo[VM] = <<"set">>  BY <2>4, <3>1, <3>4 DEF SinkInv
      <4>2. todo[VM] = <<"set">> => todo'[VM] = <<"set">>
        <5>1. /\ <<"mask", "start">> # <<"set">> /\ <<"start">> # <<"set">>
              /\ <<"joinBusy">> # <<"set">> /\ <<"joinReap">> # <<"set">>
              /\ <<"hide", "mask", "start">> # <<"set">> /\ <<"restore", "unmask">> # <<"set">>
              /\ <<"unmask">> # <<"set">> /\ <<>> # <<"set">>
          OBVIOUS
        <5> QED BY <3>4, <5>1, VMCalls, Zenon
      <4> QED BY <3>4, <4>1, <4>2
    <3> QED BY <1>2, <3>2, <3>3, <3>4, TokenSteps
  <2> QED BY <2>1, <2>3, <2>4 DEF SinkInv
<1> QED BY <1>1, <1>2

LEMMA InitInv == Init => IInv
<1> SUFFICES ASSUME Init PROVE IInv  OBVIOUS
<1> USE ThreadsAssumption, BoundsAssumption DEF Init, Session!Init, UI!Init
<1>1. StateTyped
  <2>1. 0 \in 0..MaxCaptures /\ 0 \in 0..0  OBVIOUS
  <2>2. outcome \in [Captures -> Session!Outcomes \cup {"none"}]
        /\ delivered \in [Captures -> Session!Outcomes \cup {"none"}]
    BY DEF Captures, Session!Captures
  <2>3. captures = 0 /\ token = 0 /\ sinkToken = 0 /\ hider = 0 /\ cancelled = {} /\ hiding = {}
    OBVIOUS
  <2>4. menusHidden \in BOOLEAN /\ disturbed \in BOOLEAN /\ acquiring \in BOOLEAN  OBVIOUS
  <2> QED BY <2>1, <2>2, <2>3, <2>4, Zenon DEF StateTyped
<1>2. TasksTyped  BY DEF TasksTyped
<1>3. UI!TypeOK /\ SaveInv  BY DEF UI!TypeOK, SaveInv
<1>4. Programs /\ \A t \in Threads : todo[t] = <<>>
  BY DEF Programs, VMPrograms, OtherPrograms, WorkerPrograms, BusyPrograms, GamePrograms, Threads
<1>5. todo[VM] = <<>> /\ todo[Worker] = <<>>  BY <1>4 DEF Threads
<1>6. Room /\ Hides  BY <1>5 DEF Room, Opened, Hides
<1>7. SessionInv
  BY <1>5 DEF SessionInv, Running, BusyPrograms, Session!Captures, Captures
<1>8. MaskInv /\ SinkInv  BY <1>5 DEF MaskInv, SinkInv, Running
<1>9. HideInv /\ EventInv  BY DEF HideInv, EventInv, HiddenFor, Captures
<1> QED BY <1>1, <1>2, <1>3, <1>4, <1>6, <1>7, <1>8, <1>9 DEF IInv

LEMMA StepInv == IInv /\ [Next]_vars => IInv'
<1> SUFFICES ASSUME IInv, [Next]_vars PROVE IInv'  OBVIOUS
<1>1. CASE Next
  BY <1>1, ProgramsStep, RoomStep, StateStep, SessionInvStep, HidesStep, MaskStep, TasksTypedStep,
     HideStep, EventStep, UITypedStep, SaveStep, SinkStep
  DEF IInv
<1>2. CASE UNCHANGED vars
  <2> USE <1>2 DEF vars, session, interface, sink, work
  <2>1. StateTyped' /\ TasksTyped' /\ UI!TypeOK' /\ Programs'
    BY DEF IInv, StateTyped, TasksTyped, UI!TypeOK, Programs
  <2>2. Room' /\ Hides' /\ SessionInv' /\ SaveInv'
    BY DEF IInv, Room, Opened, Hides, Coming, SessionInv, Running, SaveInv
  <2>3. MaskInv'
    BY DEF IInv, MaskInv, VMUndoes, Opened, Coming, WorkerUndoes, WorkerActs, Running
  <2>4. HideInv'
    BY DEF IInv, HideInv, HiddenFor, Restored, VMRestores, WorkerRestores, VMUndoes, Opened, Coming,
           WorkerUndoes, WorkerActs, Running
  <2>5. EventInv' /\ SinkInv'  BY DEF IInv, EventInv, HiddenFor, Restored, SinkInv, Running
  <2> QED BY <2>1, <2>2, <2>3, <2>4, <2>5 DEF IInv
<1> QED BY <1>1, <1>2

LEMMA Invariant == Spec => []IInv
BY InitInv, StepInv, PTL DEF Spec

\* Every flag, token and queued task has its type, and every call is one the code makes.
THEOREM UITypeOK == Spec => []TypeOK
<1>1. IInv => TypeOK
  <2> SUFFICES ASSUME IInv PROVE TypeOK  OBVIOUS
  <2>1. token \in 0..MaxCaptures /\ sinkToken \in 0..MaxCaptures
    BY BoundsAssumption DEF IInv, StateTyped
  <2> QED BY <2>1 DEF IInv, TypeOK, StateTyped, TasksTyped, Programs
<1> QED BY <1>1, Invariant, PTL

\* While one thread hides and restores, the saved setting is the user's: HideAll() and
\* RestoreAll() bring the interface back as it was.
THEOREM UISavedValueSurvives == Spec => []SavedValueSurvives
<1>1. IInv => SavedValueSurvives
  BY DEF IInv, SaveInv, SavedValueSurvives, UI!SavedValueSurvives
<1> QED BY <1>1, Invariant, PTL

\* The menu sink knows the capture that runs with a hidden interface, once TakePhoto() has
\* returned and unless a reset or a load came in between.
THEOREM UISinkHoldsRunning == Spec => []SinkHoldsRunning
<1>1. IInv => SinkHoldsRunning
  <2>1. Idle(VM) => todo[VM] # <<"set">>  BY DEF Idle
  <2> QED BY <2>1 DEF IInv, SinkInv, SinkHoldsRunning
<1> QED BY <1>1, Invariant, PTL

\* The completion event is sent after the restore its capture queued has run.
THEOREM UIRestoredBeforeEvent == Spec => []RestoredBeforeEvent
<1>1. ASSUME IInv, tasks # <<>>, Head(tasks)[1] = "event", hider # 0, ~(hider > Head(tasks)[2])
      PROVE  FALSE
  <2>1. Len(tasks) \in Nat \ {0} /\ Head(tasks) = tasks[1] /\ Head(tasks) \in Tasks
    BY <1>1 DEF IInv, TasksTyped
  <2>2. hider \in Captures /\ hider <= tasks[1][2]
    BY <1>1, <2>1 DEF IInv, StateTyped, Captures, Tasks
  <2>3. HiddenFor(hider, 1)  BY <1>1, <2>1 DEF HiddenFor, Restored
  <2> QED BY <1>1, <2>1, <2>2, <2>3 DEF IInv, EventInv
<1>2. IInv => RestoredBeforeEvent  BY <1>1 DEF RestoredBeforeEvent
<1> QED BY <1>2, Invariant, PTL

\* When no capture is left, no call is under way and no task is queued, the interface is as
\* the user wants it and the sink believes it visible, whichever way each capture went.
THEOREM UIInterfaceComesBack == Spec => []InterfaceComesBack
<1>1. ASSUME IInv, Quiescent PROVE ~hidden /\ showing = wanted /\ ~menusHidden
  <2>1. todo[VM] = <<>> /\ todo[Worker] = <<>> /\ at[Game] = "out" /\ tasks = <<>>
    BY <1>1 DEF Quiescent, Idle, Threads
  <2>2. ~VMUndoes  BY <2>1 DEF VMUndoes, Opened
  <2>3. ~WorkerUndoes
    <3>1. ~Running \/ captures = 0
      BY <1>1 DEF Quiescent, Gone, IInv, SessionInv, Running, StateTyped, Captures
    <3> QED BY <2>1, <3>1 DEF WorkerUndoes, WorkerActs
  <2>4. ~menusHidden  BY <1>1, <2>2, <2>3 DEF IInv, MaskInv
  <2>5. ~hidden
    <3>1. SUFFICES ASSUME hidden PROVE FALSE  OBVIOUS
    <3>2. hider \in Captures  BY <1>1, <3>1 DEF IInv, HideInv, StateTyped, Captures
    <3>3. Len(tasks) = 0  BY <2>1
    <3>4. HiddenFor(hider, Len(tasks))  BY <3>3 DEF HiddenFor, Restored
    <3> QED BY <1>1, <2>2, <2>3, <3>2, <3>4 DEF IInv, HideInv, VMRestores, WorkerRestores
  <2> QED BY <1>1, <2>1, <2>4, <2>5 DEF IInv, SaveInv
<1>2. IInv => InterfaceComesBack  BY <1>1 DEF InterfaceComesBack
<1> QED BY <1>2, Invariant, PTL

-----------------------------------------------------------------------------
(* A patient script: when the interface does stay hidden                     *)

\* TakePhoto() is called when the worker of the last capture, the other stacks and the game
\* thread are done with their calls, and until it returns nobody resets, loads or opens a menu.
Patient ==
  /\ (\E ui \in BOOLEAN : TakePhoto(ui)) => ~Running /\ Idle(Worker) /\ Idle(Other) /\ Idle(Game)
  /\ (\E force \in BOOLEAN : MYReset(force)) \/ OnPostLoadGame
     \/ (\E m \in PauseMenus \cup Popups : MenuOpens(m)) => Idle(VM)

\* The calls of a start that is not rejected.
Waits   == {<<"hide", "mask", "start">>, <<"mask", "start">>, <<"start">>, <<"joinReap">>}
Looking == {<<>>, <<"pause">>, <<"popup">>}   \* of the game thread, for a menu that opens
Unasked == Running /\ captures \notin cancelled
Filming == Unasked /\ acquiring /\ captures \in hiding
Hiding  == Filming \/ (VMUndoes /\ todo[VM] # <<"hide", "mask", "start">>)
Masking == Filming \/ (VMUndoes /\ todo[VM] \in {<<"start">>, <<"joinReap">>})

CallAlone   == ~Idle(VM) => Idle(Other) /\ Idle(Game)
CallStarts  == Opened => ~Running /\ Idle(Worker) /\ todo[VM] \in Waits
NoneUndoes  == Unasked => Idle(Other) /\ todo[Game] \in Looking /\ ~disturbed
WorkerHolds == Running => token = captures /\ (acquiring => Idle(Worker))

\* The interface is hidden once the queued tasks have run.
HideStays ==
  \/ hidden /\ ~Restored(1, Len(tasks))
  \/ \E k \in 1..Len(tasks) : tasks[k][1] = "hide" /\ ~Restored(k, Len(tasks))

PInv == /\ CallAlone /\ CallStarts /\ NoneUndoes /\ WorkerHolds
        /\ (Hiding => HideStays) /\ (Masking => menusHidden)

\* A request to cancel is never taken back.
LEMMA CancelledGrows ==
  ASSUME Next
  PROVE  cancelled \subseteq cancelled'
<1>1. UNCHANGED session => cancelled' = cancelled  BY DEF session
<1>2. \A w : CancelToken(w) => cancelled \subseteq cancelled'
  BY <1>1 DEF CancelToken, Session!Cancel
<1>3. StartBusy \/ Cancel \/ (\E f \in BOOLEAN : MYReset(f)) \/ OnPostLoadGame \/ MenuCancelsCapture
      => \E w : CancelToken(w)
  BY DEF StartBusy, Cancel, MYReset, OnPostLoadGame, MenuCancelsCapture
<1>4. Accepted \/ SetResult \/ CallbackReturns => cancelled' = cancelled
  BY DEF Accepted, SetResult, CallbackReturns, Session!Accept, Session!Complete, Session!Deliver
<1>5. (\E ui \in BOOLEAN : TakePhoto(ui)) \/ QueueHide \/ MaskMenus \/ StartFree \/ BusyCancelled
      \/ SetCaptureToken => UNCHANGED session
  BY DEF TakePhoto, QueueHide, MaskMenus, StartFree, BusyCancelled, SetCaptureToken
<1>6. (\E t \in Threads : Shared(t)) \/ Acquired \/ QueueModEvent => UNCHANGED session
  BY DEF Shared, RestoreUIAsync, UnmaskMenus, ClearCaptureToken, Acquired, QueueModEvent
<1>7. Playing => UNCHANGED session \/ MenuCancelsCapture
  BY DEF Playing, RunHide, RunRestore, RunEvent, SwitchMenus, MenuWithoutCapture, PopupIgnored,
         RestoreAfterLoad
<1>8. (\E m \in PauseMenus \cup Popups : MenuOpens(m)) => UNCHANGED session  BY DEF MenuOpens
<1> QED BY <1>1, <1>2, <1>3, <1>4, <1>5, <1>6, <1>7, <1>8 DEF Next, Photographing, Finishing

\* Only an accepted start makes a capture run.
LEMMA RunningKept ==
  ASSUME StateTyped, Next, ~Accepted
  PROVE  UNCHANGED captures /\ (Running' => Running)
<1>1. CASE UNCHANGED <<captures, outcome>>  BY <1>1 DEF Running
<1>2. CASE SetResult
  BY <1>2 DEF SetResult, Session!Complete, Running, StateTyped, Captures
<1>3. CASE CallbackReturns  BY <1>3 DEF CallbackReturns, Session!Deliver, Running
<1> QED BY <1>1, <1>2, <1>3, SessionSteps

\* What an accepted start begins with: no thread has anything left to undo.
LEMMA FreshStart ==
  ASSUME StateTyped, Programs, SessionInv, CallAlone, Accepted
  PROVE  /\ todo' = [todo EXCEPT ![VM] = Acceptance] /\ todo[VM] = <<"joinReap">>
         /\ Idle(Worker) /\ Idle(Other) /\ Idle(Game)
         /\ captures' = Coming /\ token' = captures' /\ ~disturbed'
         /\ UNCHANGED <<cancelled, hiding, tasks, hidden, menusHidden>>
<1>1. Moved(VM, <<"joinReap">>, Acceptance)  BY VMMoves
<1>2. Idle(Worker)  BY DEF Accepted, Gone, Idle, SessionInv
<1> QED BY <1>1, <1>2 DEF Moved, Accepted, Session!Accept, Coming, CallAlone, Idle, interface, sink

LEMMA OtherCalls ==
  ASSUME Programs, Next, todo[Other] = <<>>
  PROVE  todo'[Other] = <<>> \/ \E f \in BOOLEAN : MYReset(f)
<1> USE ThreadsAssumption DEF Moved
<1>1. (\E ui \in BOOLEAN : TakePhoto(ui)) \/ Cancel \/ Acquired \/ OnPostLoadGame
      \/ (\E m \in PauseMenus \cup Popups : MenuOpens(m)) => todo'[Other] = todo[Other]
  BY DEF TakePhoto, Cancel, Acquired, OnPostLoadGame, MenuOpens, Begin, Programs, Threads
<1>2. Photographing => todo'[Other] = todo[Other]
  BY VMMoves DEF Photographing, Programs, Threads
<1>3. (\E t \in Threads : Shared(t)) => todo'[Other] = todo[Other]
  BY RestoreMoves, UnmaskMoves, ClearMoves DEF Shared, Programs, Threads
<1>4. Finishing => todo'[Other] = todo[Other]
  BY EventMoves DEF Finishing, SetResult, CallbackReturns, Begin, Programs, Threads
<1>5. Playing => todo'[Other] = todo[Other]
  BY GameMoves DEF Playing, RunHide, RunRestore, RunEvent, SwitchMenus, RestoreAfterLoad, Become,
                   Programs, Threads
<1> QED BY <1>1, <1>2, <1>3, <1>4, <1>5 DEF Next

LEMMA GameCalls ==
  ASSUME Programs, Next, todo[Game] \in Looking
  PROVE  \/ todo'[Game] \in {todo[Game], <<>>} \/ OnPostLoadGame
         \/ (\E m \in PauseMenus \cup Popups : MenuOpens(m)) /\ todo'[Game] \in Looking
<1> USE ThreadsAssumption DEF Moved
<1>1. (\E ui \in BOOLEAN : TakePhoto(ui)) \/ Cancel \/ Acquired \/ (\E f \in BOOLEAN : MYReset(f))
      => todo'[Game] = todo[Game]
  BY DEF TakePhoto, Cancel, Acquired, MYReset, Begin, Programs, Threads
<1>2. Photographing => todo'[Game] = todo[Game]
  BY VMMoves DEF Photographing, Programs, Threads
<1>3. (\E t \in Threads : Shared(t)) => todo'[Game] = todo[Game]
  <2>1. <<"restore", "unmask", "clear">> \notin Looking  BY DEF Looking
  <2>2. <<"unmask", "clear">> \notin Looking  BY DEF Looking
  <2>3. <<"clear">> \notin Looking  BY DEF Looking
  <2> QED BY <2>1, <2>2, <2>3, RestoreMoves, UnmaskMoves, ClearMoves DEF Shared, Programs, Threads
<1>4. Finishing => todo'[Game] = todo[Game]
  BY EventMoves DEF Finishing, SetResult, CallbackReturns, Begin, Programs, Threads
<1>5. Playing => todo'[Game] \in {todo[Game], <<>>}
  <2>1. ~RestoreAfterLoad  BY DEF RestoreAfterLoad, Become, Due, Idle, Looking
  <2> QED BY <2>1, GameMoves DEF Playing, RunHide, RunRestore, RunEvent, SwitchMenus, Programs, Threads
<1>6. (\E m \in PauseMenus \cup Popups : MenuOpens(m)) => todo'[Game] \in Looking
  BY DEF MenuOpens, Begin, If, Looking, Programs, Threads
<1> QED BY <1>1, <1>2, <1>3, <1>4, <1>5, <1>6 DEF Next

\* TakePhoto() of a patient script, call by call.
LEMMA PatientCalls ==
  ASSUME Programs, CallStarts, Next, Patient
  PROVE  \/ todo'[VM] = todo[VM]
         \/ /\ \E ui \in BOOLEAN : TakePhoto(ui) /\ todo'[VM] = Opening(ui)
            /\ todo[VM] = <<>> /\ ~Running /\ Idle(Worker) /\ Idle(Other) /\ Idle(Game)
         \/ QueueHide /\ todo[VM] = <<"hide", "mask", "start">> /\ todo'[VM] = <<"mask", "start">>
         \/ MaskMenus /\ todo[VM] = <<"mask", "start">> /\ todo'[VM] = <<"start">>
         \/ StartFree /\ todo[VM] = <<"start">> /\ todo'[VM] = <<"joinReap">>
         \/ Accepted /\ todo[VM] = <<"joinReap">> /\ todo'[VM] = Acceptance
         \/ SetCaptureToken /\ todo[VM] = <<"set">> /\ todo'[VM] = <<>>
<1>1. todo[VM] \notin {<<"joinBusy">>, <<"restore", "unmask">>, <<"unmask">>}
  <2>1. \A p \in {<<"joinBusy">>, <<"restore", "unmask">>, <<"unmask">>} :
          p \notin {<<>>, <<"set">>} /\ p \notin Waits
    BY DEF Waits
  <2> QED BY <2>1 DEF CallStarts, Opened
<1>2. ~StartBusy
  <2>1. ASSUME StartBusy PROVE Opened /\ Running
    <3>1. todo[VM] = <<"start">>  BY <2>1, VMMoves DEF Moved
    <3>2. Running  BY <2>1 DEF StartBusy
    <3> QED BY <3>1, <3>2 DEF Opened
  <2> QED BY <2>1 DEF CallStarts
<1>3. (\E ui \in BOOLEAN : TakePhoto(ui)) => ~Running /\ Idle(Worker) /\ Idle(Other) /\ Idle(Game)
  BY DEF Patient
<1>4. /\ todo[VM] # <<"joinBusy">> /\ todo[VM] # <<"restore", "unmask">> /\ todo[VM] # <<"unmask">>
  BY <1>1
<1> QED BY <1>2, <1>3, <1>4, VMCalls, Zenon

LEMMA CallAloneStep ==
  ASSUME Programs, CallAlone, CallStarts, Next, Patient
  PROVE  CallAlone'
<1> SUFFICES ASSUME todo'[VM] # <<>> PROVE todo'[Other] = <<>> /\ todo'[Game] = <<>>
  BY DEF CallAlone, Idle
<1>1. CASE todo[VM] = <<>>
  <2>1. \E ui \in BOOLEAN : TakePhoto(ui)
    <3>1. /\ todo[VM] # <<"hide", "mask", "start">> /\ todo[VM] # <<"mask", "start">>
          /\ todo[VM] # <<"start">> /\ todo[VM] # <<"joinReap">> /\ todo[VM] # <<"set">>
      BY <1>1
    <3> QED BY <1>1, <3>1, PatientCalls, Zenon
  <2>2. Idle(Other) /\ Idle(Game)  BY <2>1 DEF Patient
  <2> QED BY <2>1, <2>2, ThreadsAssumption DEF TakePhoto, Begin, Idle, Programs, Threads
<1>2. CASE todo[VM] # <<>>
  <2>1. todo[Other] = <<>> /\ todo[Game] = <<>>  BY <1>2 DEF CallAlone, Idle
  <2>2. ~(\E f \in BOOLEAN : MYReset(f)) /\ ~OnPostLoadGame
        /\ ~(\E m \in PauseMenus \cup Popups : MenuOpens(m))
    BY <1>2 DEF Patient, Idle
  <2> QED BY <2>1, <2>2, OtherCalls, GameCalls DEF Looking
<1> QED BY <1>1, <1>2

LEMMA CallStartsStep ==
  ASSUME StateTyped, Programs, CallStarts, Next, Patient
  PROVE  CallStarts'
<1> SUFFICES ASSUME Opened' PROVE ~Running' /\ todo'[Worker] = <<>> /\ todo'[VM] \in Waits
  BY DEF CallStarts, Idle
<1>1. ~Accepted
  <2>1. Accepted => todo'[VM] = Acceptance
    BY VMMoves, ThreadsAssumption DEF Moved, Programs, Threads
  <2> QED BY <2>1, Answers DEF Opened
<1>2. ~Running /\ Idle(Worker)
  <2>1. ~SetCaptureToken
    <3>1. SetCaptureToken => todo'[VM] = <<>>
      BY VMMoves, ThreadsAssumption DEF Moved, Programs, Threads
    <3> QED BY <3>1 DEF Opened
  <2>2. CASE todo'[VM] = todo[VM]  BY <2>2 DEF CallStarts, Opened
  <2>3. CASE todo[VM] \in {<<"hide", "mask", "start">>, <<"mask", "start">>, <<"start">>}
    <3>1. Opened  BY <2>3 DEF Opened
    <3> QED BY <3>1 DEF CallStarts
  <2> QED BY <1>1, <2>1, <2>2, <2>3, PatientCalls
<1>3. todo'[VM] \in Waits
  <2>1. CASE todo'[VM] = todo[VM]  BY <2>1 DEF CallStarts, Opened
  <2>2. \A ui \in BOOLEAN : Opening(ui) \in Waits  BY DEF Opening, Waits
  <2>3. CASE todo'[VM] \in {<<"mask", "start">>, <<"start">>, <<"joinReap">>}  BY <2>3 DEF Waits
  <2>4. ~SetCaptureToken
    <3>1. SetCaptureToken => todo'[VM] = <<>>
      BY VMMoves, ThreadsAssumption DEF Moved, Programs, Threads
    <3> QED BY <3>1 DEF Opened
  <2> QED BY <1>1, <2>1, <2>2, <2>3, <2>4, PatientCalls
<1>4. todo'[Worker] = <<>>
  <2>1. ~Acquired /\ ~SetResult  BY <1>2 DEF Acquired, SetResult
  <2>2. todo[Worker] = <<>>  BY <1>2 DEF Idle
  <2>3. /\ todo[Worker] # <<"restore", "unmask">> /\ todo[Worker] # <<"restore", "unmask", "event">>
        /\ todo[Worker] # <<"unmask">> /\ todo[Worker] # <<"unmask", "event">>
        /\ todo[Worker] # <<"clear", "restore", "unmask", "event">>
        /\ todo[Worker] # <<"clear", "event">> /\ todo[Worker] # <<"event">>
    BY <2>2
  <2> QED BY <2>1, <2>2, <2>3, WorkerCalls, Zenon
<1> QED BY <1>1, <1>2, <1>3, <1>4, RunningKept

\* No step but the start makes the worker hold frames back.
LEMMA AcquiringKept ==
  ASSUME Next, ~Accepted, acquiring'
  PROVE  acquiring /\ ~Acquired /\ ~SetResult
<1> USE DEF work
<1>1. ~Acquired /\ ~SetResult  BY DEF Acquired, SetResult
<1>2. (\E ui \in BOOLEAN : TakePhoto(ui)) \/ Cancel \/ (\E f \in BOOLEAN : MYReset(f))
      \/ OnPostLoadGame \/ (\E m \in PauseMenus \cup Popups : MenuOpens(m)) => UNCHANGED acquiring
  BY DEF TakePhoto, Cancel, MYReset, OnPostLoadGame, MenuOpens
<1>3. Photographing => UNCHANGED acquiring
  BY DEF Photographing, QueueHide, MaskMenus, StartBusy, StartFree, BusyCancelled, SetCaptureToken
<1>4. (\E t \in Threads : Shared(t)) \/ Finishing => UNCHANGED acquiring
  BY <1>1 DEF Shared, RestoreUIAsync, UnmaskMenus, ClearCaptureToken, Finishing, QueueModEvent,
              CallbackReturns
<1>5. Playing => UNCHANGED acquiring
  BY DEF Playing, RunHide, RunRestore, RunEvent, SwitchMenus, MenuWithoutCapture, PopupIgnored,
         MenuCancelsCapture, RestoreAfterLoad
<1> QED BY <1>1, <1>2, <1>3, <1>4, <1>5 DEF Next

LEMMA WorkerHoldsStep ==
  ASSUME StateTyped, Programs, SessionInv, CallAlone, CallStarts, WorkerHolds, Next, Patient
  PROVE  WorkerHolds'
<1>1. CASE Accepted
  BY <1>1, FreshStart, ThreadsAssumption DEF WorkerHolds, Idle, Programs, Threads
<1>2. ASSUME ~Accepted, Running' PROVE token' = captures' /\ (acquiring' => todo'[Worker] = <<>>)
  <2>1. Running /\ UNCHANGED captures  BY <1>2, RunningKept
  <2>2. ~BusyCancelled
    <3>1. BusyCancelled => todo[VM] = <<"joinBusy">>  BY VMMoves DEF Moved
    <3>2. <<"joinBusy">> \notin {<<>>, <<"set">>} /\ <<"joinBusy">> \notin Waits  BY DEF Waits
    <3> QED BY <3>1, <3>2 DEF CallStarts, Opened
  <2>3. token' = captures'  BY <1>2, <2>1, <2>2, TokenSteps DEF WorkerHolds
  <2>4. ASSUME acquiring' PROVE todo'[Worker] = <<>>
    <3>1. acquiring /\ ~Acquired /\ ~SetResult  BY <1>2, <2>4, AcquiringKept
    <3>2. todo[Worker] = <<>>  BY <2>1, <3>1 DEF WorkerHolds, Idle
    <3>3. /\ todo[Worker] # <<"restore", "unmask">> /\ todo[Worker] # <<"restore", "unmask", "event">>
          /\ todo[Worker] # <<"unmask">> /\ todo[Worker] # <<"unmask", "event">>
          /\ todo[Worker] # <<"clear", "restore", "unmask", "event">>
          /\ todo[Worker] # <<"clear", "event">> /\ todo[Worker] # <<"event">>
      BY <3>2
    <3> QED BY <3>1, <3>2, <3>3, WorkerCalls, Zenon
  <2> QED BY <2>3, <2>4
<1> QED BY <1>1, <1>2 DEF WorkerHolds, Idle

\* A capture that nobody has asked to stop was so before, or has just been accepted.
LEMMA UnaskedKept ==
  ASSUME StateTyped, WorkerHolds, Next, ~Accepted, Unasked'
  PROVE  /\ Unasked /\ UNCHANGED captures
         /\ ~CancelToken(captures)
         /\ ~(\E f \in BOOLEAN : MYReset(f)) /\ ~OnPostLoadGame
<1>1. UNCHANGED captures /\ Running /\ Running'  BY RunningKept DEF Unasked
<1>2. Unasked  BY <1>1, CancelledGrows DEF Unasked
<1>3. ~CancelToken(captures)
  BY <1>1 DEF Unasked, CancelToken, Session!Cancel, Running
<1>4. token = captures  BY <1>1 DEF WorkerHolds
<1> QED BY <1>1, <1>2, <1>3, <1>4 DEF MYReset, OnPostLoadGame

LEMMA NoneUndoesStep ==
  ASSUME StateTyped, Programs, SessionInv, CallAlone, CallStarts, NoneUndoes, WorkerHolds, Next,
         Patient
  PROVE  NoneUndoes'
<1>1. CASE Accepted
  <2>1. todo'[Other] = <<>> /\ todo'[Game] = <<>> /\ ~disturbed'
    BY <1>1, FreshStart, ThreadsAssumption DEF Idle, Programs, Threads
  <2> QED BY <2>1 DEF NoneUndoes, Idle, Looking
<1>2. ASSUME ~Accepted, Unasked' PROVE todo'[Other] = <<>> /\ todo'[Game] \in Looking /\ ~disturbed'
  <2>1. Unasked /\ ~(\E f \in BOOLEAN : MYReset(f)) /\ ~OnPostLoadGame  BY <1>2, UnaskedKept
  <2>2. todo[Other] = <<>> /\ todo[Game] \in Looking /\ ~disturbed  BY <2>1 DEF NoneUndoes, Idle
  <2>3. todo'[Other] = <<>>  BY <2>1, <2>2, OtherCalls
  <2>4. todo'[Game] \in Looking  BY <2>1, <2>2, GameCalls DEF Looking
  <2>5. ~disturbed'
    <3>1. CASE SetCaptureToken  BY <2>2, <3>1 DEF SetCaptureToken, work
    <3>2. ASSUME NEW t \in Threads, ClearCaptureToken(t) PROVE ~disturbed'
      <4>1. todo[Other] # <<"clear", "unmask">>  BY <2>2
      <4>2. todo[Game] # <<"clear">>
        <5>1. <<"clear">> \notin Looking  BY DEF Looking
        <5> QED BY <2>2, <5>1, Zenon
      <4>3. t = Worker  BY <3>2, <4>1, <4>2, ClearMoves DEF Moved
      <4> QED BY <2>2, <3>2, <4>3 DEF ClearCaptureToken
    <3> QED BY <1>2, <2>2, <3>1, <3>2, TokenSteps
  <2> QED BY <2>3, <2>4, <2>5
<1> QED BY <1>1, <1>2 DEF NoneUndoes, Idle

\* Once the hide is queued no thread queues a restore or unmasks.
LEMMA NobodyUndoes ==
  ASSUME Programs, CallAlone, CallStarts, NoneUndoes, WorkerHolds, Hiding, NEW t \in Threads
  PROVE  ~RestoreUIAsync(t) /\ ~UnmaskMenus(t)
<1>1. todo[Worker] = <<>> /\ todo[Other] = <<>> /\ todo[Game] \in Looking
  <2>1. CASE Filming  BY <2>1 DEF Filming, NoneUndoes, WorkerHolds, Unasked, Idle
  <2>2. CASE VMUndoes
    <3>1. Opened /\ ~Idle(VM)  BY <2>2 DEF VMUndoes, Opened, Idle
    <3> QED BY <3>1 DEF CallStarts, CallAlone, Idle, Looking
  <2> QED BY <2>1, <2>2 DEF Hiding
<1>2. todo[VM] # <<"restore", "unmask">> /\ todo[VM] # <<"unmask">>
  <2>1. <<"restore", "unmask">> \notin {<<>>, <<"set">>} /\ <<"restore", "unmask">> \notin Waits
    BY DEF Waits
  <2>2. <<"unmask">> \notin {<<>>, <<"set">>} /\ <<"unmask">> \notin Waits  BY DEF Waits
  <2> QED BY <2>1, <2>2 DEF CallStarts, Opened
<1>3. <<"restore", "unmask", "clear">> \notin Looking  BY DEF Looking
<1>4. <<"unmask", "clear">> \notin Looking  BY DEF Looking
<1>5. ~RestoreUIAsync(t)  BY <1>1, <1>2, <1>3, RestoreMoves DEF Moved
<1>6. ~UnmaskMenus(t)  BY <1>1, <1>2, <1>4, UnmaskMoves DEF Moved
<1> QED BY <1>5, <1>6

\* How a hidden capture begins: its hide is queued, its mask set, its start accepted.
LEMMA FilmingKept ==
  ASSUME StateTyped, Programs, SessionInv, CallAlone, WorkerHolds, Next, Patient, Filming'
  PROVE  Filming \/ (Accepted /\ VMUndoes /\ todo[VM] = <<"joinReap">>)
<1>1. CASE Accepted
  <2>1. todo[VM] = <<"joinReap">> /\ Coming \in hiding
    BY <1>1, FreshStart DEF Filming
  <2> QED BY <1>1, <2>1 DEF VMUndoes, Opened
<1>2. CASE ~Accepted
  <2>1. Unasked /\ UNCHANGED captures  BY <1>2, UnaskedKept DEF Filming
  <2>2. acquiring  BY <1>2, AcquiringKept DEF Filming
  <2>3. ~(\E ui \in BOOLEAN : TakePhoto(ui))  BY <2>1 DEF Patient, Unasked
  <2>4. captures \in hiding  BY <1>2, <2>1, <2>3, HidingKept DEF Filming
  <2> QED BY <2>1, <2>2, <2>4 DEF Filming
<1> QED BY <1>1, <1>2

LEMMA StartingKept ==
  ASSUME StateTyped, Programs, CallStarts, Next, Patient, VMUndoes',
         todo'[VM] # <<"hide", "mask", "start">>
  PROVE  /\ VMUndoes
         /\ \/ todo'[VM] = todo[VM]
            \/ QueueHide /\ todo'[VM] = <<"mask", "start">>
            \/ MaskMenus /\ todo[VM] = <<"mask", "start">>
            \/ StartFree /\ todo[VM] = <<"start">>
<1>1. Opened' /\ (Coming \in hiding)'  BY DEF VMUndoes
<1>2. ~Accepted /\ ~SetCaptureToken
  <2>1. (Accepted => todo'[VM] = Acceptance) /\ (SetCaptureToken => todo'[VM] = <<>>)
    BY VMMoves, ThreadsAssumption DEF Moved, Programs, Threads
  <2> QED BY <1>1, <2>1, Answers DEF Opened
<1>3. ASSUME NEW ui \in BOOLEAN, TakePhoto(ui) PROVE FALSE
  <2>1. todo'[VM] = Opening(ui)
    BY <1>3, ThreadsAssumption DEF TakePhoto, Begin, Programs, Threads
  <2>2. ui = FALSE  BY <2>1 DEF Opening
  <2> QED BY <1>1, <1>3, <2>2 DEF TakePhoto, session, Coming
<1>4. (Coming \in hiding)  BY <1>1, <1>2, <1>3, HidingKept DEF Coming
<1>5. /\ todo'[VM] = todo[VM] => Opened
      /\ todo[VM] \in {<<"hide", "mask", "start">>, <<"mask", "start">>, <<"start">>} => Opened
  BY <1>1 DEF Opened
<1> QED BY <1>2, <1>3, <1>4, <1>5, PatientCalls DEF VMUndoes

\* A menu restores the interface of no capture that is to stay hidden: it cancels the capture.
LEMMA MenuRestoresNone ==
  ASSUME StateTyped, Programs, SinkInv, CallAlone, NoneUndoes, WorkerHolds, Next, Hiding,
         Filming' \/ VMUndoes
  PROVE  ~MenuWithoutCapture /\ ~MenuCancelsCapture
<1>1. SUFFICES ASSUME MenuWithoutCapture \/ MenuCancelsCapture PROVE FALSE  OBVIOUS
<1>2. todo[Game] # <<>>  BY <1>1, GameMoves DEF Moved
<1>3. todo[VM] = <<>>  BY <1>2 DEF CallAlone, Idle
<1>4. Filming /\ Filming'  BY <1>3 DEF VMUndoes, Opened, Hiding
<1>5. sinkToken = captures /\ token = captures /\ captures # 0
  BY <1>3, <1>4 DEF SinkInv, Filming, Unasked, NoneUndoes, WorkerHolds, Running
<1>6. Live(sinkToken)  BY <1>5 DEF Live
<1>7. CancelToken(captures)  BY <1>1, <1>5, <1>6 DEF MenuWithoutCapture, MenuCancelsCapture
<1>8. ~Accepted  BY <1>3 DEF Accepted, Become, Due, Idle
<1> QED BY <1>4, <1>7, <1>8, UnaskedKept DEF Filming

\* A task that is no restore leaves the interface to stay hidden when it is queued.
LEMMA StaysQueued ==
  ASSUME TasksTyped, HideStays, NEW e \in Tasks, e[1] # "restore", tasks' = Append(tasks, e),
         UNCHANGED hidden
  PROVE  HideStays'
<1> USE DEF HideStays, Restored
<1>1. Len(tasks) \in Nat /\ Len(tasks') = Len(tasks) + 1  BY DEF TasksTyped
<1>2. \A j \in 1..Len(tasks) : tasks'[j] = tasks[j]  BY DEF TasksTyped
<1>3. tasks'[Len(tasks) + 1] = e  BY DEF TasksTyped
<1>4. ASSUME NEW k \in 1..(Len(tasks) + 1), ~Restored(k, Len(tasks)) PROVE ~Restored(k, Len(tasks))'
  <2>1. SUFFICES ASSUME NEW j \in k..(Len(tasks) + 1) PROVE tasks'[j][1] # "restore"
    BY <1>1
  <2>2. CASE j = Len(tasks) + 1  BY <1>3, <2>2
  <2>3. CASE j # Len(tasks) + 1
    <3>1. j \in k..Len(tasks) /\ j \in 1..Len(tasks)  BY <1>1, <2>3
    <3> QED BY <1>2, <1>4, <3>1
  <2> QED BY <2>2, <2>3
<1>5. CASE hidden /\ ~Restored(1, Len(tasks))
  <2>1. 1 \in 1..(Len(tasks) + 1)  BY <1>1
  <2> QED BY <1>4, <1>5, <2>1
<1>6. CASE \E k \in 1..Len(tasks) : tasks[k][1] = "hide" /\ ~Restored(k, Len(tasks))
  <2>1. PICK k \in 1..Len(tasks) : tasks[k][1] = "hide" /\ ~Restored(k, Len(tasks))  BY <1>6
  <2>2. k \in 1..Len(tasks') /\ k \in 1..(Len(tasks) + 1) /\ tasks'[k] = tasks[k]  BY <1>1, <1>2
  <2> QED BY <1>4, <2>1, <2>2
<1> QED BY <1>5, <1>6

\* It is to stay hidden when the next task has run.
LEMMA StaysRun ==
  ASSUME TasksTyped, HideStays, tasks # <<>>, tasks' = Tail(tasks),
         \/ Head(tasks)[1] = "hide" /\ hidden' = TRUE
         \/ Head(tasks)[1] = "restore"
         \/ Head(tasks)[1] = "event" /\ UNCHANGED hidden
  PROVE  HideStays'
<1> USE DEF HideStays, Restored
<1>1. Len(tasks) \in Nat \ {0} /\ Len(tasks') = Len(tasks) - 1 /\ Head(tasks) = tasks[1]
  BY DEF TasksTyped
<1>2. \A j \in 1..(Len(tasks) - 1) : tasks'[j] = tasks[j + 1]  BY DEF TasksTyped
<1>3. ASSUME NEW k \in 1..Len(tasks), NEW i \in 1..Len(tasks), i + 1 >= k,
             ~Restored(k, Len(tasks))
      PROVE  ~Restored(i, Len(tasks))'
  <2>1. SUFFICES ASSUME NEW j \in i..(Len(tasks) - 1) PROVE tasks'[j][1] # "restore"
    BY <1>1
  <2>2. j \in 1..(Len(tasks) - 1) /\ j + 1 \in k..Len(tasks)  BY <1>1, <1>3
  <2> QED BY <1>2, <1>3, <2>2
<1>4. CASE hidden /\ ~Restored(1, Len(tasks))
  <2>1. 1 \in 1..Len(tasks)  BY <1>1
  <2>2. tasks[1][1] # "restore"  BY <1>4, <2>1
  <2>3. ~Restored(1, Len(tasks))'  BY <1>3, <1>4, <2>1
  <2> QED BY <1>1, <1>4, <2>2, <2>3
<1>5. CASE \E k \in 1..Len(tasks) : tasks[k][1] = "hide" /\ ~Restored(k, Len(tasks))
  <2>1. PICK k \in 1..Len(tasks) : tasks[k][1] = "hide" /\ ~Restored(k, Len(tasks))  BY <1>5
  <2>2. CASE k = 1
    <3>1. tasks[1][1] = "hide"  BY <2>1, <2>2
    <3>2. Head(tasks)[1] = "hide" /\ hidden'  BY <1>1, <3>1
    <3>3. 1 \in 1..Len(tasks)  BY <1>1
    <3>4. ~Restored(1, Len(tasks))'  BY <1>3, <2>1, <2>2, <3>3
    <3> QED BY <3>2, <3>4
  <2>3. CASE k # 1
    <3>1. PICK i \in 1..(Len(tasks) - 1) : i = k - 1  BY <1>1, <2>3
    <3>2. i \in 1..Len(tasks) /\ i + 1 = k  BY <1>1, <3>1
    <3>3. tasks'[i] = tasks[k]  BY <1>2, <3>1, <3>2
    <3>4. ~Restored(i, Len(tasks))'  BY <1>3, <2>1, <3>1, <3>2
    <3> QED BY <1>1, <2>1, <3>1, <3>3, <3>4
  <2> QED BY <2>2, <2>3
<1> QED BY <1>4, <1>5

LEMMA HidingStep ==
  ASSUME IInv, PInv, Next, Patient, Hiding'
  PROVE  HideStays'
<1> USE DEF IInv, PInv
<1>1. CASE QueueHide
  <2>1. tasks' = Append(tasks, <<"hide", Coming>>)  BY <1>1 DEF QueueHide, Queue
  <2>2. Len(tasks) \in Nat /\ Len(tasks') = Len(tasks) + 1
        /\ tasks'[Len(tasks) + 1] = <<"hide", Coming>>
    BY <2>1 DEF TasksTyped
  <2>3. PICK m \in 1..Len(tasks') : m = Len(tasks')  BY <2>2
  <2>4. tasks'[m] = <<"hide", Coming>>  BY <2>2, <2>3
  <2>5. tasks'[m][1] = "hide"  BY <2>4
  <2>6. \A j \in m..Len(tasks') : j = m  BY <2>2, <2>3
  <2>7. ~Restored(m, Len(tasks))'  BY <2>5, <2>6 DEF Restored
  <2> QED BY <2>3, <2>5, <2>7 DEF HideStays
<1>2. CASE ~QueueHide
  <2>1. Hiding /\ (Filming' \/ VMUndoes)
    <3>1. CASE Filming'
      <4>1. <<"joinReap">> # <<"hide", "mask", "start">>  OBVIOUS
      <4> QED BY <3>1, <4>1, FilmingKept DEF Hiding
    <3>2. CASE VMUndoes' /\ todo'[VM] # <<"hide", "mask", "start">>
      <4>1. <<"mask", "start">> # <<"hide", "mask", "start">>
            /\ <<"start">> # <<"hide", "mask", "start">>
        OBVIOUS
      <4> QED BY <1>2, <3>2, <4>1, StartingKept DEF Hiding
    <3> QED BY <3>1, <3>2 DEF Hiding
  <2>2. HideStays  BY <2>1
  <2>3. ~MenuWithoutCapture /\ ~MenuCancelsCapture  BY <2>1, MenuRestoresNone
  <2>4. \A t \in Threads : ~RestoreUIAsync(t)  BY <2>1, NobodyUndoes
  <2>5. CASE UNCHANGED <<tasks, hidden>>  BY <2>2, <2>5 DEF HideStays, Restored
  <2>6. CASE QueueModEvent /\ tasks' = Append(tasks, <<"event", captures>>) /\ UNCHANGED hidden
    <3>1. <<"event", captures>> \in Tasks  BY DEF Tasks, StateTyped
    <3>2. <<"event", captures>>[1] # "restore"  OBVIOUS
    <3> QED BY <2>2, <2>6, <3>1, <3>2, StaysQueued
  <2>7. ASSUME tasks # <<>>, tasks' = Tail(tasks),
               \/ Head(tasks)[1] = "hide" /\ hidden' = TRUE
               \/ Head(tasks)[1] = "restore"
               \/ Head(tasks)[1] = "event" /\ UNCHANGED hidden
        PROVE  HideStays'
    BY <2>2, <2>7, StaysRun
  <2> QED BY <1>2, <2>3, <2>4, <2>5, <2>6, <2>7, TaskSteps
<1> QED BY <1>1, <1>2

LEMMA MaskingStep ==
  ASSUME IInv, PInv, Next, Patient, Masking'
  PROVE  menusHidden'
<1> USE DEF IInv, PInv
<1>1. CASE MaskMenus  BY <1>1 DEF MaskMenus
<1>2. CASE ~MaskMenus
  <2>1. Masking /\ Hiding
    <3>1. /\ <<"joinReap">> # <<"hide", "mask", "start">>
          /\ <<"start">> # <<"hide", "mask", "start">>
          /\ <<"start">> # <<"mask", "start">> /\ <<"joinReap">> # <<"mask", "start">>
      OBVIOUS
    <3>2. CASE Filming'  BY <3>1, <3>2, FilmingKept DEF Hiding, Masking
    <3>3. CASE VMUndoes' /\ todo'[VM] \in {<<"start">>, <<"joinReap">>}
      <4>1. VMUndoes /\ todo[VM] \in {<<"start">>, <<"joinReap">>}
        BY <1>2, <3>1, <3>3, StartingKept
      <4> QED BY <3>1, <4>1 DEF Hiding, Masking
    <3> QED BY <3>2, <3>3 DEF Masking
  <2>2. \A t \in Threads : ~UnmaskMenus(t)  BY <2>1, NobodyUndoes
  <2> QED BY <1>2, <2>1, <2>2, MaskSteps
<1> QED BY <1>1, <1>2

LEMMA PatientInit == Init => PInv
<1> SUFFICES ASSUME Init PROVE PInv  OBVIOUS
<1>1. todo[VM] = <<>> /\ captures = 0  BY DEF Init, Session!Init, Threads
<1> QED BY <1>1 DEF PInv, CallAlone, CallStarts, NoneUndoes, WorkerHolds, Hiding, Masking, Filming,
                    VMUndoes, Opened, Unasked, Running, Idle

LEMMA PatientStep == IInv /\ PInv /\ [Next]_vars /\ [Patient]_vars => PInv'
<1> SUFFICES ASSUME IInv, PInv, [Next]_vars, [Patient]_vars PROVE PInv'  OBVIOUS
<1>1. CASE Next /\ Patient
  BY <1>1, CallAloneStep, CallStartsStep, NoneUndoesStep, WorkerHoldsStep, HidingStep, MaskingStep
  DEF IInv, PInv
<1>2. CASE UNCHANGED vars
  BY <1>2 DEF vars, session, interface, sink, work, PInv, CallAlone, CallStarts, NoneUndoes,
              WorkerHolds, Hiding, Masking, Filming, Unasked, Running, VMUndoes, Opened, Coming,
              HideStays, Restored, Idle
<1> QED BY <1>1, <1>2

\* The user guide's promise does hold for a patient script: while the worker still acquires the
\* frames of a capture that nobody has asked to stop, and no task waits, the interface is hidden
\* and the sink knows.  What breaks it is a TakePhoto() that overtakes the restore of the capture
\* before, or a reset, a load or a menu in the middle of the call.
THEOREM UIPatientStartHides == Spec /\ [][Patient]_vars => []HiddenWhileRecording
<1>1. ASSUME IInv, PInv, Filming, tasks = <<>> PROVE hidden /\ menusHidden
  <2>1. Len(tasks) = 0  BY <1>1
  <2> QED BY <1>1, <2>1 DEF PInv, Hiding, Masking, HideStays
<1>2. IInv /\ PInv => HiddenWhileRecording
  BY <1>1 DEF HiddenWhileRecording, Filming, Unasked
<1> QED BY <1>2, Invariant, PatientInit, PatientStep, PTL DEF Spec
================================================================================
