--------------------------- MODULE PapyrusProtocol ---------------------------
(***************************************************************************)
(* The hotkey, as Printscreen_MainQuest_Script.psc and the natives of      *)
(* papyrus/Bindings.cpp handle it between them: a key press starts or      *)
(* cancels a capture, TakePhoto() answers with the capture's number, the   *)
(* completion event brings number and status back as one float, and a      *)
(* watchdog asks the plugin when no event comes.                           *)
(*                                                                         *)
(* A script stack runs alone until it calls a native of the plugin or      *)
(* SKSE or shows a notification; then any other stack may run first.  The  *)
(* session behind the natives is the one of CaptureContract: one capture   *)
(* at a time, which ends in any of the three ways.  Who asks it to stop    *)
(* (Cancel(), a rejected start, a load, the menu sink) makes no difference *)
(* here, as it may be too late; CaptureSession and UIVisibility have that. *)
(***************************************************************************)
EXTENDS Integers, Sequences

CONSTANTS
  Presses,          \* stacks OnKeyUp() may have at the same time
  FirstSequence,    \* g_captureSequence at the beginning
  MaxCaptures,      \* bound: calls of TakePhoto(); MaxPresses is enough
  MaxPresses,       \* bound: key presses
  MaxLoads,         \* bound: loads of a game
  Saves             \* what the saved games hold of the script's variables

ExactLimit == 4096 * 4096     \* 2^24: a float holds every natural number up to it

\* The packed code of the last capture still fits.
ASSUME SequenceAssumption ==
  /\ FirstSequence \in Nat /\ MaxCaptures \in Nat
  /\ (FirstSequence + MaxCaptures) * 10 + 2 <= ExactLimit
ASSUME BoundsAssumption == MaxPresses \in Nat /\ MaxLoads \in Nat

VARIABLES
  latent,       \* IsLatentScreenshotActive
  starting,     \* IsStartingCapture
  captureSeq,   \* _CaptureSeq
  armed,        \* RegisterForSingleUpdate() is pending
  at, number,   \* per OnKeyUp stack: where it is; the number TakePhoto() has taken or the
                \* capture whose worker it joins
  update,       \* where the OnUpdate stack is
  failed,       \* the capture whose event handler is extracting the error text; 0: none
  resets,       \* _ResetCaptureState() calls a load has still to make
  sequence,     \* g_captureSequence
  active,       \* the capture the session is running, 0: none
  outcome,      \* how each capture ended
  events,       \* completion codes on their way to the script
  told,         \* history: what the player was told of each capture
  presses, loads

script  == <<latent, starting, captureSeq, armed>>
stacks  == <<at, number, update, failed, resets>>
session == <<sequence, active, outcome, events>>
vars    == <<script, stacks, session, told, presses, loads>>

Captures == (FirstSequence + 1)..(FirstSequence + MaxCaptures)
ASSUME SavesAssumption ==
  Saves \subseteq [latent : BOOLEAN, starting : BOOLEAN, captureSeq : Captures \cup {0},
                  armed : BOOLEAN]

Statuses == {0, 1, 2}                    \* success, cancelled, error
None == -1                               \* no status
Twice == -2

Starts == {"check", "take", "start", "join", "started", "previous", "refused"}

TypeOK ==
  /\ latent \in BOOLEAN /\ starting \in BOOLEAN /\ armed \in BOOLEAN
  /\ captureSeq \in Captures \cup {0}
  /\ at \in [Presses -> Starts \cup {"none", "cancel", "clear"}]
  /\ number \in [Presses -> Captures \cup {0}]
  /\ update \in {"none", "ask", "force", "busy", "lost"}
  /\ failed \in Captures \cup {0} /\ resets \in 0..2
  /\ sequence \in FirstSequence..(FirstSequence + MaxCaptures)
  /\ active \in Captures \cup {0}
  /\ outcome \in [Captures -> Statuses \cup {None}]
  /\ events \in Seq(Nat)
  /\ told \in [Captures -> Statuses \cup {None, Twice}]
  /\ presses \in 0..MaxPresses /\ loads \in 0..MaxLoads

Init ==
  /\ latent = FALSE /\ starting = FALSE /\ captureSeq = 0 /\ armed = FALSE
  /\ at = [p \in Presses |-> "none"] /\ number = [p \in Presses |-> 0]
  /\ update = "none" /\ failed = 0 /\ resets = 0
  /\ sequence = FirstSequence /\ active = 0
  /\ outcome = [k \in Captures |-> None] /\ events = <<>>
  /\ told = [k \in Captures |-> None]
  /\ presses = 0 /\ loads = 0

-----------------------------------------------------------------------------
(* The completion code                                                       *)

\* A natural number as a float, rounded to even, up to twice that limit.
Float(n) ==
  IF n <= ExactLimit \/ n % 2 = 0 THEN n ELSE IF n % 4 = 1 THEN n - 1 ELSE n + 1

Packed_Narrow(seq, status) == seq * 2 + status      \* defect: no room for three statuses
Packed(seq, status) == seq * 10 + status
PackCompletionCode(seq, status) == Float(Packed(seq, status))

SeqOf(code) == code \div 10
StatusOf(code) == code % 10

-----------------------------------------------------------------------------
(* The script                                                                *)

ResetCaptureState ==
  latent' = FALSE /\ starting' = FALSE /\ captureSeq' = 0 /\ armed' = FALSE

Goto(p, step) == at' = [at EXCEPT ![p] = step]

\* The player is told how capture k ended.
Tell(k, status) ==
  told' = [told EXCEPT ![k] = IF @ = None THEN status ELSE Twice]

\* OnKeyUp(), as far as its first notification; the key may be ignored before.
KeyUp(p) ==
  /\ at[p] = "none" /\ presses < MaxPresses
  /\ presses' = presses + 1
  /\ \/ (latent \/ starting) /\ Goto(p, "cancel") /\ UNCHANGED starting
     \/ ~latent /\ ~starting /\ starting' = TRUE /\ Goto(p, "check")
  /\ UNCHANGED <<latent, captureSeq, armed, number, update, failed, resets, session, told, loads>>

\* Cancel() asks the running capture to stop, if there is one.
Cancel(p) ==
  /\ at[p] = "cancel" /\ Goto(p, "clear")
  /\ UNCHANGED <<script, number, update, failed, resets, session, told, presses, loads>>

Clear(p) ==
  /\ at[p] = "clear" /\ Goto(p, "none") /\ ResetCaptureState
  /\ UNCHANGED <<number, update, failed, resets, session, told, presses, loads>>

InvalidPath == FALSE                     \* IsStartingCapture = false

\* CaptureImage(): the path is checked, the capture announced.
CheckPath(p) ==
  /\ at[p] = "check"
  /\ \/ latent' = TRUE /\ Goto(p, "take") /\ UNCHANGED starting
     \/ starting' = InvalidPath /\ Goto(p, "none") /\ UNCHANGED latent
  /\ UNCHANGED <<captureSeq, armed, number, update, failed, resets, session, told, presses,
                 loads>>

NextSequence == sequence + 1             \* ++g_captureSequence

\* TakePhoto() takes a number ...
TakePhoto(p) ==
  /\ at[p] = "take" /\ sequence < FirstSequence + MaxCaptures
  /\ sequence' = NextSequence
  /\ number' = [number EXCEPT ![p] = sequence']
  /\ Goto(p, "start")
  /\ UNCHANGED <<script, update, failed, resets, active, outcome, events, told, presses,
                 loads>>

\* ... and calls Start(): accepted, failed, or the running capture is cancelled ...
Start(p) ==
  /\ at[p] = "start"
  /\ \/ active = 0 /\ active' = number[p] /\ Goto(p, "started") /\ UNCHANGED number
     \/ /\ active = 0 /\ Goto(p, "refused")
        /\ number' = [number EXCEPT ![p] = 0] /\ UNCHANGED active
     \/ /\ active # 0 /\ Goto(p, "join")
        /\ number' = [number EXCEPT ![p] = active] /\ UNCHANGED active
  /\ UNCHANGED <<script, update, failed, resets, sequence, outcome, events, told, presses,
                 loads>>

\* ... and its worker joined.
Join(p) ==
  /\ at[p] = "join" /\ active # number[p] /\ Goto(p, "previous")
  /\ number' = [number EXCEPT ![p] = 0]
  /\ UNCHANGED <<script, update, failed, resets, session, told, presses, loads>>

Watched_Not == armed                     \* defect: the watchdog is not armed
Watched == TRUE                          \* RegisterForSingleUpdate(_WatchdogTimeout())

\* "Started:<number>" is stored; latent alone is busy from now on.
Started(p) ==
  /\ at[p] = "started" /\ Goto(p, "none")
  /\ captureSeq' = number[p] /\ starting' = FALSE /\ armed' = Watched
  /\ number' = [number EXCEPT ![p] = 0]
  /\ UNCHANGED <<latent, update, failed, resets, session, told, presses, loads>>

\* "Previous capture cancelled" or "Error: ...": nothing has been started.
Rejected(p) ==
  /\ at[p] \in {"previous", "refused"} /\ Goto(p, "none")
  /\ ResetCaptureState
  /\ UNCHANGED <<number, update, failed, resets, session, told, presses, loads>>

Awaited_Any(seq) == captureSeq # 0       \* defect: any completion will do
Awaited(seq) == seq # 0 /\ seq = captureSeq

\* OnPrintScreenComplete(): a late event is ignored; success and cancellation are told at
\* once, for an error the text is extracted first.
OnPrintScreenComplete ==
  /\ failed = 0 /\ events # <<>>
  /\ events' = Tail(events)
  /\ LET seq == SeqOf(Head(events))
         status == StatusOf(Head(events))
     IN \/ ~Awaited(seq) /\ UNCHANGED <<script, failed, told>>
        \/ /\ Awaited(seq) /\ status # 2
           /\ Tell(captureSeq, status) /\ ResetCaptureState /\ UNCHANGED failed
        \/ /\ Awaited(seq) /\ status = 2
           /\ failed' = captureSeq /\ UNCHANGED <<script, told>>
  /\ UNCHANGED <<at, number, update, resets, sequence, active, outcome, presses, loads>>

\* The rest of the handler of an error: whatever is waited for by now is forgotten.
TellError ==
  /\ failed # 0 /\ failed' = 0
  /\ Tell(failed, 2) /\ ResetCaptureState
  /\ UNCHANGED <<at, number, update, resets, session, presses, loads>>

\* The watchdog fires.
OnUpdate ==
  /\ armed /\ update = "none"
  /\ armed' = FALSE
  /\ update' = IF latent THEN "ask" ELSE "none"
  /\ UNCHANGED <<latent, starting, captureSeq, at, number, failed, resets, session, told,
                 presses, loads>>

\* MYReset(false): refused while a capture is running ...
Ask ==
  /\ update = "ask"
  /\ update' = IF active # 0 THEN "busy" ELSE "force"
  /\ UNCHANGED <<script, at, number, failed, resets, session, told, presses, loads>>

\* ... else ForceReset(), which asks one that was started in between to stop.
ForceReset ==
  /\ update = "force" /\ update' = "lost"
  /\ UNCHANGED <<script, at, number, failed, resets, session, told, presses, loads>>

Rearmed_Not == armed                     \* defect: the watchdog gives up after one look
Rearmed == TRUE                          \* RegisterForSingleUpdate(30.0)

Busy ==
  /\ update = "busy" /\ update' = "none"
  /\ armed' = Rearmed
  /\ UNCHANGED <<latent, starting, captureSeq, at, number, failed, resets, session, told,
                 presses, loads>>

\* "Finished, but no completion report was received."
Lost ==
  /\ update = "lost" /\ update' = "none"
  /\ ResetCaptureState
  /\ UNCHANGED <<at, number, failed, resets, session, told, presses, loads>>

\* One of the two handlers of a load: OnPlayerLoadGame() of the script, and
\* InitializePrintscreen(), which the plugin calls once more.
LoadResets ==
  /\ resets > 0 /\ resets' = resets - 1
  /\ ResetCaptureState
  /\ UNCHANGED <<at, number, update, failed, session, told, presses, loads>>

-----------------------------------------------------------------------------
(* The plugin and the game                                                   *)

\* The worker ends: its completion callback queues the event, which can get lost.
Finish ==
  /\ active # 0
  /\ \E status \in Statuses :
       /\ outcome' = [outcome EXCEPT ![active] = status]
       /\ events' \in {events, Append(events, PackCompletionCode(active, status))}
  /\ active' = 0
  /\ UNCHANGED <<script, stacks, sequence, told, presses, loads>>

\* A saved game is loaded: the stacks are gone, the script's variables are what the save
\* says, whatever was going on when it was written; two resets will come.  The numbers of
\* the plugin, its capture and the events on their way are not part of a save.
Load ==
  /\ loads < MaxLoads /\ loads' = loads + 1
  /\ \E s \in Saves :
       /\ latent' = s.latent /\ starting' = s.starting
       /\ captureSeq' = s.captureSeq /\ armed' = s.armed
  /\ at' = [p \in Presses |-> "none"] /\ number' = [p \in Presses |-> 0]
  /\ update' = "none" /\ failed' = 0 /\ resets' = 2
  /\ UNCHANGED <<session, told, presses>>

Press(p) ==
  \/ Cancel(p) \/ Clear(p) \/ CheckPath(p) \/ TakePhoto(p) \/ Start(p) \/ Join(p)
  \/ Started(p) \/ Rejected(p)

Completion == OnPrintScreenComplete \/ TellError
Watchdog == OnUpdate \/ Ask \/ ForceReset \/ Busy \/ Lost

Next ==
  \/ \E p \in Presses : KeyUp(p) \/ Press(p)
  \/ Completion \/ Watchdog \/ LoadResets
  \/ Finish \/ Load

Spec == Init /\ [][Next]_vars

\* The virtual machine resumes every stack, a registered update fires, the worker ends.
Fairness ==
  /\ \A p \in Presses : WF_vars(Press(p))
  /\ WF_vars(Completion) /\ WF_vars(Watchdog) /\ WF_vars(LoadResets)
  /\ WF_vars(Finish)

FairSpec == Spec /\ Fairness

-----------------------------------------------------------------------------
(* Properties                                                                *)

UnderWay == \E p \in Presses : at[p] \in Starts

\* A busy flag never outlives what would clear it: while the script believes a capture is
\* active, the watchdog is armed or some stack that arms or resets it is under way; while it
\* believes one is starting, a key press is starting one; a load resets what a save says.
NeverStuck ==
  resets = 0 =>
    /\ latent => \/ armed \/ update # "none" \/ failed # 0
                 \/ \E p \in Presses : at[p] \notin {"none", "check"}
    /\ starting => UnderWay

\* The completion codes in flight are exact: each is the number and status of a capture
\* that has ended so.
EventsExact ==
  \A i \in 1..Len(events) :
    /\ SeqOf(events[i]) \in Captures
    /\ StatusOf(events[i]) = outcome[SeqOf(events[i])]

\* What the player is told of a capture by its completion event is how it ended, and is
\* told once, however presses, late events, the watchdog and loads interleave.
ToldTruth == \A k \in Captures : told[k] \in {None, outcome[k]}

\* The hotkey always comes back: neither flag stays set for ever, even when the event is
\* lost or was handled before the script knew the number it had to wait for.
HotkeyComesBack == (latent \/ starting) ~> (~latent /\ ~starting)
===============================================================================
