---------------------------- MODULE PapyrusProofs ----------------------------
(***************************************************************************)
(* What holds of the hotkey protocol for any number of key presses, loads  *)
(* and captures, as long as the last number fits the completion code.      *)
(***************************************************************************)
EXTENDS PapyrusProtocol, TLAPS

-----------------------------------------------------------------------------
(* The completion code                                                       *)

LEMMA LimitIsNat == ExactLimit \in Nat
BY SMT DEF ExactLimit

\* Number and status of a capture survive the float for every number the protocol
\* allows (PackCompletionCode() and the division in OnPrintScreenComplete()).
LEMMA PackingExact ==
  ASSUME NEW seq \in Captures, NEW status \in Statuses
  PROVE  /\ PackCompletionCode(seq, status) \in Nat
         /\ SeqOf(PackCompletionCode(seq, status)) = seq
         /\ StatusOf(PackCompletionCode(seq, status)) = status
<1>1. seq \in Nat /\ seq * 10 + status <= ExactLimit /\ status \in 0..2
  BY SequenceAssumption, LimitIsNat DEF Captures, Statuses
<1>2. PackCompletionCode(seq, status) = seq * 10 + status
  BY <1>1 DEF PackCompletionCode, Packed, Float
<1>3. (seq * 10 + status) \div 10 = seq /\ (seq * 10 + status) % 10 = status
  BY <1>1
<1> QED BY <1>1, <1>2, <1>3 DEF SeqOf, StatusOf

\* An exact code names a capture and one of the three statuses.
LEMMA ExactCode ==
  ASSUME TypeOK, EventsExact, NEW i \in 1..Len(events)
  PROVE  /\ SeqOf(events[i]) \in Captures
         /\ StatusOf(events[i]) \in Statuses
         /\ StatusOf(events[i]) = outcome[SeqOf(events[i])]
<1>1. events[i] \in Nat  BY DEF TypeOK
<1>2. StatusOf(events[i]) \in 0..9  BY <1>1 DEF StatusOf
<1> QED BY <1>1, <1>2 DEF EventsExact, TypeOK, None, Statuses

-----------------------------------------------------------------------------
(* Type correctness                                                          *)

\* The flags, and the rest of the type invariant.
FlagsTyped == latent \in BOOLEAN /\ starting \in BOOLEAN /\ armed \in BOOLEAN
RestTyped ==
  /\ captureSeq \in Captures \cup {0}
  /\ at \in [Presses -> Starts \cup {"none", "cancel", "clear"}]
  /\ number \in [Presses -> Captures \cup {0}]
  /\ update \in {"none", "ask", "force", "busy", "lost"}
  /\ failed \in Captures \cup {0} /\ resets \in 0..2
  /\ sequence \in FirstSequence..(FirstSequence + MaxCaptures)
  /\ active \in Captures \cup {0}
  /\ outcome \in [Captures -> Statuses \cup {None}]
  /\ events \in Seq(Nat)
  /\ told \in [Captures -> Statuses \cup {None, Twice}]
  /\ presses \in 0..MaxPresses /\ loads \in 0..MaxLoads

LEMMA TypeParts == TypeOK <=> FlagsTyped /\ RestTyped
BY DEF TypeOK, FlagsTyped, RestTyped

LEMMA InitTyped == Init => TypeOK
<1> SUFFICES ASSUME Init PROVE TypeOK  OBVIOUS
<1>1. FlagsTyped  BY Zenon DEF Init, FlagsTyped
<1>2. RestTyped
  BY SequenceAssumption, BoundsAssumption DEF Init, RestTyped, Captures, Statuses, None, Twice,
     Starts
<1> QED BY <1>1, <1>2, TypeParts

LEMMA PressTyped ==
  ASSUME TypeOK, NEW p \in Presses, KeyUp(p) \/ Press(p)
  PROVE  TypeOK'
<1>1. FlagsTyped'
  BY TypeParts, Zenon
  DEF FlagsTyped, KeyUp, Press, Cancel, Clear, CheckPath, InvalidPath, TakePhoto, Start, Join,
      Started, Watched, Rejected, ResetCaptureState, script
<1>2. RestTyped'
  <2> RestTyped  BY TypeParts
  <2> USE DEF RestTyped, Starts, Goto, script, session, ResetCaptureState
  <2>1. CASE KeyUp(p)       BY <2>1, BoundsAssumption DEF KeyUp
  <2>2. CASE Cancel(p)      BY <2>2 DEF Cancel
  <2>3. CASE Clear(p)       BY <2>3 DEF Clear
  <2>4. CASE CheckPath(p)   BY <2>4 DEF CheckPath, InvalidPath
  <2>5. CASE TakePhoto(p)
    <3>1. /\ sequence' \in FirstSequence..(FirstSequence + MaxCaptures)
          /\ sequence' \in Captures
      BY <2>5, SequenceAssumption DEF TakePhoto, NextSequence, Captures
    <3> QED BY <2>5, <3>1 DEF TakePhoto
  <2>6. CASE Start(p)       BY <2>6 DEF Start
  <2>7. CASE Join(p)        BY <2>7 DEF Join
  <2>8. CASE Started(p)     BY <2>8 DEF Started, Watched
  <2>9. CASE Rejected(p)    BY <2>9 DEF Rejected
  <2> QED BY <2>1, <2>2, <2>3, <2>4, <2>5, <2>6, <2>7, <2>8, <2>9 DEF Press
<1> QED BY <1>1, <1>2 DEF TypeOK, FlagsTyped, RestTyped

LEMMA EventsTyped ==
  ASSUME TypeOK, EventsExact, Completion
  PROVE  TypeOK'
<1>1. CASE OnPrintScreenComplete
  <2> DEFINE seq == SeqOf(Head(events))  status == StatusOf(Head(events))
  <2>1. Tail(events) \in Seq(Nat) /\ events # <<>> /\ Head(events) = events[1] /\ 1 \in 1..Len(events)
    BY <1>1 DEF TypeOK, OnPrintScreenComplete
  <2>2. seq \in Captures /\ status \in Statuses
    BY <2>1, ExactCode
  <2> HIDE DEF seq, status
  <2>3. \/ UNCHANGED <<script, failed, told>>
        \/ captureSeq \in Captures /\ Tell(captureSeq, status) /\ ResetCaptureState /\ UNCHANGED failed
        \/ captureSeq \in Captures /\ failed' = captureSeq /\ UNCHANGED <<script, told>>
    BY <1>1, <2>2 DEF OnPrintScreenComplete, Awaited, seq, status
  <2>4. UNCHANGED <<at, number, update, resets, sequence, active, outcome, presses, loads>>
        /\ events' = Tail(events)
    BY <1>1 DEF OnPrintScreenComplete
  <2> QED BY <2>1, <2>2, <2>3, <2>4 DEF TypeOK, script, Tell, ResetCaptureState
<1>2. CASE TellError
  BY <1>2 DEF TypeOK, TellError, Tell, ResetCaptureState, session, Statuses
<1> QED BY <1>1, <1>2 DEF Completion

LEMMA WatchdogTyped ==
  ASSUME TypeOK, Watchdog
  PROVE  TypeOK'
<1> FlagsTyped /\ RestTyped  BY TypeParts
<1>1. CASE OnUpdate
  <2>1. FlagsTyped'  BY <1>1, Zenon DEF OnUpdate, FlagsTyped
  <2>2. update' \in {"none", "ask"}  BY <1>1, Zenon DEF OnUpdate
  <2>3. UNCHANGED <<captureSeq, at, number, failed, resets, session, told, presses, loads>>
    BY <1>1 DEF OnUpdate
  <2>4. RestTyped'  BY <2>2, <2>3 DEF RestTyped, session
  <2> QED BY <2>1, <2>4 DEF TypeOK, FlagsTyped, RestTyped
<1>2. CASE Ask
  <2>1. FlagsTyped'  BY <1>2, Zenon DEF Ask, FlagsTyped, script
  <2>2. RestTyped'  BY <1>2 DEF Ask, RestTyped, script, session
  <2> QED BY <2>1, <2>2 DEF TypeOK, FlagsTyped, RestTyped
<1>3. CASE ForceReset
  <2>1. FlagsTyped'  BY <1>3, Zenon DEF ForceReset, FlagsTyped, script
  <2>2. RestTyped'  BY <1>3 DEF ForceReset, RestTyped, script, session
  <2> QED BY <2>1, <2>2 DEF TypeOK, FlagsTyped, RestTyped
<1>4. CASE Busy
  <2>1. FlagsTyped'  BY <1>4, Zenon DEF Busy, FlagsTyped, Rearmed
  <2>2. RestTyped'  BY <1>4 DEF Busy, RestTyped, session
  <2> QED BY <2>1, <2>2 DEF TypeOK, FlagsTyped, RestTyped
<1>5. CASE Lost
  <2>1. FlagsTyped'  BY <1>5, Zenon DEF Lost, FlagsTyped, ResetCaptureState
  <2>2. RestTyped'  BY <1>5 DEF Lost, RestTyped, session, ResetCaptureState
  <2> QED BY <2>1, <2>2 DEF TypeOK, FlagsTyped, RestTyped
<1> QED BY <1>1, <1>2, <1>3, <1>4, <1>5 DEF Watchdog

LEMMA OthersTyped ==
  ASSUME TypeOK, LoadResets \/ Finish \/ Load
  PROVE  TypeOK'
<1>1. FlagsTyped'
  <2> FlagsTyped  BY TypeParts
  <2> USE DEF FlagsTyped, script, ResetCaptureState
  <2>1. CASE LoadResets  BY <2>1, Zenon DEF LoadResets
  <2>2. CASE Finish  BY <2>2, Zenon DEF Finish
  <2>3. CASE Load
    <3>1. PICK s \in Saves : latent' = s.latent /\ starting' = s.starting /\ armed' = s.armed
      BY <2>3 DEF Load
    <3>2. s.latent \in BOOLEAN /\ s.starting \in BOOLEAN /\ s.armed \in BOOLEAN
      BY SavesAssumption
    <3> QED BY <3>1, <3>2, Zenon
  <2> QED BY <2>1, <2>2, <2>3
<1>2. RestTyped'
  <2> RestTyped  BY TypeParts
  <2> USE DEF RestTyped, script, stacks, session, ResetCaptureState
  <2>1. CASE LoadResets  BY <2>1 DEF LoadResets
  <2>2. CASE Finish
    <3>1. PICK status \in Statuses :
            /\ outcome' = [outcome EXCEPT ![active] = status]
            /\ events' \in {events, Append(events, PackCompletionCode(active, status))}
      BY <2>2 DEF Finish
    <3>2. PackCompletionCode(active, status) \in Nat
      BY <2>2, PackingExact DEF Finish
    <3> HIDE DEF RestTyped
    <3>3. events' \in Seq(Nat)
      <4> DEFINE code == PackCompletionCode(active, status)
      <4> code \in Nat /\ events \in Seq(Nat)  BY <3>2 DEF RestTyped
      <4> HIDE DEF code
      <4>1. Append(events, code) \in Seq(Nat)  OBVIOUS
      <4> QED BY <3>1, <4>1 DEF code
    <3> USE DEF RestTyped
    <3> QED BY <2>2, <3>1, <3>3 DEF Finish
  <2>3. CASE Load
    <3>1. captureSeq' \in Captures \cup {0}
      <4>1. PICK s \in Saves : captureSeq' = s.captureSeq  BY <2>3 DEF Load
      <4> QED BY <4>1, SavesAssumption
    <3> QED BY <2>3, <3>1, BoundsAssumption DEF Load, Starts
  <2> QED BY <2>1, <2>2, <2>3
<1> QED BY <1>1, <1>2 DEF TypeOK, FlagsTyped, RestTyped

LEMMA StepTyped == TypeOK /\ EventsExact /\ [Next]_vars => TypeOK'
<1> SUFFICES ASSUME TypeOK, EventsExact, [Next]_vars PROVE TypeOK'  OBVIOUS
<1>1. CASE UNCHANGED vars
  BY <1>1 DEF TypeOK, vars, script, stacks, session
<1> QED BY <1>1, PressTyped, EventsTyped, WatchdogTyped, OthersTyped DEF Next

-----------------------------------------------------------------------------
(* The codes in flight                                                       *)

\* A number that a press is about to start has never been used, nor will another press
\* use it; the running capture has no outcome yet, nor has one to come.
FreshInv ==
  /\ \A k \in Captures : k > sequence => outcome[k] = None
  /\ active <= sequence /\ (active # 0 => outcome[active] = None)
  /\ \A p \in Presses : at[p] = "start" =>
       /\ number[p] \in Captures /\ number[p] <= sequence /\ number[p] # active
       /\ outcome[number[p]] = None
  /\ \A p, q \in Presses :
       at[p] = "start" /\ at[q] = "start" /\ p # q => number[p] # number[q]

LEMMA PressFresh ==
  ASSUME TypeOK, FreshInv, NEW p \in Presses, KeyUp(p) \/ Press(p)
  PROVE  FreshInv'
<1> USE SequenceAssumption DEF TypeOK, FreshInv, Goto, session, Captures
<1>1. CASE TakePhoto(p)
  <2>1. /\ sequence' = sequence + 1 /\ sequence' \in Captures
        /\ number' = [number EXCEPT ![p] = sequence'] /\ at' = [at EXCEPT ![p] = "start"]
        /\ UNCHANGED <<active, outcome>>
    BY <1>1 DEF TakePhoto, NextSequence
  <2> QED BY <2>1
<1>2. CASE Start(p)
  <2>1. CASE active = 0 /\ active' = number[p] /\ Goto(p, "started") /\ UNCHANGED number
    BY <1>2, <2>1 DEF Start
  <2>2. CASE active = 0 /\ Goto(p, "refused") /\ number' = [number EXCEPT ![p] = 0]
             /\ UNCHANGED active
    BY <1>2, <2>2 DEF Start
  <2>3. CASE active # 0 /\ Goto(p, "join") /\ number' = [number EXCEPT ![p] = active]
             /\ UNCHANGED active
    BY <1>2, <2>3 DEF Start
  <2> QED BY <1>2, <2>1, <2>2, <2>3 DEF Start
<1>3. CASE ~TakePhoto(p) /\ ~Start(p)
  <2>1. PICK step \in {"check", "take", "started", "previous", "none", "cancel", "clear"} :
          at' = [at EXCEPT ![p] = step]
    BY <1>3 DEF Press, KeyUp, Cancel, Clear, CheckPath, Join, Started, Rejected
  <2>2. number' \in {number, [number EXCEPT ![p] = 0]} /\ UNCHANGED <<sequence, active, outcome>>
    BY <1>3 DEF Press, KeyUp, Cancel, Clear, CheckPath, Join, Started, Rejected
  <2> QED BY <2>1, <2>2
<1> QED BY <1>1, <1>2, <1>3

LEMMA StepFresh == TypeOK /\ FreshInv /\ [Next]_vars => FreshInv'
<1> SUFFICES ASSUME TypeOK, FreshInv, [Next]_vars PROVE FreshInv'  OBVIOUS
<1>1. CASE Finish
  BY <1>1, SequenceAssumption DEF TypeOK, FreshInv, Finish, Captures, stacks
<1>2. CASE Load
  BY <1>2 DEF FreshInv, Load, session
<1>3. CASE Completion \/ Watchdog \/ LoadResets \/ UNCHANGED vars
  <2>1. UNCHANGED <<sequence, active, outcome, at, number>>
    BY <1>3 DEF Completion, OnPrintScreenComplete, TellError, Watchdog, OnUpdate, Ask, ForceReset,
       Busy, Lost, LoadResets, vars, session, stacks
  <2> QED BY <2>1 DEF FreshInv
<1> QED BY <1>1, <1>2, <1>3, PressFresh DEF Next

LEMMA StepExact == TypeOK /\ FreshInv /\ EventsExact /\ [Next]_vars => EventsExact'
<1> SUFFICES ASSUME TypeOK, FreshInv, EventsExact, [Next]_vars PROVE EventsExact'  OBVIOUS
<1>1. CASE Finish
  <2>1. PICK status \in Statuses :
          /\ outcome' = [outcome EXCEPT ![active] = status]
          /\ events' \in {events, Append(events, PackCompletionCode(active, status))}
    BY <1>1 DEF Finish
  <2> DEFINE code == PackCompletionCode(active, status)
  <2>2. active \in Captures /\ outcome[active] = None
    BY <1>1 DEF Finish, TypeOK, FreshInv
  <2>3. code \in Nat /\ SeqOf(code) = active /\ StatusOf(code) = status
    BY <2>2, PackingExact
  <2> HIDE DEF code
  <2>4. ASSUME NEW i \in 1..Len(events)
        PROVE  SeqOf(events[i]) \in Captures /\ StatusOf(events[i]) = outcome'[SeqOf(events[i])]
    <3>1. /\ SeqOf(events[i]) \in Captures /\ StatusOf(events[i]) \in Statuses
          /\ StatusOf(events[i]) = outcome[SeqOf(events[i])]
      BY ExactCode
    <3>2. SeqOf(events[i]) # active  BY <3>1, <2>2 DEF Statuses, None
    <3> QED BY <3>1, <3>2, <2>1 DEF TypeOK
  <2>5. outcome'[active] = status  BY <2>1, <2>2 DEF TypeOK
  <2>6. CASE events' = events
    BY <2>4, <2>6 DEF EventsExact
  <2>7. CASE events' = Append(events, code)
    <3>1. Len(events') = Len(events) + 1 /\ events'[Len(events) + 1] = code
          /\ \A i \in 1..Len(events) : events'[i] = events[i]
      BY <2>7, <2>3 DEF TypeOK
    <3>2. ASSUME NEW i \in 1..Len(events')
          PROVE  SeqOf(events'[i]) \in Captures /\ StatusOf(events'[i]) = outcome'[SeqOf(events'[i])]
      <4>1. CASE i = Len(events) + 1  BY <4>1, <3>1, <2>2, <2>3, <2>5
      <4>2. CASE i \in 1..Len(events)  BY <4>2, <3>1, <2>4
      <4>3. Len(events) \in Nat  BY DEF TypeOK
      <4> QED BY <4>1, <4>2, <4>3, <3>1
    <3> QED BY <3>2 DEF EventsExact
  <2> QED BY <2>1, <2>6, <2>7 DEF code
<1>2. CASE OnPrintScreenComplete
  <2>1. events' = Tail(events) /\ outcome' = outcome /\ events # <<>>
    BY <1>2 DEF OnPrintScreenComplete
  <2>2. \A i \in 1..Len(Tail(events)) : i + 1 \in 1..Len(events) /\ Tail(events)[i] = events[i + 1]
    BY <2>1 DEF TypeOK
  <2> QED BY <2>1, <2>2 DEF EventsExact
<1>3. CASE ~Finish /\ ~OnPrintScreenComplete
  <2>1. UNCHANGED <<events, outcome>>
    BY <1>3
    DEF Next, Completion, TellError, Watchdog, OnUpdate, Ask, ForceReset, Busy, Lost, LoadResets,
        Load, KeyUp, Press, Cancel, Clear, CheckPath, TakePhoto, Start, Join, Started, Rejected,
        vars, session
  <2> QED BY <2>1 DEF EventsExact
<1> QED BY <1>1, <1>2, <1>3

-----------------------------------------------------------------------------
(* What the player is told                                                   *)

\* A capture whose report is still on its way has not been told of, has one report only,
\* and an error whose text is being extracted has none left.
UntoldInv ==
  /\ \A i \in 1..Len(events) : told[SeqOf(events[i])] = None
  /\ \A i, j \in 1..Len(events) : i # j => SeqOf(events[i]) # SeqOf(events[j])
  /\ failed # 0 =>
       /\ outcome[failed] = 2 /\ told[failed] = None
       /\ \A i \in 1..Len(events) : SeqOf(events[i]) # failed

PapyrusInv == TypeOK /\ FreshInv /\ EventsExact /\ UntoldInv /\ ToldTruth

LEMMA FinishTells == PapyrusInv /\ Finish => UntoldInv' /\ ToldTruth'
<1> SUFFICES ASSUME PapyrusInv, Finish PROVE UntoldInv' /\ ToldTruth'  OBVIOUS
<1> USE DEF PapyrusInv
<1>1. PICK status \in Statuses :
        /\ outcome' = [outcome EXCEPT ![active] = status]
        /\ events' \in {events, Append(events, PackCompletionCode(active, status))}
  BY DEF Finish
<1> DEFINE code == PackCompletionCode(active, status)
<1>2. /\ active \in Captures /\ outcome[active] = None /\ told[active] = None
      /\ UNCHANGED <<told, failed>> /\ outcome'[active] = status
  BY <1>1 DEF Finish, TypeOK, FreshInv, ToldTruth, stacks
<1>3. code \in Nat /\ SeqOf(code) = active
  BY <1>2, PackingExact
<1> HIDE DEF code
<1>4. \A i \in 1..Len(events) : SeqOf(events[i]) # active
  <2> SUFFICES ASSUME NEW i \in 1..Len(events) PROVE SeqOf(events[i]) # active  OBVIOUS
  <2> QED BY <1>2, ExactCode DEF Statuses, None
<1>5. failed # active \/ failed = 0
  BY <1>2 DEF UntoldInv, None
<1>6. ToldTruth'
  BY <1>1, <1>2 DEF ToldTruth, TypeOK
<1>7. failed' # 0 => outcome'[failed'] = 2 /\ told'[failed'] = None
  BY <1>1, <1>2, <1>5 DEF UntoldInv, TypeOK
<1>8. CASE events' = events
  BY <1>2, <1>7, <1>8, <1>6 DEF UntoldInv
<1>9. CASE events' = Append(events, code)
  <2>1. /\ Len(events) \in Nat /\ Len(events') = Len(events) + 1
        /\ events'[Len(events) + 1] = code
        /\ \A i \in 1..Len(events) : events'[i] = events[i]
    BY <1>9, <1>3 DEF TypeOK
  <2>2. \A i \in 1..Len(events') : i = Len(events) + 1 \/ i \in 1..Len(events)
    BY <2>1
  <2>3. \A i \in 1..Len(events') : told'[SeqOf(events'[i])] = None
    BY <2>1, <2>2, <1>2, <1>3 DEF UntoldInv
  <2>4. \A i, j \in 1..Len(events') : i # j => SeqOf(events'[i]) # SeqOf(events'[j])
    BY <2>1, <2>2, <1>3, <1>4 DEF UntoldInv
  <2>5. failed' # 0 => \A i \in 1..Len(events') : SeqOf(events'[i]) # failed'
    BY <2>1, <2>2, <1>2, <1>3, <1>5 DEF UntoldInv
  <2> QED BY <2>3, <2>4, <2>5, <1>6, <1>7 DEF UntoldInv
<1> QED BY <1>1, <1>8, <1>9 DEF code

LEMMA CompletionTells == PapyrusInv /\ Completion => UntoldInv' /\ ToldTruth'
<1> SUFFICES ASSUME PapyrusInv, Completion PROVE UntoldInv' /\ ToldTruth'  OBVIOUS
<1> USE DEF PapyrusInv
<1>1. CASE OnPrintScreenComplete
  <2> DEFINE seq == SeqOf(events[1])  status == StatusOf(events[1])
  <2>1. /\ events # <<>> /\ Head(events) = events[1] /\ 1 \in 1..Len(events)
        /\ events' = Tail(events) /\ outcome' = outcome /\ failed = 0
    BY <1>1 DEF OnPrintScreenComplete, TypeOK
  <2>2. /\ Len(events) \in Nat /\ Len(Tail(events)) = Len(events) - 1
        /\ \A i \in 1..Len(Tail(events)) :
             i + 1 \in 1..Len(events) /\ i + 1 # 1 /\ Tail(events)[i] = events[i + 1]
    BY <2>1 DEF TypeOK
  <2>3. seq \in Captures /\ status \in Statuses /\ status = outcome[seq] /\ told[seq] = None
    BY <2>1, ExactCode DEF UntoldInv
  <2>4. /\ \A i \in 1..Len(events') : told[SeqOf(events'[i])] = None /\ SeqOf(events'[i]) # seq
        /\ \A i, j \in 1..Len(events') : i # j => SeqOf(events'[i]) # SeqOf(events'[j])
    BY <2>1, <2>2 DEF UntoldInv
  <2>5. \/ UNCHANGED <<failed, told>>
        \/ Tell(seq, status) /\ UNCHANGED failed
        \/ status = 2 /\ failed' = seq /\ UNCHANGED told
    BY <1>1, <2>1, <2>3 DEF OnPrintScreenComplete, Awaited, Statuses
  <2> HIDE DEF seq, status
  <2>6. CASE UNCHANGED <<failed, told>>
    BY <2>1, <2>4, <2>6 DEF UntoldInv, ToldTruth
  <2>7. CASE Tell(seq, status) /\ UNCHANGED failed
    <3>1. told' = [told EXCEPT ![seq] = status]  BY <2>3, <2>7 DEF Tell, TypeOK
    <3>2. \A i \in 1..Len(events') : told'[SeqOf(events'[i])] = None
      BY <3>1, <2>4 DEF TypeOK
    <3>3. ToldTruth'  BY <3>1, <2>1, <2>3 DEF ToldTruth, TypeOK
    <3> QED BY <3>2, <3>3, <2>1, <2>4, <2>7 DEF UntoldInv
  <2>8. CASE status = 2 /\ failed' = seq /\ UNCHANGED told
    BY <2>1, <2>3, <2>4, <2>8 DEF UntoldInv, ToldTruth
  <2> QED BY <2>5, <2>6, <2>7, <2>8
<1>2. CASE TellError
  <2>1. /\ failed \in Captures /\ failed' = 0 /\ UNCHANGED <<events, outcome>>
        /\ outcome[failed] = 2 /\ told[failed] = None
    BY <1>2 DEF TellError, TypeOK, UntoldInv, session
  <2>2. told' = [told EXCEPT ![failed] = 2]
    BY <1>2, <2>1 DEF TellError, Tell
  <2>3. ToldTruth'  BY <2>1, <2>2 DEF ToldTruth, TypeOK
  <2>4. \A i \in 1..Len(events) : SeqOf(events[i]) # failed
    BY <1>2 DEF TellError, UntoldInv
  <2>5. \A i \in 1..Len(events) : SeqOf(events[i]) \in Captures
    BY DEF EventsExact
  <2> QED BY <2>1, <2>2, <2>3, <2>4, <2>5 DEF UntoldInv, TypeOK
<1> QED BY <1>1, <1>2 DEF Completion

LEMMA StepTells == PapyrusInv /\ [Next]_vars => UntoldInv' /\ ToldTruth'
<1> SUFFICES ASSUME PapyrusInv, [Next]_vars PROVE UntoldInv' /\ ToldTruth'  OBVIOUS
<1>1. CASE ~Finish /\ ~Completion
  <2>1. UNCHANGED <<events, outcome, told>> /\ failed' \in {failed, 0}
    BY <1>1
    DEF Next, Watchdog, OnUpdate, Ask, ForceReset, Busy, Lost, LoadResets, Load, KeyUp, Press,
        Cancel, Clear, CheckPath, TakePhoto, Start, Join, Started, Rejected, vars, session, stacks
  <2> QED BY <2>1 DEF PapyrusInv, UntoldInv, ToldTruth
<1> QED BY <1>1, FinishTells, CompletionTells

LEMMA InitPapyrus == Init => PapyrusInv
<1> SUFFICES ASSUME Init PROVE PapyrusInv  OBVIOUS
<1>1. TypeOK  BY InitTyped
<1>2. FreshInv  BY SequenceAssumption DEF Init, FreshInv
<1>3. EventsExact /\ UntoldInv /\ ToldTruth
  BY DEF Init, EventsExact, UntoldInv, ToldTruth
<1> QED BY <1>1, <1>2, <1>3 DEF PapyrusInv

\* The inductive invariant.
THEOREM PapyrusInvariance == Spec => []PapyrusInv
<1>1. PapyrusInv /\ [Next]_vars => PapyrusInv'
  BY StepTyped, StepFresh, StepExact, StepTells DEF PapyrusInv
<1> QED BY InitPapyrus, <1>1, PTL DEF Spec

\* The variables of script, plugin and history keep their types.
THEOREM PapyrusTypeOK == Spec => []TypeOK
<1>1. PapyrusInv => TypeOK  BY DEF PapyrusInv
<1> QED BY PapyrusInvariance, <1>1, PTL

\* Each completion code in flight is number and status of a capture that ended so.
THEOREM PapyrusEventsExact == Spec => []EventsExact
<1>1. PapyrusInv => EventsExact  BY DEF PapyrusInv
<1> QED BY PapyrusInvariance, <1>1, PTL

\* The player is told of a capture how it ended, and at most once.
THEOREM PapyrusToldTruth == Spec => []ToldTruth
<1>1. PapyrusInv => ToldTruth  BY DEF PapyrusInv
<1> QED BY PapyrusInvariance, <1>1, PTL

-----------------------------------------------------------------------------
(* The busy flags                                                            *)

LEMMA PressUnsticks ==
  ASSUME TypeOK, NeverStuck, NEW p \in Presses, KeyUp(p) \/ Press(p)
  PROVE  NeverStuck'
<1> USE DEF TypeOK, NeverStuck, UnderWay, Starts, Goto, script
<1>1. CASE KeyUp(p)      BY <1>1 DEF KeyUp
<1>2. CASE Cancel(p)     BY <1>2 DEF Cancel
<1>3. CASE Clear(p)      BY <1>3 DEF Clear, ResetCaptureState
<1>4. CASE CheckPath(p)  BY <1>4 DEF CheckPath, InvalidPath
<1>5. CASE TakePhoto(p)  BY <1>5 DEF TakePhoto
<1>6. CASE Start(p)      BY <1>6 DEF Start
<1>7. CASE Join(p)       BY <1>7 DEF Join
<1>8. CASE Started(p)    BY <1>8 DEF Started, Watched
<1>9. CASE Rejected(p)   BY <1>9 DEF Rejected, ResetCaptureState
<1> QED BY <1>1, <1>2, <1>3, <1>4, <1>5, <1>6, <1>7, <1>8, <1>9 DEF Press

LEMMA StepUnsticks == TypeOK /\ EventsExact /\ NeverStuck /\ [Next]_vars => NeverStuck'
<1> SUFFICES ASSUME TypeOK, EventsExact, NeverStuck, [Next]_vars PROVE NeverStuck'  OBVIOUS
<1> USE DEF NeverStuck, UnderWay, script
<1>1. CASE OnPrintScreenComplete
  <2>1. UNCHANGED <<at, update, resets>>  BY <1>1 DEF OnPrintScreenComplete
  <2>2. \/ latent' = FALSE /\ starting' = FALSE
        \/ UNCHANGED <<latent, starting, armed>> /\ (failed' = failed \/ failed' # 0)
    BY <1>1 DEF OnPrintScreenComplete, ResetCaptureState, Awaited
  <2> QED BY <2>1, <2>2
<1>2. CASE TellError   BY <1>2 DEF TellError, ResetCaptureState
<1>3. CASE OnUpdate
  <2>1. UNCHANGED <<latent, starting, at, failed, resets>>  BY <1>3 DEF OnUpdate
  <2>2. latent => update' # "none"  BY <1>3 DEF OnUpdate
  <2> QED BY <2>1, <2>2
<1>4. CASE Ask         BY <1>4 DEF Ask
<1>5. CASE ForceReset  BY <1>5 DEF ForceReset
<1>6. CASE Busy        BY <1>6 DEF Busy, Rearmed
<1>7. CASE Lost        BY <1>7 DEF Lost, ResetCaptureState
<1>8. CASE LoadResets  BY <1>8 DEF LoadResets, ResetCaptureState
<1>9. CASE Finish      BY <1>9 DEF Finish, stacks
<1>10. CASE Load       BY <1>10 DEF Load
<1>11. CASE UNCHANGED vars
  BY <1>11 DEF vars, stacks
<1> QED
  BY <1>1, <1>2, <1>3, <1>4, <1>5, <1>6, <1>7, <1>8, <1>9, <1>10, <1>11, PressUnsticks
  DEF Next, Completion, Watchdog

\* Neither busy flag outlives what would clear it, for any number of presses and loads.
THEOREM PapyrusNeverStuck == Spec => []NeverStuck
<1>1. Init => NeverStuck  BY DEF Init, NeverStuck
<1>2. PapyrusInv /\ NeverStuck /\ [Next]_vars => NeverStuck'
  BY StepUnsticks DEF PapyrusInv
<1> QED BY PapyrusInvariance, <1>1, <1>2, PTL DEF Spec
==============================================================================
