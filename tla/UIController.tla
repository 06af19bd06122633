------------------------------ MODULE UIController ------------------------------
(***************************************************************************)
(* ui/UIController.cpp: HideAll() and RestoreAll() around the engine's     *)
(* showMenus flag, one step per access to shared state, called from any    *)
(* thread ("callable from the worker thread, the game thread, and the      *)
(* menu-event sink concurrently").                                         *)
(***************************************************************************)
EXTENDS Naturals

CONSTANT Threads

VARIABLES showing,  \* the engine's showMenus
          hidden,   \* hidden_
          saved,    \* savedShowMenus_
          wanted,   \* what the user has chosen with the tm command
          at        \* per thread: where it is

uivars == <<showing, hidden, saved, wanted, at>>

TypeOK == /\ showing \in BOOLEAN /\ hidden \in BOOLEAN
          /\ saved \in BOOLEAN /\ wanted \in BOOLEAN
          /\ at \in [Threads -> {"out", "save", "hide", "show"}]

Init == /\ wanted \in BOOLEAN /\ showing = wanted
        /\ hidden = FALSE /\ saved = TRUE
        /\ at = [t \in Threads |-> "out"]

Goto(t, l, m) == at[t] = l /\ at' = [at EXCEPT ![t] = m]

\* hidden_.exchange(true); it returns at once if it was already hidden.
ClaimHide(t) ==
  /\ Goto(t, "out", IF hidden THEN "out" ELSE "save")
  /\ hidden' = TRUE
  /\ UNCHANGED <<showing, saved, wanted>>

SaveMenus(t) ==
  /\ Goto(t, "save", "hide")
  /\ saved' = showing
  /\ UNCHANGED <<showing, hidden, wanted>>

HideMenus(t) ==
  /\ Goto(t, "hide", "out")
  /\ showing' = FALSE
  /\ UNCHANGED <<hidden, saved, wanted>>

\* hidden_.exchange(false); it returns at once if it was already visible.
ClaimRestore(t) ==
  /\ Goto(t, "out", IF hidden THEN "show" ELSE "out")
  /\ hidden' = FALSE
  /\ UNCHANGED <<showing, saved, wanted>>

RestoreMenus(t) ==
  /\ Goto(t, "show", "out")
  /\ showing' = saved
  /\ UNCHANGED <<hidden, saved, wanted>>

Next == \E t \in Threads : \/ ClaimHide(t) \/ SaveMenus(t) \/ HideMenus(t)
                           \/ ClaimRestore(t) \/ RestoreMenus(t)

Spec == Init /\ [][Next]_uivars

\* "another mod may have already toggled it": when no call is under way a hidden interface
\* comes back as the user had it, and a visible one is as wanted.  It holds while one thread
\* makes the calls; a RestoreAll() between another thread's claim and hide breaks it.
SavedValueSurvives ==
  (\A t \in Threads : at[t] = "out") =>
    IF hidden THEN saved = wanted /\ ~showing ELSE showing = wanted
================================================================================
