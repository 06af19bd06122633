------------------------------ MODULE TempFiles ------------------------------
(***************************************************************************)
(* capture/TempFileGuard.cpp: the directories animated captures keep their *)
(* frames in.  A guard removes its directory; the registry lists those a   *)
(* load of a game removes; the scan of the output folder finds the rest by *)
(* name.  Removing a directory fails while one of its files is locked.     *)
(***************************************************************************)
EXTENDS Naturals

CONSTANT Dirs         \* names of temporary directories, one for each capture

VARIABLES
  dirs,      \* the directories on the disk
  registry,  \* s_registeredDirs
  guard,     \* the directory of the armed guard, {} if there is none
  left       \* directories a crash of the game has left

tempFiles == <<dirs, registry, guard, left>>

TempTypeOK ==
  /\ dirs \subseteq Dirs /\ registry \subseteq Dirs /\ left \subseteq Dirs
  /\ guard \in {{}} \cup {{d} : d \in Dirs}

TempInit == dirs = {} /\ registry = {} /\ guard = {} /\ left = {}

\* remove_all() for each of ds: any of them may be locked.
RemoveAll(ds) == \E locked \in SUBSET (dirs \cap ds) : dirs' = (dirs \ ds) \cup locked

\* ScanAndRemove(): every directory with a temporary name in the output folder.
ScanAndRemove == RemoveAll(dirs) /\ UNCHANGED <<registry, guard, left>>

MakeTempDir(d) == dirs' = dirs \cup {d} /\ UNCHANGED <<registry, guard, left>>

\* The guard's constructor registers its directory.
Guard(d) ==
  /\ registry' = registry \cup {d} /\ guard' = {d}
  /\ UNCHANGED <<dirs, left>>

Disarmed_Always(ds) == TRUE               \* defect: released whether it is gone or not
Disarmed(ds) == ds \cap guard = {}        \* the directory is verified gone

\* Cleanup(): the guard is disarmed, and its directory unregistered, once it is gone.
Cleanup ==
  /\ RemoveAll(guard)
  /\ IF Disarmed(dirs') THEN registry' = registry \ guard /\ guard' = {}
                        ELSE UNCHANGED <<registry, guard>>
  /\ UNCHANGED left

\* ~TempFileGuard(): another Cleanup(), then the guard is gone.
DestroyGuard ==
  /\ RemoveAll(guard)
  /\ registry' = IF Disarmed(dirs') THEN registry \ guard ELSE registry
  /\ guard' = {}
  /\ UNCHANGED left

StillPending(ds) == registry \cap ds      \* what could not be removed is tried again

CleanupAllRegistered ==
  /\ RemoveAll(registry)
  /\ registry' = StillPending(dirs')
  /\ UNCHANGED <<guard, left>>

\* The game dies: the disk keeps what is there.
Dies ==
  /\ registry' = {} /\ guard' = {}
  /\ left' = dirs
  /\ UNCHANGED dirs
===============================================================================
