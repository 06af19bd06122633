---------------------------- MODULE FrameAcquirer ----------------------------
(***************************************************************************)
(* capture/FrameAcquirer.cpp, the CPU path: one desktop frame at a time    *)
(* through DXGI output duplication.  DXGI lends one frame, which has to be *)
(* given back before the next is asked for.  Every stage first asks the    *)
(* token and throws Cancelled; the destructor is what cleans up then.      *)
(***************************************************************************)
EXTENDS Naturals

CONSTANT MaxRetries     \* kMaxRetries (5 in the code)
ASSUME RetriesAssumption == MaxRetries \in Nat \ {0}

VARIABLES
  acq,       \* where the acquirer is; "got", "failed" and "threw" are what a call ends in
  tries,     \* waits for a frame that timed out
  pending,   \* hasAcquiredFrame_
  lent,      \* DXGI: a frame has not been given back
  mapped     \* the staging texture is mapped

acquirer == <<acq, tries, pending, lent, mapped>>

AcqTypeOK ==
  /\ acq \in {"none", "new", "ready", "try", "stage", "map", "copy", "got", "failed", "threw"}
  /\ tries \in 0..MaxRetries
  /\ pending \in BOOLEAN /\ lent \in BOOLEAN /\ mapped \in BOOLEAN

AcqInit == acq = "none" /\ tries = 0 /\ pending = FALSE /\ lent = FALSE /\ mapped = FALSE

\* ReleasePendingFrame(): the frame goes back if one is remembered.
ReleasePendingFrame == lent' = (lent /\ ~pending) /\ pending' = FALSE

Fails == acq' = "failed" /\ ReleasePendingFrame

CheckCancel(stage, cancelled) ==
  /\ acq = stage /\ cancelled
  /\ acq' = "threw"
  /\ UNCHANGED <<tries, pending, lent, mapped>>

Construct ==
  /\ acq = "none"
  /\ acq' = "new"
  /\ UNCHANGED <<tries, pending, lent, mapped>>

\* Initialize(): device, adapter, output, duplication; each can fail.
Initialize(cancelled) ==
  \/ CheckCancel("new", cancelled)
  \/ /\ acq = "new" /\ ~cancelled
     /\ acq' \in {"ready", "failed"}
     /\ UNCHANGED <<tries, pending, lent, mapped>>

\* AcquireFrame() is called: a frame still held goes back first.
AcquireFrame(cancelled) ==
  \/ CheckCancel("ready", cancelled)
  \/ /\ acq = "ready" /\ ~cancelled
     /\ acq' = "try" /\ tries' = 0
     /\ ReleasePendingFrame
     /\ UNCHANGED mapped

RememberFrame_NotYet == pending            \* defect: hasAcquiredFrame_ is set after the copy
RememberFrame == TRUE                      \* hasAcquiredFrame_ = true

Counted_Again(n) == (n + 1) % MaxRetries   \* defect: the count starts again
Counted(n) == n + 1                        \* ++retries

\* AcquireNextFrame(): a frame, a timeout that is retried, or an error.
AcquireNextFrame(cancelled) ==
  \/ CheckCancel("try", cancelled)
  \/ /\ acq = "try" /\ ~cancelled
     /\ \/ /\ acq' = "stage" /\ lent' = TRUE /\ pending' = RememberFrame
           /\ UNCHANGED tries
        \/ /\ tries' = Counted(tries)
           /\ acq' = IF tries' = MaxRetries THEN "failed" ELSE "try"
           /\ UNCHANGED <<pending, lent>>
        \/ acq' = "failed" /\ UNCHANGED <<tries, pending, lent>>
     /\ UNCHANGED mapped

\* The desktop texture is queried and the staging texture made and filled.
Stage(cancelled) ==
  \/ CheckCancel("stage", cancelled)
  \/ /\ acq = "stage" /\ ~cancelled
     /\ \/ acq' = "map" /\ UNCHANGED <<pending, lent>>
        \/ Fails
     /\ UNCHANGED <<tries, mapped>>

\* The staging texture is mapped and the image allocated.
MapTexture(cancelled) ==
  \/ CheckCancel("map", cancelled)
  \/ /\ acq = "map" /\ ~cancelled
     /\ \/ acq' = "copy" /\ mapped' = TRUE /\ UNCHANGED <<pending, lent>>
        \/ Fails /\ UNCHANGED mapped
     /\ UNCHANGED tries

\* The pixels are copied, and texture and frame given back.
CopyPixels(cancelled) ==
  \/ CheckCancel("copy", cancelled)
  \/ /\ acq = "copy" /\ ~cancelled
     /\ acq' \in {"got", "failed"}
     /\ mapped' = FALSE
     /\ ReleasePendingFrame
     /\ UNCHANGED tries

\* The caller has the image and calls again.
Again ==
  /\ acq = "got"
  /\ acq' = "ready"
  /\ UNCHANGED <<tries, pending, lent, mapped>>

\* ~FrameAcquirer(): the frame goes back, and the textures with it.
Destruct ==
  /\ acq' = "none" /\ tries' = 0
  /\ ReleasePendingFrame
  /\ mapped' = FALSE

AcquirerStep(cancelled) ==
  \/ Initialize(cancelled) \/ AcquireFrame(cancelled) \/ AcquireNextFrame(cancelled)
  \/ Stage(cancelled) \/ MapTexture(cancelled) \/ CopyPixels(cancelled)

-----------------------------------------------------------------------------
\* DXGI gets its frame back before the next is asked for, and in every case, thrown out
\* of or failed, when the acquirer is gone; an image that was handed over holds neither
\* a frame nor a mapped texture.
FrameGoesBack ==
  /\ acq \in {"none", "ready", "try", "got"} => ~lent /\ ~mapped
  /\ acq = "failed" => ~lent
===============================================================================
