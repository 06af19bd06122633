# PrintScreen V5: models, checks and proofs

PrintScreen V5 is a Skyrim plugin (C++, loaded by SKSE) with Papyrus scripts in front of it.
A hotkey or the MCM page makes a script call the native `TakePhoto`; a worker thread acquires
frames from the desktop duplication API and encodes them as a still image, an animation or an
H.264 video; a completion event goes back to the script.  This directory holds TLA+ models of
the parts whose correctness depends on the order in which several actors act or on what
happens when a step fails, the TLC configurations that check them, and TLAPS proofs of the
results that hold for every instance.

Paths below are relative to `src/src/` of the repository unless they start otherwise.

## 1. The system

### Components

| Component | State | Operations | Talks to |
|---|---|---|---|
| Capture session, `capture/CaptureSession.*`, `CancellationToken.h` | `state_`, `result_`, `token_`, the callbacks, `workerThread_`, two mutexes | `Start`, `RequestCancel`, `ForceReset`, `GetResult`, `WorkerThread`, `SetResult`, destructor | natives call it; the worker calls back |
| Captures to a file, `RunAnimated()` and `RunStill()` in `CaptureSession.cpp` | frames on the disk, verdict | acquire, save, wait, encode, clean up | acquirer, temporary files, encoders |
| Frame queue, `capture/FrameQueue.*` | ring of textures, `head_`, `tail_`, `count_`, `stopped_`, mutex, two condition variables | `Push`, `Pop`, `Stop` | both threads of a video |
| Video pipeline, `RunVideo()` in `CaptureSession.cpp`, `VideoCapture.*` | texture pool, error strings, `producerDone`, sink writer, output file | acquire, copy, push; pop, encode; join, finalize, abort | queue, acquirer, Media Foundation |
| UI visibility, `ui/UIController.*`, `ui/MenuEventSink.*` | `hidden_`, `savedShowMenus_`, `menusHidden_`, `captureToken_`, `isPaused_` | `HideAll`, `RestoreAll`, `ProcessEvent`, the setters | SKSE task queue, engine menus, natives, worker |
| Papyrus natives, `papyrus/Bindings.cpp` | `g_captureSequence` | `TakePhoto`, `Cancel`, `MYReset`, `OnPostLoadGame`, `QueueModEvent` | everything above and the scripts |
| Papyrus scripts, `src/Papyrus Scripts/` | `IsLatentScreenshotActive`, `IsStartingCapture`, `_CaptureSeq`, the update registration | `OnKeyUp`, `CaptureImage`, `OnPrintScreenComplete`, `OnUpdate`, `OnPlayerLoadGame`, MCM pages | natives, settings store |
| Settings store, `Native/PrintscreenJson.cpp` | per file: data, loaded, good; the file and its `.tmp` | load, migrate, `Get*`, `Has*`, `Set*Value`, `Save` | scripts, file system |
| Temporary files, `capture/TempFileGuard.*` | guard, registry of directories | `Cleanup`, `CleanupAllRegistered`, `ScanAndRemove` | animated captures, `OnPostLoadGame` |
| Animated encoders, `encoding/GifEncoder.cpp`, `ApngEncoder.cpp` | previous frame, shared palette, chunk numbers, what a viewer shows | `EncodeFromFiles`, `EncodeSequence` | animated captures, WIC |
| Still encoder, `encoding/StillEncoder.cpp` | COM apartment, output file, sidecar | `SaveWIC`, `SaveDDS`, metadata | still captures, WIC, DirectXTex |
| Frame acquirer, `capture/FrameAcquirer.*` | duplication, lent frame, mapped texture | `Initialize`, `AcquireFrame`, `AcquireFrameGPU`, `ReleasePendingFrame` | still, animated and video captures |
| GPU scaler, camera, console queue, configuration, logging, plugin entry | no state that several steps share | | |

### What is hard

* **Threads.** Papyrus runs several script stacks, so natives can overlap; the game thread runs
  the tasks natives queue and delivers menu events; one worker thread serves each capture and
  a video adds a producer thread.
* **Script stacks.** A stack runs alone until it calls a native or shows a notification; then a
  key press, an event, the watchdog or a load may run first and change the flags it has read.
* **Joining.** `Start()` reaps the previous worker before it creates the next one and has to
  release `mutex_` to do so; what it decided before must be decided again.
* **Cancellation** is a flag that is read at certain points; it may come too late, hit a
  capture that is over, or miss one that has just begun.  Some points leave by a C++ throw, some
  by a return value, and what is held there has to be given back either way.
* **Wakeups.** The queue blocks on condition variables, and `Stop()` takes no mutex.
* **Ownership in time.** A pool texture is named by the queue, the consumer and the sink
  writer after the producer has moved on, and is overwritten one lap later.
* **Failure of one side.** Producer, consumer, finalizer and set-up fail independently, and
  one verdict, one callback and at most one file must come out.
* **The disk.** A save replaces the settings file in several steps between which the game may
  die; a temporary directory may be locked, swept by a scan or a load, or left by a crash.
* **Deltas.** An animation stores differences: a frame left out, a colour taken for
  transparent or a change too small to store shows in all later frames.

### What makes each component correct

* Session: one worker at a time, the state speaks of that worker, each worker reports its
  own outcome exactly once through its own callback, `BusyCancelled` is returned only when
  the old worker is gone, nothing deadlocks or terminates the process, everything reports.
* Queue: a bounded FIFO channel that can be closed; nobody sleeps on while there is work, or
  after the close.
* Video: a texture in use is not rewritten, samples keep order and strictly increase in time,
  the verdict tells what happened, no thread outlives the locals it refers to, cancellation
  takes effect in bounded time, every video ends.
* UI: whatever happens, the interface comes back; while frames are taken it stays hidden.
* Files: the result told is true of the file; playing an animation gives the captured frames, or
  stays within a known distance of them; frames, apartments and textures go back on
  every way out.
* Temporary files: no directory in use is removed, no unused one is forgotten.
* Papyrus: the player is told of a capture once and truthfully; the script never waits for ever.
* Settings: no value is lost by a spelling, a migration, a failed save or a crash.

## 2. Plan

Written and checked, in this order:

1. `CaptureSession`, with the abstract `CaptureContract` and `CaptureSessionProofs`.
2. `FrameQueue`, with the abstract `FrameChannel` and `FrameQueueProofs`.
3. `VideoPipeline`, which composes the video threads with `FrameQueue` step by step, and
   `VideoPipelineProofs`.
4. `UIController` and `UIVisibility`; the latter composes natives, callbacks, task queue and
   menu sink with `CaptureContract` (what the session was shown to implement) and with
   `UIController`; `UIVisibilityProofs`.
5. `SettingsStore` and `SettingsStoreProofs`.
6. `FileCapture`, which composes `FrameAcquirer`, `TempFiles`, `GifEncoder`, `ApngEncoder` and
   `StillEncoder` (the three over `Encoder`) with the worker of a capture,
   `FileCaptureProofs`, and `ApngProofs` for what is said of the animated PNG.
7. `PapyrusProtocol` and `PapyrusProofs`.

What is left, the most useful first:

* the GPU path of the acquirer as its own steps inside `VideoPipeline`;
* the debounce of the hotkey over a clock that restarts with the game;
* the clamps and the target resolution of a request, as pure functions;
* the safety half of the liveness results, as for the video: a measure that each step of a call
  lowers, beside the proof that nobody waits in a circle.

## 3. The modules

### CaptureSession and CaptureContract

Captures are numbered by the creation of their worker thread; number w also names the token,
the callbacks and the worker of that capture.  Callers are the threads that use the session,
`Starters` those that call `Start()`.  A critical section that takes `mutex_` alone and does
not block in it is one action.  `Start()` is cut where the code releases a mutex or waits:

| Action | Code |
|---|---|
| `StartBusy`, `StartIdle`, then `JoinLock`, `JoinWorker` | the first critical section and `JoinWorker()` |
| `BusyReset` | the `BusyCancelled` path after the join |
| `StartLost`, or `StartCommit` and `AssignThread` or `AssignOverJoinable` | re-validation, members, `joinMutex_`, the thread assignment |
| `BeginCancel`, `BeginReset`, `CopyToken`, `CancelCopied`, `ForceReset` | `Cancel`, `RequestCancel()`, `ForceReset()` |
| `WorkerEnter`, `WorkerCheck`, `AcquireFrames`, `OnAcquired`, `Finish` | `WorkerThread()` |
| `Publish`, `Deliver` | `SetResult()`, with the callback outside the mutex |
| `GetResult`, `Destroy` | the polling call and the destructor |

What a worker computes is one of three outcomes; `CANCELLED` needs a cancelled token.
The contract has four actions, `Accept`, `Cancel`, `Complete` and `Deliver`, and no threads.

### FrameQueue and FrameChannel

One action per access to shared state inside `Push`, `Pop` and `Stop`: taking the mutex, testing
the predicate, falling asleep (which releases the mutex), notified or spurious wakeup, the body,
the notification after the unlock.  `Stop()` is three steps without the mutex, as in the code.
The wait sets are the condition variables.  Waiting is split into the test and the sleep,
because `Stop()` can fall between the two.

### VideoPipeline

`prod` and `main` say where the producer thread and the worker are in `RunVideo()`; the queue's
variables are those of `FrameQueue`, whose steps are taken unchanged.  A texture is the index
of the frame last copied into its slot, a sample is slot, index and time.  The first push,
made before the producer thread exists, goes under the producer's name (nobody else can push
then).  Media Foundation is external: samples are released in order and `WriteSample()` blocks
at `MaxInFlight`.

### UIController and UIVisibility

`UIController` is the two calls, one step per access to `hidden_`, `savedShowMenus_` and the
engine's flag.  In `UIVisibility`, `todo[t]` is the rest of the call thread t is in, as a list of
named steps, in the order of the code: a native queues a task, sets `menusHidden_`, joins, sets the
sink's token; the worker's callbacks do the same in their order; the game thread runs tasks from
the head of the queue and handles menu events in between.  One thread starts captures, so the
`AlreadyRunning` answer does not occur here.  What a capture reports does not matter to the
interface: `SetResult` reports `CANCELLED` if the token is cancelled and `SUCCESS` otherwise.
`hider` and `disturbed` are history variables.  The user's own `tm` command in the middle of a
capture is not modelled: the setting is chosen once, shown or not.

### SettingsStore

One file and its `.tmp`, the cache, and where a `Save()` is.  `Names` are the spellings of the file's
name that `NormalizeFileName()` accepts, and `Fold` is what `CacheKey()` does to them: spellings that
differ in case share a cache entry, `./PrintScreen` has one of its own over the same file.  (The
scripts pass one property, `"PrintScreen"`, whose case Papyrus's string table may change.)  Every native holds `g_jsonMutex` from
beginning to end, so a native is one action, except `Save()`: its steps on the disk (`OpenTemp`,
`WriteTemp`, `RemoveOld`, `RenameTemp` or `RenameFails`, `SaveReturns`) are actions, since the game
may die (`Restart`) between any two and each may fail.  The two removals may fail unnoticed, as in the
code: that of the old file, and that of the `.tmp` after a failed rename.  A value is its type, which is what migration, `Get*` and `Has*` look at; a file is its
root values under two spellings and the three containers an older version wrote.
`MigrateLegacyData` is `Collapse`, then `Hoist` for each container.  `asked`, `solid`, `current`,
`durable` and `givenUp` are history variables.

### FileCapture and its parts

`pc` says where the worker of the capture is in `RunAnimated()` or `RunStill()`.  The parts are
modules with their own variables and steps, which `FileCapture` schedules:

* `FrameAcquirer`: `acq` walks through `Initialize()` and `AcquireFrame()`; `lent` is what DXGI
  knows of its frame and `pending` what the acquirer remembers (`hasAcquiredFrame_`).  Each stage
  asks the token and may throw, and every call may fail.
* `TempFiles`: `dirs` is the disk, `registry` and `guard` the code's; `RemoveAll` leaves any subset
  of what is locked, and a scan may throw on the way, which ends the capture with `ERROR`.  `left` is a history variable: what a crash has left for the next scan.
* `Encoder`: result, output file and COM apartment of an encoder, pictures, and `Draw`, what a
  viewer does with a frame's area on its canvas.
* `GifEncoder`: frames are functions from pixels to palette indices.  A frame is written whole, as
  the box around what differs, or that box with holes of the reserved index.  Calls of a frame that
  fail unnoticed (`GifEncoder.cpp:495-541`: no metadata writer, no disposal, no offset, no
  transparency) make `Lost` true until the next whole frame that has its metadata, and the canvas is
  left open in between.
* `ApngEncoder`: the chunks with their numbers, and pixels as levels of which two within the
  threshold count as the same.  `Encodings` is what `EncodeImageToPNG()` may hand over: a PNG, or, after
  an unchecked WIC failure, one without data or without a header (`spoiled`).
* `StillEncoder`: `SaveWIC()`, with cancellation by throw before `CoInitializeEx()` and through
  `guard()` after it; metadata, which may also throw past `guard()`; `SaveDDS()` with its fallback.

Beside the worker, `Cancel`, the two halves of `OnPostLoadGame()` (`LoadCancels`, `LoadCleans`), the
start of the next capture and `Crash` may come at any point.  One capture at a time is what
`CaptureSessionProofs!AtMostOneWorker` proves; a second capture begins when the first has reported.

### PapyrusProtocol

`at[p]` is where an `OnKeyUp()` stack is, from the key press through `CaptureImage()` and
`TakePhoto()` to the answer; `update` the `OnUpdate()` stack, `failed` the completion handler of an
error while it extracts the text, `resets` the handlers of a load still to run.  A stack runs alone
until it calls a native of the plugin or of SKSE or shows a notification, so that is where an
action ends.  The session is the one of `CaptureContract`: one capture at a time, which ends in any
of the three ways.  `PackCompletionCode` rounds like a float does above 2^24.  Assumed of the game,
which is not under `src/`: `UnregisterForUpdate()` does not release the stack, and a saved
game brings back the script's variables and its update registration but no stack inside these
handlers.  A load takes any of the states in `Saves`, of whatever session and moment they are.

## 4. The runs

| Run | Instance | Shows |
|---|---|---|
| `session` | 2 callers, both starters, 2 captures, fair | one worker, whose state, callbacks and `BusyCancelled` agree, the contract; no circle of waits; every capture reports, every call returns |
| `queue` | 2 producers, 1 consumer, capacity 2, fair | the ring, no lost wakeup on either side, the channel; a pop with frames queued returns; `Stop()` wakes sleepers |
| `video` | 6 frames, capacity 1, 2 samples in flight | pool, order of samples, verdict, lifetime, prompt cancellation; only a missed `Stop()` halts it |
| `video_ends` | 3 frames, fair | every video ends or a `Stop()` was missed |
| `ui` | 2 captures, all other calls, a pausing menu and a popup | the interface comes back as it was, before the event; the sink has the running token |
| `captures` | 2 captures of 5 formats, 3 frames of 3 pixels, 2 colours, 3 levels, threshold 1, 0 or 1 data chunk per frame, 2 retries, fair | files, directories, frames, apartments and verdicts agree; every capture ends |
| `papyrus` | `MCPapyrus`: 2 stacks at a time, 3 presses, 3 captures, 1 load of one of 3 saves, the last numbers a float can carry, fair | flags, codes, what the player is told; the hotkey comes back |
| `settings` | 2 spellings that differ in case, 1 with its own entry, 1 key, every legacy layout | what was set under any case is saved, no torn file, one copy survives with three losses named, migration |

`session_terminates`, `queue_stop`, `ui_hidden` and `settings_wiped` are expected to fail; each is a
disagreement between the code and what it, or its documentation, says (section 7).

Type correctness and the invariants a proof rests on were checked by TLC before they were proved; what
section 5 proves of them for every instance is not checked again in each run.  The same goes for
`SavedValueSurvives` and `HasAgreesWithGet`.

Bounds.  Two captures are the least with a previous and a next one, and two callers that may both
start are the least for which `Start()` races with itself; for the safety of the session the
proofs cover any number of either.  Capacity 2 with two producers makes the ring wrap, fill and
empty and lets two of them wait (`PopServed` is a promise to a single consumer; with two, one can be
served for both); the video uses capacity 1 so that the pool (capacity + 4) wraps within 6 frames.
One frame more than the pool's size is needed for any reuse.  `MaxTasks` bounds the task queue when
a call begins, not the tasks a call adds.  Three pixels are the least for which a rectangle, a hole
in it and a pixel outside it occur together; three frames the least for a delta on a delta; two
colours let the reserved index be mistaken for the last real one; levels 0, 1 and 2 with threshold
1 have changes that are stored and changes that are dropped; a frame has a data chunk or, spoiled,
none (several per frame are left to the proofs).  The three saves of `papyrus` are one between captures, one
during a capture of this or of another session, and one of a press that has announced its capture and not set the
timer.  Two key presses at a time are a start and its cancellation; the third comes after both.
The sequence of `papyrus` begins three below the largest number that still fits, so that its last
code is the last exact one.  The settings need two entries over one file to let one save undo
another's and two spellings of one entry to show the fold; keys do not interact, so one is enough, and
every place it can be in occurs alone and with every other.

Fairness.  A thread inside a call takes its next step (weak fairness per thread): the operating
system schedules it and no step but the modelled waits blocks.  Taking the queue's mutex has
strong fairness, since a thread may find it taken again and again although it is free in
between; a worker's computation ends.  The last is an assumption of `session` and of `papyrus`.
`captures` shows it for a capture to a file, from the fairness of the worker thread alone
(each of its external calls returns), and `queue_stop` shows it to fail for one interleaving of a
video: `EveryVideoEnds` is the accurate statement.  In `papyrus` the virtual machine resumes a
stack that waits for a native, runs a queued event and fires a registered update; the completion
event itself may get lost.  Callers are never obliged to begin a call, no spurious wakeup is owed,
nobody has to press a key, cancel, load or crash.  `EveryCallReturns` and `EveryCaptureReports` stop
counting once the process is terminated; that it is not with one starter is a theorem.

`CHECK_DEADLOCK FALSE` stands in `MCPapyrus.cfg` because the bounds stop everything once the presses
and loads are used up and nothing is under way.

## 5. The proofs

The theorems hold for every value of the constants under the assumptions named in the
modules: the starters are callers, the null owner is nobody; producers and consumers are distinct
threads, finitely many, the capacity is positive, no frame is the empty slot; spellings exist, each folds to
one, and a file that does not parse has no values; a saved game holds two flags, a timer and a
capture's number or none; frames have pixels, palettes colours, retries and captures are counted by
positive numbers; the two threads of a video are different
ones and the empty slot is no queue entry; the packed code of the last capture is at most 2^24.

**Session** (`CaptureSessionProofs`).  `OneWorker`, `StateMatchesWorker`, `OwnCallbacks` and
`BusyCancelledMeansGone` are not inductive: that a commit creates the only live worker depends on
what the caller saw before it released `mutex_`.  `SessionInv` adds where each mutex owner is
(`LockInv`), which path each caller follows (`PathInv`), how the thread object, the worker's position
and its reports agree (`ThreadInv`), that no token is newer than the latest capture (`TokenInv`), that
a live worker is the latest capture and owns the session's token and callbacks (`LiveInv`), and that
between commit and thread creation the state is `Starting` and nobody is alive (`CommitInv`).
`NoWaitCycle` speaks of any set of callers and workers each of which waits only for members of the
set: `SessionNeverDeadlocks` shows it empty.  A commit holds `mutex_` and waits for `joinMutex_`,
whose holder joins a worker; were that worker waiting for `mutex_` it would be live, and none is
while a commit is under way.
There is one lemma per caller begin, start step, reset step and worker step; `Invariance` combines
them.  The named consequences follow, `OneStarterNeverTerminates` needs in addition that all
starters are equal, and `SessionImplementsContract` maps thread creation to `Accept`, the
finish of a worker to `Complete`, the end of its callback to `Deliver`, every cancellation to
`Cancel`, and the rest to stutters.

**Queue** (`FrameQueueProofs`).  `QueueInv` is the type invariant, the roles of the threads, the lock
invariant, what a thread in the body knows (room to push, a frame to pop) and the ring invariant.
The argument is about offsets: the distance of a slot from `head_` modulo the capacity; a push fills
the slot at offset `count_`, a pop empties offset 0 and shifts the others by one.
`QueueImplementsChannel` uses it to show that a push appends to the queued sequence and a pop takes
its head.  `QueueLosesNoWakeup` counts.  `NoLostWakeup` says that while consumers sleep, each queued
frame has a `notify_one` still to be sent or an awake thread inside `Pop()` that has yet to look; and
that, until `Stop()`, each free entry has the same among the producers.  It is inductive beside
`QueueInv` (`FramesSeen`, `RoomSeen`): a push adds a frame together with its notification, a
notification wakes a sleeper or finds none, and a thread goes to sleep only if the queue is empty (or
full).  The sets of threads are compared by `Cardinality` (`CountGrows`, `CountJoins`, `CountLeaves`),
hence the assumption that there are finitely many.

**Video** (`VideoPipelineProofs`).  `QueueInv` holds of the queue inside the pipeline, since every step of
it is a step of `FrameQueue` (`QueueMoves`).  On it rests which queue call each thread can be in at
each point of `RunVideo()` (`Threading`), that what was pushed is what is encoded, held and queued
(`Counts`), how many frames may follow a cancellation (`Lateness`), and what each error string
and verdict excludes (`Verdicts`).  The rest is about `Nth(n, e)`: copy number n is frame e and is
still in somebody's hands, in flight, held by the consumer, queued or being pushed.  A step moves
copies from one hand to the next and makes at most one new one (`NthStep`), so copies stay in the
order of their frames (`Order`, `Lasts`).  `VideoPoolSafe` makes no assumption on how many samples the sink writer
holds, since the code enforces none.  The oldest copy in use is as far behind the encoded ones as
there are samples in flight, the newest at most the queue and one frame ahead; whenever at most two
are in flight, these are less than `Capacity + 4`, the pool's size, apart, two such copies have
different slots (`SlotsDiffer`), and `PoolSafe` holds of that moment.  A frame not given to the sink
writer yet keeps its texture however many are in flight (`WaitingSafe`).  The limit is exact: with
`MaxInFlight` = 3 in the run's configuration TLC finds `PoolSafe` violated.  `VideoOnlyStopDeadlocks` is the reason behind
`EveryVideoEnds`: in a state in which no thread of the video can go on, some thread sleeps although
the queue is stopped.  Who holds the queue's mutex goes on (`HolderGoesOn`); both cannot sleep in an
open queue, since a queue of at least one entry is not empty and full at once and no wakeup is lost
(`NeverBothAsleep`, from the queue's two counting invariants, `Watched`); a producer
that is gone has stopped the queue, and so has a worker that joins, so that whoever sleeps then has
missed it; frame 0 finds room (`FirstPushGoesOn`).  `VideoQueueImplementsChannel` carries the refinement
of the queue over to the one in the video.

**Interface** (`UIVisibilityProofs`).  The invariant says of each thread which rests of calls it can be
in (`Programs`), and of every hide and mask that somebody will still undo it: a hide that is queued or
done, with no restore behind it in the task queue, has a `TakePhoto()` that will take it back or a
worker that will restore (`HideInv`), and so has a mask (`MaskInv`).  A completion event in the queue
stands behind the restore of its capture (`EventInv`); the saved setting is the user's because hides
and restores all run on the game thread (`SaveInv`).  When nothing is left to run, nobody can owe
an undo, which is `InterfaceComesBack`.  `UIPatientStartHides` says how far the promise that
`ui_hidden` refutes does hold.  `Patient` restricts the steps: `TakePhoto()` is called when the
previous capture's worker, the other stacks and the game thread have finished their calls (queued
tasks may still be waiting), and until it returns there is no reset, no load and no menu.  Then a
start is never rejected, no thread still has a restore or an unmask to make while the capture is
wanted (`NobodyUndoes`), in the task queue its hide has no restore behind it (`HideStays`), and a
menu that opens finds the sink with the token and cancels the capture instead of only restoring
(`MenuRestoresNone`).  TLC has checked `PInv`, and that the states it speaks of occur, for two
captures with all other calls.

**Settings** (`SettingsStoreProofs`).  The natives run under one mutex and a save hands over only
between its own steps, so the argument is about the disk: once written the temporary file is exactly
the entry (`Written`), a file that can be read holds the durable settings (`FileIsDurable`), one that
cannot never held any (`TornIsBlank`), and each entry has every value set while it was good under any
spelling that folds to it (`NameInv`; a step of one entry leaves the others alone, `OtherName`).  An
entry in `current` is what the file holds, which is why saving it gives nothing up.  That migration takes the newest value
(`MigrateTakesNewest`) is proved of `Collapse` and `Hoist` for every layout.

**Captures** (`FileCaptureProofs`).  Four independent invariants, one for each subject, so that a step
of one part is a stutter for the others.  *Canvas*: a whole frame replaces the canvas; a region is the
box around everything that differs (`BoxContains`), outside it canvas and frame agree by
induction, and a hole is the reserved index, which no pixel below the palette's size can have
(`FrameDrawn`); where a call of the frame was refused unnoticed nothing is claimed until the next
whole frame.  *Frame*: what DXGI has lent is remembered at every point where a stage may
leave.  *Directories*: `NoOrphan` is inductive, since whatever forgets a directory looks first
whether it is gone; for `DirInUse` a load in progress knows the capture it has cancelled (`LoadInv`).  *Encoders and worker*: at most one encoder is active, an apartment is owned
only between opening and `Return`, no encoder has run before it is called, and a thrown
cancellation has a cancelled token; `ComBalanced`, which exempts the exception out of
`WriteSidecarJson()` by name, and `OutputIsHonest` follow.

**Animated PNG** (`ApngProofs`).  The chunks are counted as they are written: as many numbered ones
before a position as its own number says (`Numbered`, by `Cardinality`), a frame's control chunk followed
by its data unless WIC failed on a frame, and the announced count is that of the frames written and
left out.  A region adds at most one threshold to the distance between canvas and frame where
it stores nothing, so after n frames they are at most n - 1 thresholds apart (`DriftIsBounded`, as
long as no frame was left out or spoiled).
`FileTypeOK` joins the types of all parts of a capture to a file.

**Hotkey** (`PapyrusProofs`).  Codes are exact by arithmetic below 2^24 (`PackingExact`).  That the player
is told once and truthfully needs that a number about to be started is unused and no two presses
have the same one (`FreshInv`), and that a capture whose report is on its way has one report only and
has not been told of (`UntoldInv`); the flags play no part, which is why it holds in spite of the races
of section 7.  `NeverStuck` is inductive beside the types: whoever sets a flag, or takes away what
would clear it, puts something else in its place.

Left to the model checker is liveness (`EveryCaptureReports`, `EveryCallReturns`, `PopServed`,
`StopWakesSleepers`, `EveryVideoEnds`, `EveryCaptureEnds`, `HotkeyComesBack`), which is out of the
prover's reach.  Every other property of a passing run is stated by a theorem.

## 6. Mutations

Each module contains definitions marked "defect": plausible errors of the definition that follows
them (a lost cancellation, a missing notification, a pool of the queue's size, an event queued
before the restore, a directory unregistered while it still exists, cancellation thrown past the COM
guard, the cache keyed by the spelling, any completion taken for the awaited one).  No action uses
them.  Substituting one for its neighbour must break the property `PROJECT.json` pairs it with;
this is how the properties were tested.

## 7. Findings

| Run | Finding |
|---|---|
| `session_terminates` | two `Start()` calls can meet so that one assigns over the other's joinable thread: `std::terminate` |
| `queue_stop` | a `Stop()` between a waiter's test and its sleep is lost; a video can hang on it, and its capture never reports |
| `ui_hidden` | the previous capture's late callback undoes the next one's hide, and its `SetMenusHidden(false)` keeps menus from cancelling it |
| `settings_wiped` | the settings file is not recreated with the current values when it was missing or corrupt: each native empties the document first, and `{}` is written |

`session_terminates` needs two threads in `Start()`; with a single one
`OneStarterNeverTerminates` is a theorem.  `ui_hidden` needs a `TakePhoto` between the moment a
worker publishes `Done` and the end of its callback; the shipped script waits for the completion
event, other callers of the native (and the script after its watchdog) need not.

Smaller divergences met while modelling, without a run of their own.

Session, video and interface:

* `ForceReset()` cancels the token it copied and then, in a second critical section, finds active
  and leaves a capture its cancellation never reached (`CaptureSession.cpp:861-872`).
* The texture pool tolerates 2 samples held by the sink writer (pool size - capacity - 2), which
  nothing enforces (`CaptureSession.cpp:369`, `VideoCapture.cpp:244`); `video` assumes it, and with three
  TLC finds a texture overwritten in use.
* The first frame may be taken before the queued hide has run.
* The `BusyCancelled` path (`CaptureSession.cpp:809`) also resets the `Done` state and token of a
  capture that another `Start()` began and finished during the join; that caller's `GetToken()`
  may then hand the menu sink no token, for a capture that is over.
* A popup between `Start()` and `SetCaptureToken()` finds no live token and brings the interface
  back (`MenuEventSink.cpp:136`); the technical reference says popups are ignored.
* With `Threads` of two members, `SavedValueSurvives` fails: a `RestoreAll()` between another
  thread's claim and its hide leaves the menus off with `hidden_` false.  The technical reference
  says overlapping calls are safe; all present callers run on the game thread.
* The technical reference lists the completion event before the restore; the code does it the
  other way round, which `RestoredBeforeEvent` depends on.

Settings:

* A crash between the removal of the file and the rename leaves only the `.tmp`, which nothing looks
  for and the next save overwrites; a rename that fails after the removal deletes both.  A save whose
  entry was not built on the file (it could not be read, or `./PrintScreen` was saved since) and which
  dies or fails after the removal loses the settings as well.  `SomeCopySurvives` states exactly what is kept.
* `./PrintScreen` and `PrintScreen` are one file and two cache entries (`PrintscreenJson.cpp:37-73`): a
  save through one writes over what was saved through the other.  No script does it.
* A file that cannot be opened for a moment when `IsGood()` or `Load()` reads it again makes the entry
  not good; the next save then replaces the intact file by `{}` (the same cause as `settings_wiped`).

Captures to a file:

* The registry is in memory: what a crash leaves is removed by the next animated capture into the
  same folder, not by the next load.  That scan may throw (`TempFileGuard.cpp:155`, the increment of the
  iterator), and then the capture reports an error before it has taken a frame.
* A load removes the directory right after asking for cancellation, so the worker may find its frames
  gone and report `ERROR` instead of the `CANCELLED` the comment at `Bindings.cpp:670` promises; a
  capture started between the two halves of a load can lose its directory without having been
  cancelled (`DirInUse` exempts it by name).
* A cancelled or failed animated GIF leaves a partial file behind.
* `GifEncoder.cpp:471` says every HRESULT is now checked; those of 495-541 (metadata writer, disposal,
  transparency, offset) are not: a region may be drawn at the wrong place, with opaque holes or with
  another disposal, and the encoding goes on (`CanvasIsFrame` exempts it by name).
* `EncodeImageToPNG()` ignores the results of its WIC calls and `EncodeSequence()` ignores its result
  (`ApngEncoder.cpp:105-127, 351, 355`): an `fcTL` may have no data, and a file no header or `acTL`.
* An exception out of `WriteSidecarJson()` (`StillEncoder.cpp:177-180`: a path or a text that cannot be
  converted) passes `guard()`, which is no destructor: the COM apartment is not given back, and a capture
  whose image is saved reports an error.
* A GIF of which every frame was left out is committed and reported as a success.
* The APNG encoder does not check its write: a full disk gives `SUCCESS` and a truncated file
  (`OutputIsHonest` says so).  The announced count is too large by exactly the frames it leaves out
  (`ApngFileValid`), and the region after one is stale (`DriftIsBounded` exempts it by name).  Changes within the
  threshold add up over the frames, to the bound `DriftIsBounded` gives.
* The checks before the pixel copy throw with the staging texture mapped (`FrameAcquirer.cpp:284,
  299`); the comment there wants to avoid that.  The texture goes with the acquirer.

Papyrus (none of these breaks a property of section 4):

* A watchdog that got its answer before a new capture began forgets that capture; so does the handler
  of an error, and the second initialization of a load.  The capture goes on and its file is saved,
  the player is not told.
* A key press that cancels while `CaptureImage()` has not reached `Start()` yet cancels nothing and
  clears the flags afterwards: the capture runs on unannounced.
* `MYReset(false)` asks and then resets; a capture started in between is cancelled.
* Above 1677721 captures the completion code is rounded.

## 8. Not modelled

* The GPU scaler and the GPU path of the acquirer: their outcomes (a frame, nothing yet, cancelled,
  failed) are in `VideoPipeline`; the Direct3D calls behind them are a straight line.
* `GifEncoder::EncodeSequence` and the in-memory `Encode()` of both animated encoders: no capture
  reaches them.  Quantisation, pixel formats, compression, EXIF values, checksums and byte layout.
* A worker thread that cannot be created: `Start()` throws out of a native, which ends the process.
* The clamps of a request, the path check, the target resolution, the pacing arithmetic and the
  getters of `Bindings.cpp`.
* The MCM pages and the key-name table (layout), the clock of the hotkey's debounce (a press may be
  ignored), configuration, logging and plugin registration.
* The console command queue and the Scaleform helpers (nothing calls them), `isPaused_` (read only
  by a native no script calls).
