-------------------------- MODULE FileCaptureProofs --------------------------
(***************************************************************************)
(* What holds of captures to a file for every frame size, palette, number  *)
(* of frames and of captures: the GIF encoder's canvas, the desktop frame, *)
(* the temporary directories, the COM apartment and the reported result.   *)
(***************************************************************************)
EXTENDS FileCapture, TLAPS

-----------------------------------------------------------------------------
(* The canvas of an animated GIF                                             *)

\* A rectangle around pixels contains them.
LEMMA BoxContains ==
  ASSUME NEW S \in SUBSET Pixels
  PROVE  S \subseteq Box(S)
<1> SUFFICES ASSUME NEW p \in S PROVE p \in Box(S)  OBVIOUS
<1>1. p \in Pixels /\ p[1] \in Int /\ p[2] \in Int
  BY SizeAssumption DEF Pixels
<1> QED BY <1>1 DEF Box

LEMMA EmptyTyped == Empty \in [Pixels -> {Clear}]
BY DEF Empty

\* The canvas is the last frame written, and a frame is remembered only with its palette.
GifInv ==
  /\ GifTypeOK
  /\ gif.prev # Empty => gif.colours \in 1..MaxColours
  /\ CanvasIsFrame

LEMMA GifOffInv ==
  ASSUME gif = GifOff
  PROVE  GifInv
<1>1. Empty \in [Pixels -> Clear..(MaxColours - 1)] /\ Empty \in [Pixels -> Clear..MaxColours]
  BY EmptyTyped, ColoursAssumption DEF Clear
<1> QED BY <1>1, ColoursAssumption DEF GifOff, GifInv, GifTypeOK, CanvasIsFrame

\* What is drawn has colours of the palette; drawn over the previous frame, or written
\* whole, it is the new frame.
LEMMA FrameDrawn ==
  ASSUME GifInv,
         NEW n \in Palettes, NEW curr \in [Pixels -> 0..(n - 1)], NEW w \in Written(curr)
  PROVE  /\ n \in 1..MaxColours
         /\ Draw(gif.canvas, w.area, Seen(w)) \in [Pixels -> Clear..MaxColours]
         /\ ~gif.lost \/ w = WholeFrame(curr) => Draw(gif.canvas, w.area, Seen(w)) = curr
<1> DEFINE drawn == Draw(gif.canvas, w.area, Seen(w))
<1> USE DEF Clear
<1>1. n \in 1..MaxColours
  BY ColoursAssumption DEF Palettes, GifInv, GifTypeOK
<1>2. /\ gif.canvas \in [Pixels -> Clear..MaxColours]
      /\ gif.prev \in [Pixels -> Clear..(MaxColours - 1)]
      /\ gif.colours \in 0..MaxColours
      /\ ~gif.lost => gif.canvas = gif.prev
  BY DEF GifInv, GifTypeOK, CanvasIsFrame
<1>3. CASE w = WholeFrame(curr)
  <2>1. Seen(w) = curr /\ w.area = Pixels
    BY <1>3 DEF Seen, WholeFrame
  <2>2. drawn = [p \in Pixels |-> IF p \in Pixels /\ curr[p] # Clear THEN curr[p] ELSE gif.canvas[p]]
    BY <2>1 DEF Draw
  <2>3. \A p \in Pixels : curr[p] \in 0..(n - 1)  OBVIOUS
  <2>4. drawn = curr  BY <2>2, <2>3, <1>1
  <2> QED BY <2>3, <2>4, <1>1, ColoursAssumption
<1>4. CASE w = Region(curr) /\ HasChanges(curr) /\ w # WholeFrame(curr)
  <2>1. gif.colours \in 1..MaxColours /\ n = gif.colours
    BY <1>4 DEF HasChanges, GifInv, Palettes
  <2> DEFINE same(p) == gif.prev[p] = curr[p]
             px == [p \in Pixels |-> IF gif.mode = 2 /\ same(p) THEN gif.colours ELSE curr[p]]
             area == Box({p \in Pixels : ~same(p)})
             seen == [p \in Pixels |-> IF gif.mode = 2 /\ px[p] = gif.colours
                                       THEN Clear ELSE px[p]]
  <2>2. w.area = area /\ w.px = px /\ w.holes = (gif.mode = 2)
    BY <1>4 DEF Region, TransparentIdx
  <2>3. Seen(w) = seen
    BY <2>2 DEF Seen, TransparentIdx
  <2>4. drawn = [p \in Pixels |-> IF p \in area /\ seen[p] # Clear THEN seen[p] ELSE gif.canvas[p]]
    BY <2>2, <2>3 DEF Draw
  <2>5. \A p \in Pixels : ~same(p) => p \in area
    <3>1. {p \in Pixels : ~same(p)} \subseteq Box({p \in Pixels : ~same(p)})
      BY BoxContains
    <3> QED BY <3>1
  <2> HIDE DEF area
  <2>6. \A p \in Pixels : curr[p] \in 0..(n - 1) /\ gif.canvas[p] \in Clear..MaxColours
    BY <1>2
  <2>7. \A p \in Pixels : seen[p] \in Clear..MaxColours
    BY <2>1, <2>6, ColoursAssumption
  <2>8. drawn \in [Pixels -> Clear..MaxColours]
    BY <2>4, <2>6, <2>7
  <2>9. ASSUME ~gif.lost, NEW p \in Pixels
        PROVE  drawn[p] = curr[p]
    <3>1. gif.canvas[p] = gif.prev[p]  BY <1>2, <2>9
    <3>2. CASE same(p)
      BY <3>1, <3>2, <2>1, <2>4, <2>6
    <3>3. CASE ~same(p)
      BY <3>3, <2>1, <2>4, <2>5, <2>6
    <3> QED BY <3>2, <3>3
  <2> QED BY <1>1, <1>4, <2>4, <2>8, <2>9
<1> QED BY <1>3, <1>4 DEF Written

LEMMA GifFrameKeeps ==
  ASSUME GifInv, NEW readable, GifFrame(readable)
  PROVE  GifInv'
<1> DEFINE shown(w, lost) == IF lost THEN Empty ELSE Draw(gif.canvas, w.area, Seen(w))
<1>1. PICK n \in Palettes, refused \in BOOLEAN : \E curr \in [Pixels -> 0..(n - 1)] :
        \E w \in Written(curr) :
          gif' = [gif EXCEPT !.left = @ - 1, !.colours = n, !.prev = curr,
                             !.canvas = shown(w, Lost(w, curr, refused)),
                             !.lost = Lost(w, curr, refused)]
  BY DEF GifFrame, Remembered, Disposed
<1>2. PICK curr \in [Pixels -> 0..(n - 1)] : \E w \in Written(curr) :
        gif' = [gif EXCEPT !.left = @ - 1, !.colours = n, !.prev = curr,
                           !.canvas = shown(w, Lost(w, curr, refused)),
                           !.lost = Lost(w, curr, refused)]
  BY <1>1
<1>3. PICK w \in Written(curr) :
        gif' = [gif EXCEPT !.left = @ - 1, !.colours = n, !.prev = curr,
                           !.canvas = shown(w, Lost(w, curr, refused)),
                           !.lost = Lost(w, curr, refused)]
  BY <1>2
<1> DEFINE lost == Lost(w, curr, refused)
           drawn == shown(w, lost)
<1>4. /\ n \in 1..MaxColours
      /\ Draw(gif.canvas, w.area, Seen(w)) \in [Pixels -> Clear..MaxColours]
      /\ ~gif.lost \/ w = WholeFrame(curr) => Draw(gif.canvas, w.area, Seen(w)) = curr
  BY FrameDrawn
<1>5. lost \in BOOLEAN /\ (~lost => ~gif.lost \/ w = WholeFrame(curr))
  BY DEF Lost
<1>6. gif.left - 1 \in Nat
  BY DEF GifFrame, GifInv, GifTypeOK
<1>7. curr \in [Pixels -> Clear..(MaxColours - 1)]
  BY <1>4, ColoursAssumption DEF Clear
<1>8. ~lost => drawn = curr  BY <1>4, <1>5
<1>9. drawn \in [Pixels -> Clear..MaxColours]
  <2>1. Empty \in [Pixels -> Clear..MaxColours]
    BY EmptyTyped, ColoursAssumption DEF Clear
  <2> QED BY <1>4, <2>1
<1> HIDE DEF drawn, lost
<1>10. /\ gif'.left = gif.left - 1 /\ gif'.colours = n /\ gif'.prev = curr
       /\ gif'.canvas = drawn /\ gif'.lost = lost
       /\ gif' = [gif EXCEPT !.left = gif.left - 1, !.colours = n, !.prev = curr,
                             !.canvas = drawn, !.lost = lost]
  BY <1>3 DEF drawn, lost, GifInv, GifTypeOK
<1>11. GifTypeOK'
  <2>1. n \in 0..MaxColours  BY <1>4
  <2>2. gif' = [step |-> gif.step, left |-> gif.left - 1, mode |-> gif.mode, colours |-> n,
               prev |-> curr, canvas |-> drawn, lost |-> lost]
    BY <1>10 DEF GifInv, GifTypeOK
  <2>3. gif.step \in {"off", "open", "frames"} /\ gif.mode \in 0..2
    BY DEF GifInv, GifTypeOK
  <2> QED BY <1>5, <1>6, <1>7, <1>9, <2>1, <2>2, <2>3 DEF GifTypeOK
<1> QED BY <1>4, <1>8, <1>10, <1>11 DEF GifInv, CanvasIsFrame

LEMMA GifStepKeeps ==
  ASSUME GifInv, NEW readable, GifStep(readable)
  PROVE  GifInv'
<1>1. gif' = GifOff => GifInv'
  <2> SUFFICES ASSUME gif' = GifOff PROVE GifInv'  OBVIOUS
  <2>1. Empty \in [Pixels -> Clear..(MaxColours - 1)] /\ Empty \in [Pixels -> Clear..MaxColours]
    BY EmptyTyped, ColoursAssumption DEF Clear
  <2> QED BY <2>1, ColoursAssumption DEF GifOff, GifInv, GifTypeOK, CanvasIsFrame
<1>2. CASE GifOpen
  <2>1. gif' = [gif EXCEPT !.step = "frames"] \/ gif' = GifOff  BY <1>2 DEF GifOpen
  <2>2. CASE gif' = [gif EXCEPT !.step = "frames"]
    BY <2>2 DEF GifInv, GifTypeOK, CanvasIsFrame
  <2> QED BY <2>1, <2>2, <1>1
<1>3. CASE GifCancelled  BY <1>1, <1>3 DEF GifCancelled
<1>4. CASE GifCommit  BY <1>1, <1>4 DEF GifCommit
<1>5. CASE GifSkip(readable)
  <2>1. PICK n \in {gif.colours} \cup Palettes :
          gif' = [gif EXCEPT !.left = @ - 1, !.colours = n]
    BY <1>5 DEF GifSkip
  <2>2. n \in 0..MaxColours /\ (gif.colours # 0 => n = gif.colours) /\ gif.left - 1 \in Nat
    BY <1>5, ColoursAssumption DEF GifSkip, Palettes, GifInv, GifTypeOK
  <2>3. GifTypeOK'
    BY <2>1, <2>2 DEF GifInv, GifTypeOK
  <2> QED BY <2>1, <2>2, <2>3 DEF GifInv, GifTypeOK, CanvasIsFrame
<1>6. CASE GifFrame(readable)  BY <1>6, GifFrameKeeps
<1>7. CASE GifFails(readable)  BY <1>1, <1>7 DEF GifFails
<1> QED BY <1>2, <1>3, <1>4, <1>5, <1>6, <1>7 DEF GifStep

CanvasInv == GifInv /\ saved \in Nat /\ request \in Requests \cup {NoRequest}

LEMMA GifStartKeeps ==
  ASSUME CanvasInv, GifStart(saved, request.mode)
  PROVE  GifInv'
<1>1. CASE UNCHANGED gif
  BY <1>1 DEF CanvasInv, GifInv, GifTypeOK, CanvasIsFrame
<1>2. CASE gif' = [GifOff EXCEPT !.step = "open", !.left = saved, !.mode = request.mode]
  <2>1. request.mode \in 0..2  BY DEF CanvasInv, Requests, NoRequest
  <2>2. gif' = [step |-> "open", left |-> saved, mode |-> request.mode, colours |-> 0,
               prev |-> Empty, canvas |-> Empty, lost |-> FALSE]
    BY <1>2 DEF GifOff
  <2>3. Empty \in [Pixels -> Clear..(MaxColours - 1)] /\ Empty \in [Pixels -> Clear..MaxColours]
    BY EmptyTyped, ColoursAssumption DEF Clear
  <2>4. saved \in Nat  BY DEF CanvasInv
  <2> QED BY <2>1, <2>2, <2>3, <2>4, ColoursAssumption DEF GifInv, GifTypeOK, CanvasIsFrame
<1> QED BY <1>1, <1>2 DEF GifStart

LEMMA StepCanvas == CanvasInv /\ [Next]_vars => CanvasInv'
<1> SUFFICES ASSUME CanvasInv, [Next]_vars PROVE CanvasInv'  OBVIOUS
<1>1. ASSUME UNCHANGED gif PROVE GifInv'
  BY <1>1 DEF CanvasInv, GifInv, GifTypeOK, CanvasIsFrame
<1>2. CASE \E r \in Requests : Start(r)
  BY <1>1, <1>2 DEF Start, encoders, CanvasInv
<1>3. CASE SaveFrame
  BY <1>1, <1>3 DEF SaveFrame, encoders, CanvasInv
<1>4. CASE Encode
  <2>1. GifStart(saved, request.mode) \/ UNCHANGED gif  BY <1>4 DEF Encode
  <2> QED BY <1>1, <1>4, <2>1, GifStartKeeps DEF Encode, CanvasInv
<1>5. CASE Encoding
  <2>1. GifStep(capture \in dirs) \/ UNCHANGED gif  BY <1>5 DEF Encoding
  <2> QED BY <1>1, <1>5, <2>1, GifStepKeeps DEF Encoding, CanvasInv
<1>6. CASE Report \/ Crash
  <2>1. gif' = GifOff /\ request' = NoRequest /\ saved' = 0
    BY <1>6 DEF Report, Crash, Forget
  <2>2. Empty \in [Pixels -> Clear..(MaxColours - 1)] /\ Empty \in [Pixels -> Clear..MaxColours]
    BY EmptyTyped, ColoursAssumption DEF Clear
  <2>3. GifInv'
    BY <2>1, <2>2, ColoursAssumption DEF GifOff, GifInv, GifTypeOK, CanvasIsFrame
  <2> QED BY <2>1, <2>3 DEF CanvasInv
<1>7. CASE \/ Scan \/ MakeDir \/ MakeGuard \/ MakeAcquirer \/ Acquire \/ AcquireFails \/ Pace
           \/ StillTaken \/ Acquired \/ Encoded \/ CleanUp \/ CheckSize \/ Leave
           \/ Cancel \/ LoadCancels \/ LoadCleans \/ UNCHANGED vars
  <2>1. UNCHANGED <<gif, saved, request>>
    BY <1>7
    DEF Scan, MakeDir, MakeGuard, MakeAcquirer, Acquire, AcquireFails, Pace, StillTaken, Acquired,
        Encoded, CleanUp, CheckSize, Leave, Cancel, LoadCancels, LoadCleans, vars, encoders
  <2> QED BY <1>1, <2>1 DEF CanvasInv
<1> QED BY <1>2, <1>3, <1>4, <1>5, <1>6, <1>7 DEF Next, Worker

\* After every frame of an animated GIF the canvas is that frame, for every size, palette
\* and number of frames, in every delta mode; after a refusal of metadata, from the next
\* frame on that is written whole.
THEOREM FileCanvasIsFrame == Spec => []CanvasIsFrame
<1>1. Init => CanvasInv
  BY GifOffInv DEF Init, AtRest, CanvasInv
<1>2. CanvasInv => CanvasIsFrame  BY DEF CanvasInv, GifInv
<1> QED BY <1>1, <1>2, StepCanvas, PTL DEF Spec

-----------------------------------------------------------------------------
(* The desktop frame                                                         *)

\* A frame is lent only from AcquireNextFrame() on, remembered as long as it is, and the
\* texture is mapped only while it is copied; a throw leaves both to the destructor.
AcqInv ==
  /\ lent \in BOOLEAN /\ pending \in BOOLEAN /\ mapped \in BOOLEAN
  /\ lent => pending
  /\ acq \in {"none", "new", "ready", "try", "got", "failed"} => ~lent
  /\ mapped => acq \in {"copy", "threw"}

LEMMA GivenBack == AcqInv /\ ReleasePendingFrame => lent' = FALSE /\ pending' = FALSE
<1> SUFFICES ASSUME AcqInv, ReleasePendingFrame PROVE lent' = FALSE /\ pending' = FALSE  OBVIOUS
<1>1. (lent /\ ~pending) = FALSE  BY Zenon DEF AcqInv
<1> QED BY <1>1 DEF ReleasePendingFrame

LEMMA AcquirerKeeps ==
  ASSUME AcqInv, AcquirerStep(cancelled)
  PROVE  AcqInv'
<1>1. ASSUME NEW stage \in {"new", "ready", "try", "stage", "map", "copy"},
             CheckCancel(stage, cancelled)
      PROVE  AcqInv'
  BY <1>1 DEF AcqInv, CheckCancel
<1>2. CASE Initialize(cancelled)
  BY <1>1, <1>2 DEF Initialize, AcqInv
<1>3. CASE AcquireFrame(cancelled)
  <2>1. CASE acq = "ready" /\ acq' = "try" /\ ReleasePendingFrame /\ UNCHANGED mapped
    <3>1. lent' = FALSE /\ pending' = FALSE  BY <2>1, GivenBack
    <3> QED BY <2>1, <3>1 DEF AcqInv
  <2> QED BY <1>1, <1>3, <2>1 DEF AcquireFrame
<1>4. CASE AcquireNextFrame(cancelled)
  <2>1. CASE acq = "try" /\ acq' = "stage" /\ lent' = TRUE /\ pending' = TRUE /\ UNCHANGED mapped
    BY <2>1 DEF AcqInv
  <2>2. CASE acq = "try" /\ acq' \in {"failed", "try"} /\ UNCHANGED <<pending, lent, mapped>>
    BY <2>2 DEF AcqInv
  <2>3. \/ CheckCancel("try", cancelled)
        \/ acq = "try" /\ acq' = "stage" /\ lent' = TRUE /\ pending' = TRUE /\ UNCHANGED mapped
        \/ acq = "try" /\ acq' \in {"failed", "try"} /\ UNCHANGED <<pending, lent, mapped>>
    BY <1>4, Zenon DEF AcquireNextFrame, RememberFrame
  <2> QED BY <1>1, <2>1, <2>2, <2>3
<1>5. CASE Stage(cancelled)
  <2>1. CASE acq = "stage" /\ acq' = "map" /\ UNCHANGED <<pending, lent, mapped>>
    BY <2>1 DEF AcqInv
  <2>2. CASE acq = "stage" /\ Fails /\ UNCHANGED mapped
    <3>1. lent' = FALSE /\ pending' = FALSE  BY <2>2, GivenBack DEF Fails
    <3> QED BY <2>2, <3>1 DEF AcqInv, Fails
  <2> QED BY <1>1, <1>5, <2>1, <2>2, Zenon DEF Stage
<1>6. CASE MapTexture(cancelled)
  <2>1. CASE acq = "map" /\ acq' = "copy" /\ mapped' = TRUE /\ UNCHANGED <<pending, lent>>
    BY <2>1 DEF AcqInv
  <2>2. CASE acq = "map" /\ Fails /\ UNCHANGED mapped
    <3>1. lent' = FALSE /\ pending' = FALSE  BY <2>2, GivenBack DEF Fails
    <3> QED BY <2>2, <3>1 DEF AcqInv, Fails
  <2> QED BY <1>1, <1>6, <2>1, <2>2, Zenon DEF MapTexture
<1>7. CASE CopyPixels(cancelled)
  BY <1>1, <1>7, GivenBack DEF CopyPixels, AcqInv
<1> QED BY <1>2, <1>3, <1>4, <1>5, <1>6, <1>7 DEF AcquirerStep

LEMMA DestructKeeps == AcqInv /\ Destruct => AcqInv'
BY GivenBack DEF AcqInv, Destruct

LEMMA StepAcquirer == AcqInv /\ [Next]_vars => AcqInv'
<1> SUFFICES ASSUME AcqInv, [Next]_vars PROVE AcqInv'  OBVIOUS
<1>1. CASE MakeAcquirer  BY <1>1 DEF MakeAcquirer, Construct, AcqInv
<1>2. CASE Acquire  BY <1>2, AcquirerKeeps DEF Acquire
<1>3. CASE Pace
  <2>1. Again \/ Destruct \/ UNCHANGED acquirer  BY <1>3 DEF Pace
  <2> QED BY <2>1, DestructKeeps DEF Again, acquirer, AcqInv
<1>4. CASE Leave  BY <1>4, DestructKeeps DEF Leave
<1>5. CASE Crash  BY <1>5 DEF Crash, AcqInv
<1>6. CASE ~(MakeAcquirer \/ Acquire \/ Pace \/ Leave \/ Crash)
  <2>1. UNCHANGED acquirer
    BY <1>6
    DEF Next, Worker, Start, Scan, MakeDir, MakeGuard, AcquireFails, SaveFrame, StillTaken,
        Acquired, Encode, Encoding, Encoded, CleanUp, CheckSize, Report, Cancel, LoadCancels,
        LoadCleans, vars
  <2> QED BY <2>1 DEF acquirer, AcqInv
<1> QED BY <1>1, <1>2, <1>3, <1>4, <1>5, <1>6

\* DXGI gets every frame back, and the texture is unmapped, on every path of a capture.
THEOREM FileFrameGoesBack == Spec => []FrameGoesBack
<1>1. Init => AcqInv  BY DEF Init, AtRest, AcqInit, AcqInv
<1>2. AcqInv => FrameGoesBack  BY DEF AcqInv, FrameGoesBack
<1> QED BY <1>1, <1>2, StepAcquirer, PTL DEF Spec

-----------------------------------------------------------------------------
(* The temporary directories                                                 *)

LEMMA StepOrphan == NoOrphan /\ [Next]_vars => NoOrphan'
<1> SUFFICES ASSUME NoOrphan, [Next]_vars PROVE NoOrphan'  OBVIOUS
<1> USE DEF NoOrphan
<1>1. CASE Scan
  BY <1>1 DEF Scan, ScanAndRemove, RemoveAll, Goto, Ends
<1>2. CASE MakeDir
  BY <1>2 DEF MakeDir, MakeTempDir, Goto, Ends, tempFiles
<1>3. CASE MakeGuard
  BY <1>3 DEF MakeGuard, Guard, Goto
<1>4. CASE CleanUp
  BY <1>4 DEF CleanUp, Cleanup, RemoveAll, Disarmed, Ends
<1>5. CASE Leave
  BY <1>5 DEF Leave, DestroyGuard, RemoveAll, Disarmed, Goto
<1>6. CASE LoadCleans
  BY <1>6 DEF LoadCleans, CleanupAllRegistered, RemoveAll, StillPending
<1>7. CASE Crash
  BY <1>7 DEF Crash, Dies
<1>8. CASE \E r \in Requests : Start(r)
  BY <1>8 DEF Start, tempFiles
<1>9. CASE ~(\/ Scan \/ MakeDir \/ MakeGuard \/ CleanUp \/ Leave \/ LoadCleans \/ Crash
             \/ \E r \in Requests : Start(r))
  <2>1. UNCHANGED tempFiles /\ UNCHANGED capture /\ (pc = "guard" => pc' = "guard")
    BY <1>9
    DEF Next, Worker, MakeAcquirer, Acquire, AcquireFails, SaveFrame, Pace, StillTaken, Acquired,
        Encode, Encoding, Encoded, CheckSize, Report, Forget, Cancel, LoadCancels, Goto, Ends, vars
  <2> QED BY <2>1 DEF tempFiles
<1> QED BY <1>1, <1>2, <1>3, <1>4, <1>5, <1>6, <1>7, <1>8, <1>9

\* No temporary directory is forgotten, whichever files are locked and whenever.
THEOREM FileNoOrphan == Spec => []NoOrphan
<1>1. Init => NoOrphan  BY DEF Init, TempInit, NoOrphan
<1> QED BY <1>1, StepOrphan, PTL DEF Spec

\* A load has cancelled the capture it is about to clean up after.
LoadInv ==
  /\ capture \in Nat /\ loading \in Int /\ loading <= capture
  /\ loading = capture /\ pc # "idle" => cancelled

LEMMA StepLoad == LoadInv /\ [Next]_vars => LoadInv'
<1> SUFFICES ASSUME LoadInv, [Next]_vars PROVE LoadInv'  OBVIOUS
<1> USE DEF LoadInv
<1>1. CASE \E r \in Requests : Start(r)  BY <1>1 DEF Start
<1>2. CASE Report  BY <1>2 DEF Report, Forget
<1>3. CASE Crash  BY <1>3 DEF Crash, Forget, NoLoad
<1>4. CASE Cancel  BY <1>4 DEF Cancel
<1>5. CASE LoadCancels
  <2>1. pc' # "idle" => cancelled'  BY <1>5, Zenon DEF LoadCancels, AskedToStop
  <2>2. capture' = capture /\ loading' = capture  BY <1>5 DEF LoadCancels
  <2> QED BY <2>1, <2>2
<1>6. CASE LoadCleans  BY <1>6 DEF LoadCleans, NoLoad
<1>7. CASE ~(\/ \E r \in Requests : Start(r)
             \/ Report \/ Crash \/ Cancel \/ LoadCancels \/ LoadCleans)
  <2>1. UNCHANGED <<cancelled, capture, loading>> /\ (pc = "idle" => pc' = "idle")
    BY <1>7
    DEF Next, Worker, Scan, MakeDir, MakeGuard, MakeAcquirer, Acquire, AcquireFails, SaveFrame,
        Pace, StillTaken, Acquired, Encode, Encoding, Encoded, CleanUp, CheckSize, Leave, vars
  <2> QED BY <2>1
<1> QED BY <1>1, <1>2, <1>3, <1>4, <1>5, <1>6, <1>7

\* Neither a scan nor a load takes a directory from a capture that goes on.
THEOREM FileDirInUse == Spec => DirInUse
<1>1. Init => LoadInv  BY CaptureAssumption DEF Init, LoadInv, NoLoad
<1>2. LoadInv /\ [Next]_vars =>
        [~(pc \in InUse /\ capture \in dirs \ dirs')
         \/ cancelled \/ (loading # NoLoad /\ loading # capture)]_vars
  <2> SUFFICES ASSUME LoadInv, [Next]_vars, pc \in InUse, capture \in dirs \ dirs'
               PROVE  cancelled \/ (loading # NoLoad /\ loading # capture)
    OBVIOUS
  <2>1. CASE LoadCleans
    BY <2>1 DEF LoadCleans, LoadInv, InUse
  <2>2. CASE ~LoadCleans
    BY <2>2
    DEF InUse, Next, Worker, Start, Scan, MakeDir, MakeTempDir, MakeGuard, Guard, MakeAcquirer,
        Acquire, AcquireFails, SaveFrame, Pace, StillTaken, Acquired, Encode, Encoding, Encoded,
        CleanUp, CheckSize, Leave, Report, Forget, Cancel, LoadCancels, Crash, Dies, vars,
        tempFiles
  <2> QED BY <2>1, <2>2
<1> QED BY <1>1, <1>2, StepLoad, PTL DEF Spec, DirInUse

-----------------------------------------------------------------------------
(* The encoders: the COM apartment and the output file                       *)

\* At most one encoder is active; it holds the apartment it has opened only between
\* opening it and returning, and its result is true of the file and of the token.
ComInv ==
  /\ "step" \in DOMAIN gif /\ "step" \in DOMAIN apng
  /\ (owned /\ com = 1) \/ (owned = FALSE /\ com = 0)
  /\ apng.step = "load" \/ still \in {"start", "com", "compress", "dds"} => owned = FALSE
  /\ er # "none" /\ still # "threw" => owned = FALSE
ActiveInv ==
  /\ gif.step # "off" => apng.step = "off" /\ still = "off" /\ out # "whole"
  /\ apng.step # "off" => gif.step = "off" /\ still = "off" /\ request.format = "APNG"
  /\ apng.step \notin {"off", "written"} => out = "none"
  /\ still # "off" => gif.step = "off" /\ apng.step = "off"
                     /\ out = (IF still \in {"metadata", "threw"} THEN "whole" ELSE "none")
  /\ er # "none" => /\ gif.step = "off" /\ apng.step \in {"off", "written"}
                    /\ still \in {"off", "threw"}
ResultInv ==
  /\ er \in Results
  /\ er = "Ok" => out = "whole" \/ (request.format = "APNG" /\ out = "partial")
  /\ er = "Cancelled" => cancelled /\ out # "whole"
  /\ sidecar => er # "none" /\ out = "whole"

EncInv == ComInv /\ ActiveInv /\ ResultInv

\* Whoever returns closes its apartment.
LEMMA ReturnCloses ==
  ASSUME ComInv, NEW r, Return(r)
  PROVE  er' = r /\ com' = 0 /\ owned' = FALSE
BY DEF ComInv, Return, ComLeft

LEMMA EnterOpens ==
  ASSUME ComInv, owned = FALSE, ComEnter
  PROVE  (owned' /\ com' = 1) \/ (owned' = FALSE /\ com' = 0)
BY DEF ComInv, ComEnter

LEMMA OffSteps == /\ "step" \in DOMAIN GifOff /\ GifOff.step = "off"
                  /\ "step" \in DOMAIN ApngOff /\ ApngOff.step = "off"
BY DEF GifOff, ApngOff

LEMMA GifEncodes ==
  ASSUME EncInv, NEW readable, GifStep(readable), er = "none",
         UNCHANGED <<apng, still, sidecar, cancelled, request>>
  PROVE  EncInv'
<1> USE DEF EncInv
<1>1. ASSUME NEW r \in {"Fail", "Cancelled", "Ok"}, Return(r), gif' = GifOff, gif.step # "off",
             out' = (IF r = "Ok" THEN "whole" ELSE out), r = "Cancelled" => cancelled
      PROVE  EncInv'
  <2>1. er' = r /\ com' = 0 /\ owned' = FALSE  BY <1>1, ReturnCloses
  <2>2. "step" \in DOMAIN gif' /\ gif'.step = "off"  BY <1>1, OffSteps
  <2> QED BY <1>1, <2>1, <2>2 DEF ComInv, ActiveInv, ResultInv, Results
<1>2. CASE /\ "step" \in DOMAIN gif' /\ gif'.step = "frames" /\ gif.step # "off"
           /\ UNCHANGED <<er, com, owned>> /\ out' \in {out, "partial"}
  BY <1>2 DEF ComInv, ActiveInv, ResultInv
<1>3. CASE GifOpen
  <2>1. CASE Return("Fail") /\ gif' = GifOff /\ UNCHANGED out
    <3>1. gif.step # "off" /\ out' = (IF "Fail" = "Ok" THEN "whole" ELSE out)
      BY <1>3, <2>1 DEF GifOpen
    <3> QED BY <2>1, <3>1, <1>1
  <2>2. CASE gif' = [gif EXCEPT !.step = "frames"] /\ out' = "partial" /\ UNCHANGED <<er, com, owned>>
    <3>1. "step" \in DOMAIN gif' /\ gif'.step = "frames" /\ gif.step # "off"
      BY <1>3, <2>2 DEF GifOpen, ComInv
    <3> QED BY <2>2, <3>1, <1>2
  <2> QED BY <1>3, <2>1, <2>2 DEF GifOpen
<1>4. CASE GifCancelled
  <2>1. /\ Return("Cancelled") /\ gif' = GifOff /\ gif.step # "off" /\ cancelled
        /\ out' = (IF "Cancelled" = "Ok" THEN "whole" ELSE out)
    BY <1>4 DEF GifCancelled
  <2> QED BY <2>1, <1>1
<1>5. CASE GifFails(readable)
  <2>1. /\ Return("Fail") /\ gif' = GifOff /\ gif.step # "off"
        /\ out' = (IF "Fail" = "Ok" THEN "whole" ELSE out)
    BY <1>5 DEF GifFails
  <2> QED BY <2>1, <1>1
<1>6. CASE GifCommit
  <2>1. PICK ok \in BOOLEAN :
          Return(CommitResult(ok)) /\ out' = (IF ok THEN "whole" ELSE out)
    BY <1>6 DEF GifCommit
  <2>2. /\ CommitResult(ok) \in {"Ok", "Fail"}
        /\ out' = (IF CommitResult(ok) = "Ok" THEN "whole" ELSE out)
    BY <2>1 DEF CommitResult
  <2>3. gif' = GifOff /\ gif.step # "off"  BY <1>6 DEF GifCommit
  <2> HIDE DEF EncInv
  <2> QED BY <2>1, <2>2, <2>3, <1>1
<1>7. CASE GifSkip(readable) \/ GifFrame(readable)
  <2>1. "step" \in DOMAIN gif' /\ gif'.step = gif.step
    BY <1>7 DEF GifSkip, GifFrame, ComInv
  <2>2. gif.step = "frames" /\ UNCHANGED encoder  BY <1>7 DEF GifSkip, GifFrame
  <2> QED BY <1>2, <2>1, <2>2 DEF encoder
<1> QED BY <1>3, <1>4, <1>5, <1>6, <1>7 DEF GifStep

LEMMA ApngEncodes ==
  ASSUME EncInv, NEW readable, ApngStep(readable), er = "none",
         UNCHANGED <<gif, still, sidecar, cancelled, request>>
  PROVE  EncInv'
<1> USE DEF EncInv
<1>1. ASSUME apng' = ApngOff, apng.step \notin {"off", "written"}, out' = out,
             er' \in {"Fail", "Cancelled"}, er' = "Cancelled" => cancelled,
             com' = 0, owned' = FALSE
      PROVE  EncInv'
  BY <1>1, OffSteps DEF ComInv, ActiveInv, ResultInv, Results
<1>2. ASSUME "step" \in DOMAIN apng', apng'.step \in {"load", "frames"}, apng'.step = apng.step,
             UNCHANGED encoder
      PROVE  EncInv'
  BY <1>2 DEF ComInv, ActiveInv, ResultInv, encoder
<1>3. CASE ApngLoad(readable)
  <2>1. "step" \in DOMAIN apng' /\ apng'.step = "load" /\ apng.step = "load"
    BY <1>3 DEF ApngLoad, ComInv
  <2> QED BY <1>2, <1>3, <2>1 DEF ApngLoad
<1>4. CASE ApngLoaded
  <2>1. apng.step = "load" /\ owned = FALSE /\ com = 0 /\ out' = out
    BY <1>4 DEF ApngLoaded, ComInv
  <2>2. CASE ComEnter /\ er' = er /\ apng' = [apng EXCEPT !.step = "base"]
    <3>1. "step" \in DOMAIN apng' /\ apng'.step = "base"  BY <2>2 DEF ComInv
    <3>2. (owned' /\ com' = 1) \/ (owned' = FALSE /\ com' = 0)  BY <2>1, <2>2, EnterOpens
    <3> QED BY <2>1, <2>2, <3>1, <3>2 DEF ComInv, ActiveInv, ResultInv
  <2>3. CASE er' = "Fail" /\ apng' = ApngOff /\ UNCHANGED <<com, owned>>
    BY <1>1, <2>1, <2>3
  <2> QED BY <1>4, <2>2, <2>3 DEF ApngLoaded
<1>5. CASE ApngBase
  <2>1. CASE Return("Fail") /\ apng' = ApngOff /\ out' = out
    <3>1. er' = "Fail" /\ com' = 0 /\ owned' = FALSE  BY <2>1, ReturnCloses
    <3> QED BY <1>1, <1>5, <2>1, <3>1 DEF ApngBase
  <2>2. CASE "step" \in DOMAIN apng' /\ apng'.step = "frames" /\ UNCHANGED encoder
    BY <1>5, <2>2 DEF ApngBase, ComInv, ActiveInv, ResultInv, encoder
  <2> QED BY <1>5, <2>1, <2>2 DEF ApngBase, ComInv
<1>6. CASE ApngCancelled
  BY <1>1, <1>6, ReturnCloses DEF ApngCancelled
<1>7. CASE ApngFrame \/ ApngSkip
  <2>1. /\ "step" \in DOMAIN apng' /\ apng'.step = "frames" /\ apng.step = "frames"
        /\ UNCHANGED encoder
    BY <1>7 DEF ApngFrame, ApngSkip, ComInv
  <2> QED BY <1>2, <2>1
<1>8. CASE ApngWrite
  <2>1. CASE Return("Fail") /\ apng' = ApngOff /\ out' = out
    <3>1. er' = "Fail" /\ com' = 0 /\ owned' = FALSE  BY <2>1, ReturnCloses
    <3> QED BY <1>1, <1>8, <2>1, <3>1 DEF ApngWrite
  <2>2. CASE Return("Ok") /\ out' \in {"partial", "whole"}
             /\ apng' = [apng EXCEPT !.step = "written"]
    <3>1. "step" \in DOMAIN apng' /\ apng'.step = "written"  BY <2>2 DEF ComInv
    <3>2. er' = "Ok" /\ com' = 0 /\ owned' = FALSE  BY <2>2, ReturnCloses
    <3> QED BY <1>8, <2>2, <3>1, <3>2 DEF ApngWrite, ComInv, ActiveInv, ResultInv, Results
  <2> QED BY <1>8, <2>1, <2>2 DEF ApngWrite
<1> QED BY <1>3, <1>4, <1>5, <1>6, <1>7, <1>8 DEF ApngStep

LEMMA StillEncodes ==
  ASSUME EncInv, NEW format, StillStep(format), er = "none",
         UNCHANGED <<gif, apng, cancelled, request>>
  PROVE  EncInv'
<1> USE DEF EncInv
<1>1. CASE StillThrows
  BY <1>1 DEF StillThrows, ComInv, ActiveInv, ResultInv, Results
<1>2. CASE StillBegin(format)
  BY <1>2 DEF StillBegin, encoder, ComInv, ActiveInv, ResultInv
<1>3. CASE StillCom
  <2>1. (owned' /\ com' = 1) \/ (owned' = FALSE /\ com' = 0)
    BY <1>3, EnterOpens DEF StillCom, ComInv
  <2> QED BY <1>3, <2>1 DEF StillCom, ComInv, ActiveInv, ResultInv
<1>4. CASE StillAborts
  BY <1>4 DEF StillAborts, AbortedCom, ComLeft, ComInv, ActiveInv, ResultInv, Results
<1>5. CASE StillSave
  <2>1. CASE out' = "whole" /\ still' = "metadata" /\ UNCHANGED <<er, com, owned>>
    BY <1>5, <2>1 DEF StillSave, ComInv, ActiveInv, ResultInv
  <2>2. CASE out' \in {"none", "partial"} /\ Return("Fail") /\ still' = "off"
    <3>1. er' = "Fail" /\ com' = 0 /\ owned' = FALSE  BY <2>2, ReturnCloses
    <3> QED BY <1>5, <2>2, <3>1 DEF StillSave, ComInv, ActiveInv, ResultInv, Results
  <2> QED BY <1>5, <2>1, <2>2 DEF StillSave
<1>6. CASE StillMetadata(format)
  <2>1. still = "metadata" /\ out' = out /\ out = "whole"
    BY <1>6 DEF StillMetadata, ActiveInv
  <2>2. CASE Return("Ok") /\ still' = "off"
    <3>1. er' = "Ok" /\ com' = 0 /\ owned' = FALSE  BY <2>2, ReturnCloses
    <3> QED BY <2>1, <2>2, <3>1 DEF ComInv, ActiveInv, ResultInv, Results
  <2>3. CASE er' = "Fail" /\ still' = "threw" /\ UNCHANGED <<com, owned>>
    BY <2>1, <2>3 DEF ComInv, ActiveInv, ResultInv, Results
  <2> QED BY <1>6, <2>2, <2>3 DEF StillMetadata, MetadataResult
<1>7. CASE StillCompress
  BY <1>7 DEF StillCompress, ComInv, ActiveInv, ResultInv, Results
<1>8. CASE StillSaveDDS
  BY <1>8 DEF StillSaveDDS, ComInv, ActiveInv, ResultInv, Results
<1> QED BY <1>1, <1>2, <1>3, <1>4, <1>5, <1>6, <1>7, <1>8 DEF StillStep

-----------------------------------------------------------------------------
(* The worker: what it reports                                               *)

Before == {"idle", "scan", "mkdir", "guard", "construct", "acquire", "pace", "acquired", "encode"}
Quiet == /\ er = "none" /\ out = "none" /\ owned = FALSE /\ sidecar = FALSE
         /\ gif.step = "off" /\ apng.step = "off" /\ still = "off"

\* No encoder runs before its call; a throw means a cancelled token; a verdict is given at
\* the end only, from the encoder's result or because of a cancelled token.
FlowInv ==
  /\ pc \in Before => Quiet
  /\ acq = "threw" => cancelled /\ pc \in {"acquire", "leave"}
  /\ verdict # "none" => pc \in {"leave", "report"}
  /\ verdict = "SUCCESS" => er = "Ok"
  /\ verdict = "CANCELLED" => cancelled /\ out # "whole"

WorkerInv == EncInv /\ FlowInv

\* As long as the encoders and the request stay and the token is not withdrawn, so does
\* what was said of them.
LEMMA EncodersStay ==
  ASSUME EncInv, UNCHANGED <<er, out, com, owned, gif, apng, still, sidecar, request>>,
         cancelled => cancelled'
  PROVE  EncInv'
BY DEF EncInv, ComInv, ActiveInv, ResultInv

LEMMA WorkerWaits ==
  ASSUME WorkerInv,
         Scan \/ MakeDir \/ MakeGuard \/ MakeAcquirer \/ Acquire \/ AcquireFails \/ SaveFrame
              \/ Pace \/ StillTaken \/ Acquired
  PROVE  WorkerInv'
<1> USE DEF WorkerInv
<1>1. UNCHANGED <<er, out, com, owned, gif, apng, still, sidecar, request, cancelled>>
      /\ pc \in Before
  BY DEF Scan, MakeDir, MakeGuard, MakeAcquirer, Acquire, AcquireFails, SaveFrame, Pace,
     StillTaken, Acquired, encoders, encoder, Before
<1>2. EncInv' /\ Quiet' /\ Quiet
  BY <1>1, EncodersStay DEF FlowInv, Quiet
<1>3. verdict = "none"  BY <1>1 DEF FlowInv, Before
<1>4. CASE Scan  BY <1>1, <1>2, <1>3, <1>4 DEF Scan, Goto, Ends, FlowInv, acquirer
<1>5. CASE MakeDir  BY <1>1, <1>2, <1>3, <1>5 DEF MakeDir, Goto, Ends, FlowInv, acquirer
<1>6. CASE MakeGuard  BY <1>1, <1>2, <1>3, <1>6 DEF MakeGuard, Goto, FlowInv, acquirer
<1>7. CASE MakeAcquirer
  BY <1>1, <1>2, <1>3, <1>7 DEF MakeAcquirer, Construct, Goto, FlowInv
<1>8. CASE Acquire
  <2>1. acq' = "threw" => cancelled
    BY <1>8
    DEF Acquire, AcquirerStep, CheckCancel, Initialize, AcquireFrame, AcquireNextFrame, Stage,
        MapTexture, CopyPixels, Fails
  <2> QED BY <1>1, <1>2, <1>3, <1>8, <2>1 DEF Acquire, FlowInv
<1>9. CASE AcquireFails
  BY <1>1, <1>2, <1>3, <1>9 DEF AcquireFails, Ends, FlowInv, Quiet, acquirer
<1>10. CASE SaveFrame
  BY <1>1, <1>2, <1>3, <1>10 DEF SaveFrame, Goto, Ends, FlowInv, acquirer
<1>11. CASE Pace
  <2>1. acq' # "threw" /\ verdict' \in {"none", "CANCELLED"}
        /\ (verdict' = "CANCELLED" => cancelled /\ pc' = "leave")
    BY <1>3, <1>11 DEF Pace, Again, Destruct, Goto, Ends, FlowInv, acquirer
  <2> QED BY <1>1, <1>2, <2>1 DEF FlowInv, Quiet
<1>12. CASE StillTaken
  BY <1>1, <1>2, <1>3, <1>12 DEF StillTaken, Goto, FlowInv, acquirer
<1>13. CASE Acquired
  BY <1>1, <1>2, <1>3, <1>13 DEF Acquired, Goto, Ends, FlowInv, Quiet, acquirer
<1> QED BY <1>4, <1>5, <1>6, <1>7, <1>8, <1>9, <1>10, <1>11, <1>12, <1>13

LEMMA WorkerEncodes ==
  ASSUME WorkerInv, Encode \/ Encoding \/ Encoded \/ CleanUp \/ CheckSize \/ Leave
  PROVE  WorkerInv'
<1> USE DEF WorkerInv
<1>1. CASE Encode
  <2>1. /\ Quiet /\ verdict = "none" /\ acq # "threw" /\ pc' = "encoding"
        /\ UNCHANGED <<cancelled, acq, request, verdict, out>>
    BY <1>1
    DEF Encode, FlowInv, Before, Goto, acquirer, GifStart, ApngStart, StillStart, encoder
  <2>2. FlowInv'
    BY <2>1 DEF FlowInv, Before
  <2>3. /\ er = "none" /\ out = "none" /\ out' = "none" /\ owned = FALSE /\ com = 0
        /\ sidecar = FALSE /\ gif.step = "off" /\ apng.step = "off" /\ still = "off"
        /\ "step" \in DOMAIN gif /\ "step" \in DOMAIN apng
    BY <2>1 DEF Quiet, EncInv, ComInv
  <2>4. CASE request.format = "AGIF" /\ GifStart(saved, request.mode) /\ UNCHANGED <<apng, still, sidecar>>
    <3>1. CASE ComEnter /\ er' = er
               /\ gif' = [GifOff EXCEPT !.step = "open", !.left = saved, !.mode = request.mode]
      <4>1. "step" \in DOMAIN gif' /\ gif'.step = "open"  BY <3>1, OffSteps
      <4>2. (owned' /\ com' = 1) \/ (owned' = FALSE /\ com' = 0)
        BY <2>3, <3>1, EnterOpens DEF EncInv
      <4>3. er' = "none" /\ apng'.step = "off" /\ still' = "off" /\ sidecar' = FALSE
            /\ "step" \in DOMAIN apng'
        BY <2>3, <2>4, <3>1
      <4>4. ComInv'  BY <4>1, <4>2, <4>3 DEF ComInv
      <4>5. ActiveInv'  BY <2>3, <4>1, <4>3 DEF ActiveInv
      <4>6. ResultInv'  BY <4>3 DEF ResultInv, Results
      <4> QED BY <2>2, <4>4, <4>5, <4>6 DEF EncInv
    <3>2. CASE er' = "Fail" /\ UNCHANGED <<gif, com, owned>>
      <4>1. ComInv'  BY <2>3, <2>4, <3>2 DEF ComInv
      <4>2. ActiveInv'  BY <2>3, <2>4, <3>2 DEF ActiveInv
      <4>3. ResultInv'  BY <2>3, <2>4, <3>2 DEF ResultInv, Results
      <4> QED BY <2>2, <4>1, <4>2, <4>3 DEF EncInv
    <3> QED BY <2>4, <3>1, <3>2 DEF GifStart
  <2>5. CASE request.format = "APNG" /\ ApngStart(saved, request.mode) /\ UNCHANGED <<gif, still, sidecar>>
    <3>1. "step" \in DOMAIN apng' /\ apng'.step = "load" /\ UNCHANGED <<er, com, owned>>
      BY <2>5, OffSteps DEF ApngStart, encoder
    <3>2. ComInv'  BY <2>3, <2>5, <3>1 DEF ComInv
    <3>3. ActiveInv'  BY <2>1, <2>3, <2>5, <3>1 DEF ActiveInv
    <3>4. ResultInv'  BY <2>3, <2>5, <3>1 DEF ResultInv, Results
    <3> QED BY <2>2, <3>2, <3>3, <3>4 DEF EncInv
  <2>6. CASE ~Animated /\ StillStart /\ UNCHANGED <<gif, apng>>
    <3>1. still' = "start" /\ UNCHANGED <<er, com, owned, sidecar>>
      BY <2>6 DEF StillStart, encoder
    <3>2. ComInv'  BY <2>3, <2>6, <3>1 DEF ComInv
    <3>3. ActiveInv'  BY <2>3, <2>6, <3>1 DEF ActiveInv
    <3>4. ResultInv'  BY <2>3, <2>6, <3>1 DEF ResultInv, Results
    <3> QED BY <2>2, <3>2, <3>3, <3>4 DEF EncInv
  <2> QED BY <1>1, <2>4, <2>5, <2>6 DEF Encode
<1>2. CASE Encoding
  <2>1. /\ pc = "encoding" /\ er = "none" /\ UNCHANGED <<cancelled, acq, pc, request, verdict>>
        /\ verdict = "none"
    BY <1>2 DEF Encoding, acquirer, FlowInv
  <2>2. EncInv'
    BY <1>2, <2>1, GifEncodes, ApngEncodes, StillEncodes DEF Encoding
  <2> QED BY <2>1, <2>2 DEF FlowInv, Before
<1>3. CASE Encoded
  <2>1. /\ UNCHANGED <<er, out, com, owned, gif, apng, still, sidecar, request, cancelled, acq, verdict>>
        /\ pc = "encoding" /\ pc' \in {"cleanup", "size"}
    BY <1>3 DEF Encoded, Goto, encoders, encoder, acquirer
  <2> QED BY <2>1, EncodersStay DEF FlowInv, Before
<1>4. CASE CleanUp \/ CheckSize
  <2>1. /\ UNCHANGED <<er, out, com, owned, gif, apng, still, sidecar, request, cancelled, acq>>
        /\ pc \in {"cleanup", "size"} /\ pc' = "leave" /\ verdict' \in {Result, "ERROR"}
    BY <1>4 DEF CleanUp, CheckSize, Ends, encoders, encoder, acquirer
  <2>2. (Result = "SUCCESS" => er = "Ok") /\ (Result = "CANCELLED" => er = "Cancelled")
    BY DEF Result
  <2> QED BY <2>1, <2>2, EncodersStay DEF FlowInv, Before, EncInv, ResultInv
<1>5. CASE Leave
  <2>1. /\ UNCHANGED <<er, out, com, owned, gif, apng, still, sidecar, request, cancelled, verdict>>
        /\ pc' = "report" /\ acq' = "none"
    BY <1>5 DEF Leave, Goto, Destruct, encoders, encoder
  <2> QED BY <2>1, EncodersStay DEF FlowInv, Before
<1> QED BY <1>1, <1>2, <1>3, <1>4, <1>5

LEMMA StepWorker == WorkerInv /\ [Next]_vars => WorkerInv'
<1> SUFFICES ASSUME WorkerInv, [Next]_vars PROVE WorkerInv'  OBVIOUS
<1> USE DEF WorkerInv
<1>1. CASE \E r \in Requests : Start(r)
  <2>1. /\ pc = "idle" /\ pc' \in Before /\ Quiet /\ verdict = "none" /\ acq # "threw"
        /\ UNCHANGED <<er, out, com, owned, gif, apng, still, sidecar, acq, verdict>>
    BY <1>1 DEF Start, FlowInv, Before, encoders, encoder, acquirer
  <2> QED BY <2>1 DEF FlowInv, EncInv, ComInv, ActiveInv, ResultInv, Quiet, Before
<1>2. CASE Report \/ Crash
  <2>1. Forget /\ acq' # "threw"
    BY <1>2 DEF Report, Crash, FlowInv, acquirer
  <2>2. Quiet' /\ com' = 0 /\ pc' = "idle" /\ verdict' = "none"
        /\ "step" \in DOMAIN gif' /\ "step" \in DOMAIN apng'
    BY <2>1, OffSteps DEF Forget, Quiet
  <2> QED BY <2>1, <2>2 DEF FlowInv, EncInv, ComInv, ActiveInv, ResultInv, Results, Quiet
<1>3. CASE Cancel \/ LoadCancels \/ LoadCleans \/ UNCHANGED vars
  <2>1. /\ UNCHANGED <<er, out, com, owned, gif, apng, still, sidecar, request, acq, pc, verdict>>
    BY <1>3 DEF Cancel, LoadCancels, LoadCleans, vars, encoders, encoder, acquirer
  <2>2. cancelled => cancelled'
    BY <1>3, Zenon DEF Cancel, LoadCancels, AskedToStop, LoadCleans, vars
  <2>3. Quiet => Quiet'  BY <2>1 DEF Quiet
  <2> QED BY <2>1, <2>2, <2>3, EncodersStay DEF FlowInv
<1> QED BY <1>1, <1>2, <1>3, WorkerWaits, WorkerEncodes DEF Next, Worker

LEMMA InitWorker == Init => WorkerInv
BY OffSteps
DEF Init, AtRest, AcqInit, EncoderIdle, WorkerInv, EncInv, ComInv, ActiveInv, ResultInv, Results,
    FlowInv, Quiet

\* An encoder that has returned holds no COM apartment, nor does one that has thrown, but
\* for an exception out of WriteSidecarJson().
THEOREM FileComBalanced == Spec => []ComBalanced
<1>1. WorkerInv => ComBalanced
  BY DEF WorkerInv, EncInv, ComInv, ComBalanced
<1> QED BY <1>1, InitWorker, StepWorker, PTL DEF Spec

\* What a capture reports is true of its file and of its token.
THEOREM FileOutputIsHonest == Spec => []OutputIsHonest
<1>1. WorkerInv => OutputIsHonest
  BY DEF WorkerInv, EncInv, ResultInv, FlowInv, OutputIsHonest
<1> QED BY <1>1, InitWorker, StepWorker, PTL DEF Spec
==============================================================================
