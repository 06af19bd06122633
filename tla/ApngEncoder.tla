---------------------------- MODULE ApngEncoder ----------------------------
(***************************************************************************)
(* encoding/ApngEncoder.cpp: an animated PNG, its chunks assembled by hand *)
(* from frames that WIC encodes one by one.  All frames are loaded first.  *)
(* A pixel is one level; two levels that differ by at most Threshold count *)
(* as the same.  Unlike the GIF encoder this one compares with the source  *)
(* of the previous frame, not with what it has written.  WIC's calls for   *)
(* one frame are not looked at (EncodeImageToPNG()): its PNG may lack data *)
(* or, for frame 0, even its header, and the encoding goes on with it.     *)
(***************************************************************************)
EXTENDS Encoder, FiniteSets

CONSTANTS MaxLevel,     \* pixels are 0..MaxLevel
          Threshold,    \* DiffRect's threshold (2 in the code)
          Pictures,     \* the source frames
          MaxParts      \* IDAT chunks WIC makes of a frame
ASSUME LevelAssumption ==
  /\ MaxLevel \in Nat /\ Threshold \in Nat /\ MaxParts \in Nat \ {0}
  /\ Pictures \subseteq [Pixels -> 0..MaxLevel]

VARIABLE apng
(* step      "off", "load", "base", "frames" or "written"
   left      frame files to load, then frames to encode
   loaded    frames in memory
   mode      deltaMode
   announced the frame count in acTL
   chunks    the frame chunks so far: type and sequence number
   prev      the source of the frame before
   canvas    what a viewer has on its canvas; Empty, and left open, after a spoiled frame
   skipped   frames that could not be encoded and were left out
   spoiled   WIC failed on a frame that was put into the file all the same *)

ApngOff == [step |-> "off", left |-> 0, loaded |-> 0, mode |-> 0, announced |-> 0,
            chunks |-> <<>>, prev |-> Empty, canvas |-> Empty, skipped |-> 0, spoiled |-> FALSE]

Chunks == [type : {"fcTL", "IDAT", "fdAT"}, seq : Nat]

ApngTypeOK ==
  apng \in [step : {"off", "load", "base", "frames", "written"}, left : Nat, loaded : Nat,
            mode : 0..2, announced : Nat, chunks : Seq(Chunks),
            prev : [Pixels -> Clear..MaxLevel], canvas : [Pixels -> Clear..MaxLevel],
            skipped : Nat, spoiled : BOOLEAN]

Keeps_Background(canvas) == Empty            \* defect: APNG_DISPOSE_OP_BACKGROUND
Keeps(canvas) == canvas                      \* APNG_DISPOSE_OP_NONE

\* DiffRect(): the pixels that changed by more than the threshold.
Differs(curr) ==
  {p \in Pixels : \/ curr[p] - apng.prev[p] > Threshold
                  \/ apng.prev[p] - curr[p] > Threshold}

\* The area and pixels of a frame: whole (blend SOURCE), the region that differs or,
\* in mode 2, only the pixels that differ (ExtractRegion(), blend OVER).
AreaOf(curr) ==
  IF apng.mode = 0 \/ Differs(curr) = {} THEN Pixels ELSE Box(Differs(curr))
PixelsOf(curr) ==
  IF apng.mode = 2 /\ Differs(curr) # {}
  THEN [p \in Pixels |-> IF p \in Differs(curr) THEN curr[p] ELSE Clear]
  ELSE curr

\* Of the first n chunks, those that have a sequence number: fcTL and fdAT, not IDAT.
Numbered(chunks, n) == {j \in 1..n : chunks[j].type # "IDAT"}

\* defect: fcTL and fdAT are numbered apart
SeqNum_PerType(chunks) == Cardinality({j \in 1..Len(chunks) : chunks[j].type = "fdAT"})
\* The next sequence number.
SeqNum(chunks) == Cardinality(Numbered(chunks, Len(chunks)))

\* A frame is appended: its fcTL and its data, in so many parts.
Frame(chunks, type, parts) ==
  LET next == SeqNum(chunks)
  IN chunks \o <<[type |-> "fcTL", seq |-> next]>> \o
     [i \in 1..parts |-> [type |-> type, seq |-> IF type = "IDAT" THEN 0 ELSE next + i]]

\* EncodeFromFiles() is called with n frame files.
ApngStart(n, mode) ==
  /\ apng.step = "off" /\ er = "none"
  /\ apng' = [ApngOff EXCEPT !.step = "load", !.left = n, !.mode = mode, !.announced = n]
  /\ UNCHANGED encoder

\* A file is loaded, or left out when that fails; the token is asked before each.
ApngLoad(readable) ==
  /\ apng.step = "load" /\ apng.left > 0 /\ ~cancelled
  /\ \E ok \in {FALSE, readable} :
       apng' = [apng EXCEPT !.left = @ - 1, !.loaded = IF ok THEN @ + 1 ELSE @]
  /\ UNCHANGED encoder

\* EncodeSequence() with the frames that were loaded; COM may be unusable.
ApngLoaded ==
  /\ apng.step = "load" /\ apng.left = 0
  /\ \/ /\ apng.loaded > 0 /\ ComEnter /\ er' = er
        /\ apng' = [apng EXCEPT !.step = "base"]
     \/ er' = "Fail" /\ apng' = ApngOff /\ UNCHANGED <<com, owned>>
  /\ UNCHANGED out

Announced == apng.loaded                     \* frames.size()

\* What EncodeImageToPNG() makes of a picture: its data, or as much as WIC got to.
Encodings ==
  [good : {TRUE}, parts : 1..MaxParts] \cup [good : {FALSE}, parts : 0..MaxParts]

\* Frame 0 is encoded and, with its header, announced together with the frames to come.
ApngBase ==
  /\ apng.step = "base"
  /\ \/ \E curr \in Pictures, png \in Encodings : \E header \in {TRUE, png.good} :
          apng' = [apng EXCEPT !.step = "frames", !.left = apng.loaded - 1,
                               !.announced = IF header THEN Announced ELSE 0,
                               !.chunks = IF header THEN Frame(<<>>, "IDAT", png.parts) ELSE <<>>,
                               !.prev = curr,
                               !.canvas = IF png.good THEN Keeps(curr) ELSE Empty,
                               !.spoiled = ~png.good]
        /\ UNCHANGED encoder
     \/ Return("Fail") /\ apng' = ApngOff /\ UNCHANGED out

ApngCancelled ==
  /\ apng.step \in {"load", "frames"} /\ apng.left > 0 /\ cancelled
  /\ Return("Cancelled") /\ apng' = ApngOff
  /\ UNCHANGED out

\* A later frame is encoded and appended.
ApngFrame ==
  /\ apng.step = "frames" /\ apng.left > 0 /\ ~cancelled
  /\ \E curr \in Pictures, png \in Encodings :
       apng' = [apng EXCEPT !.left = @ - 1,
                            !.chunks = Frame(@, "fdAT", png.parts),
                            !.prev = curr,
                            !.canvas = IF png.good /\ ~apng.spoiled
                                       THEN Keeps(Draw(@, AreaOf(curr), PixelsOf(curr)))
                                       ELSE Empty,
                            !.spoiled = @ \/ ~png.good]
  /\ UNCHANGED encoder

\* A later frame cannot be encoded: it is left out, and the next is compared with it.
ApngSkip ==
  /\ apng.step = "frames" /\ apng.left > 0 /\ ~cancelled
  /\ \E curr \in Pictures :
       apng' = [apng EXCEPT !.left = @ - 1, !.prev = curr, !.skipped = @ + 1]
  /\ UNCHANGED encoder

\* The file is written in one go; only opening it is checked.
ApngWrite ==
  /\ apng.step = "frames" /\ apng.left = 0
  /\ \/ Return("Ok") /\ out' \in {"partial", "whole"}
        /\ apng' = [apng EXCEPT !.step = "written"]
     \/ Return("Fail") /\ apng' = ApngOff /\ UNCHANGED out

ApngStep(readable) ==
  \/ ApngLoad(readable) \/ ApngLoaded \/ ApngBase \/ ApngCancelled
  \/ ApngFrame \/ ApngSkip \/ ApngWrite

-----------------------------------------------------------------------------
FrameStarts(chunks) == {j \in 1..Len(chunks) : chunks[j].type = "fcTL"}
FramesWritten == Cardinality(FrameStarts(apng.chunks))

\* Changes below the threshold are dropped against the source of the frame before, so
\* they add up on the canvas, but never to more than the threshold per later frame,
\* in any mode and mix of whole frames and regions (as long as no frame is left out or
\* spoiled: the one after it is then drawn on a canvas it was not made for).
DriftIsBounded ==
  apng.step \in {"frames", "written"} /\ apng.skipped = 0 /\ ~apng.spoiled =>
    \A p \in Pixels :
      /\ apng.canvas[p] - apng.prev[p] <= Threshold * (FramesWritten - 1)
      /\ apng.prev[p] - apng.canvas[p] <= Threshold * (FramesWritten - 1)

\* A finished file holds the frames acTL announces, but for exactly those that were left
\* out; only when WIC failed on frame 0 does it announce none.  Whatever was left out or
\* came in however many parts, fcTL and fdAT are numbered 0, 1, 2, ... together; and if
\* WIC failed on no frame, each fcTL has its data behind it.
ApngFileValid ==
  apng.step = "written" =>
    LET chunks == apng.chunks
    IN /\ IF apng.announced > 0 THEN FramesWritten + apng.skipped = apng.announced
                                ELSE apng.spoiled
       /\ \A i \in 1..Len(chunks) : chunks[i].type # "IDAT" =>
            chunks[i].seq = Cardinality(Numbered(chunks, i - 1))
       /\ ~apng.spoiled => \A i \in 1..Len(chunks) : chunks[i].type = "fcTL" =>
            i < Len(chunks) /\ chunks[i + 1].type # "fcTL"
===============================================================================
