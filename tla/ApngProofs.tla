------------------------------ MODULE ApngProofs ------------------------------
(***************************************************************************)
(* What holds of the animated PNG of a capture for every frame size, depth,*)
(* threshold and number of frames: the chunks of its file and the distance *)
(* between a viewer's canvas and the captured frames.  At the end, the     *)
(* types of all parts of a capture to a file.                              *)
(***************************************************************************)
EXTENDS FileCaptureProofs, FiniteSetTheorems

-----------------------------------------------------------------------------
(* Counting chunks                                                           *)

LEMMA NumberedFinite ==
  ASSUME NEW chunks, NEW n \in Nat
  PROVE  /\ IsFiniteSet(Numbered(chunks, n))
         /\ Cardinality(Numbered(chunks, n)) \in Nat
<1>1. IsFiniteSet(1..n)  BY FS_Interval
<1>2. Numbered(chunks, n) \subseteq 1..n  BY DEF Numbered
<1>3. IsFiniteSet(Numbered(chunks, n))  BY <1>1, <1>2, FS_Subset
<1> QED BY <1>3, FS_CardinalityType

LEMMA StartsFinite ==
  ASSUME NEW chunks \in Seq(Chunks)
  PROVE  /\ IsFiniteSet(FrameStarts(chunks))
         /\ Cardinality(FrameStarts(chunks)) \in Nat
<1>1. IsFiniteSet(1..Len(chunks))  BY FS_Interval
<1>2. FrameStarts(chunks) \subseteq 1..Len(chunks)  BY DEF FrameStarts
<1>3. IsFiniteSet(FrameStarts(chunks))  BY <1>1, <1>2, FS_Subset
<1> QED BY <1>3, FS_CardinalityType

\* A set of numbers up to a, and those from a + 1 to b.
LEMMA CountBeyond ==
  ASSUME NEW a \in Nat, NEW b \in Nat, a <= b, NEW S \in SUBSET (1..a)
  PROVE  Cardinality(S \cup ((a + 1)..b)) = Cardinality(S) + (b - a)
<1>1. IsFiniteSet(1..a) /\ IsFiniteSet((a + 1)..b)  BY FS_Interval
<1>2. IsFiniteSet(S)  BY <1>1, FS_Subset
<1>3. S \cap ((a + 1)..b) = {}  OBVIOUS
<1>4. Cardinality(S \cup ((a + 1)..b)) =
        Cardinality(S) + Cardinality((a + 1)..b) - Cardinality(S \cap ((a + 1)..b))
  BY <1>1, <1>2, FS_Union
<1>5. Cardinality((a + 1)..b) = b - a
  <2>1. a + 1 \in Int /\ b \in Int  OBVIOUS
  <2>2. Cardinality((a + 1)..b) = IF a + 1 > b THEN 0 ELSE b - (a + 1) + 1
    BY <2>1, FS_Interval
  <2> QED BY <2>2
<1>6. Cardinality(S \cap ((a + 1)..b)) = 0  BY <1>3, FS_EmptySet
<1>7. Cardinality(S) \in Nat  BY <1>2, FS_CardinalityType
<1> QED BY <1>4, <1>5, <1>6, <1>7

\* What a frame appends: its fcTL, then its parts.
LEMMA FrameAppended ==
  ASSUME NEW chunks \in Seq(Chunks), NEW type \in {"IDAT", "fdAT"}, NEW parts \in Nat
  PROVE  LET new == Frame(chunks, type, parts)
             n   == Len(chunks)
         IN /\ new \in Seq(Chunks) /\ Len(new) = n + 1 + parts
            /\ \A i \in 1..n : new[i] = chunks[i]
            /\ new[n + 1] = [type |-> "fcTL", seq |-> SeqNum(chunks)]
            /\ \A i \in 1..parts : new[n + 1 + i] =
                 [type |-> type, seq |-> IF type = "IDAT" THEN 0 ELSE SeqNum(chunks) + i]
<1> DEFINE n == Len(chunks)
           next == SeqNum(chunks)
           part(i) == [type |-> type, seq |-> IF type = "IDAT" THEN 0 ELSE next + i]
           data == [i \in 1..parts |-> part(i)]
           fcTL == [type |-> "fcTL", seq |-> next]
<1>1. next \in Nat
  BY NumberedFinite DEF SeqNum
<1> HIDE DEF next
<1>2. \A i \in 1..parts : part(i) \in Chunks
  BY <1>1 DEF Chunks
<1>3. fcTL \in Chunks  BY <1>1 DEF Chunks
<1> HIDE DEF part, fcTL
<1>4. data \in Seq(Chunks) /\ Len(data) = parts /\ \A i \in 1..parts : data[i] = part(i)
  BY <1>2
<1> HIDE DEF data
<1>5. /\ chunks \o <<fcTL>> \in Seq(Chunks)
      /\ Len(chunks \o <<fcTL>>) = n + 1
      /\ \A i \in 1..n : (chunks \o <<fcTL>>)[i] = chunks[i]
      /\ (chunks \o <<fcTL>>)[n + 1] = fcTL
  BY <1>3
<1> DEFINE front == chunks \o <<fcTL>>
<1> HIDE DEF front
<1>6. /\ front \o data \in Seq(Chunks)
      /\ Len(front \o data) = n + 1 + parts
      /\ \A i \in 1..(n + 1) : (front \o data)[i] = front[i]
      /\ \A i \in 1..parts : (front \o data)[n + 1 + i] = data[i]
  BY <1>4, <1>5 DEF front
<1>7. Frame(chunks, type, parts) = front \o data
  BY DEF Frame, front, data, part, fcTL, next
<1>8. \A i \in 1..n : (front \o data)[i] = chunks[i]
  BY <1>5, <1>6 DEF front
<1>9. (front \o data)[n + 1] = fcTL  BY <1>5, <1>6 DEF front
<1>10. \A i \in 1..parts : (front \o data)[n + 1 + i] = part(i)  BY <1>4, <1>6
<1>11. \A i \in 1..parts : (front \o data)[n + 1 + i] =
         [type |-> type, seq |-> IF type = "IDAT" THEN 0 ELSE next + i]
  BY <1>10 DEF part
<1>12. (front \o data)[n + 1] = [type |-> "fcTL", seq |-> next]  BY <1>9 DEF fcTL
<1> HIDE DEF n
<1>13. LET new == front \o data
       IN /\ new \in Seq(Chunks) /\ Len(new) = n + 1 + parts
          /\ \A i \in 1..n : new[i] = chunks[i]
          /\ new[n + 1] = [type |-> "fcTL", seq |-> next]
          /\ \A i \in 1..parts : new[n + 1 + i] =
               [type |-> type, seq |-> IF type = "IDAT" THEN 0 ELSE next + i]
  BY <1>6, <1>8, <1>11, <1>12
<1> QED BY <1>7, <1>13 DEF next, n

\* fcTL and fdAT are numbered together.
InOrder(chunks) ==
  \A i \in 1..Len(chunks) : chunks[i].type # "IDAT" =>
    chunks[i].seq = Cardinality(Numbered(chunks, i - 1))
\* Each fcTL is followed by data.
WithData(chunks) ==
  \A i \in 1..Len(chunks) : chunks[i].type = "fcTL" =>
    i < Len(chunks) /\ chunks[i + 1].type # "fcTL"

LEMMA FrameSound ==
  ASSUME NEW chunks \in Seq(Chunks), NEW type \in {"IDAT", "fdAT"}, NEW parts \in Nat,
         InOrder(chunks)
  PROVE  /\ InOrder(Frame(chunks, type, parts))
         /\ parts > 0 /\ WithData(chunks) => WithData(Frame(chunks, type, parts))
         /\ Cardinality(FrameStarts(Frame(chunks, type, parts))) =
              Cardinality(FrameStarts(chunks)) + 1
<1> DEFINE n == Len(chunks)
           new == Frame(chunks, type, parts)
<1>1. n \in Nat  OBVIOUS
<1>2. /\ new \in Seq(Chunks) /\ Len(new) = n + 1 + parts
      /\ \A i \in 1..n : new[i] = chunks[i]
      /\ new[n + 1] = [type |-> "fcTL", seq |-> SeqNum(chunks)]
      /\ \A i \in 1..parts : new[n + 1 + i] =
           [type |-> type, seq |-> IF type = "IDAT" THEN 0 ELSE SeqNum(chunks) + i]
  BY FrameAppended
<1> HIDE DEF new
<1>3. new[n + 1].type = "fcTL" /\ new[n + 1].seq = SeqNum(chunks)  BY <1>2
<1>4. ASSUME NEW i \in (n + 2)..(n + 1 + parts)
      PROVE  new[i].type = type /\ (type = "fdAT" => new[i].seq = SeqNum(chunks) + (i - n - 1))
  <2>1. i - n - 1 \in 1..parts /\ i = n + 1 + (i - n - 1)  BY <1>1
  <2>2. new[i] = [type |-> type,
                  seq |-> IF type = "IDAT" THEN 0 ELSE SeqNum(chunks) + (i - n - 1)]
    BY <1>2, <2>1
  <2> QED BY <2>2
<1>5. \A i \in 1..n : new[i].type = chunks[i].type /\ new[i].seq = chunks[i].seq  BY <1>2
<1>6. \A i \in 0..n : Numbered(new, i) = Numbered(chunks, i)
  BY <1>1, <1>5 DEF Numbered
<1>7. ASSUME NEW i \in (n + 1)..(n + 1 + parts), type = "fdAT"
      PROVE  Cardinality(Numbered(new, i - 1)) = SeqNum(chunks) + (i - 1 - n)
  <2>1. \A j \in (n + 1)..(i - 1) : new[j].type # "IDAT"
    BY <1>1, <1>3, <1>4, <1>7
  <2>2. Numbered(new, i - 1) = Numbered(chunks, n) \cup ((n + 1)..(i - 1))
    <3>1. ASSUME NEW j \in Numbered(new, i - 1)
          PROVE  j \in Numbered(chunks, n) \cup ((n + 1)..(i - 1))
      BY <1>1, <1>5, <3>1 DEF Numbered
    <3>2. ASSUME NEW j \in Numbered(chunks, n) \cup ((n + 1)..(i - 1))
          PROVE  j \in Numbered(new, i - 1)
      BY <1>1, <1>5, <2>1, <3>2 DEF Numbered
    <3> QED BY <3>1, <3>2
  <2>3. Numbered(chunks, n) \in SUBSET (1..n)  BY DEF Numbered
  <2>4. i - 1 \in Nat /\ n <= i - 1  BY <1>1
  <2> QED BY <1>1, <2>2, <2>3, <2>4, CountBeyond DEF SeqNum
<1>8. SeqNum(chunks) = Cardinality(Numbered(new, n))
  BY <1>1, <1>6 DEF SeqNum
<1>9. ASSUME NEW i \in 1..Len(new), new[i].type # "IDAT"
      PROVE  new[i].seq = Cardinality(Numbered(new, i - 1))
  <2>1. CASE i \in 1..n
    BY <1>1, <1>5, <1>6, <1>9, <2>1 DEF InOrder
  <2>2. CASE i = n + 1
    BY <1>1, <1>3, <1>8, <2>2
  <2>3. CASE i \in (n + 2)..(n + 1 + parts)
    <3>1. type = "fdAT"  BY <1>4, <1>9, <2>3
    <3>2. i \in (n + 1)..(n + 1 + parts)  BY <1>1, <2>3
    <3>3. new[i].seq = SeqNum(chunks) + (i - n - 1)  BY <1>4, <2>3, <3>1
    <3>4. Cardinality(Numbered(new, i - 1)) = SeqNum(chunks) + (i - 1 - n)
      BY <1>7, <3>1, <3>2
    <3>5. i - n - 1 = i - 1 - n  BY <1>1, <2>3
    <3> QED BY <3>3, <3>4, <3>5
  <2> QED BY <1>1, <1>2, <2>1, <2>2, <2>3
<1>10. ASSUME parts > 0, WithData(chunks), NEW i \in 1..Len(new), new[i].type = "fcTL"
       PROVE  i < Len(new) /\ new[i + 1].type # "fcTL"
  <2>1. CASE i \in 1..n
    <3>1. i < n /\ chunks[i + 1].type # "fcTL"  BY <1>5, <1>10, <2>1 DEF WithData
    <3> QED BY <1>1, <1>2, <1>5, <2>1, <3>1
  <2>2. CASE i = n + 1
    <3>1. n + 2 \in (n + 2)..(n + 1 + parts)  BY <1>1, <1>10
    <3>2. new[n + 2].type = type  BY <1>4, <3>1
    <3>3. n + 1 < Len(new)  BY <1>1, <1>2, <1>10
    <3>4. i + 1 = n + 2  BY <1>1, <2>2
    <3> QED BY <2>2, <3>2, <3>3, <3>4
  <2>3. CASE i \in (n + 2)..(n + 1 + parts)
    BY <1>4, <1>10, <2>3
  <2> QED BY <1>1, <1>2, <2>1, <2>2, <2>3
<1>11. FrameStarts(new) = FrameStarts(chunks) \cup ((n + 1)..(n + 1))
  <2>1. ASSUME NEW j \in FrameStarts(new)
        PROVE  j \in FrameStarts(chunks) \cup ((n + 1)..(n + 1))
    <3>1. j \in 1..(n + 1 + parts) /\ new[j].type = "fcTL"  BY <1>2, <2>1 DEF FrameStarts
    <3>2. j \notin (n + 2)..(n + 1 + parts)  BY <1>4, <3>1
    <3>3. j \in 1..n \/ j = n + 1  BY <1>1, <3>1, <3>2
    <3> QED BY <1>1, <1>5, <3>1, <3>3 DEF FrameStarts
  <2>2. ASSUME NEW j \in FrameStarts(chunks) \cup ((n + 1)..(n + 1))
        PROVE  j \in FrameStarts(new)
    BY <1>1, <1>2, <1>3, <1>5, <2>2 DEF FrameStarts
  <2> QED BY <2>1, <2>2
<1>12. Cardinality(FrameStarts(new)) = Cardinality(FrameStarts(chunks)) + 1
  <2>1. FrameStarts(chunks) \in SUBSET (1..n)  BY DEF FrameStarts
  <2>2. Cardinality(FrameStarts(chunks) \cup ((n + 1)..(n + 1))) =
          Cardinality(FrameStarts(chunks)) + ((n + 1) - n)
    <3>1. n + 1 \in Nat /\ n <= n + 1  BY <1>1
    <3> QED BY <1>1, <2>1, <3>1, CountBeyond
  <2> QED BY <1>1, <1>11, <2>2, StartsFinite
<1>13. InOrder(new)  BY <1>9 DEF InOrder
<1>14. parts > 0 /\ WithData(chunks) => WithData(new)  BY <1>10 DEF WithData
<1> QED BY <1>12, <1>13, <1>14 DEF new

-----------------------------------------------------------------------------
(* The canvas of an animated PNG                                             *)

\* A later frame is drawn: what is not drawn has changed by at most the threshold.
LEMMA FrameDrifts ==
  ASSUME ApngTypeOK, NEW curr \in Pictures, NEW p \in Pixels
  PROVE  LET drawn == Draw(apng.canvas, AreaOf(curr), PixelsOf(curr))
         IN /\ drawn[p] \in Clear..MaxLevel
            /\ \/ drawn[p] = curr[p]
               \/ /\ drawn[p] = apng.canvas[p]
                  /\ curr[p] - apng.prev[p] <= Threshold
                  /\ apng.prev[p] - curr[p] <= Threshold
<1> DEFINE drawn == Draw(apng.canvas, AreaOf(curr), PixelsOf(curr))
<1> USE DEF Clear
<1>1. /\ curr[p] \in 0..MaxLevel /\ apng.canvas[p] \in Clear..MaxLevel
      /\ apng.prev[p] \in Clear..MaxLevel
  BY LevelAssumption DEF ApngTypeOK
<1>2. drawn[p] = IF p \in AreaOf(curr) /\ PixelsOf(curr)[p] # Clear
                 THEN PixelsOf(curr)[p] ELSE apng.canvas[p]
  BY DEF Draw
<1>3. PixelsOf(curr)[p] \in {curr[p], Clear}
  BY DEF PixelsOf
<1>4. CASE p \in Differs(curr)
  <2>1. p \in AreaOf(curr)
    <3>1. Differs(curr) \subseteq Box(Differs(curr))
      BY BoxContains DEF Differs
    <3> QED BY <1>4, <3>1 DEF AreaOf
  <2>2. PixelsOf(curr)[p] = curr[p]
    BY <1>4 DEF PixelsOf
  <2> QED BY <1>1, <1>2, <2>1, <2>2, LevelAssumption
<1>5. CASE p \notin Differs(curr)
  <2>1. /\ curr[p] - apng.prev[p] <= Threshold
        /\ apng.prev[p] - curr[p] <= Threshold
    BY <1>1, <1>5, LevelAssumption DEF Differs
  <2> QED BY <1>1, <1>2, <1>3, <2>1, LevelAssumption
<1> QED BY <1>4, <1>5

\* The chunks are in order, every frame still to come is counted, and the canvas is near.
ApngInv ==
  /\ ApngTypeOK
  /\ InOrder(apng.chunks)
  /\ ~apng.spoiled => WithData(apng.chunks)
  /\ apng.step = "base" => apng.loaded > 0
  /\ apng.step \notin {"frames", "written"} => apng.skipped = 0
  /\ apng.step \in {"frames", "written"} =>
       IF apng.announced > 0
       THEN FramesWritten + apng.skipped + apng.left = apng.announced ELSE apng.spoiled
  /\ apng.step = "written" => apng.left = 0
  /\ DriftIsBounded

LEMMA NoChunks == InOrder(<<>>) /\ WithData(<<>>) /\ Cardinality(FrameStarts(<<>>)) = 0
<1>1. FrameStarts(<<>>) = {}  BY DEF FrameStarts
<1> QED BY <1>1, FS_EmptySet DEF InOrder, WithData

LEMMA ApngOffInv ==
  ASSUME apng' = ApngOff
  PROVE  ApngInv'
<1>1. Empty \in [Pixels -> Clear..MaxLevel]
  BY EmptyTyped, LevelAssumption DEF Clear
<1>2. ApngTypeOK'  BY <1>1 DEF ApngOff, ApngTypeOK
<1>3. InOrder(apng.chunks)' /\ WithData(apng.chunks)'
  BY DEF ApngOff, InOrder, WithData
<1> QED BY <1>2, <1>3 DEF ApngOff, ApngInv, DriftIsBounded

\* What a viewer shows of a spoiled frame is left open.
LEMMA ShownTyped ==
  ASSUME NEW good \in BOOLEAN, NEW drawn \in [Pixels -> Clear..MaxLevel]
  PROVE  (IF good THEN drawn ELSE Empty) \in [Pixels -> Clear..MaxLevel]
<1>1. Empty \in [Pixels -> Clear..MaxLevel]
  BY EmptyTyped, LevelAssumption DEF Clear
<1> QED BY <1>1

LEMMA PngParts ==
  ASSUME NEW png \in Encodings
  PROVE  png.good \in BOOLEAN /\ png.parts \in Nat /\ (png.good => png.parts > 0)
<1>1. CASE png \in [good : {TRUE}, parts : 1..MaxParts]
  <2>1. png.good = TRUE /\ png.parts \in 1..MaxParts  BY <1>1
  <2>2. png.parts \in Nat /\ png.parts > 0  BY <2>1, LevelAssumption
  <2> QED BY <2>1, <2>2, Zenon
<1>2. CASE png \in [good : {FALSE}, parts : 0..MaxParts]
  <2>1. png.good = FALSE /\ png.parts \in 0..MaxParts  BY <1>2
  <2>2. png.parts \in Nat  BY <2>1, LevelAssumption
  <2> QED BY <2>1, <2>2, Zenon
<1> QED BY <1>1, <1>2 DEF Encodings

LEMMA ApngFrameKeeps ==
  ASSUME ApngInv, ApngFrame
  PROVE  ApngInv'
<1>1. PICK curr \in Pictures, png \in Encodings :
        apng' = [apng EXCEPT !.left = @ - 1, !.chunks = Frame(@, "fdAT", png.parts),
                             !.prev = curr,
                             !.canvas = IF png.good /\ ~apng.spoiled
                                        THEN Keeps(Draw(@, AreaOf(curr), PixelsOf(curr)))
                                        ELSE Empty,
                             !.spoiled = @ \/ ~png.good]
  BY DEF ApngFrame
<1> DEFINE chunks == Frame(apng.chunks, "fdAT", png.parts)
           drawn == Draw(apng.canvas, AreaOf(curr), PixelsOf(curr))
           spoiled == apng.spoiled \/ ~png.good
           shown == IF ~spoiled THEN drawn ELSE Empty
           n == Cardinality(FrameStarts(apng.chunks))
<1>2. ApngTypeOK /\ apng.step = "frames" /\ apng.left > 0
  BY DEF ApngInv, ApngFrame
<1>3. apng.chunks \in Seq(Chunks) /\ png.parts \in Nat /\ n \in Nat
  BY <1>2, StartsFinite, PngParts DEF ApngTypeOK
<1>4. chunks \in Seq(Chunks)  BY <1>3, FrameAppended
<1>5. /\ InOrder(chunks) /\ Cardinality(FrameStarts(chunks)) = n + 1
      /\ png.parts > 0 /\ WithData(apng.chunks) => WithData(chunks)
  BY <1>3, FrameSound DEF ApngInv
<1>6. \A p \in Pixels : /\ drawn[p] \in Clear..MaxLevel
                        /\ \/ drawn[p] = curr[p]
                           \/ /\ drawn[p] = apng.canvas[p]
                              /\ curr[p] - apng.prev[p] <= Threshold
                              /\ apng.prev[p] - curr[p] <= Threshold
  BY <1>2, FrameDrifts
<1>7. drawn \in [Pixels -> Clear..MaxLevel]
  BY <1>6 DEF Draw
<1>8. curr \in [Pixels -> 0..MaxLevel] /\ curr \in [Pixels -> Clear..MaxLevel]
  BY LevelAssumption DEF Clear
<1>9. spoiled \in BOOLEAN /\ (~spoiled => ~apng.spoiled /\ png.parts > 0)
  BY <1>2, PngParts DEF ApngTypeOK
<1>10. shown \in [Pixels -> Clear..MaxLevel]  BY <1>7, <1>9, ShownTyped
<1>11. ~spoiled => shown = drawn  OBVIOUS
<1>12. /\ (apng.spoiled \/ ~png.good) = spoiled
       /\ (IF png.good /\ ~apng.spoiled THEN drawn ELSE Empty) = shown
  <2>1. (png.good /\ ~apng.spoiled) = ~spoiled  BY <1>2, PngParts DEF ApngTypeOK
  <2> QED BY <2>1
<1> HIDE DEF chunks, drawn, spoiled, shown, n
<1>13. apng' = [step |-> "frames", left |-> apng.left - 1, loaded |-> apng.loaded,
                mode |-> apng.mode, announced |-> apng.announced, chunks |-> chunks,
                prev |-> curr, canvas |-> shown, skipped |-> apng.skipped, spoiled |-> spoiled]
  <2>1. apng' = [apng EXCEPT !.left = apng.left - 1, !.chunks = chunks, !.prev = curr,
                             !.canvas = shown, !.spoiled = spoiled]
    BY <1>1, <1>2, <1>12 DEF ApngTypeOK, chunks, drawn, Keeps
  <2> QED BY <1>2, <2>1 DEF ApngTypeOK
<1>14. ApngTypeOK'
  <2>1. /\ apng.left - 1 \in Nat /\ apng.loaded \in Nat /\ apng.mode \in 0..2
        /\ apng.announced \in Nat /\ apng.skipped \in Nat
    BY <1>2 DEF ApngTypeOK
  <2> QED BY <1>4, <1>8, <1>9, <1>10, <1>13, <2>1 DEF ApngTypeOK
<1>15. FramesWritten' = n + 1  BY <1>5, <1>13 DEF FramesWritten
<1>16. DriftIsBounded'
  <2> SUFFICES ASSUME apng.skipped = 0, ~spoiled, NEW p \in Pixels
               PROVE  /\ drawn[p] - curr[p] <= Threshold * n
                      /\ curr[p] - drawn[p] <= Threshold * n
    <3>1. (FramesWritten - 1)' = n  BY <1>3, <1>15
    <3> QED BY <1>11, <1>13, <3>1 DEF DriftIsBounded
  <2>1. /\ apng.canvas[p] - apng.prev[p] <= Threshold * (n - 1)
        /\ apng.prev[p] - apng.canvas[p] <= Threshold * (n - 1)
    BY <1>2, <1>9 DEF ApngInv, DriftIsBounded, FramesWritten, n
  <2>2. Threshold * n = Threshold * (n - 1) + Threshold /\ Threshold * n >= 0
    BY <1>3, LevelAssumption
  <2>3. Threshold * n \in Int /\ Threshold * (n - 1) \in Int /\ Threshold \in Int
    BY <1>3, LevelAssumption
  <2> DEFINE big == Threshold * n
             small == Threshold * (n - 1)
  <2> HIDE DEF big, small
  <2>4. /\ drawn[p] \in Int /\ curr[p] \in Int /\ apng.canvas[p] \in Int
        /\ apng.prev[p] \in Int
    BY <1>2, <1>6, <1>8 DEF ApngTypeOK, Clear
  <2>5. big = small + Threshold /\ big >= 0 /\ big \in Int /\ small \in Int
        /\ Threshold \in Int
    BY <2>2, <2>3 DEF big, small
  <2>6. apng.canvas[p] - apng.prev[p] <= small /\ apng.prev[p] - apng.canvas[p] <= small
    BY <2>1 DEF small
  <2>7. drawn[p] - curr[p] <= big /\ curr[p] - drawn[p] <= big
    BY <1>6, <2>4, <2>5, <2>6
  <2> QED BY <2>7 DEF big
<1>17. /\ apng'.left = apng.left - 1 /\ apng'.step = "frames" /\ apng'.skipped = apng.skipped
       /\ apng'.announced = apng.announced /\ apng'.chunks = chunks
       /\ apng'.spoiled = spoiled
  BY <1>13
<1>18. IF apng.announced > 0
       THEN (n + 1) + apng.skipped + (apng.left - 1) = apng.announced ELSE spoiled
  <2>1. IF apng.announced > 0 THEN n + apng.skipped + apng.left = apng.announced
                              ELSE apng.spoiled
    BY <1>2 DEF ApngInv, FramesWritten, n
  <2> QED BY <1>2, <1>3, <2>1 DEF ApngTypeOK, spoiled
<1>19. ~spoiled => WithData(chunks)
  BY <1>5, <1>9 DEF ApngInv
<1> QED BY <1>5, <1>14, <1>15, <1>16, <1>17, <1>18, <1>19 DEF ApngInv

LEMMA ApngBaseKeeps ==
  ASSUME ApngInv, ApngBase
  PROVE  ApngInv'
<1>1. CASE apng' = ApngOff  BY <1>1, ApngOffInv
<1>2. CASE \E curr \in Pictures, png \in Encodings : \E header \in {TRUE, png.good} :
             apng' = [apng EXCEPT !.step = "frames", !.left = apng.loaded - 1,
                                  !.announced = IF header THEN Announced ELSE 0,
                                  !.chunks = IF header THEN Frame(<<>>, "IDAT", png.parts)
                                                       ELSE <<>>,
                                  !.prev = curr,
                                  !.canvas = IF png.good THEN Keeps(curr) ELSE Empty,
                                  !.spoiled = ~png.good]
  <2>1. PICK curr \in Pictures, png \in Encodings : \E header \in {TRUE, png.good} :
             apng' = [apng EXCEPT !.step = "frames", !.left = apng.loaded - 1,
                                  !.announced = IF header THEN Announced ELSE 0,
                                  !.chunks = IF header THEN Frame(<<>>, "IDAT", png.parts)
                                                       ELSE <<>>,
                                  !.prev = curr,
                                  !.canvas = IF png.good THEN Keeps(curr) ELSE Empty,
                                  !.spoiled = ~png.good]
    BY <1>2
  <2>2. PICK header \in {TRUE, png.good} :
             apng' = [apng EXCEPT !.step = "frames", !.left = apng.loaded - 1,
                                  !.announced = IF header THEN Announced ELSE 0,
                                  !.chunks = IF header THEN Frame(<<>>, "IDAT", png.parts)
                                                       ELSE <<>>,
                                  !.prev = curr,
                                  !.canvas = IF png.good THEN Keeps(curr) ELSE Empty,
                                  !.spoiled = ~png.good]
    BY <2>1
  <2> DEFINE framed == Frame(<<>>, "IDAT", png.parts)
             chunks == IF header THEN framed ELSE <<>>
             announced == IF header THEN apng.loaded ELSE 0
             good == png.good
             shown == IF good THEN curr ELSE Empty
  <2>3. ApngTypeOK /\ apng.loaded \in Nat /\ apng.loaded > 0 /\ apng.skipped = 0
    BY DEF ApngInv, ApngBase, ApngTypeOK
  <2>4. /\ header \in BOOLEAN /\ good \in BOOLEAN /\ (~header => ~good)
        /\ png.parts \in Nat /\ (good => png.parts > 0)
    BY PngParts
  <2>5. <<>> \in Seq(Chunks) /\ InOrder(<<>>) /\ WithData(<<>>)
        /\ Cardinality(FrameStarts(<<>>)) = 0
    BY NoChunks
  <2>6. framed \in Seq(Chunks)  BY <2>4, <2>5, FrameAppended
  <2>7. /\ InOrder(framed) /\ (png.parts > 0 => WithData(framed))
        /\ Cardinality(FrameStarts(framed)) = 1
    <3>1. /\ InOrder(framed) /\ (png.parts > 0 => WithData(framed))
          /\ Cardinality(FrameStarts(framed)) = Cardinality(FrameStarts(<<>>)) + 1
      BY <2>4, <2>5, FrameSound
    <3> QED BY <2>5, <3>1
  <2>8. curr \in [Pixels -> 0..MaxLevel] /\ curr \in [Pixels -> Clear..MaxLevel]
    BY LevelAssumption DEF Clear
  <2>9. shown \in [Pixels -> Clear..MaxLevel] /\ (good => shown = curr)
    BY <2>4, <2>8, ShownTyped
  <2> HIDE DEF framed
  <2>10. /\ chunks \in Seq(Chunks) /\ InOrder(chunks) /\ (good => WithData(chunks))
         /\ (header => chunks = framed)
    BY <2>4, <2>5, <2>6, <2>7
  <2>11. announced \in Nat /\ (announced > 0 => header /\ announced = apng.loaded)
         /\ (~(announced > 0) => ~good)
    BY <2>3, <2>4
  <2>12. apng' = [apng EXCEPT !.step = "frames", !.left = apng.loaded - 1,
                              !.announced = announced, !.chunks = chunks, !.prev = curr,
                              !.canvas = shown, !.spoiled = ~good]
    BY <2>2, <2>3 DEF ApngTypeOK, framed, Keeps, Announced
  <2> HIDE DEF chunks, announced, shown, good
  <2>13. apng' = [step |-> "frames", left |-> apng.loaded - 1, loaded |-> apng.loaded,
                  mode |-> apng.mode, announced |-> announced, chunks |-> chunks,
                  prev |-> curr, canvas |-> shown, skipped |-> apng.skipped,
                  spoiled |-> ~good]
    BY <2>3, <2>12 DEF ApngTypeOK
  <2>14. ApngTypeOK'
    <3>1. apng.loaded - 1 \in Nat /\ apng.mode \in 0..2 /\ apng.skipped \in Nat
      BY <2>3 DEF ApngTypeOK
    <3> QED BY <2>3, <2>4, <2>8, <2>9, <2>10, <2>11, <2>13, <3>1 DEF ApngTypeOK
  <2>15. header => FramesWritten' = 1
    BY <2>7, <2>10, <2>13 DEF FramesWritten
  <2>16. DriftIsBounded'
    <3> SUFFICES ASSUME good PROVE DriftIsBounded'
      BY <2>4, <2>13 DEF DriftIsBounded
    <3>1. (FramesWritten - 1)' = 0 /\ Threshold * 0 = 0
      BY <2>4, <2>15, LevelAssumption
    <3>2. \A p \in Pixels : curr[p] - curr[p] <= 0
      BY <2>8
    <3> QED BY <2>9, <2>13, <3>1, <3>2 DEF DriftIsBounded
  <2>17. /\ apng'.step = "frames" /\ apng'.left = apng.loaded - 1 /\ apng'.chunks = chunks
         /\ apng'.announced = announced /\ apng'.skipped = 0 /\ apng'.spoiled = ~good
    BY <2>3, <2>13
  <2>18. IF announced > 0 THEN FramesWritten' + 0 + (apng.loaded - 1) = announced ELSE ~good
    BY <2>3, <2>11, <2>15
  <2> QED BY <2>4, <2>10, <2>14, <2>16, <2>17, <2>18 DEF ApngInv
<1> QED BY <1>1, <1>2 DEF ApngBase

LEMMA ApngStepKeeps ==
  ASSUME ApngInv, NEW readable, ApngStep(readable)
  PROVE  ApngInv'
<1>1. CASE apng' = ApngOff  BY <1>1, ApngOffInv
<1>2. CASE ApngLoad(readable)
  <2>1. PICK ok \in {FALSE, readable} :
          apng' = [apng EXCEPT !.left = @ - 1, !.loaded = IF ok THEN @ + 1 ELSE @]
    BY <1>2 DEF ApngLoad
  <2>2. ApngTypeOK /\ apng.step = "load" /\ apng.left - 1 \in Nat
    BY <1>2 DEF ApngLoad, ApngInv, ApngTypeOK
  <2> DEFINE k == IF ok THEN apng.loaded + 1 ELSE apng.loaded
  <2>3. k \in Nat /\ apng' = [apng EXCEPT !.left = apng.left - 1, !.loaded = k]
    BY <2>1, <2>2 DEF ApngTypeOK
  <2> HIDE DEF k
  <2>4. ApngTypeOK' /\ apng'.step = "load" /\ apng'.chunks = apng.chunks
        /\ apng'.skipped = apng.skipped /\ apng'.spoiled = apng.spoiled
    BY <2>2, <2>3 DEF ApngTypeOK
  <2> QED BY <2>2, <2>4 DEF ApngInv, DriftIsBounded
<1>3. CASE ApngLoaded /\ apng' = [apng EXCEPT !.step = "base"] /\ apng.loaded > 0
  <2>1. ApngTypeOK' /\ apng'.step = "base" /\ apng'.chunks = apng.chunks /\ apng'.loaded > 0
        /\ apng'.skipped = apng.skipped /\ apng'.spoiled = apng.spoiled /\ apng.step = "load"
    BY <1>3 DEF ApngLoaded, ApngInv, ApngTypeOK
  <2> QED BY <2>1 DEF ApngInv, DriftIsBounded
<1>4. CASE ApngBase  BY <1>4, ApngBaseKeeps
<1>5. CASE ApngFrame  BY <1>5, ApngFrameKeeps
<1>6. CASE ApngSkip
  <2>1. PICK curr \in Pictures :
          apng' = [apng EXCEPT !.left = @ - 1, !.prev = curr, !.skipped = @ + 1]
    BY <1>6 DEF ApngSkip
  <2>2. ApngTypeOK /\ apng.step = "frames" /\ apng.left - 1 \in Nat
    BY <1>6 DEF ApngSkip, ApngInv, ApngTypeOK
  <2>3. curr \in [Pixels -> Clear..MaxLevel]
    BY LevelAssumption DEF Clear
  <2>4. apng.skipped \in Nat /\ apng.left \in Nat  BY <2>2 DEF ApngTypeOK
  <2>5. /\ apng'.step = "frames" /\ apng'.chunks = apng.chunks
        /\ apng'.skipped = apng.skipped + 1 /\ apng'.left = apng.left - 1
        /\ apng'.announced = apng.announced /\ apng'.spoiled = apng.spoiled
    BY <2>1, <2>2 DEF ApngTypeOK
  <2>6. ApngTypeOK'
    <3>1. apng' = [apng EXCEPT !.left = apng.left - 1, !.prev = curr, !.skipped = apng.skipped + 1]
      BY <2>1, <2>2 DEF ApngTypeOK
    <3>2. apng.skipped + 1 \in Nat  BY <2>4
    <3> QED BY <2>2, <2>3, <3>1, <3>2 DEF ApngTypeOK
  <2>7. DriftIsBounded'  BY <2>4, <2>5 DEF DriftIsBounded
  <2>8. FramesWritten \in Nat /\ FramesWritten' = FramesWritten
    BY <2>2, <2>5, StartsFinite DEF ApngTypeOK, FramesWritten
  <2>9. FramesWritten + (apng.skipped + 1) + (apng.left - 1) =
          FramesWritten + apng.skipped + apng.left
    BY <2>4, <2>8
  <2> QED BY <2>2, <2>5, <2>6, <2>7, <2>8, <2>9 DEF ApngInv
<1>7. CASE ApngWrite /\ apng' = [apng EXCEPT !.step = "written"]
  <2>1. apng.step = "frames" /\ apng.left = 0  BY <1>7 DEF ApngWrite
  <2>2. /\ ApngTypeOK' /\ apng'.step = "written" /\ apng'.chunks = apng.chunks
        /\ apng'.announced = apng.announced /\ apng'.loaded = apng.loaded
        /\ apng'.left = apng.left /\ apng'.skipped = apng.skipped
        /\ apng'.spoiled = apng.spoiled
        /\ apng'.prev = apng.prev /\ apng'.canvas = apng.canvas
    BY <1>7 DEF ApngInv, ApngTypeOK
  <2> QED BY <2>1, <2>2 DEF ApngInv, DriftIsBounded, FramesWritten
<1> QED BY <1>1, <1>2, <1>3, <1>4, <1>5, <1>6, <1>7
        DEF ApngStep, ApngLoaded, ApngCancelled, ApngWrite

ChunksInv == ApngInv /\ saved \in Nat /\ request \in Requests \cup {NoRequest}

LEMMA ApngStartKeeps ==
  ASSUME ChunksInv, ApngStart(saved, request.mode)
  PROVE  ApngInv'
<1>1. request.mode \in 0..2 /\ saved \in Nat  BY DEF ChunksInv, Requests, NoRequest
<1>2. apng' = [step |-> "load", left |-> saved, loaded |-> 0, mode |-> request.mode,
               announced |-> saved, chunks |-> <<>>, prev |-> Empty, canvas |-> Empty,
               skipped |-> 0, spoiled |-> FALSE]
  BY DEF ApngStart, ApngOff
<1>3. Empty \in [Pixels -> Clear..MaxLevel]
  BY EmptyTyped, LevelAssumption DEF Clear
<1>4. ApngTypeOK'  BY <1>1, <1>2, <1>3 DEF ApngTypeOK
<1>5. InOrder(apng.chunks)' /\ WithData(apng.chunks)'  BY <1>2 DEF InOrder, WithData
<1> QED BY <1>2, <1>4, <1>5 DEF ApngInv, DriftIsBounded

LEMMA StepChunks == ChunksInv /\ [Next]_vars => ChunksInv'
<1> SUFFICES ASSUME ChunksInv, [Next]_vars PROVE ChunksInv'  OBVIOUS
<1>1. ASSUME UNCHANGED apng PROVE ApngInv'
  BY <1>1 DEF ChunksInv, ApngInv, ApngTypeOK, InOrder, WithData, DriftIsBounded, FramesWritten
<1>2. CASE \E r \in Requests : Start(r)
  BY <1>1, <1>2 DEF Start, encoders, ChunksInv
<1>3. CASE SaveFrame
  BY <1>1, <1>3 DEF SaveFrame, encoders, ChunksInv
<1>4. CASE Encode
  <2>1. ApngStart(saved, request.mode) \/ UNCHANGED apng  BY <1>4 DEF Encode
  <2> QED BY <1>1, <1>4, <2>1, ApngStartKeeps DEF Encode, ChunksInv
<1>5. CASE Encoding
  <2>1. ApngStep(capture \in dirs) \/ UNCHANGED apng  BY <1>5 DEF Encoding
  <2> QED BY <1>1, <1>5, <2>1, ApngStepKeeps DEF Encoding, ChunksInv
<1>6. CASE Report \/ Crash
  <2>1. apng' = ApngOff /\ request' = NoRequest /\ saved' = 0
    BY <1>6 DEF Report, Crash, Forget
  <2> QED BY <2>1, ApngOffInv DEF ChunksInv
<1>7. CASE \/ Scan \/ MakeDir \/ MakeGuard \/ MakeAcquirer \/ Acquire \/ AcquireFails \/ Pace
           \/ StillTaken \/ Acquired \/ Encoded \/ CleanUp \/ CheckSize \/ Leave
           \/ Cancel \/ LoadCancels \/ LoadCleans \/ UNCHANGED vars
  <2>1. UNCHANGED <<apng, saved, request>>
    BY <1>7
    DEF Scan, MakeDir, MakeGuard, MakeAcquirer, Acquire, AcquireFails, Pace, StillTaken, Acquired,
        Encoded, CleanUp, CheckSize, Leave, Cancel, LoadCancels, LoadCleans, vars, encoders
  <2> QED BY <1>1, <2>1 DEF ChunksInv
<1> QED BY <1>2, <1>3, <1>4, <1>5, <1>6, <1>7 DEF Next, Worker

LEMMA InitChunks == Init => ChunksInv
<1> SUFFICES ASSUME Init PROVE ChunksInv  OBVIOUS
<1>1. apng = ApngOff /\ saved = 0 /\ request = NoRequest  BY DEF Init, AtRest
<1>2. Empty \in [Pixels -> Clear..MaxLevel]
  BY EmptyTyped, LevelAssumption DEF Clear
<1>3. ApngTypeOK  BY <1>1, <1>2 DEF ApngOff, ApngTypeOK
<1>4. InOrder(apng.chunks) /\ WithData(apng.chunks)
  BY <1>1 DEF ApngOff, InOrder, WithData
<1> QED BY <1>1, <1>3, <1>4 DEF ApngOff, ApngInv, DriftIsBounded, ChunksInv

\* The canvas of an animated PNG stays within the threshold per frame of the captured
\* one, in every delta mode, as long as no frame is left out or spoiled.
THEOREM FileDriftIsBounded == Spec => []DriftIsBounded
<1>1. ChunksInv => DriftIsBounded  BY DEF ChunksInv, ApngInv
<1> QED BY <1>1, InitChunks, StepChunks, PTL DEF Spec

\* A finished animated PNG has the announced frames but those left out, one numbering
\* and, if WIC failed on none of them, data in each frame.
THEOREM FileApngFileValid == Spec => []ApngFileValid
<1>1. ChunksInv => ApngFileValid
  <2> SUFFICES ASSUME ChunksInv, apng.step = "written" PROVE ApngFileValid  BY DEF ApngFileValid
  <2>1. IF apng.announced > 0 THEN FramesWritten + apng.skipped = apng.announced
                              ELSE apng.spoiled
    <3>1. FramesWritten \in Nat /\ apng.skipped \in Nat /\ apng.left = 0
      BY StartsFinite DEF ChunksInv, ApngInv, ApngTypeOK, FramesWritten
    <3> QED BY <3>1 DEF ChunksInv, ApngInv
  <2> QED BY <2>1 DEF ChunksInv, ApngInv, InOrder, WithData, ApngFileValid
<1> QED BY <1>1, InitChunks, StepChunks, PTL DEF Spec

-----------------------------------------------------------------------------
(* Types                                                                     *)

Steps == {"idle", "scan", "mkdir", "guard", "construct", "acquire", "pace", "acquired",
          "encode", "encoding", "cleanup", "size", "leave", "report"}

\* Where the worker is, and how many frames it has by then.
WorkerTyped ==
  /\ pc \in Steps
  /\ capture \in 0..MaxCaptures
  /\ request \in Requests \cup {NoRequest}
  /\ pc # "idle" => capture >= 1 /\ request \in Requests
  /\ saved \in 0..MaxFrames
  /\ pc \in {"idle", "scan", "mkdir", "guard", "construct"} => saved = 0
  /\ pc = "acquire" /\ Animated => saved < request.total
  /\ verdict \in {"none", "SUCCESS", "CANCELLED", "ERROR"}
  /\ loading \in NoLoad..MaxCaptures

LEMMA RequestFields ==
  ASSUME NEW r \in Requests
  PROVE  r.total \in 1..MaxFrames
BY CaptureAssumption DEF Requests

LEMMA StepWorkerTyped == WorkerTyped /\ [Next]_vars => WorkerTyped'
<1> SUFFICES ASSUME WorkerTyped, [Next]_vars PROVE WorkerTyped'  OBVIOUS
<1> USE CaptureAssumption DEF WorkerTyped, NoLoad
<1>1. CASE \E r \in Requests : Start(r)
  <2>1. PICK r \in Requests : Start(r)  BY <1>1
  <2>2. pc' \in {"scan", "construct"} /\ request' = r /\ capture' = capture + 1
        /\ pc = "idle" /\ capture < MaxCaptures /\ UNCHANGED <<saved, verdict, loading>>
    BY <2>1 DEF Start
  <2> QED BY <2>2 DEF Steps
<1>2. CASE Scan \/ MakeDir \/ MakeGuard
  BY <1>2 DEF Scan, MakeDir, MakeGuard, Goto, Ends, Steps, Animated
<1>3. CASE MakeAcquirer
  <2>1. request.total \in 1..MaxFrames  BY <1>3, RequestFields DEF MakeAcquirer
  <2> QED BY <1>3, <2>1 DEF MakeAcquirer, Goto, Steps, Animated
<1>4. CASE Acquire \/ AcquireFails \/ StillTaken \/ Acquired
  BY <1>4 DEF Acquire, AcquireFails, StillTaken, Acquired, Goto, Ends, Steps, Animated
<1>5. CASE SaveFrame
  <2>1. request.total \in 1..MaxFrames  BY <1>5, RequestFields DEF SaveFrame
  <2> QED BY <1>5, <2>1 DEF SaveFrame, Goto, Ends, Steps, Animated
<1>6. CASE Pace
  BY <1>6 DEF Pace, Goto, Ends, Steps, Animated
<1>7. CASE Encode \/ Encoding \/ Encoded
  BY <1>7 DEF Encode, Encoding, Encoded, Goto, Steps, Animated
<1>8. CASE CleanUp \/ CheckSize
  <2>1. Result \in {"SUCCESS", "CANCELLED", "ERROR"}  BY DEF Result
  <2> QED BY <1>8, <2>1 DEF CleanUp, CheckSize, Ends, Steps, Animated
<1>9. CASE Leave  BY <1>9 DEF Leave, Goto, Steps, Animated
<1>10. CASE Report  BY <1>10 DEF Report, Forget, Steps
<1>11. CASE Crash  BY <1>11 DEF Crash, Forget, Steps
<1>12. CASE Cancel \/ LoadCancels \/ LoadCleans \/ UNCHANGED vars
  BY <1>12 DEF Cancel, LoadCancels, LoadCleans, Animated, vars
<1> QED BY <1>1, <1>2, <1>3, <1>4, <1>5, <1>6, <1>7, <1>8, <1>9, <1>10, <1>11, <1>12
        DEF Next, Worker

\* The retries are counted up to the last.
RetriesTyped == AcqTypeOK /\ (acq = "try" => tries < MaxRetries)

LEMMA ReleaseTyped == AcqTypeOK /\ ReleasePendingFrame => lent' \in BOOLEAN /\ pending' \in BOOLEAN
BY DEF AcqTypeOK, ReleasePendingFrame

LEMMA StepRetriesTyped == RetriesTyped /\ [Next]_vars => RetriesTyped'
<1> SUFFICES ASSUME RetriesTyped, [Next]_vars PROVE RetriesTyped'  OBVIOUS
<1> USE RetriesAssumption DEF RetriesTyped
<1>1. ASSUME NEW stage, CheckCancel(stage, cancelled) PROVE RetriesTyped'
  BY <1>1 DEF CheckCancel, AcqTypeOK
<1>2. ASSUME acq' \in {"failed", "got", "none"}, tries' \in {0, tries}, ReleasePendingFrame,
             mapped' \in BOOLEAN
      PROVE  RetriesTyped'
  BY <1>2, ReleaseTyped DEF AcqTypeOK
<1>3. CASE Acquire
  <2>1. CASE Initialize(cancelled)  BY <1>1, <2>1 DEF Initialize, AcqTypeOK
  <2>2. CASE AcquireFrame(cancelled)
    <3>1. CASE acq' = "try" /\ tries' = 0 /\ ReleasePendingFrame /\ UNCHANGED mapped
      BY <3>1, ReleaseTyped DEF AcqTypeOK
    <3> QED BY <1>1, <2>2, <3>1 DEF AcquireFrame
  <2>3. CASE AcquireNextFrame(cancelled)
    <3>1. CASE acq' = "stage" /\ lent' = TRUE /\ pending' = TRUE /\ UNCHANGED <<tries, mapped>>
      BY <3>1 DEF AcqTypeOK
    <3>2. CASE /\ acq = "try" /\ tries' = tries + 1 /\ UNCHANGED <<pending, lent, mapped>>
               /\ acq' = IF tries' = MaxRetries THEN "failed" ELSE "try"
      <4>1. tries' \in 0..MaxRetries /\ (acq' = "try" => tries' < MaxRetries)
        BY <3>2 DEF AcqTypeOK
      <4>2. acq' \in {"failed", "try"}  BY <3>2
      <4> QED BY <3>2, <4>1, <4>2 DEF AcqTypeOK
    <3>3. CASE acq' = "failed" /\ UNCHANGED <<tries, pending, lent, mapped>>
      BY <3>3 DEF AcqTypeOK
    <3> QED BY <1>1, <2>3, <3>1, <3>2, <3>3, Zenon DEF AcquireNextFrame, RememberFrame, Counted
  <2>4. CASE Stage(cancelled)
    <3>1. CASE Fails /\ UNCHANGED <<tries, mapped>>  BY <1>2, <3>1 DEF Fails, AcqTypeOK
    <3>2. CASE acq' = "map" /\ UNCHANGED <<tries, pending, lent, mapped>>  BY <3>2 DEF AcqTypeOK
    <3> QED BY <1>1, <2>4, <3>1, <3>2 DEF Stage
  <2>5. CASE MapTexture(cancelled)
    <3>1. CASE Fails /\ UNCHANGED <<tries, mapped>>  BY <1>2, <3>1 DEF Fails, AcqTypeOK
    <3>2. CASE acq' = "copy" /\ mapped' = TRUE /\ UNCHANGED <<tries, pending, lent>>
      BY <3>2 DEF AcqTypeOK
    <3> QED BY <1>1, <2>5, <3>1, <3>2 DEF MapTexture
  <2>6. CASE CopyPixels(cancelled)
    BY <1>1, <1>2, <2>6 DEF CopyPixels
  <2> QED BY <1>3, <2>1, <2>2, <2>3, <2>4, <2>5, <2>6 DEF Acquire, AcquirerStep
<1>4. CASE Destruct  BY <1>2, <1>4 DEF Destruct
<1>5. CASE MakeAcquirer  BY <1>5 DEF MakeAcquirer, Construct, AcqTypeOK
<1>6. CASE Pace
  BY <1>4, <1>6 DEF Pace, Again, AcqTypeOK, acquirer
<1>7. CASE Leave  BY <1>4, <1>7 DEF Leave
<1>8. CASE Crash
  <2>1. acq' = "none" /\ tries' = 0 /\ pending' = FALSE /\ lent' = FALSE /\ mapped' = FALSE
    BY <1>8 DEF Crash
  <2>2. 0 \in 0..MaxRetries /\ 0 < MaxRetries  OBVIOUS
  <2> QED BY <2>1, <2>2, Zenon DEF AcqTypeOK
<1>9. CASE ~(MakeAcquirer \/ Acquire \/ Pace \/ Leave \/ Crash)
  <2>1. UNCHANGED acquirer
    BY <1>9
    DEF Next, Worker, Start, Scan, MakeDir, MakeGuard, AcquireFails, SaveFrame, StillTaken,
        Acquired, Encode, Encoding, Encoded, CleanUp, CheckSize, Report, Cancel, LoadCancels,
        LoadCleans, vars
  <2> QED BY <2>1 DEF acquirer, AcqTypeOK
<1> QED BY <1>3, <1>5, <1>6, <1>7, <1>8, <1>9

LEMMA StepTempTyped == WorkerTyped /\ TempTypeOK /\ [Next]_vars => TempTypeOK'
<1> SUFFICES ASSUME WorkerTyped, TempTypeOK, [Next]_vars PROVE TempTypeOK'  OBVIOUS
<1> USE DEF TempTypeOK
<1>1. CASE Scan  BY <1>1 DEF Scan, ScanAndRemove, RemoveAll
<1>2. CASE MakeDir \/ MakeGuard
  <2>1. capture \in Dirs  BY <1>2, CaptureAssumption DEF WorkerTyped, MakeDir, MakeGuard
  <2> QED BY <1>2, <2>1 DEF MakeDir, MakeTempDir, MakeGuard, Guard, tempFiles
<1>3. CASE CleanUp  BY <1>3 DEF CleanUp, Cleanup, RemoveAll
<1>4. CASE Leave  BY <1>4 DEF Leave, DestroyGuard, RemoveAll
<1>5. CASE LoadCleans  BY <1>5 DEF LoadCleans, CleanupAllRegistered, RemoveAll, StillPending
<1>6. CASE Crash  BY <1>6 DEF Crash, Dies
<1>7. CASE ~(Scan \/ MakeDir \/ MakeGuard \/ CleanUp \/ Leave \/ LoadCleans \/ Crash)
  <2>1. UNCHANGED tempFiles
    BY <1>7
    DEF Next, Worker, Start, MakeAcquirer, Acquire, AcquireFails, SaveFrame, Pace, StillTaken,
        Acquired, Encode, Encoding, Encoded, CheckSize, Report, Cancel, LoadCancels, vars
  <2> QED BY <2>1 DEF tempFiles
<1> QED BY <1>1, <1>2, <1>3, <1>4, <1>5, <1>6, <1>7

EncodersTyped ==
  /\ cancelled \in BOOLEAN /\ owned \in BOOLEAN
  /\ out \in {"none", "partial", "whole"}
  /\ StillTypeOK

LEMMA StepEncodersTyped == EncodersTyped /\ [Next]_vars => EncodersTyped'
<1> SUFFICES ASSUME EncodersTyped, [Next]_vars PROVE EncodersTyped'  OBVIOUS
<1> USE DEF EncodersTyped
<1>1. CASE Encode
  BY <1>1
  DEF Encode, GifStart, ApngStart, StillStart, ComEnter, StillTypeOK, encoder
<1>2. CASE Encoding
  <2>1. CASE GifStep(capture \in dirs) /\ UNCHANGED <<still, sidecar>>
    BY <1>2, <2>1
    DEF Encoding, GifStep, GifOpen, GifCancelled, GifCommit, GifSkip, GifFrame, GifFails, Return,
        StillTypeOK, encoder
  <2>2. CASE ApngStep(capture \in dirs) /\ UNCHANGED <<still, sidecar>>
    <3>1. CASE ApngBase
      <4>1. UNCHANGED encoder \/ (Return("Fail") /\ UNCHANGED out)  BY <3>1, Zenon DEF ApngBase
      <4> QED BY <1>2, <2>2, <4>1 DEF Encoding, Return, StillTypeOK, encoder
    <3>2. CASE ApngFrame \/ ApngSkip
      <4>1. UNCHANGED encoder  BY <3>2, Zenon DEF ApngFrame, ApngSkip
      <4> QED BY <1>2, <2>2, <4>1 DEF Encoding, StillTypeOK, encoder
    <3>3. CASE ApngLoad(capture \in dirs) \/ ApngLoaded \/ ApngCancelled \/ ApngWrite
      BY <1>2, <2>2, <3>3
      DEF Encoding, ApngLoad, ApngLoaded, ApngCancelled, ApngWrite, ComEnter, Return,
          StillTypeOK, encoder
    <3> QED BY <2>2, <3>1, <3>2, <3>3 DEF ApngStep
  <2>3. CASE StillStep(request.format)
    BY <1>2, <2>3
    DEF Encoding, StillStep, StillThrows, StillBegin, StillCom, StillAborts, StillSave,
        StillMetadata, StillCompress, StillSaveDDS, ComEnter, Return, StillTypeOK, encoder
  <2> QED BY <1>2, <2>1, <2>2, <2>3 DEF Encoding
<1>3. CASE Report \/ Crash
  BY <1>3 DEF Report, Crash, Forget, StillTypeOK
<1>4. CASE \E r \in Requests : Start(r)
  BY <1>4 DEF Start, encoders, encoder, StillTypeOK
<1>5. CASE Cancel \/ LoadCancels \/ LoadCleans \/ UNCHANGED vars
  BY <1>5 DEF Cancel, LoadCancels, AskedToStop, LoadCleans, encoders, encoder, StillTypeOK, vars
<1>6. CASE \/ Scan \/ MakeDir \/ MakeGuard \/ MakeAcquirer \/ Acquire \/ AcquireFails
           \/ SaveFrame \/ Pace \/ StillTaken \/ Acquired \/ Encoded \/ CleanUp \/ CheckSize
           \/ Leave
  BY <1>6
  DEF Scan, MakeDir, MakeGuard, MakeAcquirer, Acquire, AcquireFails, SaveFrame, Pace, StillTaken,
      Acquired, Encoded, CleanUp, CheckSize, Leave, encoders, encoder, StillTypeOK
<1> QED BY <1>1, <1>2, <1>3, <1>4, <1>5, <1>6 DEF Next, Worker

Typed == WorkerTyped /\ RetriesTyped /\ TempTypeOK /\ EncodersTyped

LEMMA InitTyped == Init => Typed
<1> SUFFICES ASSUME Init PROVE Typed  OBVIOUS
<1>1. WorkerTyped
  BY CaptureAssumption DEF Init, AtRest, WorkerTyped, Steps, NoLoad
<1>2. RetriesTyped
  <2>1. /\ acq = "none" /\ tries = 0 /\ pending = FALSE /\ lent = FALSE /\ mapped = FALSE
    BY DEF Init, AtRest, AcqInit
  <2>2. 0 \in 0..MaxRetries /\ 0 < MaxRetries  BY RetriesAssumption
  <2> QED BY <2>1, <2>2, Zenon DEF RetriesTyped, AcqTypeOK
<1>3. TempTypeOK  BY DEF Init, TempInit, TempTypeOK
<1>4. EncodersTyped  BY DEF Init, AtRest, EncoderIdle, EncodersTyped, StillTypeOK
<1> QED BY <1>1, <1>2, <1>3, <1>4 DEF Typed

\* Every variable of a capture to a file and of its parts has its type.
THEOREM FileTypeOK == Spec => []TypeOK
<1>1. Typed /\ [Next]_vars => Typed'
  BY StepWorkerTyped, StepRetriesTyped, StepTempTyped, StepEncodersTyped DEF Typed
<1>2. Typed /\ CanvasInv /\ ChunksInv /\ WorkerInv => TypeOK
  <2> SUFFICES ASSUME Typed, CanvasInv, ChunksInv, WorkerInv PROVE TypeOK  OBVIOUS
  <2>1. EncoderTypeOK
    BY DEF Typed, EncodersTyped, WorkerInv, EncInv, ComInv, ResultInv, EncoderTypeOK
  <2>2. GifTypeOK /\ ApngTypeOK
    BY DEF CanvasInv, GifInv, ChunksInv, ApngInv
  <2>3. AcqTypeOK /\ TempTypeOK /\ StillTypeOK
    BY DEF Typed, RetriesTyped, EncodersTyped
  <2> QED BY <2>1, <2>2, <2>3 DEF Typed, WorkerTyped, Steps, TypeOK
<1>3. Init => CanvasInv
  BY GifOffInv DEF Init, AtRest, CanvasInv
<1> QED BY <1>1, <1>2, <1>3, InitTyped, InitChunks, InitWorker, StepCanvas, StepChunks, StepWorker,
        PTL DEF Spec
==============================================================================
