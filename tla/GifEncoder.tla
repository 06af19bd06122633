----------------------------- MODULE GifEncoder -----------------------------
(***************************************************************************)
(* encoding/GifEncoder.cpp, EncodeFromFiles(): an animated GIF from the    *)
(* frames on the disk.  All frames are quantised against one palette, so   *)
(* a frame is a function from pixels to the indices below `colours'; the   *)
(* index `colours' itself is the reserved transparent entry.  A frame is   *)
(* written whole or, in delta modes 1 and 2, as the rectangle that differs *)
(* from the previous frame.  WIC is external: each call succeeds or fails. *)
(* What a frame needs to be shown as it was made (the writer of its        *)
(* metadata, disposal, transparency flag and index, offset) may be refused *)
(* too: the encoder does not look, or only logs, and goes on.              *)
(***************************************************************************)
EXTENDS Encoder

CONSTANT MaxColours       \* palette entries for real colours (255 in the code)
ASSUME ColoursAssumption == MaxColours \in Nat \ {0}

VARIABLE gif
(* step      "off", "open" or "frames"
   left      frame files still to do
   mode      deltaMode
   colours   entries of the shared palette, 0 until it is built
   prev      prevIndices, Empty until a frame has been written
   canvas    what a viewer of the file so far has on its canvas
   lost      metadata was refused since the last frame that was written whole: what a
             viewer then shows is left open, canvas is Empty *)

GifOff == [step |-> "off", left |-> 0, mode |-> 0, colours |-> 0, prev |-> Empty,
           canvas |-> Empty, lost |-> FALSE]

GifTypeOK ==
  gif \in [step : {"off", "open", "frames"}, left : Nat, mode : 0..2,
           colours : 0..MaxColours, prev : [Pixels -> Clear..(MaxColours - 1)],
           canvas : [Pixels -> Clear..MaxColours], lost : BOOLEAN]

\* The first index past the real colours: no quantised pixel has it.
TransparentIdx_Last(colours) == colours - 1  \* defect: an index real pixels use
TransparentIdx(colours) == colours

Disposed(canvas) == canvas                   \* disposal 1: leave it as it is

\* Does a frame differ from the one before?  The first one has none before it.
HasChanges(curr) == gif.mode >= 1 /\ gif.prev # Empty /\ gif.prev # curr

\* The area written and its pixels, a region if one can be allocated.
WholeFrame(curr) == [area |-> Pixels, px |-> curr, holes |-> FALSE]
Region(curr) ==
  [area  |-> Box({p \in Pixels : gif.prev[p] # curr[p]}),
   px    |-> [p \in Pixels |-> IF gif.mode = 2 /\ gif.prev[p] = curr[p]
                               THEN TransparentIdx(gif.colours) ELSE curr[p]],
   holes |-> gif.mode = 2]
Written(curr) == {WholeFrame(curr)} \cup IF HasChanges(curr) THEN {Region(curr)} ELSE {}

\* What a viewer makes of it: the reserved entry is a hole.
Seen(w) ==
  [p \in Pixels |-> IF w.holes /\ w.px[p] = TransparentIdx(gif.colours)
                    THEN Clear ELSE w.px[p]]

\* EncodeFromFiles() is called with n frame files; COM may be unusable.
GifStart(n, mode) ==
  /\ gif.step = "off" /\ er = "none"
  /\ \/ /\ ComEnter /\ er' = er
        /\ gif' = [GifOff EXCEPT !.step = "open", !.left = n, !.mode = mode]
     \/ er' = "Fail" /\ UNCHANGED <<gif, com, owned>>
  /\ UNCHANGED out

\* The factory and the output file are opened, or the call fails.
GifOpen ==
  /\ gif.step = "open"
  /\ \/ gif' = [gif EXCEPT !.step = "frames"] /\ out' = "partial" /\ UNCHANGED <<er, com, owned>>
     \/ Return("Fail") /\ gif' = GifOff /\ UNCHANGED out

\* The token is asked before every frame; the file is left as it is.
GifCancelled ==
  /\ gif.step = "frames" /\ gif.left > 0 /\ cancelled
  /\ Return("Cancelled") /\ gif' = GifOff
  /\ UNCHANGED out

\* The shared palette is made from the first frame that loads.
Palettes == IF gif.colours = 0 THEN 1..MaxColours ELSE {gif.colours}

\* A frame that cannot be loaded, or not be quantised or locked once the palette is
\* made, is left out.
GifSkip(readable) ==
  /\ gif.step = "frames" /\ gif.left > 0 /\ ~cancelled
  /\ \E n \in {gif.colours} \cup (IF readable THEN Palettes ELSE {}) :
       gif' = [gif EXCEPT !.left = @ - 1, !.colours = n]
  /\ UNCHANGED encoder

Remembered(curr) == curr                     \* prevIndices

\* Metadata of this frame is refused, or was of an earlier one this one does not cover.
Lost(w, curr, refused) == refused \/ (gif.lost /\ w # WholeFrame(curr))

\* A frame is written, with all of its metadata or without some.
GifFrame(readable) ==
  /\ gif.step = "frames" /\ gif.left > 0 /\ ~cancelled /\ readable
  /\ \E n \in Palettes, refused \in BOOLEAN :
       \E curr \in [Pixels -> 0..(n - 1)] : \E w \in Written(curr) :
         gif' = [gif EXCEPT
                   !.left = @ - 1,
                   !.colours = n,
                   !.prev = Remembered(curr),
                   !.canvas = IF Lost(w, curr, refused) THEN Empty
                              ELSE Disposed(Draw(@, w.area, Seen(w))),
                   !.lost = Lost(w, curr, refused)]
  /\ UNCHANGED encoder

\* The palette or a call that writes a frame and is looked at fails: so does the encoding.
GifFails(readable) ==
  /\ gif.step = "frames" /\ gif.left > 0 /\ ~cancelled /\ readable
  /\ Return("Fail") /\ gif' = GifOff
  /\ UNCHANGED out

CommitResult_Ignored(ok) == "Ok"             \* defect: Commit() is not checked
CommitResult(ok) == IF ok THEN "Ok" ELSE "Fail"

\* The trailer is written.
GifCommit ==
  /\ gif.step = "frames" /\ gif.left = 0
  /\ \E ok \in BOOLEAN :
       /\ Return(CommitResult(ok))
       /\ out' = IF ok THEN "whole" ELSE out
  /\ gif' = GifOff

GifStep(readable) ==
  \/ GifOpen \/ GifCancelled \/ GifCommit
  \/ GifSkip(readable) \/ GifFrame(readable) \/ GifFails(readable)

-----------------------------------------------------------------------------
\* After every frame a viewer's canvas is that frame, whichever of them were written
\* whole, as a region or with holes, and whichever were skipped; after a frame whose
\* disposal, transparency or offset was refused, only from the next frame on that is
\* written whole and keeps its metadata.
CanvasIsFrame == ~gif.lost => gif.canvas = gif.prev
===============================================================================
