------------------------------ MODULE MCCaptures ------------------------------
(***************************************************************************)
(* FileCapture with frames of three pixels, where a rectangle, a hole in   *)
(* it and a pixel outside it all occur.                                    *)
(***************************************************************************)
EXTENDS FileCapture

\* Levels 0, 1, 2 with a threshold of 1: still, creeping up and down, and jumping pixels.
MCPictures ==
  {[p \in Pixels |-> c[p[1]]] : c \in {<<0, 0, 0>>, <<1, 0, 2>>, <<2, 1, 2>>}}
MCDirs == 1..MaxCaptures
===============================================================================
