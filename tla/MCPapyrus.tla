------------------------------ MODULE MCPapyrus ------------------------------
(* Instance of PapyrusProtocol for TLC. *)
EXTENDS PapyrusProtocol

\* A save taken between captures, during one (of this session or of another), and by a
\* press that has announced its capture and not set the timer yet.
MCSaves ==
  {[latent |-> FALSE, starting |-> FALSE, captureSeq |-> 0, armed |-> FALSE],
   [latent |-> TRUE, starting |-> FALSE, captureSeq |-> FirstSequence + 1, armed |-> TRUE],
   [latent |-> TRUE, starting |-> TRUE, captureSeq |-> 0, armed |-> FALSE]}
================================================================================
