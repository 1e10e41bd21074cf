--------------------------- MODULE MCSendPipeline ---------------------------
(* Small instances of SendPipeline for TLC. *)
EXTENDS SendPipeline, TLC

\* No send, output or database is special.
Symmetry == Permutations(Send) \cup Permutations(Output) \cup Permutations(File)
=============================================================================
