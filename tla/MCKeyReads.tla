----------------------------- MODULE MCKeyReads -----------------------------
(* A small instance of KeyReads for TLC. *)
EXTENDS KeyReads, TLC

\* Every task runs the same code, and no wallet or file is special.
Symmetry == Permutations(Task) \cup Permutations(Wallet) \cup Permutations(File)
=============================================================================
