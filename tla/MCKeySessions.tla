--------------------------- MODULE MCKeySessions ---------------------------
(* Small instances of KeySessions for TLC. *)
EXTENDS KeySessions, TLC

\* Every task runs the same code, and no wallet or file is special.
Symmetry == Permutations(Task) \cup Permutations(Wallet) \cup Permutations(File)
=============================================================================
