---------------------------- MODULE MCScanSlots ----------------------------
(* Small instances of ScanSlots for TLC. *)
EXTENDS ScanSlots, TLC

\* Every scan and every caller runs the same code, and no wallet is special.
Symmetry == Permutations(Scan) \cup Permutations(Caller) \cup Permutations(Wallet)
=============================================================================
