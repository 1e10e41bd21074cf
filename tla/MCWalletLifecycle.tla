-------------------------- MODULE MCWalletLifecycle --------------------------
(* WalletLifecycle for TLC: both databases hold a wallet of the same name   *)
(* and row id.                                                              *)
EXTENDS WalletLifecycle, TLC

CONSTANTS c1, c2, a, b, w, v, x, y

MCFirstNames == [n \in Name |-> IF n = w THEN 1 ELSE None]

\* One call makes, deletes and renames wallets while the other checks a passphrase
\* first; both make wallets, to race for the network.
MCKinds == (c1 :> {"create", "delete", "rename"}) @@ (c2 :> {"create", "change", "abandon"})

MCSymmetry == Permutations(File) \union Permutations(Network)

=============================================================================
