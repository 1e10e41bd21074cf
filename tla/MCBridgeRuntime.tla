-------------------------- MODULE MCBridgeRuntime --------------------------
(* BridgeRuntime for TLC: three calls about one wallet, or one of them      *)
(* about another one.  The first may be any function, the third one of      *)
(* those with fewer waits but init_logger, which each of the two engines    *)
(* calls once: that bounds the run.                                         *)
EXTENDS BridgeRuntime

CONSTANTS t1, t2, t3, w1, w2

All == DOMAIN PrimaryDispatch \union DOMAIN SyncDispatch
\* delete_wallet, rename_wallet; abandon_send, change_passphrase, rescan.
Long == {12, 33}
Middle == {3, 6, 34}
InitLogger == {27}

MCOffered == [t \in Task |-> CASE t = t1 -> All
                               [] t = t2 -> All \ Long
                               [] t = t3 -> All \ (Long \union Middle \union InitLogger)]
MCWallets == {[t \in Task |-> w1], [t \in Task |-> IF t = t3 THEN w2 ELSE w1]}

=============================================================================
