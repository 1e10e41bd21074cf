---------------------------- MODULE ScanContract ----------------------------
(***************************************************************************)
(* What a scan stream promises its Dart listener                           *)
(* (src/docs/ARCHITECTURE.md, "Terminal events" and "Ordering"): progress  *)
(* events in the order in which they were emitted, then one terminal event *)
(* and nothing after it.  Once the scan has returned its `stopped` token   *)
(* fires, and whoever waited for it finds the stream over.                 *)
(***************************************************************************)
EXTENDS Naturals, Sequences

CONSTANTS
  Terminal,  \* the terminal events
  None       \* no terminal event

VARIABLES
  seen,    \* the progress events the listener got, by their number of emission
  ending,  \* the terminal event it got
  over     \* whether the scan has returned

vars == <<seen, ending, over>>

Init == seen = <<>> /\ ending = None /\ over = FALSE

\* A progress event, emitted after all that the listener has seen.
Deliver ==
  /\ ~over
  /\ ending = None
  /\ Len(seen') = Len(seen) + 1
  /\ seen = SubSeq(seen', 1, Len(seen))
  /\ \A i \in DOMAIN seen : seen[i] < seen'[Len(seen')]
  /\ UNCHANGED <<ending, over>>

\* The one terminal event.
Finish ==
  /\ ~over
  /\ ending = None
  /\ ending' \in Terminal
  /\ UNCHANGED <<seen, over>>

\* The scan returns; a listener that left has no terminal event.
Return ==
  /\ ~over
  /\ over' = TRUE
  /\ UNCHANGED <<seen, ending>>

Next == Deliver \/ Finish \/ Return

Spec == Init /\ [][Next]_vars
=============================================================================
