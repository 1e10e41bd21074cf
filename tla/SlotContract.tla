---------------------------- MODULE SlotContract ----------------------------
(***************************************************************************)
(* What the scan slots promise a wallet's database                         *)
(* (src/docs/ARCHITECTURE.md, "Scans"): one task at a time                 *)
(* writes a wallet's rows, a scan or a maintenance operation.  A scan      *)
(* writes at most once; a scan that was stopped, replaced or refused       *)
(* before it wrote never does.                                             *)
(***************************************************************************)
CONSTANTS
  Scan,    \* the scans
  Caller,  \* the tasks that run maintenance operations
  Wallet   \* the wallets

VARIABLES
  writer,  \* who writes each wallet's rows: nobody or one task
  stage    \* whether each scan may write, writes, or has ended

vars == <<writer, stage>>

Stages == {"new", "writing", "over", "returned"}

Init ==
  /\ writer = [w \in Wallet |-> {}]
  /\ stage = [s \in Scan |-> "new"]

\* A task gets the rows of a wallet that nobody writes, and gives them back.
Take(t, w) == writer[w] = {} /\ writer' = [writer EXCEPT ![w] = {t}]
Drop(t, w) == writer[w] = {t} /\ writer' = [writer EXCEPT ![w] = {}]

\* Scans that have not written will not: they were stopped, replaced or refused.
GiveUp ==
  /\ UNCHANGED writer
  /\ stage' \in [Scan -> Stages]
  /\ \A s \in Scan : stage'[s] # stage[s] => stage[s] = "new" /\ stage'[s] = "over"

\* A scan enters its wallet's slot.
Begin(s, w) ==
  /\ stage[s] = "new"
  /\ Take(s, w)
  /\ stage' = [stage EXCEPT ![s] = "writing"]

\* It has written its last row: it completed, failed, was cancelled or panicked.
End(s, w) ==
  /\ stage[s] = "writing"
  /\ Drop(s, w)
  /\ stage' = [stage EXCEPT ![s] = "over"]

\* Its task has returned, and its `stopped` token fires.
Return(s) ==
  /\ stage[s] = "over"
  /\ stage' = [stage EXCEPT ![s] = "returned"]
  /\ UNCHANGED writer

\* A maintenance operation writes.
Maintain(c, w) == Take(c, w) /\ UNCHANGED stage
EndMaintenance(c, w) == Drop(c, w) /\ UNCHANGED stage

Next ==
  \/ GiveUp
  \/ \E s \in Scan : Return(s) \/ \E w \in Wallet : Begin(s, w) \/ End(s, w)
  \/ \E c \in Caller, w \in Wallet : Maintain(c, w) \/ EndMaintenance(c, w)

Spec == Init /\ [][Next]_vars
=============================================================================
