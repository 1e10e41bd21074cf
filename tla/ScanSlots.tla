----------------------------- MODULE ScanSlots -----------------------------
(***************************************************************************)
(* Scan handles and the scan slot of each wallet: src/src/api/scanner.rs.  *)
(*                                                                         *)
(* A scan is one use of one handle, run by one async task; its `await`s    *)
(* are the points where other tasks run, and each critical section of      *)
(* SCAN_STATE is one action.  Callers are the tasks that stop scans:       *)
(* stop_scan, the wallet's lock (db.rs) and the maintenance operations     *)
(* change_passphrase and abandon_send.  The scanner itself (minotari) is   *)
(* external: it runs until it ends, fails, panics or is cancelled.         *)
(***************************************************************************)
EXTENDS Naturals, FiniteSets

CONSTANTS
  Wallet,  \* wallet names
  Scan,    \* scan handles, each used once
  Caller,  \* tasks that stop scans
  None,    \* no scan, no task
  Kinds,   \* bound: the calls the callers make, of Call
  Panics   \* whether the scanner may panic

Priority == {"Foreground", "Background"}
Terminal == {"Completed", "Cancelled", "Superseded", "Error"}
\* The calls that stop scans, and what a scan's token is cancelled for.
Call == {"stop_scan", "lock", "maintenance"}
Cause == {"stop", "replaced", "closed"}

ASSUME ConstantsAssumption ==
  /\ None \notin Scan \cup Caller \cup Wallet \cup Terminal \cup Call \cup Cause
  /\ Scan \cap Caller = {}
  /\ Kinds \subseteq Call
  /\ Panics \in BOOLEAN

VARIABLES
  of,           \* ScanHandle.wallet_name (equal to ScanConfiguration.wallet_name)
  priority,     \* ScanConfiguration.priority
  issued,       \* ScanState.issued
  stopped_before_start, \* ScanState.stopped_before_start
  starting,     \* ScanState.starting
  running,      \* ScanState.running: the scan in each wallet's slot
  cancelled,    \* scans whose controller's `token` is cancelled
  superseded,   \* scans whose `superseded` flag is set
  stopped,      \* scans whose `stopped` token fired
  maintenance,  \* MAINTENANCE: who holds each wallet's lock
  live,         \* minotari: the wallets that have a key session
  pc,           \* where each scan's task is
  previous,     \* the scan whose slot a scan took
  outcome,      \* the terminal event a scan will send or has sent
  at,           \* where each caller is
  kind,         \* what the caller runs: a stop, a lock or a maintenance operation, or None
  on,           \* its wallet
  target,       \* the scan it stops, or whose `stopped` token it waits for
  replacement,  \* history: the scan that took a scan's slot from it
  cause,        \* history: what first cancelled a scan's token
  stop_returned \* history: claimed scans whose stop_scan call returned before they ended

handles == <<issued, stopped_before_start, starting>>
slots   == <<running, cancelled, superseded, replacement, cause>>
scans   == <<pc, previous, outcome>>
callers == <<at, kind, on, target>>
fixed   == <<of, priority>>
vars    == <<fixed, handles, slots, stopped, maintenance, live, scans, callers, stop_returned>>

\* A scan that may write the wallet's rows.
Writing == {"rollback", "scanning"}
\* A scan that passed the session check and has not left its slot.
Admitted == {"waiting", "claiming", "queued", "rollback", "scanning"}
Pc == {"none", "issued", "admitted", "clearing", "leaving", "ending", "done", "panicked"}
      \cup Admitted

TypeOK ==
  /\ of \in [Scan -> Wallet]
  /\ priority \in [Scan -> Priority]
  /\ \A S \in {issued, stopped_before_start, starting, cancelled, superseded, stopped,
               stop_returned} : S \subseteq Scan
  /\ running \in [Wallet -> Scan \cup {None}]
  /\ maintenance \in [Wallet -> Scan \cup Caller \cup {None}]
  /\ live \subseteq Wallet
  /\ pc \in [Scan -> Pc]
  /\ previous \in [Scan -> Scan \cup {None}]
  /\ outcome \in [Scan -> Terminal \cup {None}]
  /\ at \in [Caller -> {"idle", "gate", "stop", "wait", "write"}]
  /\ kind \in [Caller -> Call \cup {None}]
  /\ on \in [Caller -> Wallet]
  /\ target \in [Caller -> Scan \cup {None}]
  /\ replacement \in [Scan -> Scan \cup {None}]
  /\ cause \in [Scan -> Cause \cup {None}]

-----------------------------------------------------------------------------
(* Helpers *)

Goto(s, l) == pc' = [pc EXCEPT ![s] = l]
Move(c, l) == at' = [at EXCEPT ![c] = l]
SetOutcome(s, o) == outcome' = [outcome EXCEPT ![s] = o]

\* What cancelling scan s's token for reason r does; a cancelled token stays so.
CancelToken(s, r) ==
  /\ cancelled' = cancelled \cup {s}
  /\ cause' = IF s \in cancelled THEN cause ELSE [cause EXCEPT ![s] = r]

\* stopped_event: the terminal event of a scan stopped before the scanner ran.
StoppedEvent(s) == IF s \in superseded THEN "Superseded" ELSE "Cancelled"

\* Mutant of CancelWalletScans: only the running scan is cancelled.
CancelWalletScansRunning(w) ==
  /\ IF running[w] = None THEN UNCHANGED <<cancelled, cause>>
                          ELSE CancelToken(running[w], "stop")
  /\ UNCHANGED <<handles, running, superseded, replacement>>

\* cancel_wallet_scans: drop the wallet's starting scans, cancel the running one.
CancelWalletScans(w) ==
  /\ starting' = {s \in starting : of[s] # w}
  /\ IF running[w] = None THEN UNCHANGED <<cancelled, cause>>
                          ELSE CancelToken(running[w], "stop")
  /\ UNCHANGED <<issued, stopped_before_start, running, superseded, replacement>>

-----------------------------------------------------------------------------
(* A scan *)

\* create_scan_handle.
CreateHandle(s) ==
  /\ pc[s] = "none"
  /\ issued' = issued \cup {s}
  /\ Goto(s, "issued")
  /\ UNCHANGED <<fixed, stopped_before_start, starting, slots, stopped, maintenance, live,
                 previous, outcome, callers, stop_returned>>

\* claim_and_scan: a handle stopped before its scan started ends it Cancelled.
\* (A used handle or one of another wallet errors and changes nothing.)
Claim(s) ==
  /\ pc[s] = "issued"
  /\ \E p \in Priority : priority' = [priority EXCEPT ![s] = p]
  /\ IF s \in stopped_before_start
       THEN /\ stopped_before_start' = stopped_before_start \ {s}
            /\ SetOutcome(s, "Cancelled")
            /\ Goto(s, "ending")
            /\ UNCHANGED <<issued, starting>>
       ELSE /\ issued' = issued \ {s}
            /\ starting' = starting \cup {s}
            /\ Goto(s, "admitted")
            /\ UNCHANGED <<stopped_before_start, outcome>>
  /\ UNCHANGED <<of, slots, stopped, maintenance, live, previous, callers, stop_returned>>

\* unlocked_account, before anything is replaced.
CheckSession(s) ==
  /\ pc[s] = "admitted"
  /\ of[s] \in live
  /\ Goto(s, "waiting")
  /\ UNCHANGED <<fixed, handles, slots, stopped, maintenance, live, previous, outcome,
                 callers, stop_returned>>

\* The database, the session check or the rescan height refuses the start.
RefuseStart(s) ==
  /\ pc[s] = "admitted"
  /\ SetOutcome(s, "Error")
  /\ Goto(s, "leaving")
  /\ UNCHANGED <<fixed, handles, slots, stopped, maintenance, live, previous, callers,
                 stop_returned>>

\* Mutant of WaitMaintenance: a starting scan does not wait for the wallet's lock.
WaitMaintenanceIgnored(s) ==
  /\ pc[s] = "waiting"
  /\ Goto(s, "claiming")
  /\ UNCHANGED <<fixed, handles, slots, stopped, maintenance, live, previous, outcome,
                 callers, stop_returned>>

\* begin_maintenance, as a starting scan takes it briefly.
WaitMaintenance(s) ==
  /\ pc[s] = "waiting"
  /\ maintenance[of[s]] = None
  /\ maintenance' = [maintenance EXCEPT ![of[s]] = s]
  /\ Goto(s, "claiming")
  /\ UNCHANGED <<fixed, handles, slots, stopped, live, previous, outcome, callers,
                 stop_returned>>

\* Mutant of Refused: whoever is in the slot is replaced.
RefusedNever(s) == FALSE

\* take_slot refuses a Background scan over a Foreground one that is still going.
Refused(s) ==
  LET current == running[of[s]]
  IN  /\ current # None
      /\ priority[current] = "Foreground" /\ priority[s] = "Background"
      /\ current \notin cancelled
      /\ current \notin stopped

\* Mutant of TakeSlot: the replaced scan is marked superseded even when stopped before.
TakeSlotMarks(s) ==
  LET current == running[of[s]]
  IN  /\ running' = [running EXCEPT ![of[s]] = s]
      /\ previous' = [previous EXCEPT ![s] = current]
      /\ superseded' = superseded \cup ({current} \ {None})
      /\ IF current = None
           THEN UNCHANGED <<cancelled, cause, replacement>>
           ELSE /\ CancelToken(current, "replaced")
                /\ replacement' = [replacement EXCEPT ![current] = s]

\* Mutant of TakeSlot: the slot's former scan is not handed back to be waited for.
TakeSlotForgets(s) ==
  LET current == running[of[s]]
  IN  /\ running' = [running EXCEPT ![of[s]] = s]
      /\ previous' = [previous EXCEPT ![s] = None]
      /\ IF current = None
           THEN UNCHANGED <<superseded, cancelled, cause, replacement>>
           ELSE /\ superseded' = IF current \in cancelled THEN superseded
                                                          ELSE superseded \cup {current}
                /\ CancelToken(current, "replaced")
                /\ replacement' = [replacement EXCEPT ![current] = s]

\* take_slot: supersede whoever is in the slot, unless it was being stopped anyway.
TakeSlot(s) ==
  LET current == running[of[s]]
  IN  /\ running' = [running EXCEPT ![of[s]] = s]
      /\ previous' = [previous EXCEPT ![s] = current]
      /\ IF current = None
           THEN UNCHANGED <<superseded, cancelled, cause, replacement>>
           ELSE /\ superseded' = IF current \in cancelled THEN superseded
                                                          ELSE superseded \cup {current}
                /\ CancelToken(current, "replaced")
                /\ replacement' = [replacement EXCEPT ![current] = s]

\* Mutant of ClaimSlot: a scan stopped while it waited takes its slot all the same.
ClaimSlotAnyway(s) ==
  /\ pc[s] = "claiming"
  /\ starting' = starting \ {s}
  /\ maintenance' = [maintenance EXCEPT ![of[s]] = None]
  /\ \/ /\ Refused(s)
        /\ SetOutcome(s, "Error")
        /\ Goto(s, "leaving")
        /\ UNCHANGED <<slots, previous>>
     \/ /\ ~Refused(s)
        /\ TakeSlot(s)
        /\ Goto(s, "queued")
        /\ UNCHANGED outcome
  /\ UNCHANGED <<fixed, issued, stopped_before_start, stopped, live, callers, stop_returned>>

\* The critical section that takes the slot, after which maintenance is dropped.
ClaimSlot(s) ==
  /\ pc[s] = "claiming"
  /\ starting' = starting \ {s}
  /\ maintenance' = [maintenance EXCEPT ![of[s]] = None]
  /\ \/ /\ s \notin starting
        /\ SetOutcome(s, "Cancelled")
        /\ Goto(s, "leaving")
        /\ UNCHANGED <<slots, previous>>
     \/ /\ s \in starting /\ Refused(s)
        /\ SetOutcome(s, "Error")
        /\ Goto(s, "leaving")
        /\ UNCHANGED <<slots, previous>>
     \/ /\ s \in starting /\ ~Refused(s)
        /\ TakeSlot(s)
        /\ Goto(s, "queued")
        /\ UNCHANGED outcome
  /\ UNCHANGED <<fixed, issued, stopped_before_start, stopped, live, callers, stop_returned>>

\* Mutant of EnterSlot: it waits for a scan that was in the slot even when none was.
EnterSlotWaits(s) ==
  /\ pc[s] = "queued"
  /\ previous[s] \in stopped
  /\ previous' = [previous EXCEPT ![s] = None]
  /\ IF s \in cancelled
       THEN SetOutcome(s, StoppedEvent(s)) /\ Goto(s, "clearing")
       ELSE UNCHANGED outcome /\ \E l \in Writing : Goto(s, l)
  /\ UNCHANGED <<fixed, handles, slots, stopped, maintenance, live, callers, stop_returned>>

\* The scan it replaced has stopped; scan_in_slot begins.
EnterSlot(s) ==
  /\ pc[s] = "queued"
  /\ previous[s] \in stopped \cup {None}
  /\ previous' = [previous EXCEPT ![s] = None]
  /\ IF s \in cancelled
       THEN SetOutcome(s, StoppedEvent(s)) /\ Goto(s, "clearing")
       ELSE UNCHANGED outcome /\ \E l \in Writing : Goto(s, l)
  /\ UNCHANGED <<fixed, handles, slots, stopped, maintenance, live, callers, stop_returned>>

\* rollback_account returned: run the scanner, unless stopped meanwhile.
FinishRollback(s) ==
  /\ pc[s] = "rollback"
  /\ \/ SetOutcome(s, "Error") /\ Goto(s, "clearing")
     \/ /\ s \in cancelled
        /\ SetOutcome(s, StoppedEvent(s)) /\ Goto(s, "clearing")
     \/ /\ s \notin cancelled
        /\ Goto(s, "scanning") /\ UNCHANGED outcome
  /\ UNCHANGED <<fixed, handles, slots, stopped, maintenance, live, previous, callers,
                 stop_returned>>

\* The forwarder's callback fails: the Dart stream was closed.
CloseStream(s) ==
  /\ pc[s] = "scanning"
  /\ CancelToken(s, "closed")
  /\ UNCHANGED <<fixed, handles, running, superseded, replacement, stopped, maintenance, live,
                 scans, callers, stop_returned>>

\* The scanner and the forwarder returned: an error first, then Superseded, then the
\* scanner's own terminal event (Cancelled when it reported none).
ScannerEnds(s) ==
  /\ pc[s] = "scanning"
  /\ \E o \in {"Completed", "Cancelled", "Error"} :
       /\ o = "Cancelled" => s \in cancelled
       /\ SetOutcome(s, IF o # "Error" /\ s \in superseded THEN "Superseded" ELSE o)
  /\ Goto(s, "clearing")
  /\ UNCHANGED <<fixed, handles, slots, stopped, maintenance, live, previous, callers,
                 stop_returned>>

\* Mutant of ClearSlot: the slot entry is left behind.
ClearSlotKeeps(s) ==
  /\ pc[s] = "clearing"
  /\ Goto(s, "leaving")
  /\ UNCHANGED <<fixed, handles, slots, stopped, maintenance, live, previous, outcome, callers,
                 stop_returned>>

\* clear_scan_if_current.
ClearSlot(s) ==
  /\ pc[s] = "clearing"
  /\ running' = IF running[of[s]] = s THEN [running EXCEPT ![of[s]] = None] ELSE running
  /\ Goto(s, "leaving")
  /\ UNCHANGED <<fixed, handles, cancelled, superseded, replacement, cause, stopped, maintenance,
                 live, previous, outcome, callers, stop_returned>>

\* claim_and_scan forgets the starting entry, however scan() ended.
LeaveStarting(s) ==
  /\ pc[s] = "leaving"
  /\ starting' = starting \ {s}
  /\ Goto(s, "ending")
  /\ UNCHANGED <<fixed, issued, stopped_before_start, slots, stopped, maintenance, live, previous,
                 outcome, callers, stop_returned>>

\* The scan's controller and its configuration are gone, and with them what they say.
DropController(s) ==
  /\ cancelled' = cancelled \ {s}
  /\ superseded' = superseded \ {s}
  /\ replacement' = [replacement EXCEPT ![s] = None]
  /\ cause' = [cause EXCEPT ![s] = None]
  /\ outcome' = [outcome EXCEPT ![s] = None]
  /\ priority' = [priority EXCEPT ![s] = "Background"]
  /\ stop_returned' = stop_returned \ {s}

\* Mutant of Return: `stopped` does not fire for a cancelled scan.
ReturnSilently(s) ==
  /\ pc[s] = "ending"
  /\ stopped' = IF s \in cancelled THEN stopped ELSE stopped \cup {s}
  /\ Goto(s, "done")
  /\ DropController(s)
  /\ UNCHANGED <<of, handles, running, maintenance, live, previous, callers>>

\* run_scan sends the one terminal event and returns; its drop guard fires `stopped`.
Return(s) ==
  /\ pc[s] = "ending"
  /\ stopped' = stopped \cup {s}
  /\ DropController(s)
  /\ Goto(s, "done")
  /\ UNCHANGED <<of, handles, running, maintenance, live, previous, callers>>

\* The task panics in the scanner: the drop guard fires, the slot entry stays.
Panic(s) ==
  /\ Panics
  /\ pc[s] = "scanning"
  /\ stopped' = stopped \cup {s}
  /\ Goto(s, "panicked")
  /\ UNCHANGED <<fixed, handles, slots, maintenance, live, previous, outcome, callers,
                 stop_returned>>

-----------------------------------------------------------------------------
(* Callers *)

\* stop_scan before the scan started: the handle is marked, and it returns.
StopIssued(c, s) ==
  /\ s \in issued
  /\ issued' = issued \ {s}
  /\ stopped_before_start' = stopped_before_start \cup {s}
  /\ UNCHANGED <<starting, cancelled, cause, callers, stop_returned>>

\* stop_scan while the scan starts: its entry is removed, and it returns.
StopStarting(c, s) ==
  /\ s \in starting
  /\ starting' = starting \ {s}
  /\ stop_returned' = stop_returned \cup {s}
  /\ UNCHANGED <<issued, stopped_before_start, cancelled, cause, callers>>

\* stop_scan of the scan in the slot: cancel it, and wait for it.
StopRunning(c, s) ==
  /\ s \notin issued \cup starting
  /\ running[of[s]] = s
  /\ CancelToken(s, "stop")
  /\ kind' = [kind EXCEPT ![c] = "stop_scan"]
  /\ on' = [on EXCEPT ![c] = of[s]]
  /\ target' = [target EXCEPT ![c] = s]
  /\ Move(c, "wait")
  /\ UNCHANGED <<handles, stop_returned>>

\* stop_scan of any other handle returns at once.
StopOther(c, s) ==
  /\ s \notin issued \cup starting
  /\ running[of[s]] # s
  /\ stop_returned' = IF pc[s] = "issued" THEN stop_returned
                                          ELSE stop_returned \cup ({s} \ stopped)
  /\ UNCHANGED <<handles, cancelled, cause, callers>>

StopScan(c, s) ==
  /\ "stop_scan" \in Kinds
  /\ at[c] = "idle"
  /\ pc[s] # "none"
  /\ StopIssued(c, s) \/ StopStarting(c, s) \/ StopRunning(c, s) \/ StopOther(c, s)
  /\ UNCHANGED <<fixed, running, superseded, replacement, stopped, maintenance, live, scans>>

\* session::lock with the wallet's gate held (module KeySessions).
LockSession(c, w) ==
  /\ "lock" \in Kinds
  /\ at[c] = "idle"
  /\ \A d \in Caller : ~(at[d] = "gate" /\ on[d] = w)
  /\ live' = live \ {w}
  /\ kind' = [kind EXCEPT ![c] = "lock"]
  /\ on' = [on EXCEPT ![c] = w]
  /\ Move(c, "gate")
  /\ UNCHANGED <<fixed, handles, slots, stopped, maintenance, scans, target, stop_returned>>

\* lock_session_gate_held cancels the wallet's scans, then the gate is free.
CancelUnderGate(c) ==
  /\ at[c] = "gate"
  /\ CancelWalletScans(on[c])
  /\ Move(c, "stop")
  /\ UNCHANGED <<fixed, stopped, maintenance, live, scans, kind, on, target, stop_returned>>

\* begin_maintenance of change_passphrase or abandon_send.
BeginMaintenance(c, w) ==
  /\ "maintenance" \in Kinds
  /\ at[c] = "idle"
  /\ maintenance[w] = None
  /\ maintenance' = [maintenance EXCEPT ![w] = c]
  /\ kind' = [kind EXCEPT ![c] = "maintenance"]
  /\ on' = [on EXCEPT ![c] = w]
  /\ Move(c, "stop")
  /\ UNCHANGED <<fixed, handles, slots, stopped, live, scans, target, stop_returned>>

\* stop_wallet_scans: cancel, and remember whose `stopped` token to wait for.
StopWalletScans(c) ==
  /\ at[c] = "stop"
  /\ CancelWalletScans(on[c])
  /\ target' = [target EXCEPT ![c] = running[on[c]]]
  /\ Move(c, "wait")
  /\ UNCHANGED <<fixed, stopped, maintenance, live, scans, kind, on, stop_returned>>

\* The `stopped` token fired (or there was nothing to wait for).
WaitStopped(c) ==
  /\ at[c] = "wait"
  /\ target[c] \in stopped \cup {None}
  /\ IF kind[c] = "maintenance"
       THEN Move(c, "write") /\ UNCHANGED kind
       ELSE Move(c, "idle") /\ kind' = [kind EXCEPT ![c] = None]
  /\ stop_returned' = IF kind[c] = "stop_scan" THEN stop_returned \cup ({target[c]} \ stopped)
                                               ELSE stop_returned
  /\ target' = [target EXCEPT ![c] = None]
  /\ UNCHANGED <<fixed, handles, slots, stopped, maintenance, live, scans, on>>

\* The maintenance write is done, and the guard is dropped.
EndMaintenance(c) ==
  /\ at[c] = "write"
  /\ maintenance' = [maintenance EXCEPT ![on[c]] = None]
  /\ kind' = [kind EXCEPT ![c] = None]
  /\ Move(c, "idle")
  /\ UNCHANGED <<fixed, handles, slots, stopped, live, scans, on, target, stop_returned>>

\* unlock_wallet stores a key session, with the gate held.
UnlockSession(w) ==
  /\ \A c \in Caller : ~(at[c] = "gate" /\ on[c] = w)
  /\ live' = live \cup {w}
  /\ UNCHANGED <<fixed, handles, slots, stopped, maintenance, scans, callers, stop_returned>>

-----------------------------------------------------------------------------

Init ==
  /\ of \in [Scan -> Wallet]
  /\ priority = [s \in Scan |-> "Background"]
  /\ issued = {} /\ stopped_before_start = {} /\ starting = {}
  /\ running = [w \in Wallet |-> None]
  /\ cancelled = {} /\ superseded = {} /\ stopped = {}
  /\ maintenance = [w \in Wallet |-> None]
  /\ live = {}
  /\ pc = [s \in Scan |-> "none"]
  /\ previous = [s \in Scan |-> None]
  /\ outcome = [s \in Scan |-> None]
  /\ at = [c \in Caller |-> "idle"]
  /\ kind = [c \in Caller |-> None]
  /\ on \in [Caller -> Wallet]
  /\ target = [c \in Caller |-> None]
  /\ replacement = [s \in Scan |-> None]
  /\ cause = [s \in Scan |-> None]
  /\ stop_returned = {}

\* Steps the runtime takes for a scan that began, the scanner's own end excepted.
ScanStep(s) ==
  \/ CheckSession(s) \/ RefuseStart(s) \/ ClaimSlot(s) \/ EnterSlot(s) \/ FinishRollback(s)
  \/ ClearSlot(s) \/ LeaveStarting(s) \/ Return(s)

CallerStep(c) ==
  \/ CancelUnderGate(c) \/ StopWalletScans(c) \/ WaitStopped(c) \/ EndMaintenance(c)

Next ==
  \/ \E s \in Scan :
       \/ CreateHandle(s) \/ Claim(s) \/ WaitMaintenance(s) \/ ScanStep(s)
       \/ CloseStream(s) \/ ScannerEnds(s) \/ Panic(s)
  \/ \E c \in Caller :
       \/ CallerStep(c)
       \/ \E s \in Scan : StopScan(c, s)
       \/ \E w \in Wallet : LockSession(c, w) \/ BeginMaintenance(c, w)
  \/ \E w \in Wallet : UnlockSession(w)

Spec == Init /\ [][Next]_vars

\* The runtime runs every task that can run; the scanner returns once cancelled (its
\* node request ends at the request timeout); tokio's mutex serves its waiters in turn.
FairSpec ==
  /\ Spec
  /\ \A s \in Scan :
       /\ WF_vars(ScanStep(s))
       /\ WF_vars(s \in cancelled /\ ScannerEnds(s))
       /\ SF_vars(WaitMaintenance(s))
  /\ \A c \in Caller : WF_vars(CallerStep(c))

-----------------------------------------------------------------------------
(* Properties *)

\* Two scans of one wallet never write its rows at the same time: a scan that takes
\* the slot waits for the one it replaced (scanner.rs:568-569, ARCHITECTURE.md:172-174).
OneScanWrites ==
  \A s1, s2 \in Scan :
    s1 # s2 /\ of[s1] = of[s2] /\ pc[s1] \in Writing => pc[s2] \notin Writing

\* No scan of a wallet runs while a passphrase change or an abandon writes it
\* (scanner.rs:84-89, send_transaction.rs:192-194).
MaintenanceIsAlone ==
  \A c \in Caller, s \in Scan : at[c] = "write" /\ of[s] = on[c] => pc[s] \notin Writing

\* Once stop_scan returned, the scan it stopped never touches the database, at
\* whatever point of its start it was (scanner.rs:126-129).  A scan that lost its slot
\* to a newer one may still be winding down.
StoppedScanNeverWrites ==
  \A s \in stop_returned : replacement[s] = None => pc[s] \notin Writing

\* The terminal event tells what ended the scan: Superseded only when a newer scan
\* replaced it before anything else cancelled it, and then never Cancelled
\* (scanner.rs:196-200, 629-630).
TerminalTellsTheCause ==
  \A s \in Scan :
    /\ outcome[s] = "Superseded" => cause[s] = "replaced"
    /\ outcome[s] = "Cancelled" => cause[s] # "replaced"

\* A Background scan never cuts off a Foreground one, unless that one's task is gone
\* (ARCHITECTURE.md:172-178, scanner.rs:636-637).
ForegroundIsNotCutOff ==
  \A s \in superseded :
    priority[s] = "Foreground" /\ pc[s] # "panicked" =>
      priority[replacement[s]] = "Foreground"

\* A scan that saw the session and was not cancelled does not outlive it, except while
\* the lock that took it is about to cancel the wallet's scans (db.rs:362-365).
ScanHasSession ==
  \A s \in Scan :
    /\ pc[s] \in Admitted /\ s \notin cancelled
    /\ s \in starting \/ running[of[s]] = s
    /\ of[s] \notin live
    => \E c \in Caller : at[c] = "gate" /\ on[c] = of[s]

\* A scan that ended left nothing behind that could be stopped or refuse a start; only
\* a panicked one keeps its slot entry, and that never refuses (scanner.rs:636-643).
EndedScanLeavesNothing ==
  \A s \in Scan : pc[s] = "done" =>
    s \notin issued \cup starting \cup stopped_before_start /\ running[of[s]] # s

\* ARCHITECTURE.md:184-186 "Its `stopped` token fires once it has sent its terminal event
\* and returned, so every stop and every superseding scan waits for the stream to end":
\* no stop_scan of a claimed scan that kept its slot returns before its stream ended.
EveryStopWaitsForTheStream ==
  \A s \in stop_returned : replacement[s] # None

\* What SlotContract speaks of: who writes a wallet's rows, and whether a scan may still.
Writers(w) == {s \in Scan : of[s] = w /\ pc[s] \in Writing}
              \cup {c \in Caller : on[c] = w /\ at[c] = "write"}

\* A scan that has written, or never will.
IsOver(s) ==
  \/ pc[s] \in {"clearing", "leaving", "ending", "panicked"}
  \/ s \in stopped_before_start
  \/ pc[s] \in {"admitted", "waiting", "claiming"} /\ s \notin starting
  \/ pc[s] = "queued" /\ s \in cancelled

Stage(s) ==
  CASE pc[s] \in Writing -> "writing"
    [] pc[s] = "done" -> "returned"
    [] IsOver(s) -> "over"
    [] OTHER -> "new"

Slots == INSTANCE SlotContract
           WITH writer <- [w \in Wallet |-> Writers(w)], stage <- [s \in Scan |-> Stage(s)]

\* What the slots promise the wallet's database (scanner.rs:84-91, 126-129, 568-569): one
\* writer at a time, and no scan that was stopped or replaced before it wrote ever writes.
KeepsSlotContract == Slots!Spec

\* Every stop, lock and maintenance operation returns: nobody waits for a scan that
\* waits for them (scanner.rs:84-91).
CallersReturn == \A c \in Caller : at[c] # "idle" ~> at[c] = "idle"

\* A cancelled scan ends and tells its stream (scanner.rs:196-200), or panicked; one
\* admitted to start is never kept waiting for ever, it gets a slot or ends.
ScansProceed ==
  \A s \in Scan :
    /\ s \in cancelled ~> s \in stopped
    /\ pc[s] = "waiting" ~> pc[s] \in {"rollback", "scanning", "done"}
=============================================================================
