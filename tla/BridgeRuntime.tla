---------------------------- MODULE BridgeRuntime ----------------------------
(***************************************************************************)
(* Where the 44 calls of the bridge run (api/bridge_runtime.rs and the     *)
(* generated frb_generated.rs), and what each of them waits for.           *)
(*                                                                         *)
(* A "sync" call runs on the thread of the Flutter engine that makes it, a *)
(* "normal" one on a pool of 2 threads, an "async" one on a tokio runtime  *)
(* of 2 workers.  A call goes on until it waits: an async call gives its   *)
(* worker back while it awaits, every other wait keeps the thread.  A scan *)
(* batch and a send's building and signing block their worker.  The waits  *)
(* on other calls are those of the wallet's unlock gate, its maintenance   *)
(* lock, a scan's end and the installation of the logger; locks that are   *)
(* held for a few instructions or a line of the log, with no wait under    *)
(* them (DB_STATE, SCAN_STATE, LOG_LEVELS, the log's output, a handle of   *)
(* seed words), are not waits here.  What a call computes, and the         *)
(* wallet's state, is in the other modules.                                *)
(***************************************************************************)
EXTENDS Integers, FiniteSets, Sequences

CONSTANTS
    Task,       \* the calls made, each once
    Wallet,     \* wallets
    None,       \* no call
    Offered,    \* the ids of the functions each call of a run may be of
    Wallets     \* which wallets the calls may be about: functions from Task

ASSUME ConstantsAssumption ==
    /\ None \notin Task
    /\ Wallets \subseteq [Task -> Wallet]

VARIABLES
    at,         \* "idle", "ready" (wants a thread), "on", "blocked" (keeps its
                \* thread), "parked" (keeps none) or "done"
    call,       \* the mode and the remaining waits of a call
    wallet,     \* the wallet it is about
    gate,       \* the call that holds each wallet's unlock gate
    maintenance,\* the call that holds each wallet's maintenance lock
    logger,     \* the call that holds LOGGER_INSTALLED, of the whole process
    slot,       \* the scan in each wallet's slot
    stopping,   \* the scans that are cancelled
    awaits      \* the scan whose end a call waits for

vars == <<at, call, wallet, gate, maintenance, logger, slot, stopping, awaits>>

-----------------------------------------------------------------------------
(* What a call waits for, in order.                                        *)

Waits == {"io", "work", "gate", "session", "stop", "maintenance", "slot", "rollback", "batch",
          "logger", "files"}

\* fetch_tip_info and the other requests: an answer of the node, or a timeout.
AskNode == <<"io">>

\* estimate_fee: the pool, then what the estimator asks the node for.
EstimateFee == AskNode

\* The node's height for a time is awaited, then compared with the estimate.
GetHeightAtTime == AskNode

\* A send builds and signs on its worker and awaits only the broadcast.
Send == <<"work", "io">>

\* lock_wallet_everywhere: the gate and the session on a blocking thread, then
\* the wallet's scan.
LockAndStop == <<"gate", "session", "stop">>

\* unlock_wallet: the gate, then Argon2 with the gate held.
Unlock == <<"gate", "session">>

\* change_passphrase and abandon_send: the passphrase and the write are on a
\* blocking thread.
CheckAndChange == <<"io", "maintenance", "stop", "io">>

\* with_wallet_locked: delete_wallet and rename_wallet.
ChangeLocked == <<"maintenance">> \o LockAndStop \o <<"io">> \o LockAndStop

\* scan: the slot, the end of the scan it replaces, the batches.
Scan == <<"maintenance", "slot", "batch">>

\* A rescan rolls the account back on a blocking thread first.
Rescan == <<"maintenance", "slot", "rollback", "batch">>

\* init_logger: LOGGER_INSTALLED, then the log's directory and files with it held.
InstallLogger == <<"logger", "files">>

-----------------------------------------------------------------------------
(* The generated wire functions: the mode a function is wrapped in and the *)
(* waits of the function it calls.                                         *)

get_words == [mode |-> "sync", steps |-> <<>>]
set_words == [mode |-> "sync", steps |-> <<>>]
abandon_send == [mode |-> "async", steps |-> CheckAndChange]
birthday_from_date == [mode |-> "sync", steps |-> <<>>]
birthday_from_height == [mode |-> "sync", steps |-> <<>>]
change_passphrase == [mode |-> "async", steps |-> CheckAndChange]
check_node_health == [mode |-> "async", steps |-> AskNode]
checkpoint_database == [mode |-> "normal", steps |-> <<>>]
create_scan_handle == [mode |-> "sync", steps |-> <<>>]
create_wallet == [mode |-> "normal", steps |-> <<>>]
current_network == [mode |-> "sync", steps |-> <<>>]
delete_wallet == [mode |-> "async", steps |-> ChangeLocked]
estimate_height_at_time == [mode |-> "sync", steps |-> <<>>]
estimate_send_all_fee == [mode |-> "normal", steps |-> <<>>]
estimate_transaction_fee == [mode |-> "async", steps |-> EstimateFee]
estimate_transaction_fee_for_outputs == [mode |-> "async", steps |-> EstimateFee]
force_lock_wallet == [mode |-> "async", steps |-> LockAndStop]
format_micro_tari == [mode |-> "normal", steps |-> <<>>]
get_address == [mode |-> "normal", steps |-> <<>>]
get_balance == [mode |-> "normal", steps |-> <<>>]
get_height_at_time == [mode |-> "async", steps |-> GetHeightAtTime]
get_seed_words == [mode |-> "normal", steps |-> <<>>]
get_tip_info == [mode |-> "async", steps |-> AskNode]
get_transactions == [mode |-> "normal", steps |-> <<>>]
import_view_only_wallet == [mode |-> "normal", steps |-> <<>>]
import_wallet_from_keys == [mode |-> "normal", steps |-> <<>>]
init_logger == [mode |-> "sync", steps |-> InstallLogger]
is_node_synced == [mode |-> "async", steps |-> AskNode]
list_wallets == [mode |-> "normal", steps |-> <<>>]
list_words == [mode |-> "sync", steps |-> <<>>]
lock_wallet == [mode |-> "async", steps |-> LockAndStop]
logger_config_default == [mode |-> "normal", steps |-> <<>>]
rename_wallet == [mode |-> "async", steps |-> ChangeLocked]
rescan == [mode |-> "async", steps |-> Rescan]
restore_wallet == [mode |-> "normal", steps |-> <<>>]
reveal_seed_words == [mode |-> "normal", steps |-> <<>>]
send_transaction == [mode |-> "async", steps |-> Send]
set_database_path == [mode |-> "normal", steps |-> <<>>]
set_log_level == [mode |-> "sync", steps |-> <<>>]
sign_message == [mode |-> "normal", steps |-> <<>>]
start_scan == [mode |-> "async", steps |-> Scan]
stop_scan == [mode |-> "async", steps |-> <<"stop">>]

\* Mutant of unlock_wallet: run on the thread of the UI.
unlock_wallet_sync == [mode |-> "sync", steps |-> Unlock]

unlock_wallet == [mode |-> "normal", steps |-> Unlock]
verify_message == [mode |-> "normal", steps |-> <<>>]

\* pde_ffi_dispatcher_primary_impl: the calls that are answered later.
PrimaryDispatch == [id \in 1 .. 44 \ {1, 2, 4, 5, 9, 11, 13, 27, 30, 39} |->
    CASE id = 3 -> abandon_send [] id = 6 -> change_passphrase
      [] id = 7 -> check_node_health [] id = 8 -> checkpoint_database
      [] id = 10 -> create_wallet [] id = 12 -> delete_wallet
      [] id = 14 -> estimate_send_all_fee [] id = 15 -> estimate_transaction_fee
      [] id = 16 -> estimate_transaction_fee_for_outputs [] id = 17 -> force_lock_wallet
      [] id = 18 -> format_micro_tari [] id = 19 -> get_address [] id = 20 -> get_balance
      [] id = 21 -> get_height_at_time [] id = 22 -> get_seed_words
      [] id = 23 -> get_tip_info [] id = 24 -> get_transactions
      [] id = 25 -> import_view_only_wallet [] id = 26 -> import_wallet_from_keys
      [] id = 28 -> is_node_synced [] id = 29 -> list_wallets [] id = 31 -> lock_wallet
      [] id = 32 -> logger_config_default [] id = 33 -> rename_wallet [] id = 34 -> rescan
      [] id = 35 -> restore_wallet [] id = 36 -> reveal_seed_words
      [] id = 37 -> send_transaction [] id = 38 -> set_database_path
      [] id = 40 -> sign_message [] id = 41 -> start_scan [] id = 42 -> stop_scan
      [] id = 43 -> unlock_wallet [] id = 44 -> verify_message]

\* pde_ffi_dispatcher_sync_impl: the calls the UI waits for.
SyncDispatch == [id \in {1, 2, 4, 5, 9, 11, 13, 27, 30, 39} |->
    CASE id = 1 -> get_words [] id = 2 -> set_words [] id = 4 -> birthday_from_date
      [] id = 5 -> birthday_from_height [] id = 9 -> create_scan_handle
      [] id = 11 -> current_network [] id = 13 -> estimate_height_at_time
      [] id = 27 -> init_logger [] id = 30 -> list_words [] id = 39 -> set_log_level]

-----------------------------------------------------------------------------
(* Threads.                                                                *)

BRIDGE_ASYNC_WORKER_THREADS == 2
BRIDGE_THREAD_POOL_SIZE == 2

\* The threads of a mode.  A sync call has its engine's own thread.
Threads(mode) ==
    CASE mode = "async" -> BRIDGE_ASYNC_WORKER_THREADS
      [] mode = "normal" -> BRIDGE_THREAD_POOL_SIZE
      [] OTHER -> Cardinality(Task)

Keeps(mode) == {t \in Task : at[t] \in {"on", "blocked"} /\ call[t].mode = mode}

\* Mutant of Suspends: the maintenance lock is waited for without an await.
SuspendsExceptMaintenance(mode, step) == mode = "async" /\ step \notin {"batch", "work",
        "maintenance"}

\* Whether a wait gives the thread back: an async one, except a scan batch and a
\* send's own work.
Suspends(mode, step) == mode = "async" /\ step \notin {"batch", "work"}

NextWait(t) == Head(call[t].steps)
Drop(t) == call' = [call EXCEPT ![t].steps = Tail(@)]
Move(t, to) == at' = [at EXCEPT ![t] = to]
Without(holder, t) == [w \in Wallet |-> IF holder[w] = t THEN None ELSE holder[w]]

Init ==
    /\ at = [t \in Task |-> "idle"]
    /\ call = [t \in Task |-> [mode |-> "sync", steps |-> <<>>]]
    /\ wallet \in Wallets
    /\ gate = [w \in Wallet |-> None]
    /\ maintenance = [w \in Wallet |-> None]
    /\ logger = None
    /\ slot = [w \in Wallet |-> None]
    /\ stopping = {}
    /\ awaits = [t \in Task |-> None]

\* The app makes a call; a sync one starts at once.
Call(t) ==
    /\ at[t] = "idle"
    /\ \E id \in Offered[t] :
        \/ /\ id \in DOMAIN SyncDispatch
           /\ call' = [call EXCEPT ![t] = SyncDispatch[id]]
           /\ Move(t, "on")
        \/ /\ id \in DOMAIN PrimaryDispatch
           /\ call' = [call EXCEPT ![t] = PrimaryDispatch[id]]
           /\ Move(t, "ready")
    /\ UNCHANGED <<wallet, gate, maintenance, logger, slot, stopping, awaits>>

\* A free thread of the call's mode takes it on.
Schedule(t) ==
    /\ at[t] = "ready"
    /\ Cardinality(Keeps(call[t].mode)) < Threads(call[t].mode)
    /\ Move(t, "on")
    /\ UNCHANGED <<call, wallet, gate, maintenance, logger, slot, stopping, awaits>>

\* A cancelled scan neither rolls back nor scans.
Skips(t) == NextWait(t) \in {"rollback", "batch"} /\ t \in stopping

\* The call reaches its next wait.  A stop cancels the wallet's scan first.
Wait(t) ==
    LET running == slot[wallet[t]] IN
    /\ at[t] = "on" /\ call[t].steps # <<>>
    /\ NextWait(t) # "slot" /\ ~Skips(t)
    /\ Move(t, IF Suspends(call[t].mode, NextWait(t)) THEN "parked" ELSE "blocked")
    /\ IF NextWait(t) = "stop" /\ running # None
       THEN /\ stopping' = stopping \union {running}
            /\ awaits' = [awaits EXCEPT ![t] = running]
       ELSE UNCHANGED <<stopping, awaits>>
    /\ UNCHANGED <<call, wallet, gate, maintenance, logger, slot>>

\* A starting scan takes the slot, gives the maintenance lock back and waits for
\* the scan it replaces, which it cancels.
TakeSlot(t) ==
    LET w == wallet[t] IN
    /\ at[t] = "on" /\ call[t].steps # <<>> /\ NextWait(t) = "slot"
    /\ slot' = [slot EXCEPT ![w] = t]
    /\ maintenance' = Without(maintenance, t)
    /\ stopping' = stopping \union ({slot[w]} \ {None})
    /\ awaits' = [awaits EXCEPT ![t] = slot[w]]
    /\ Move(t, IF Suspends(call[t].mode, "slot") THEN "parked" ELSE "blocked")
    /\ UNCHANGED <<call, wallet, gate, logger>>

\* The scan its token cancelled goes on to its end.
Skip(t) ==
    /\ at[t] = "on" /\ call[t].steps # <<>> /\ Skips(t)
    /\ Drop(t)
    /\ UNCHANGED <<at, wallet, gate, maintenance, logger, slot, stopping, awaits>>

\* The batch is done: the scan has caught up, or it awaits the next blocks.
BatchEnds(t) ==
    /\ at[t] = "blocked" /\ NextWait(t) = "batch"
    /\ \/ Drop(t) /\ Move(t, "on")
       \/ Move(t, "parked") /\ UNCHANGED call
    /\ UNCHANGED <<wallet, gate, maintenance, logger, slot, stopping, awaits>>

\* Blocks arrive, or the token is cancelled: the scan goes on.
NextBlocks(t) ==
    /\ at[t] = "parked" /\ NextWait(t) = "batch"
    /\ Move(t, "ready")
    /\ UNCHANGED <<call, wallet, gate, maintenance, logger, slot, stopping, awaits>>

\* The call that t waits for: the holder of what it wants, or the scan that has to
\* stop.  Work, files and the node's answers come of themselves.
WaitsFor(t) ==
    (CASE NextWait(t) = "gate" -> {gate[wallet[t]]}
       [] NextWait(t) = "maintenance" -> {maintenance[wallet[t]]}
       [] NextWait(t) = "logger" -> {logger}
       [] NextWait(t) \in {"stop", "slot"} -> {awaits[t]}
       [] OTHER -> {}) \ {None}

\* The gate and the session's change are one piece of work: only the end of the
\* latter brings an async call back to a worker.
WakeUp(t) ==
    LET w == wallet[t] IN
    /\ at[t] \in {"parked", "blocked"} /\ NextWait(t) # "batch"
    /\ WaitsFor(t) = {}
    /\ Drop(t)
    /\ Move(t, IF NextWait(t) = "gate" THEN at[t]
               ELSE IF at[t] = "parked" THEN "ready" ELSE "on")
    /\ gate' = CASE NextWait(t) = "gate" -> [gate EXCEPT ![w] = t]
                 [] NextWait(t) = "session" -> Without(gate, t)
                 [] OTHER -> gate
    /\ maintenance' = IF NextWait(t) = "maintenance"
                      THEN [maintenance EXCEPT ![w] = t] ELSE maintenance
    /\ logger' = IF NextWait(t) = "logger" THEN t ELSE logger
    /\ UNCHANGED <<wallet, slot, stopping, awaits>>

\* The answer is sent: at the end, or early with an error.  The guards are
\* dropped, and those who wait for this scan to end go on.
Return(t) ==
    /\ at[t] = "on"
    /\ Move(t, "done")
    /\ call' = [call EXCEPT ![t].steps = <<>>]
    /\ gate' = Without(gate, t)
    /\ maintenance' = Without(maintenance, t)
    /\ logger' = IF logger = t THEN None ELSE logger
    /\ slot' = Without(slot, t)
    /\ stopping' = stopping \ {t}
    /\ awaits' = [u \in Task |-> IF awaits[u] = t \/ u = t THEN None ELSE awaits[u]]
    /\ UNCHANGED wallet

\* What a thread does with the call it runs, or with what it waited for.
Step(t) ==
    Wait(t) \/ TakeSlot(t) \/ Skip(t) \/ BatchEnds(t) \/ NextBlocks(t) \/ WakeUp(t) \/ Return(t)

Next == \E t \in Task : Call(t) \/ Schedule(t) \/ Step(t)

Spec == Init /\ [][Next]_vars

\* A thread works on what it has, and a wait that is over is noticed; the queue of
\* a pool or runtime is first in, first out, so a call gets its turn although
\* running scans come back to it for ever.
FairSpec == Spec /\ \A t \in Task : WF_vars(Step(t)) /\ SF_vars(Schedule(t))

-----------------------------------------------------------------------------
(* Properties.                                                             *)

Modes == {"sync", "normal", "async"}

\* Type invariant: values in their ranges, and the calls of a mode never keep more
\* threads than it has.
TypeOK ==
    /\ at \in [Task -> {"idle", "ready", "on", "blocked", "parked", "done"}]
    /\ call \in [Task -> [mode : Modes, steps : Seq(Waits)]]
    /\ wallet \in [Task -> Wallet]
    /\ gate \in [Wallet -> Task \union {None}]
    /\ maintenance \in [Wallet -> Task \union {None}]
    /\ logger \in Task \union {None}
    /\ slot \in [Wallet -> Task \union {None}]
    /\ stopping \subseteq Task
    /\ awaits \in [Task -> Task \union {None}]
    /\ Cardinality(Keeps("async")) <= BRIDGE_ASYNC_WORKER_THREADS
    /\ Cardinality(Keeps("normal")) <= BRIDGE_THREAD_POOL_SIZE

\* But for locks of a few instructions or a line of the log (see above), an engine's
\* own thread, which draws the UI, waits for no call of the pool or the runtime, not
\* even through another call: init_logger alone makes it wait, for the init_logger of
\* the other engine, and that one is at work on the log's files and waits for nobody.
\* So no unlock (Argon2), maintenance operation, scan or request can hold the UI up,
\* nor can a pool whose threads are all taken.
UiWaitsForTheLogOnly ==
    \A t \in Task : (at[t] = "blocked" /\ call[t].mode = "sync") =>
        /\ NextWait(t) \in {"logger", "files"}
        /\ \A u \in WaitsFor(t) :
            /\ call[u].mode = "sync"
            /\ at[u] = "on" \/ (at[u] = "blocked" /\ WaitsFor(u) = {})

\* A scan that nobody stops may run for ever.
Scanning(t) == call[t].steps # <<>> /\ NextWait(t) = "batch" /\ t \notin stopping

\* Every call is answered, also with both workers in scan batches and the other
\* calls waiting for each other's guards: two workers and two pool threads cannot
\* be used up by calls that wait for a call without a thread.
EveryCallIsAnswered ==
    \A t \in Task : (at[t] \notin {"idle", "done"}) ~> (at[t] = "done" \/ Scanning(t))

=============================================================================
