------------------------- MODULE BridgeRuntimeProofs -------------------------
(***************************************************************************)
(* Proofs about BridgeRuntime, for any number of calls of any of the       *)
(* bridge's functions, about any wallets.                                  *)
(***************************************************************************)
EXTENDS BridgeRuntime, FiniteSetTheorems, SequenceTheorems, TLAPS

-----------------------------------------------------------------------------
(* The functions of the bridge *)

\* What a call on a thread of the bridge may wait for: the gate is taken for the
\* session's sake, never last, and the logger's installation never.
BridgeWaits == Waits \ {"logger", "files"}
Plans == {s \in Seq(BridgeWaits) : \A i \in 1 .. Len(s) : s[i] = "gate" => i < Len(s)}

\* What a call on an engine's own thread may wait for: init_logger's plan or its rest.
SyncPlans == {<<>>, <<"files">>, <<"logger", "files">>}

\* A call has the plan of its mode.
Calls == [mode : {"sync"}, steps : SyncPlans] \union [mode : {"async", "normal"}, steps : Plans]

LEMMA RestOfPlan ==
    ASSUME NEW s \in Plans, s # <<>>
    PROVE  /\ Tail(s) \in Plans
           /\ Head(s) \in BridgeWaits
           /\ Head(s) = "gate" => Tail(s) # <<>>
<1>1. s \in Seq(BridgeWaits) /\ Len(s) \in Nat \ {0} /\ Head(s) = s[1]
    BY EmptySeq, LenProperties DEF Plans
<1>2. Head(s) \in BridgeWaits /\ Tail(s) \in Seq(BridgeWaits) /\ Len(Tail(s)) = Len(s) - 1
      /\ \A i \in 1 .. Len(Tail(s)) : Tail(s)[i] = s[i + 1]
    BY <1>1, HeadTailProperties
<1>3. \A i \in 1 .. Len(Tail(s)) : Tail(s)[i] = "gate" => i < Len(Tail(s))
    BY <1>1, <1>2 DEF Plans
<1>4. Head(s) = "gate" => 1 < Len(s)
    BY <1>1 DEF Plans
<1>5. ASSUME NEW r, r = <<>> PROVE Len(r) = 0
    BY <1>5, EmptySeq
<1>6. Tail(s) = <<>> => Len(Tail(s)) = 0
    BY <1>5
<1>7. Head(s) = "gate" => Tail(s) # <<>>
    BY <1>1, <1>2, <1>4, <1>6
<1>8. Tail(s) \in Plans
    BY <1>2, <1>3 DEF Plans
<1> QED BY <1>2, <1>7, <1>8

\* What a call that has something to wait for first waits for, and what is left then.
LEMMA RestOfCall ==
    ASSUME NEW c \in Calls, c.steps # <<>>
    PROVE  /\ [c EXCEPT !.steps = Tail(c.steps)] \in Calls
           /\ Head(c.steps) = "gate" => Tail(c.steps) # <<>>
           /\ c.mode = "sync" =>
                \/ Head(c.steps) = "logger" /\ Tail(c.steps) = <<"files">>
                \/ Head(c.steps) = "files" /\ Tail(c.steps) = <<>>
           /\ Head(c.steps) = "logger" => c.mode = "sync"
<1>1. CASE c \in [mode : {"sync"}, steps : SyncPlans]
    <2>1. \/ Head(c.steps) = "logger" /\ Tail(c.steps) = <<"files">>
          \/ Head(c.steps) = "files" /\ Tail(c.steps) = <<>>
        <3>1. Head(<<"logger", "files">>) = "logger" /\ Tail(<<"logger", "files">>) = <<"files">>
            OBVIOUS
        <3>2. Head(<<"files">>) = "files" /\ Tail(<<"files">>) = <<>>
            OBVIOUS
        <3>3. c.steps = <<"files">> \/ c.steps = <<"logger", "files">>
            BY <1>1 DEF SyncPlans
        <3> QED BY <3>1, <3>2, <3>3
    <2> QED BY <1>1, <2>1 DEF Calls, SyncPlans
<1>2. CASE c \in [mode : {"async", "normal"}, steps : Plans]
    <2>1. /\ Tail(c.steps) \in Plans /\ Head(c.steps) \in BridgeWaits
          /\ Head(c.steps) = "gate" => Tail(c.steps) # <<>>
        BY <1>2, RestOfPlan
    <2> QED BY <1>2, <2>1 DEF Calls, BridgeWaits
<1> QED BY <1>1, <1>2 DEF Calls

LEMMA PlansFollow ==
    ASSUME NEW s \in Plans, NEW r \in Plans
    PROVE  s \o r \in Plans
<1>1. s \in Seq(BridgeWaits) /\ r \in Seq(BridgeWaits) /\ Len(s) \in Nat /\ Len(r) \in Nat
    BY LenProperties DEF Plans
<1>2. /\ s \o r \in Seq(BridgeWaits) /\ Len(s \o r) = Len(s) + Len(r)
      /\ \A i \in 1 .. Len(s) + Len(r) :
            (s \o r)[i] = IF i <= Len(s) THEN s[i] ELSE r[i - Len(s)]
    BY <1>1, ConcatProperties
<1>3. ASSUME NEW i \in 1 .. Len(s \o r), (s \o r)[i] = "gate" PROVE i < Len(s \o r)
    <2>1. CASE i <= Len(s)
        <3>1. i \in 1 .. Len(s) /\ s[i] = "gate"
            BY <1>1, <1>2, <1>3, <2>1
        <3>2. i < Len(s)
            BY <3>1 DEF Plans
        <3> QED BY <1>1, <1>2, <3>2
    <2>2. CASE i > Len(s)
        <3>1. i - Len(s) \in 1 .. Len(r) /\ r[i - Len(s)] = "gate"
            BY <1>1, <1>2, <1>3, <2>2
        <3>2. i - Len(s) < Len(r)
            BY <3>1 DEF Plans
        <3> QED BY <1>1, <1>2, <3>1, <3>2
    <2> QED BY <1>1, <1>2, <2>1, <2>2
<1> QED BY <1>2, <1>3 DEF Plans

LEMMA PlansFit ==
    /\ <<>> \in Plans /\ <<"stop">> \in Plans
    /\ AskNode \in Plans /\ EstimateFee \in Plans /\ GetHeightAtTime \in Plans
    /\ Send \in Plans /\ LockAndStop \in Plans /\ Unlock \in Plans
    /\ CheckAndChange \in Plans /\ ChangeLocked \in Plans /\ Scan \in Plans /\ Rescan \in Plans
<1>1. <<>> \in Plans /\ <<"stop">> \in Plans
    BY DEF Plans, BridgeWaits, Waits
<1>2. AskNode \in Plans /\ EstimateFee \in Plans /\ GetHeightAtTime \in Plans
    BY DEF Plans, BridgeWaits, Waits, AskNode, EstimateFee, GetHeightAtTime
<1>3. Send \in Plans /\ LockAndStop \in Plans /\ Unlock \in Plans
    BY DEF Plans, BridgeWaits, Waits, Send, LockAndStop, Unlock
<1>4. CheckAndChange \in Plans
    BY DEF Plans, BridgeWaits, Waits, CheckAndChange
<1>5. ChangeLocked \in Plans
    <2>1. <<"maintenance">> \in Plans /\ <<"io">> \in Plans
        BY DEF Plans, BridgeWaits, Waits
    <2> QED BY <1>3, <2>1, PlansFollow DEF ChangeLocked
<1>6. Scan \in Plans
    BY DEF Plans, BridgeWaits, Waits, Scan
<1>7. Rescan \in Plans
    BY DEF Plans, BridgeWaits, Waits, Rescan
<1> QED BY <1>1, <1>2, <1>3, <1>4, <1>5, <1>6, <1>7

\* On an engine's own thread init_logger alone waits for anything.
LEMMA SyncFits ==
    \A id \in DOMAIN SyncDispatch : SyncDispatch[id] \in [mode : {"sync"}, steps : SyncPlans]
<1>1. {[mode |-> "sync", steps |-> <<>>], init_logger} \subseteq [mode : {"sync"}, steps : SyncPlans]
    BY DEF init_logger, InstallLogger, SyncPlans
<1> QED BY <1>1 DEF SyncDispatch, get_words, set_words, birthday_from_date,
    birthday_from_height, create_scan_handle, current_network, estimate_height_at_time,
    list_words, set_log_level

\* Every other function has a thread of the bridge.
LEMMA PrimaryFits ==
    ASSUME NEW id \in DOMAIN PrimaryDispatch
    PROVE  PrimaryDispatch[id] \in [mode : {"async", "normal"}, steps : Plans]
<1>1. \/ id \in {3, 6, 7, 8, 10, 12}
      \/ id \in {14, 15, 16, 17, 18, 19}
      \/ id \in {20, 21, 22, 23, 24, 25, 26}
      \/ id \in {28, 29, 31, 32, 33, 34, 35, 36}
      \/ id \in {37, 38, 40, 41, 42, 43, 44}
    BY DEF PrimaryDispatch
<1>2. CASE id \in {3, 6, 7, 8, 10, 12}
    <2>1. {abandon_send, change_passphrase, check_node_health, checkpoint_database,
           create_wallet, delete_wallet}
             \subseteq [mode : {"async", "normal"}, steps : Plans]
        BY PlansFit DEF abandon_send, change_passphrase, check_node_health,
            checkpoint_database, create_wallet, delete_wallet
    <2>2. /\ PrimaryDispatch[3] = abandon_send /\ PrimaryDispatch[6] = change_passphrase
          /\ PrimaryDispatch[7] = check_node_health
        BY DEF PrimaryDispatch
    <2>3. /\ PrimaryDispatch[8] = checkpoint_database /\ PrimaryDispatch[10] = create_wallet
          /\ PrimaryDispatch[12] = delete_wallet
        BY DEF PrimaryDispatch
    <2> QED BY <1>2, <2>1, <2>2, <2>3
<1>3. CASE id \in {14, 15, 16, 17, 18, 19}
    <2>1. {estimate_send_all_fee, estimate_transaction_fee,
           estimate_transaction_fee_for_outputs, force_lock_wallet,
           format_micro_tari, get_address}
             \subseteq [mode : {"async", "normal"}, steps : Plans]
        BY PlansFit DEF estimate_send_all_fee, estimate_transaction_fee,
            estimate_transaction_fee_for_outputs, force_lock_wallet, format_micro_tari,
            get_address
    <2>2. /\ PrimaryDispatch[14] = estimate_send_all_fee
          /\ PrimaryDispatch[15] = estimate_transaction_fee
          /\ PrimaryDispatch[16] = estimate_transaction_fee_for_outputs
        BY DEF PrimaryDispatch
    <2>3. /\ PrimaryDispatch[17] = force_lock_wallet
          /\ PrimaryDispatch[18] = format_micro_tari /\ PrimaryDispatch[19] = get_address
        BY DEF PrimaryDispatch
    <2> QED BY <1>3, <2>1, <2>2, <2>3
<1>4. CASE id \in {20, 21, 22, 23, 24, 25, 26}
    <2>1. {get_balance, get_height_at_time, get_seed_words, get_tip_info,
           get_transactions, import_view_only_wallet, import_wallet_from_keys}
             \subseteq [mode : {"async", "normal"}, steps : Plans]
        BY PlansFit DEF get_balance, get_height_at_time, get_seed_words, get_tip_info,
            get_transactions, import_view_only_wallet, import_wallet_from_keys
    <2>2. /\ PrimaryDispatch[20] = get_balance /\ PrimaryDispatch[21] = get_height_at_time
          /\ PrimaryDispatch[22] = get_seed_words /\ PrimaryDispatch[23] = get_tip_info
        BY DEF PrimaryDispatch
    <2>3. /\ PrimaryDispatch[24] = get_transactions
          /\ PrimaryDispatch[25] = import_view_only_wallet
          /\ PrimaryDispatch[26] = import_wallet_from_keys
        BY DEF PrimaryDispatch
    <2> QED BY <1>4, <2>1, <2>2, <2>3
<1>5. CASE id \in {28, 29, 31, 32, 33, 34, 35, 36}
    <2>1. {is_node_synced, list_wallets, lock_wallet, logger_config_default,
           rename_wallet, rescan, restore_wallet, reveal_seed_words}
             \subseteq [mode : {"async", "normal"}, steps : Plans]
        BY PlansFit DEF is_node_synced, list_wallets, lock_wallet, logger_config_default,
            rename_wallet, rescan, restore_wallet, reveal_seed_words
    <2>2. /\ PrimaryDispatch[28] = is_node_synced /\ PrimaryDispatch[29] = list_wallets
          /\ PrimaryDispatch[31] = lock_wallet
          /\ PrimaryDispatch[32] = logger_config_default
        BY DEF PrimaryDispatch
    <2>3. /\ PrimaryDispatch[33] = rename_wallet /\ PrimaryDispatch[34] = rescan
          /\ PrimaryDispatch[35] = restore_wallet /\ PrimaryDispatch[36] = reveal_seed_words
        BY DEF PrimaryDispatch
    <2> QED BY <1>5, <2>1, <2>2, <2>3
<1>6. CASE id \in {37, 38, 40, 41, 42, 43, 44}
    <2>1. {send_transaction, set_database_path, sign_message, start_scan, stop_scan,
           unlock_wallet, verify_message}
             \subseteq [mode : {"async", "normal"}, steps : Plans]
        BY PlansFit DEF send_transaction, set_database_path, sign_message, start_scan,
            stop_scan, unlock_wallet, verify_message
    <2>2. /\ PrimaryDispatch[37] = send_transaction
          /\ PrimaryDispatch[38] = set_database_path /\ PrimaryDispatch[40] = sign_message
          /\ PrimaryDispatch[41] = start_scan
        BY DEF PrimaryDispatch
    <2>3. /\ PrimaryDispatch[42] = stop_scan /\ PrimaryDispatch[43] = unlock_wallet
          /\ PrimaryDispatch[44] = verify_message
        BY DEF PrimaryDispatch
    <2> QED BY <1>6, <2>1, <2>2, <2>3
<1> QED BY <1>1, <1>2, <1>3, <1>4, <1>5, <1>6

-----------------------------------------------------------------------------
(* The inductive invariant *)

Ranges ==
    /\ at \in [Task -> {"idle", "ready", "on", "blocked", "parked", "done"}]
    /\ call \in [Task -> Calls]
    /\ wallet \in [Task -> Wallet]
    /\ gate \in [Wallet -> Task \union {None}]
    /\ maintenance \in [Wallet -> Task \union {None}]
    /\ logger \in Task \union {None}
    /\ slot \in [Wallet -> Task \union {None}]
    /\ stopping \subseteq Task
    /\ awaits \in [Task -> Task \union {None}]

\* A call on an engine's own thread keeps it.
SyncKeepsItsThread == \A t \in Task : call[t].mode = "sync" => at[t] \notin {"ready", "parked"}

\* Whoever installs the logger is an engine's own thread with nothing before it but the
\* log's files.
InstallerGoesOn ==
    \A t \in Task : logger = t =>
        /\ at[t] \in {"on", "blocked"}
        /\ call[t].mode = "sync" /\ call[t].steps \in {<<>>, <<"files">>}

\* A call that waits waits for something.
WaitsForSomething == \A t \in Task : at[t] \in {"blocked", "parked"} => call[t].steps # <<>>

\* The threads of the bridge are enough for the calls that keep them.
ThreadsKept ==
    \A mode \in {"async", "normal"} :
        IsFiniteSet(Keeps(mode)) /\ Cardinality(Keeps(mode)) <= Threads(mode)

BridgeInv ==
    /\ Ranges
    /\ SyncKeepsItsThread
    /\ InstallerGoesOn
    /\ WaitsForSomething
    /\ ThreadsKept

-----------------------------------------------------------------------------
(* Steps *)

\* A wait that is over leaves the rest of the plan.
LEMMA Dropped ==
    ASSUME Ranges, NEW t \in Task, call[t].steps # <<>>, Drop(t)
    PROVE  /\ call' \in [Task -> Calls]
           /\ \A u \in Task : call'[u].mode = call[u].mode
           /\ \A u \in Task : u # t => call'[u] = call[u]
           /\ call'[t].steps = Tail(call[t].steps)
           /\ NextWait(t) = "gate" => call'[t].steps # <<>>
<1>1. /\ call[t] \in Calls
      /\ call[t] = [mode |-> call[t].mode, steps |-> call[t].steps]
    BY DEF Ranges, Calls
<1>2. /\ [call[t] EXCEPT !.steps = Tail(call[t].steps)] \in Calls
      /\ NextWait(t) = "gate" => Tail(call[t].steps) # <<>>
    BY <1>1, RestOfCall DEF NextWait
<1>3. call' = [call EXCEPT ![t] = [call[t] EXCEPT !.steps = Tail(call[t].steps)]]
    BY <1>1 DEF Drop, Ranges
<1>4. call'[t] = [call[t] EXCEPT !.steps = Tail(call[t].steps)]
    BY <1>3 DEF Ranges
<1>5. call'[t].mode = call[t].mode /\ call'[t].steps = Tail(call[t].steps)
    BY <1>1, <1>4
<1> QED BY <1>1, <1>2, <1>3, <1>5 DEF Ranges

\* What the answer leaves of a call.
LEMMA Answered ==
    ASSUME Ranges, NEW t \in Task, Return(t)
    PROVE  /\ call' \in [Task -> Calls]
           /\ \A u \in Task : call'[u].mode = call[u].mode
           /\ \A u \in Task : u # t => call'[u] = call[u]
           /\ call'[t].steps = <<>>
<1>1. /\ call[t] \in Calls
      /\ call[t] = [mode |-> call[t].mode, steps |-> call[t].steps]
    BY DEF Ranges, Calls
<1>2. call' = [call EXCEPT ![t] = [call[t] EXCEPT !.steps = <<>>]]
    BY <1>1 DEF Return, Ranges
<1>3. call'[t] = [call[t] EXCEPT !.steps = <<>>]
    BY <1>2 DEF Ranges
<1>4. [call[t] EXCEPT !.steps = <<>>] \in Calls
    BY <1>1, PlansFit DEF Calls, SyncPlans
<1>5. call'[t].mode = call[t].mode /\ call'[t].steps = <<>>
    BY <1>1, <1>3
<1> QED BY <1>1, <1>2, <1>4, <1>5 DEF Ranges

\* A call that is made has a function of the bridge, and starts at once if the UI waits.
LEMMA Made ==
    ASSUME Ranges, NEW t \in Task, Call(t)
    PROVE  /\ call' \in [Task -> Calls]
           /\ \A u \in Task : u # t => call'[u] = call[u] /\ at'[u] = at[u]
           /\ at[t] = "idle"
           /\ \/ call'[t].mode = "sync" /\ at'[t] = "on"
              \/ call'[t].mode # "sync" /\ at'[t] = "ready"
<1>1. CASE \E id \in DOMAIN SyncDispatch :
                call' = [call EXCEPT ![t] = SyncDispatch[id]] /\ Move(t, "on")
    <2>1. PICK id \in DOMAIN SyncDispatch :
                call' = [call EXCEPT ![t] = SyncDispatch[id]] /\ Move(t, "on")
        BY <1>1
    <2>2. SyncDispatch[id] \in Calls /\ SyncDispatch[id].mode = "sync"
        BY SyncFits DEF Calls
    <2>3. call'[t] = SyncDispatch[id]
        BY <2>1 DEF Ranges
    <2> QED BY <2>1, <2>2, <2>3 DEF Ranges, Move, Call
<1>2. CASE \E id \in DOMAIN PrimaryDispatch :
                call' = [call EXCEPT ![t] = PrimaryDispatch[id]] /\ Move(t, "ready")
    <2>1. PICK id \in DOMAIN PrimaryDispatch :
                call' = [call EXCEPT ![t] = PrimaryDispatch[id]] /\ Move(t, "ready")
        BY <1>2
    <2>2. PrimaryDispatch[id] \in Calls /\ PrimaryDispatch[id].mode # "sync"
        BY PrimaryFits DEF Calls
    <2>3. call'[t] = PrimaryDispatch[id]
        BY <2>1 DEF Ranges
    <2> QED BY <2>1, <2>2, <2>3 DEF Ranges, Move, Call
<1> QED BY <1>1, <1>2 DEF Call

\* Every operation keeps the values in their ranges.
LEMMA RangesStep ==
    ASSUME Ranges, WaitsForSomething, [Next]_vars
    PROVE  Ranges'
<1> USE DEF Move
<1>1. CASE UNCHANGED vars BY <1>1 DEF vars, Ranges
<1>2. ASSUME NEW t \in Task, Call(t) PROVE Ranges'
    <2>1. call' \in [Task -> Calls]
        BY <1>2, Made
    <2>2. at' \in [Task -> {"idle", "ready", "on", "blocked", "parked", "done"}]
        BY <1>2 DEF Call, Ranges
    <2>3. UNCHANGED <<wallet, gate, maintenance, logger, slot, stopping, awaits>>
        BY <1>2 DEF Call
    <2> QED BY <2>1, <2>2, <2>3 DEF Ranges
<1>3. ASSUME NEW t \in Task, Schedule(t) PROVE Ranges'
    BY <1>3 DEF Schedule, Ranges
<1>4. ASSUME NEW t \in Task, Wait(t) PROVE Ranges'
    BY <1>4 DEF Wait, Ranges
<1>5. ASSUME NEW t \in Task, TakeSlot(t) PROVE Ranges'
    BY <1>5 DEF TakeSlot, Without, Ranges
<1>6. ASSUME NEW t \in Task, Skip(t) PROVE Ranges'
    BY <1>6, Dropped DEF Skip, Ranges
<1>7. ASSUME NEW t \in Task, BatchEnds(t) PROVE Ranges'
    <2>1. call[t].steps # <<>>
        BY <1>7 DEF BatchEnds, WaitsForSomething
    <2>2. call' \in [Task -> Calls]
        BY <1>7, <2>1, Dropped DEF BatchEnds, Ranges
    <2> QED BY <1>7, <2>2 DEF BatchEnds, Ranges
<1>8. ASSUME NEW t \in Task, NextBlocks(t) PROVE Ranges'
    BY <1>8 DEF NextBlocks, Ranges
<1>9. ASSUME NEW t \in Task, WakeUp(t) PROVE Ranges'
    <2>1. call[t].steps # <<>>
        BY <1>9 DEF WakeUp, WaitsForSomething
    <2>2. call' \in [Task -> Calls]
        BY <1>9, <2>1, Dropped DEF WakeUp
    <2>3. gate' \in [Wallet -> Task \union {None}]
        BY <1>9 DEF WakeUp, Without, Ranges
    <2> QED BY <1>9, <2>2, <2>3 DEF WakeUp, Ranges
<1>10. ASSUME NEW t \in Task, Return(t) PROVE Ranges'
    BY <1>10, Answered DEF Return, Without, Ranges
<1> QED BY <1>1, <1>2, <1>3, <1>4, <1>5, <1>6, <1>7, <1>8, <1>9, <1>10 DEF Next, Step

\* No wait begins or ends without its plan.
LEMMA WaitsStep ==
    ASSUME Ranges, WaitsForSomething, [Next]_vars
    PROVE  WaitsForSomething'
<1> USE DEF Ranges, WaitsForSomething, Move
<1>1. CASE UNCHANGED vars BY <1>1 DEF vars
<1>2. ASSUME NEW t \in Task, Call(t) PROVE WaitsForSomething'
    BY <1>2, Made
<1>3. ASSUME NEW t \in Task, Schedule(t) \/ NextBlocks(t) \/ Wait(t) \/ TakeSlot(t)
      PROVE  WaitsForSomething'
    BY <1>3 DEF Schedule, NextBlocks, Wait, TakeSlot
<1>4. ASSUME NEW t \in Task, Skip(t) PROVE WaitsForSomething'
    BY <1>4, Dropped DEF Skip
<1>5. ASSUME NEW t \in Task, BatchEnds(t) PROVE WaitsForSomething'
    <2>1. call[t].steps # <<>> /\ \A u \in Task : u # t => at'[u] = at[u]
        BY <1>5 DEF BatchEnds
    <2>2. CASE UNCHANGED call
        BY <2>1, <2>2
    <2>3. CASE Drop(t) /\ Move(t, "on")
        <3>1. at'[t] = "on" /\ \A u \in Task : u # t => call'[u] = call[u]
            BY <2>1, <2>3, Dropped
        <3> QED BY <2>1, <3>1
    <2> QED BY <1>5, <2>2, <2>3 DEF BatchEnds
<1>6. ASSUME NEW t \in Task, WakeUp(t) PROVE WaitsForSomething'
    <2>1. call[t].steps # <<>>
        BY <1>6 DEF WakeUp
    <2>2. /\ \A u \in Task : u # t => call'[u] = call[u]
          /\ NextWait(t) = "gate" => call'[t].steps # <<>>
        BY <1>6, <2>1, Dropped DEF WakeUp
    <2>3. \A u \in Task : u # t => at'[u] = at[u]
        BY <1>6 DEF WakeUp
    <2>4. NextWait(t) # "gate" => at'[t] \in {"ready", "on"}
        BY <1>6 DEF WakeUp
    <2> QED BY <2>2, <2>3, <2>4
<1>7. ASSUME NEW t \in Task, Return(t) PROVE WaitsForSomething'
    BY <1>7, Answered DEF Return
<1> QED BY <1>1, <1>2, <1>3, <1>4, <1>5, <1>6, <1>7 DEF Next, Step

\* What a call on an engine's own thread waits for first, and what is left then.
LEMMA SyncWaits ==
    ASSUME Ranges, NEW t \in Task, call[t].mode = "sync", call[t].steps # <<>>
    PROVE  \/ NextWait(t) = "logger" /\ Tail(call[t].steps) = <<"files">>
           \/ NextWait(t) = "files" /\ Tail(call[t].steps) = <<>>
BY RestOfCall DEF Ranges, NextWait

\* An engine's own thread is never given away, and whoever takes LOGGER_INSTALLED has
\* but the log's files before it until it gives it back.
LEMMA InstallerStep ==
    ASSUME Ranges, WaitsForSomething, SyncKeepsItsThread, InstallerGoesOn, [Next]_vars
    PROVE  SyncKeepsItsThread' /\ InstallerGoesOn'
<1> USE DEF Ranges, SyncKeepsItsThread, InstallerGoesOn, Move
<1> DEFINE Goal == SyncKeepsItsThread' /\ InstallerGoesOn'
<1>1. CASE UNCHANGED vars BY <1>1 DEF vars
<1>2. ASSUME NEW t \in Task, Call(t) PROVE Goal
    BY <1>2, Made DEF Call
<1>3. ASSUME NEW t \in Task, Schedule(t) PROVE Goal
    BY <1>3 DEF Schedule
<1>4. ASSUME NEW t \in Task, Wait(t) \/ TakeSlot(t) PROVE Goal
    BY <1>4 DEF Wait, TakeSlot, Suspends
<1>5. ASSUME NEW t \in Task, Skip(t) \/ BatchEnds(t) \/ NextBlocks(t) PROVE Goal
    <2>1. call[t].steps # <<>> /\ NextWait(t) \in {"rollback", "batch"}
        BY <1>5 DEF Skip, Skips, BatchEnds, NextBlocks, WaitsForSomething
    <2>2. call[t].mode # "sync"
        BY <2>1, SyncWaits
    <2>3. /\ \A u \in Task : call'[u].mode = call[u].mode
          /\ \A u \in Task : u # t => call'[u] = call[u] /\ at'[u] = at[u]
        BY <1>5, <2>1, Dropped DEF Skip, BatchEnds, NextBlocks
    <2>4. logger' = logger /\ logger # t
        BY <1>5, <2>2 DEF Skip, BatchEnds, NextBlocks
    <2> QED BY <2>2, <2>3, <2>4
<1>6. ASSUME NEW t \in Task, WakeUp(t) PROVE Goal
    <2>1. call[t].steps # <<>>
        BY <1>6 DEF WakeUp, WaitsForSomething
    <2>2. /\ \A u \in Task : call'[u].mode = call[u].mode
          /\ \A u \in Task : u # t => call'[u] = call[u] /\ at'[u] = at[u]
          /\ call'[t].steps = Tail(call[t].steps)
        BY <1>6, <2>1, Dropped DEF WakeUp
    <2>3. call[t].mode = "sync" => at'[t] = "on"
        BY <1>6, <2>1, SyncWaits DEF WakeUp
    <2>4. CASE NextWait(t) = "logger"
        <3>1. logger' = t /\ call[t].mode = "sync"
            BY <1>6, <2>1, <2>4, RestOfCall DEF WakeUp, NextWait
        <3>2. call'[t].steps = <<"files">>
            BY <2>1, <2>2, <2>4, <3>1, SyncWaits
        <3> QED BY <2>2, <2>3, <3>1, <3>2
    <2>5. CASE NextWait(t) # "logger"
        <3>1. logger' = logger
            BY <1>6, <2>5 DEF WakeUp
        <3>2. call[t].mode = "sync" => call'[t].steps = <<>>
            BY <2>1, <2>2, <2>5, SyncWaits
        <3> QED BY <2>2, <2>3, <3>1, <3>2
    <2> QED BY <2>4, <2>5
<1>7. ASSUME NEW t \in Task, Return(t) PROVE Goal
    <2>1. /\ \A u \in Task : call'[u].mode = call[u].mode
          /\ \A u \in Task : u # t => call'[u] = call[u] /\ at'[u] = at[u]
          /\ at'[t] = "done" /\ logger' # t
        BY <1>7, Answered, ConstantsAssumption DEF Return
    <2>2. \A u \in Task : logger' = u => logger = u
        BY <1>7, ConstantsAssumption DEF Return
    <2> QED BY <2>1, <2>2
<1> QED BY <1>1, <1>2, <1>3, <1>4, <1>5, <1>6, <1>7 DEF Next, Step

\* Only Schedule gives a call a thread of the bridge.
LEMMA ThreadsMove ==
    ASSUME Ranges, WaitsForSomething, [Next]_vars, NEW mode \in {"async", "normal"}
    PROVE  \/ Keeps(mode)' \subseteq Keeps(mode)
           \/ \E t \in Task : /\ Cardinality(Keeps(mode)) < Threads(mode)
                              /\ Keeps(mode)' = Keeps(mode) \union {t}
<1> DEFINE Has(u) == at[u] \in {"on", "blocked"} /\ call[u].mode = mode
<1>0. ASSUME \A u \in Task : Has(u)' => Has(u)
      PROVE  Keeps(mode)' \subseteq Keeps(mode)
    BY <1>0 DEF Keeps
<1> USE DEF Ranges, WaitsForSomething, Move
<1>1. CASE UNCHANGED vars BY <1>0, <1>1 DEF vars
<1>2. ASSUME NEW t \in Task, Call(t) PROVE Keeps(mode)' \subseteq Keeps(mode)
    <2>1. \A u \in Task : Has(u)' => Has(u)
        BY <1>2, Made
    <2> QED BY <1>0, <2>1
<1>3. ASSUME NEW t \in Task, Schedule(t)
      PROVE  \/ Keeps(mode)' \subseteq Keeps(mode)
             \/ /\ Cardinality(Keeps(mode)) < Threads(mode)
                /\ Keeps(mode)' = Keeps(mode) \union {t}
    <2>1. CASE call[t].mode = mode
        <3>1. \A u \in Task : Has(u)' <=> (Has(u) \/ u = t)
            BY <1>3, <2>1 DEF Schedule
        <3>2. Keeps(mode)' = Keeps(mode) \union {t}
            BY <3>1 DEF Keeps
        <3> QED BY <1>3, <2>1, <3>2 DEF Schedule
    <2>2. CASE call[t].mode # mode
        <3>1. \A u \in Task : Has(u)' => Has(u)
            BY <1>3, <2>2 DEF Schedule
        <3> QED BY <1>0, <3>1
    <2> QED BY <2>1, <2>2
<1>4. ASSUME NEW t \in Task, Wait(t) \/ TakeSlot(t) \/ NextBlocks(t)
      PROVE  Keeps(mode)' \subseteq Keeps(mode)
    <2>1. \A u \in Task : Has(u)' => Has(u)
        BY <1>4 DEF Wait, TakeSlot, NextBlocks
    <2> QED BY <1>0, <2>1
<1>5. ASSUME NEW t \in Task, Skip(t) \/ BatchEnds(t) \/ WakeUp(t)
      PROVE  Keeps(mode)' \subseteq Keeps(mode)
    <2>1. call[t].steps # <<>>
        BY <1>5 DEF Skip, BatchEnds, WakeUp
    <2>2. \A u \in Task : call'[u].mode = call[u].mode
        BY <1>5, <2>1, Dropped DEF Skip, BatchEnds, WakeUp
    <2>3. \A u \in Task : at'[u] \in {"on", "blocked"} => at[u] \in {"on", "blocked"}
        BY <1>5 DEF Skip, BatchEnds, WakeUp
    <2> QED BY <1>0, <2>2, <2>3
<1>6. ASSUME NEW t \in Task, Return(t) PROVE Keeps(mode)' \subseteq Keeps(mode)
    <2>1. \A u \in Task : call'[u].mode = call[u].mode
        BY <1>6, Answered
    <2>2. \A u \in Task : at'[u] \in {"on", "blocked"} => at[u] \in {"on", "blocked"}
        BY <1>6 DEF Return
    <2> QED BY <1>0, <2>1, <2>2
<1> QED BY <1>1, <1>2, <1>3, <1>4, <1>5, <1>6 DEF Next, Step

LEMMA ThreadsStep ==
    ASSUME Ranges, WaitsForSomething, ThreadsKept, [Next]_vars
    PROVE  ThreadsKept'
<1> SUFFICES ASSUME NEW mode \in {"async", "normal"}
             PROVE  /\ IsFiniteSet(Keeps(mode)')
                    /\ Cardinality(Keeps(mode)') <= Threads(mode)
    BY DEF ThreadsKept, Threads
<1>1. /\ IsFiniteSet(Keeps(mode)) /\ Cardinality(Keeps(mode)) \in Nat
      /\ Cardinality(Keeps(mode)) <= Threads(mode) /\ Threads(mode) = 2
    BY FS_CardinalityType
       DEF ThreadsKept, Threads, BRIDGE_ASYNC_WORKER_THREADS, BRIDGE_THREAD_POOL_SIZE
<1>2. CASE Keeps(mode)' \subseteq Keeps(mode)
    <2>1. /\ IsFiniteSet(Keeps(mode)') /\ Cardinality(Keeps(mode)') \in Nat
          /\ Cardinality(Keeps(mode)') <= Cardinality(Keeps(mode))
        BY <1>1, <1>2, FS_Subset, FS_CardinalityType
    <2> QED BY <1>1, <2>1
<1>3. ASSUME NEW t \in Task, Cardinality(Keeps(mode)) < Threads(mode),
             Keeps(mode)' = Keeps(mode) \union {t}
      PROVE  IsFiniteSet(Keeps(mode)') /\ Cardinality(Keeps(mode)') <= Threads(mode)
    <2>1. /\ IsFiniteSet(Keeps(mode)')
          /\ \/ Cardinality(Keeps(mode)') = Cardinality(Keeps(mode))
             \/ Cardinality(Keeps(mode)') = Cardinality(Keeps(mode)) + 1
        BY <1>1, <1>3, FS_AddElement
    <2> QED BY <1>1, <1>3, <2>1
<1> QED BY <1>2, <1>3, ThreadsMove

LEMMA BridgeInit == Init => BridgeInv
<1> SUFFICES ASSUME Init PROVE BridgeInv
    OBVIOUS
<1>1. Ranges
    <2>1. [mode |-> "sync", steps |-> <<>>] \in Calls
        BY DEF Calls, SyncPlans
    <2> QED BY <2>1, ConstantsAssumption DEF Init, Ranges
<1>2. SyncKeepsItsThread /\ InstallerGoesOn /\ WaitsForSomething
    BY ConstantsAssumption DEF Init, SyncKeepsItsThread, InstallerGoesOn, WaitsForSomething
<1>3. ASSUME NEW mode \in {"async", "normal"} PROVE Keeps(mode) = {}
    BY DEF Init, Keeps
<1>4. ThreadsKept
    BY <1>3, FS_EmptySet
       DEF ThreadsKept, Threads, BRIDGE_ASYNC_WORKER_THREADS, BRIDGE_THREAD_POOL_SIZE
<1> QED BY <1>1, <1>2, <1>4 DEF BridgeInv

LEMMA BridgeInvariant == Spec => []BridgeInv
<1>1. BridgeInv /\ [Next]_vars => BridgeInv'
    BY RangesStep, WaitsStep, InstallerStep, ThreadsStep DEF BridgeInv
<1> QED BY <1>1, BridgeInit, PTL DEF Spec

-----------------------------------------------------------------------------
(* The theorems *)

\* The values are in their ranges, and the calls of a mode never keep more threads than
\* it has, however many calls are made.
THEOREM BridgeTypeCorrect == Spec => []TypeOK
<1>1. ASSUME BridgeInv PROVE TypeOK
    <2>1. ASSUME NEW c \in Calls PROVE c \in [mode : Modes, steps : Seq(Waits)]
        <3>1. SyncPlans \subseteq Seq(Waits)
            BY DEF SyncPlans, Waits
        <3>2. Plans \subseteq Seq(Waits)
            BY SeqMonotonic DEF Plans, BridgeWaits
        <3> QED BY <2>1, <3>1, <3>2 DEF Calls, Modes
    <2>2. /\ Cardinality(Keeps("async")) <= BRIDGE_ASYNC_WORKER_THREADS
          /\ Cardinality(Keeps("normal")) <= BRIDGE_THREAD_POOL_SIZE
        BY <1>1 DEF BridgeInv, ThreadsKept, Threads
    <2> QED BY <1>1, <2>1, <2>2 DEF BridgeInv, Ranges, TypeOK
<1> QED BY <1>1, BridgeInvariant, PTL

\* But for locks of a few instructions or a line of the log, an engine's own thread
\* waits for nobody but the other engine's init_logger, and that one for no call at all,
\* whichever functions are called by however many engines.
THEOREM UiWaitsForInitLogger == Spec => []UiWaitsForTheLogOnly
<1>1. ASSUME BridgeInv PROVE UiWaitsForTheLogOnly
    <2> SUFFICES ASSUME NEW t \in Task, at[t] = "blocked", call[t].mode = "sync"
                 PROVE  /\ NextWait(t) \in {"logger", "files"}
                        /\ \A u \in WaitsFor(t) :
                            /\ call[u].mode = "sync"
                            /\ at[u] = "on" \/ (at[u] = "blocked" /\ WaitsFor(u) = {})
        BY DEF UiWaitsForTheLogOnly
    <2> USE <1>1 DEF BridgeInv
    <2>1. NextWait(t) \in {"logger", "files"}
        BY SyncWaits DEF WaitsForSomething
    <2>2. ASSUME NEW u \in WaitsFor(t) PROVE u \in Task /\ logger = u
        BY <2>1, <2>2 DEF WaitsFor, Ranges
    <2>3. ASSUME NEW u \in Task, logger = u, at[u] = "blocked" PROVE WaitsFor(u) = {}
        <3>1. call[u].steps = <<"files">>
            BY <2>3 DEF InstallerGoesOn, WaitsForSomething
        <3>2. NextWait(u) = "files"
            BY <3>1 DEF NextWait
        <3> QED BY <3>2 DEF WaitsFor
    <2> QED BY <2>1, <2>2, <2>3 DEF InstallerGoesOn
<1> QED BY <1>1, BridgeInvariant, PTL

=============================================================================
