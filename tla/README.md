# A TLA+ model of cw_tari_wallet

`cw_tari_wallet` is the Rust library that Cake Wallet's Flutter code calls to use a Tari wallet.
Two Flutter engines (the app and Android's background sync) can run in one process, and every
`static` of the library is shared by both. This directory models the parts whose correctness
depends on the order of their steps, checks them with TLC on small instances and proves the most
important invariants with TLAPS for every instance. Paths below are relative to the repository.

## Inventory

| Component | State | Operations | Hard behaviour | What makes it correct |
|---|---|---|---|---|
| Database and sessions, `src/api/db.rs` | recorded path, shared pool, open count and generation of each wallet, one unlock gate per wallet; minotari's key sessions | `set_database_path`, `unlock_wallet`, `lock_wallet`, `force_lock_wallet`, `lock_wallet_everywhere` | Argon2 runs with the state lock released; the gate is not FIFO; a force lock removes counts of calls in flight | the passphrase is always checked; a counted holder has its session; a session nobody holds is locked; the pool serves everyone counted |
| Scan handles and slots, `src/api/scanner.rs` | `issued`, `stopped_before_start`, `starting`, one slot per wallet, one maintenance lock per wallet | `create_scan_handle`, `start_scan`, `rescan`, `stop_scan`, `stop_wallet_scans`, `cancel_wallet_scans` | every `await` of a scan lets it be stopped, replaced or locked out; panics | one writer at a time; a stopped scan never writes; nobody waits for ever; the right terminal event |
| Scan event stream, `src/api/scanner.rs` | bounded event channel, sink open or closed | `run_forwarder`, terminal event | full buffer during a cancel, closed stream | exactly one terminal event, last; the reader never stops before the scanner |
| Wallet maintenance, `src/api/wallet.rs`, `send_transaction.rs` | the maintenance lock, account rows | `change_passphrase`, `delete_wallet`, `rename_wallet`, `abandon_send` | the other engine unlocks, scans or changes the wallet meanwhile | scans stay out during the write; nobody is left counted for a deleted name |
| Send pipeline, `src/api/send_transaction.rs` | reserved outputs, pending row, completed transaction | `send_transaction`, `release_expired_reservations` | a lock or a crash between reserve, sign, record and broadcast | no reservation outlives its send for longer than the sweep; nothing recorded after a lock was seen |
| Wallet creation, `src/api/wallet.rs`, `domain/keys.rs` | account rows | `create_wallet`, `restore_wallet`, `import_view_only_wallet`, `import_wallet_from_keys` | each can fail after it has set the process's network | the row is made in the process's network |
| Network, `src/api/network.rs` | write-once global | `parse_network`, `apply_network` | two networks in one process | never silently overwritten |
| Logger, `src/api/logger.rs` | installed flag, levels, log crate's maximum level, output lock, flags of a broken writer and of a thread inside a write | `init_logger`, `set_log_level`, a log macro, the panic hook | a failed initialisation that is tried again; a panic inside a log write; levels, caps and ceilings in the wrong order | no endpoint or credential in the file; no level lost; logging never stops the app |
| Key reads: `address.rs`, `signing.rs`, `send_transaction.rs`, `with_session` of `db.rs` | none of their own | `get_address`, `sign_message`, a send's key manager | the session can go and come back between two steps | minotari's empty-passphrase fallback is not answered |
| Bridge runtime, `bridge_runtime.rs`, `frb_generated.rs` | two runtime workers, two pool threads | the 44 functions of the bridge | calls that wait for each other and keep their thread | the UI's thread waits for nobody but another `init_logger`; every call is answered |
| Algorithms: `height.rs`, `utils.rs`, `domain/{validation,text}.rs` | none | saturating heights, thousands separators, recipient and character checks | overflow and boundaries | agree with their definitions |
| Adapters: `fee.rs`, `balance.rs`, `transactions.rs`, `seeds.rs`, `base_node.rs`, `error.rs`, `domain/{address,keys}.rs` | none of their own | reads and conversions | | |
| Test code: `verify/` | | | | |

How they interact: every lock of a session (db.rs) runs under the wallet's gate and cancels the
wallet's scans (scanner.rs); delete and rename hold the wallet's maintenance lock while they
lock it twice around their write; a starting scan checks the session, waits for the maintenance
lock, takes its slot and waits for the scan it replaced; a send reads the keys through the
session and re-checks it twice. Every one of these calls runs on the few threads of the bridge
runtime, and all of them log.

## Modules

| Module | What it is |
|---|---|
| `SessionContract.tla` | abstract: what the sessions promise the engines |
| `KeySessions.tla` | the sessions of db.rs with the delete and rename of wallet.rs |
| `MCKeySessions.tla`, `KeySessions_wallet.cfg` | its instance for TLC |
| `KeySessionProofs.tla` | theorems about `KeySessions`, and that it implements `SessionContract` |
| `KeyReads.tla` | `KeySessions` composed with the calls that read a wallet's keys |
| `MCKeyReads.tla`, `KeyReads_run.cfg` | its instance for TLC |
| `KeyReadsProofs.tla` | a theorem about `KeyReads` |
| `SlotContract.tla` | abstract: what the scan slots promise a wallet's database |
| `ScanSlots.tla` | scan handles, slots and the maintenance lock of scanner.rs |
| `MCScanSlots.tla`, `ScanSlots_{race,live,stop}.cfg` | its instances for TLC |
| `ScanSlotProofs.tla` | theorems about `ScanSlots`, and that it implements `SlotContract` |
| `ScanContract.tla` | abstract: what a scan's event stream promises its listener |
| `ScanStream.tla` | the bridge of one running scan: forwarder, buffer, terminal event |
| `MCScanStream.tla`, `ScanStream_full.cfg` | its instance for TLC, with the refinement of `ScanContract` |
| `ScanStreamProofs.tla` | theorems about `ScanStream`, and that it implements `ScanContract` |
| `SendPipeline.tla` | the sends of send_transaction.rs with the expiry sweep of db.rs |
| `MCSendPipeline.tla`, `SendPipeline_{sends,moved}.cfg` | its instances for TLC |
| `SendPipelineProofs.tla` | theorems about `SendPipeline` |
| `WalletLifecycle.tla` | creation, change of passphrase, abandoned sends, delete and rename, and the network |
| `MCWalletLifecycle.tla`, `WalletLifecycle_run.cfg` | its instance for TLC |
| `WalletProofs.tla` | theorems about `WalletLifecycle` |
| `Logger.tla` | the log file, its levels and the panic hook of logger.rs |
| `MCLogger.tla`, `Logger_{run,payload}.cfg` | its instances for TLC |
| `LoggerProofs.tla` | theorems about `Logger` |
| `BridgeRuntime.tla` | the threads every call runs on and what it waits for |
| `MCBridgeRuntime.tla`, `BridgeRuntime_calls.cfg` | its instance for TLC |
| `BridgeRuntimeProofs.tla` | theorems about `BridgeRuntime` |

`PROJECT.json` maps every definition to its lines and lists the hazards with the properties that
cover them. The definitions whose comment begins with "Mutant of" are plausible bugs of the
definition after them; each property is violated when one of them takes that definition's place.

### KeySessions

A *task* is one call into the library. `path`, `open`, `count`, `generation` and
`next_generation` are `DbState`; each of its critical sections is one action. `gate` is
`UNLOCK_GATES`; a gate is any waiter's to take, as Rust's `Mutex` promises no order. `pc`
follows the code: an unlock counts (`UnlockCount`), takes the gate, asks whether there is a
session (`CheckSession`), verifies the passphrase if there is one, asks again, else unlocks
(`SessionUnlock`), and at last confirms that it is still counted (`Confirm`) or gives its count
back (`ReleaseFailed`). Every lock goes through `ReadHeld`, `SessionLock` and `CancelScans`,
which are `lock_session_gate_held`. A task that got Ok stays `holding` until its engine calls
`lock_wallet` (`LockRelease`) or learns that its hold is gone (`ForgetHold`); `StaleLocks` says
whether engines also lock after they lost their hold. Force locks, deletes and renames begin at
any time, and delete and rename go through `LockEverywhere` before and after `Change`.

External, modelled from how the code uses it: minotari's key sessions are a set of wallet names,
because `session::lock` takes only a name; `unlock` answers Ok for any passphrase when there is
a session, and its delete and rename drop the old name's session. Which keys a session holds,
and of which database, is not modelled. `scanning` abstracts ScanSlots: the wallets that have a
scan that saw the session and was not cancelled.

`SessionContract` is what an engine may rely on. A hold is granted with a session (`Grant`) and
ends with its engine's lock (`Leave`) or with every other hold of the wallet (`Evict`); a session
is dropped only when nobody holds it (`Close`) or by a delete or rename (`Change`), which returns
(`EndChange`) only when nobody is left holding the wallet without a session. Its state is read off
`KeySessions`: `session <- live`, `held` the calls that are `holding` and still counted, `changing`
the wallets of a `ChangeInFlight`. The gates, the generations and the steps of an unlock are not
in it. A stale lock shows as an `Evict` or as nothing. The contract has no lines of its own in the
map, nor has `SlotContract`.

Left out: poisoned locks (then the code fails or, in `lock_session_gate_held`, locks),
saturation of the u32 count and wrap of the u64 generation, `change_passphrase` (it keeps the
session; WalletLifecycle has it), the wait for a cancelled scan (it is in ScanSlots).

### ScanSlots

A *scan* is one handle with the task that uses it, a *caller* a task that stops scans. The
critical sections of `SCAN_STATE` and the stretches between two awaits are the actions: `Claim`,
`CheckSession`, `WaitMaintenance`, `ClaimSlot` (with `take_slot` as `Refused` and `TakeSlot`),
`EnterSlot`, `FinishRollback`, `ScannerEnds`, `ClearSlot`, `LeaveStarting`, `Return`. The
scanner itself is minotari's: it writes until it ends, fails, panics or was cancelled, and its
last answer and its reaction to the token come in any order. Callers run `stop_scan`, a lock
(`LockSession`, `CancelUnderGate`, then `stop_wallet_scans`) or a maintenance operation
(`BeginMaintenance` to `EndMaintenance`). `replacement`, `cause` and `stop_returned` are history
variables, read by properties and never by a guard.

`SlotContract` knows a wallet's writer, a scan or a maintenance operation and never two, and
whether a scan may still write: `Begin` and `End` are the stretch from `EnterSlot` until the
scanner is done, `GiveUp` is every way a scan that has not written can lose its right to (a stop,
a replacement, a lock, a refusal), `Return` the stream's end. `ScanSlots` implements it under
`writer <- Writers(w)` and `stage <- Stage(s)`; handles, tokens, `starting` and the queue behind a
slot are not in it. Its run has two scans and two callers; the same property was found to hold with the
three scans of `scans`, where it takes too long to be checked each time, and the theorem has no
bound on either.

Left out: a scan future dropped by its runtime, poisoned locks, a closed stream exactly between
two instructions of `take_slot` (see the hazards), the content of the events.

### ScanStream and ScanContract

One scan in its slot. minotari's scanner (`Progress`, `ScannerReturns`, `ScannerFails`) emits
into a channel with room for `Buffer` events (`ScanConfiguration.event_buffer`, `Room`), which
is assumed not to be zero, as `build_scanner` hands the number on unchecked
(`scanner.rs:741-742`);
`Receive` is one turn of `run_forwarder`'s loop, with `map_processing_event` and `is_terminal`
in `Handle` and the closed sink in `Callback`; `EndStream` is the end of `scan_in_slot` with the
event that `run_scan` sends, `Return` the token it fires. An event is a number and a kind:
shown, never shown, or last. The environment cancels or supersedes the scan, closes the stream,
or makes the forwarder task panic.

`ScanContract` is the promise of `docs/ARCHITECTURE.md`: events in order, one terminal event,
nothing after it. It has no lines of its own in the map. `ScanStream` implements it under `seen
<- delivered`, `over <- (scan = "returned")`.

External: the scanner emits one event of the last kind before it returns Ok and none when it
fails, says `Cancelled` only when it was cancelled, and drops its sender when it returns. An
unbounded channel is the case in which `Buffer` exceeds what is emitted.

### SendPipeline

A *send* is one call of `send_transaction`, and the pending row it inserts. `pc` follows the
call: `CreateSender` takes a pool on the current file, `LoadKeys` reads the keys through the
session, `SendSweeps` and `SweepRow` are its expiry sweep, `Build` reserves the inputs,
`CheckUnlocked` is the session check before signing and again before finalize, `Record` is
minotari's finalize up to its commit and `Sent` the broadcast and the answer. The paths that
give up after the reservation go through `GiveUp`, which is `release_send_reservation`. `lock`,
`row` and `expired` are the databases; they survive `Kill`. The rest of the process is `App`:
the path, the pool and the session change in any order that db.rs allows (KeySessions models
how), a scan starts and sweeps, a reservation runs out. A sweep lists its rows in one step and
releases them one at a time, so its list may be old by then.

External: minotari reserves, records and expires a row in one database transaction each; it
records only a row that is still pending and expires only such a row; it may or may not release
the reservation when finalize fails; with an empty passphrase it may build a transaction after a
lock, so `Build` has no session guard.

Left out: what is paid to whom and the choice of inputs (any set of free outputs), the stages
reported to Dart, `abandon_send` (in WalletLifecycle), and a second sweep outside sends while
one is under way. `inputs`, `dark` and `released_in` are history variables, read by properties
and never by a guard.

### KeyReads

A *reader* is one call that reads keys, beside the whole of KeySessions: a step is a step of the
sessions (`SessionsStep`, all of `KeySessions!Next`) or one of a reader, which holds neither the
gate nor `DB_STATE`. `Connect` takes a connection, `UnlockedAccount` looks for the row and then
for the session, `ReadKeys` is the closure that with_session runs, and `WithSession` its second
look. `SignMessage` reads the session only. Minotari, for an empty passphrase, takes the
session's keys; when there is none it decrypts with that passphrase, which may or may not be the
wallet's (`FallBack`). `relocked` is a history variable: the wallet gained a session between the
read and the second look.

with_session asks whether there *is* a session, and cannot tell one session from the next. So a
wallet that is locked before the read and unlocked again before the second look lets the result
of the fallback through, while `docs/THREAT_MODEL.md:55-57` says without exception that a key
path that loses its session reports that the wallet is locked. `FallbackNeedsARelock` states
what the code does keep: this is the only way.

### WalletLifecycle

A *call* makes, changes or removes a wallet; a file maps wallet names to row ids. `network` is
Tari's write-once global. The four functions that make a wallet share their steps: each
applies the network, derives its keys and inserts its row; any of it can fail, and the network
then stays set. Nothing changes after the insert: `import_view_only_wallet` reads its keys once
more for its answer, and an error there leaves the row. `Verify` is the passphrase check of
`change_passphrase` and `abandon_send`, made *before* `BeginMaintenance`; `CheckSame` is
`same_account`, and each of them writes on a connection it takes after the wait for the scans
(`StopScans`). Delete and rename take theirs before they lock the wallet (`Connect`,
`LockEverywhere`, `Alter`, `LockAgain`), because the lock may close the pool. Meanwhile the
other engine unlocks, locks and sets another path, where the pool allows it, and the app may end
and start again (`Restart`).

`start` and `moved` are history variables: the current file when the call began, and whether it
changed before the call had its last connection. Calls take their connection anew at several
places by design, and a wallet of the same name and row id may exist in another database, which
`same_account` cannot know; `CheckedWalletIsWritten` and `ChangesStayInTheirDatabase` do not
speak of calls that were moved in that way. `change_passphrase` makes no check like `same_account`:
the properties say that it writes in the database it checked, and that the account is still the one
whose passphrase was checked rests on minotari.

Left out: passphrases (a check passes or fails; minotari's rewrite of the seed decrypts it with
the old passphrase again and refuses another account's), the scans, gates and counts (in
ScanSlots and KeySessions), the read of a wallet that was just made. That a file never gives out
a row id twice is assumed of minotari, as `same_account` does.

### Logger

A *thread* is one of either engine. `init_logger` takes the lock of `LOGGER_INSTALLED`
(`CallInit`, `BeginInit`), may fail before or at fern's `apply` (`InitFails`, `ApplyFails`),
publishes the levels *before* it applies the logger (`PublishLevels`, `Apply`) and logs a notice
of its own; `set_log_level` changes the levels under their lock (`SetLogLevel`) and the log
crate's maximum after it (`RaiseMaximum`). A log macro compares with that maximum (`Log`), the
filter asks the levels (`Filter`, with `LevelFor`, `Ceiling` and the overrides), and a line is
built, waits for fern's output lock and is written (`TakeOutput`, `EnterWrite`, `WriteEnds`). A
panic may happen at any of these steps (`Panics`, `WriterPanics`); its hook logs too, unless the
thread is inside a write (`HookLogs`), and one inside the hook aborts the process (`Abort`).

Targets are sequences of path segments, levels numbers. A text is a sequence of tokens, one
character or `"://"`; `Sanitize` redacts the credentials of URLs, cuts at `FieldCap` tokens and
escapes line breaks, in the code's order. A line is the record's target as it is, then its
message and structured values sanitized: `format_log_line` cleans no target, because targets are
literals and module paths of the source, and `TextsAssumption` says so (no credential and no line
break in them). Left out: the format of a line and of its time, the
rotation and removal of old files, the backtrace's text.

### BridgeRuntime

The wire functions of `frb_generated.rs` are operators of the same names, each a mode and the
waits of the function it calls, in order; `PrimaryDispatch` and `SyncDispatch` are the generated
tables. A *task* is one call. An async call gives its worker back while it awaits (`Suspends`);
a sync or normal call keeps its thread, and so do a scan batch and the building of a send. A
call waits for the unlock gate, the maintenance lock, a scan's end or the installation of the
logger, which other calls hold (`WaitsFor`), or for work, files and answers of the node, which
come (`WakeUp`). `init_logger` is the one sync function with a wait: it takes `LOGGER_INSTALLED`
(`logger.rs:385`) and works on the log's files with it held, and the other engine's `init_logger`
waits for that on its own UI thread. `Return` is possible at every point, as
any step may fail, and drops what the call holds. Left out: the wallets' state, the tokens that
cancel a scan before its slot, tokio's blocking pool (up to 512 threads), the encoding of
arguments, and locks that are held for a few instructions or a line of the log with no wait under
them (`DB_STATE`, `SCAN_STATE`, `LOG_LEVELS`, the log's output, a handle of seed words): sync
functions take some of them too, so "waits for nobody" is said of calls and not of these.

## What the runs check

| Run | Instance | Question |
|---|---|---|
| `sessions` | 2 tasks, 1 wallet, 2 files, 3 generations, stale locks, fair | Do overlapping unlocks, locks, force locks, deletes and renames keep holders, sessions, counts, pool, scans and rows consistent, do they keep `SessionContract`, and is a session nobody holds locked? |
| `key_reads` | 1 reader, 2 tasks, 1 wallet, 2 files, 2 generations | Is the empty-passphrase fallback answered only after a relock? Does no call give back another's count? |
| `scans` | 3 scans, 1 caller, 1 wallet, all kinds of caller, panics | Chains of replacements against stops, locks and maintenance: who writes, who is cut off, what is reported and left behind. |
| `scans_live` | 2 scans, 2 callers that stop or maintain, 1 wallet, panics, fair | No write after a stop or beside maintenance; do the slots keep `SlotContract`; does every stop, maintenance operation and start come to an end? |
| `stream_contract` | buffer of 2, up to 4 events before the last, fair | Does the stream keep `ScanContract`, lose nothing and end when it is cancelled with a full buffer? |
| `sends` | 2 sends, 1 output, 2 files, 1 kill, database errors, fair | Do sends, sweeps, locks, path changes and a kill leave recorded and live sends their inputs, does the answer tell the record, and does every reservation end? |
| `lifecycle` | 2 calls, 2 names, 2 files, 2 networks, 2 row ids, restarts | Does each call change the wallet and the database it checked, in one network? |
| `logger` | 2 threads, 3 configurations, 3 levels, 4 records, fair | Endpoints, credentials, line breaks and lost levels; does every call that logs return? |
| `bridge` | 3 calls of all functions, on one wallet or two, fair | Does the UI's thread wait for nothing but another `init_logger`, and is every call answered? |
| `scans_stop` | 2 scans, 1 caller | The sentence of `docs/ARCHITECTURE.md:184-186` about stops; violated. |
| `sends_moved` | 1 send, 1 output, 2 files, no kill | The sentence of `send_transaction.rs:509-513` about a send whose wallet was locked; violated. |
| `logger_payload` | as `logger` | The sentence of `logger.rs:46-47` about minotari's payload summaries; violated. |

Bounds. One wallet is enough for the races, since gates, counts, slots and maintenance locks are
per wallet. What wallets share (pool, path, generations) is left to the proofs, which hold for
any number of them (`PoolIsForTheCounted`); in the run, one wallet in two files moves the pool
as well. Two tasks suffice for a loser and the force lock, whose task is free again to be the
newer holder. `MaxGeneration` bounds how often a count rises from zero; three generations leave
a behaviour with an old, a current and a newer holder. A scan needs two others to be replaced
while it waits for the one it replaced. Handles are used once, so the scans of an instance are
also the number of starts. Four events against a buffer of two fill it twice, before and after a
cancel. Two sends are one that holds outputs and one that wants them, and one output makes them
compete; two files are the send's and another; one kill separates a reservation from the run
that made it (`MaxKills`). In `lifecycle` both files start with a wallet of the same name and
row id, the worst case for a check by id, and one more row can be made in each (`MaxId`); one of
the calls makes, deletes and renames while the other checks a passphrase first or makes a
wallet. `logger`'s configurations are the default one, one that opens the HTTP client up, and a
quiet one; its records are one for each way a line could leak. In `bridge` three calls outnumber
the two workers and the two pool threads; the second and third are not of the two or five
functions with the most waits, for the size of the run, and the third not `init_logger`, which each
of the two engines calls once. `scans_live` has no caller that locks: with two callers of all three
kinds it takes longer than it should to be checked each time, and with one it was found to hold,
panics included.

Every component's module but `KeyReads`, which adds to another's state, has a `TypeOK`, and each
of them is proved. It is an invariant of the run `logger`, whose `TypeOK` also says who holds the
output lock. The others were found to hold on the same instances before they were proved, and no run spends time on them:
`ScanSlots` and `ScanStream` state ranges, `WalletLifecycle` also that a file gives a row id once,
`BridgeRuntime` also that no more calls run than there are threads.

`scans_stop` is a disagreement between a document and the code. A stop of a scan that waits for
its slot removes it from `starting` and returns at once (`scanner.rs:138-140`), and so does a
stop after the slot was cleared and before the terminal event (`scanner.rs:616`): the stream is
still open. The scan does not write afterwards (`StoppedScanNeverWrites`).

`sends_moved` is another. The comment of `build_while_unlocked` says that the reservation of a
send whose wallet was locked meanwhile is released. `release_send_reservation` looks for the row
through the process's current database (`send_transaction.rs:387`), while the session check
beside it uses the send's own pool on purpose (`send_transaction.rs:536`). When the wallet was
locked and the other engine has set another path, the row is not found, and the inputs stay
reserved for 24 hours. `FailedSendReleases` says that this is the only way, short of a database
error, and `ReservationEnds` that a later sweep heals it.

`logger_payload` is the third. An override that is not stricter than the configured default
gives way to the run-time level (`logger.rs:174-177`), and the payload summaries' cap at Warn is
such an override. Under a configured default of Warn or less, `set_log_level(Info)` therefore
writes recipients, amounts and memos, though no caller named that target.

Deadlock is checked everywhere but in `stream_contract`, where the one stream ends, and in
`bridge`, where every call is made once and answered. Symmetry is used in the safety runs only
(`key_reads`, `scans`, `scans_stop`, `lifecycle`): tasks, scans, callers, wallets, files and
networks are interchangeable there.

Fairness. `sessions` assumes that the operating system runs a call that has begun (`WF` of
`InsideCall`); nobody has to begin one. `scans_live` assumes that the runtime runs every task
that can run, that a *cancelled* scan's scanner returns (its node request ends at the request
timeout, `docs/THREAT_MODEL.md`, "Lock and maintenance waits are bounded only by the node"), and
that `tokio::sync::Mutex`, which is FIFO, lets a waiting scan have the maintenance lock in the
end (`SF`). A scan that is not cancelled may run for ever, and no Rust `Mutex` is assumed to be fair there. `stream_contract` assumes the same of the bridge's tasks and of a cancelled scanner, which
needs room for its last event. `sends` assumes that a send that has begun is run, that a begun
sweep goes on, that a reservation runs out, and that scans are started in a database that is in
use again and again (`SF`), as a wallet app does; nobody has to send, lock, unlock or come back
to a database, and `ReservationEnds` has that as its premise. `logger` assumes that a thread
that has begun is run, and that it gets a lock that is freed again and again (`SF`): no lock of
the logger is held while another one is waited for without end, and the operating system's
mutexes do not starve one of two threads for ever. `bridge` assumes that a thread works on the
call it has, that the node's answer or its timeout comes, and that the queues of the pool and of
the runtime are first in, first out, so that a queued call has its turn (`SF` of `Schedule`)
although running scans come back to their worker for ever.

## What is proved

`KeySessionProofs` proves, for all sets of tasks, wallets and files and every bound, from
`ConstantsAssumption` alone (`None` is nobody's name, the bound is a number, the switch is a
Boolean):

| Theorem | Property |
|---|---|
| `TypeCorrect` | `TypeOK` |
| `PassphraseAlwaysChecked` | `WrongPassphraseHoldsNothing` |
| `HoldersKeepTheSession` | `HolderHasSession` |
| `NoSessionIsOrphaned` | `NoOrphanSession` |
| `DeletedWalletsAreReleased` | `DeletedWalletIsNotHeld` |
| `PoolIsForTheCounted` | `PoolServesTheCounted` |
| `ScansHaveTheirSession` | `ScanHasSession` |
| `NoCountIsLeaked` | `CountNeverLeaks` |
| `CountsEndWithTheirCalls` | `CountEndsWithItsCall` |
| `SessionsKeepTheirContract` | `KeepsSessionContract` |

`CountsEndWithTheirCalls` has a hypothesis, `~StaleLocks`, as the run `key_reads` has: every engine makes one
lock per hold. Without it the property is false, because a count has no holder's identity
(`db.rs:323`); every other theorem holds with and without stale locks. They follow from the inductive invariant `IInv` (`Invariance`). Its parts beyond the properties:

- `GateHeld`: whoever is inside a gate holds it. So no session appears between an unlock's
  look at it and its call of minotari (`PassphraseChecked`).
- `FreshGenerations`: every generation in use is below the next one. So a call that lost
  its count never finds it again when the wallet is counted anew (`CountedBefore`).
- `DropIsSafe`: between the holder check of a lock and `session::lock`, nobody who was
  told Ok is counted, because one can only come to hold the wallet through the gate. This
  is why the re-check under the gate is enough although `DB_STATE` is released.
- `SessionKept` and `AccountKept` strengthen `HolderHasSession` and
  `DeletedWalletIsNotHeld` to calls about to be told Ok, and to changes that still have to
  remove the counts (`RemovalPending`): with "a change is in flight" alone a
  change could end and leave them.
- `OpFits`: a call's stage goes with its operation. A call that is counted is an unlock, so it
  never ends another's change.
- `CountsCalls`: a wallet's count is at most the number of the calls that are counted, and equal
  to it without stale locks. Each step adds one call to that finite set, takes one out, empties it
  or leaves it alone (`CountMoves`), and the count follows (`CountsStep`).

`SessionsKeepTheirContract` is the refinement of `SessionContract`. `ContractStep` maps every step
to one of the contract's or to none; what the steps need is in the invariant. A grant needs
`SessionKept` (`ConfirmGrants`), a close needs `DropIsSafe` (`SessionMoves`), the end of a change
needs `SessionKept` again (`ChangeMoves`), and an unlock that counts a wallet anew makes no old
loser a holder because of `FreshGenerations`. `ReleaseFailed` and `LockRelease` end everybody's
hold with the last count, whosever count it was (`CountGoneEvicts`).

Lemmas such as `SessionEnds`, `AccountGoes`, `CallStep` and `RemovalStep` say once what a step
can do to a session, a row or a call; the invariants cite them.

`SendPipelineProofs` proves, for all sets of sends, outputs and files and any number of kills,
again from `ConstantsAssumption` alone:

| Theorem | Property |
|---|---|
| `SendTypeCorrect` | `TypeOK` |
| `RecordedSendsKeepInputs` | `RecordedKeepsInputs` |
| `LiveSendsKeepInputs` | `LiveSendKeepsInputs` |
| `AnswersTellTheRecord` | `AnswerTellsTheRecord` |
| `LockedSendsAreNotRecorded` | `LockedSendIsNotRecorded` |
| `FailedSendsRelease` | `FailedSendReleases` |

Its inductive invariant (`SendInvariance`) adds:

- `SweepsExpired`: a sweep lists expired rows only, and a row never becomes unexpired. With
  the status that minotari checks again under its write, this makes an old list harmless: the row
  of a live send is not on it, and a recorded row is no longer pending.
- `RowOfStage`: where a send is tells what its row can be. A send that may still record was never
  released by its own failure path.
- `HoldsInputs`: a pending or completed row holds its inputs in its own file.
- `DarkIsUnchecked`: a send whose wallet was locked before its last check is before that check
  or has failed, because the check fails while the wallet stays locked.
- `FilesKnown`: a reservation has a file.

`LoggerProofs` proves, for all sets of threads, configurations, levels and records and any cap,
from `LoggerAssumption` (they have the types that the bridge passes) and, for the last one,
`TextsAssumption`:

| Theorem | Property |
|---|---|
| `LoggerTypeCorrect` | `TypeOK` |
| `EndpointsAreHidden` | `EndpointsStayHidden` |
| `MaximumHidesNothing` | `MaximumCoversTargets` |
| `LinesHideCredentials` | `LinesAreClean` |

The log crate's maximum is a greatest element and a target's level a least one, of finite sets
of levels: `HasGreatest` and `HasLeast` show that they exist, `MaximumBounds` that the maximum
is at least every target's level, and `EnabledHidesEndpoints` that the ceiling, taken last, wins
over every override. The invariant behind `MaximumCoversTargets` (`MaximumInForce`) follows the
maximum from the thread that changed the levels to the moment it sets it; `raced` marks the two
overlapping changes that the property excuses, because the code promises nothing about them.

`LinesAreClean` is proved for texts of any length. `TextsAssumption` says that a text is a
sequence of tokens, that the token `"p"` stands in the userinfo of a URL only, which is what
the token is for, and that a target has neither it nor a line break (`TargetIsClean`). `RedactHides` shows that every piece `Redact` keeps is free of it, and
`SanitizeHides` that neither the cut nor the escape brings one back. Putting the pieces together
is `FlattenSeq`, a recursion over the text; that it has a solution (`FlattenExists`) is an
induction, which is made by hand: a least length without a solution would extend the solution of
the length before it.

`KeyReadsProofs` proves `FallbackIsCaught`, that is `FallbackNeedsARelock`, for any number of
readers, calls, wallets and databases. It uses nothing of the sessions but that a wallet has one
or not: whatever `KeySessions` does, a reader whose keys came from the fallback meets a session
at its second look only if one appeared since, which `relocked` remembers.

`ScanSlotProofs` proves, for all sets of scans, callers and wallets, all kinds of caller, with
and without panics, from `ConstantsAssumption` (`None` is no element of the other sets, and scans
are not callers, because both hold the maintenance lock):

| Theorem | Property |
|---|---|
| `ScanTypeCorrect` | `TypeOK` |
| `OneScanAtATime` | `OneScanWrites` |
| `MaintenanceAlone` | `MaintenanceIsAlone` |
| `StopIsFinal` | `StoppedScanNeverWrites` |
| `TerminalEventIsTrue` | `TerminalTellsTheCause` |
| `ForegroundKeepsItsSlot` | `ForegroundIsNotCutOff` |
| `ScansLoseTheirSession` | `ScanHasSession` |
| `EndedScanIsGone` | `EndedScanLeavesNothing` |
| `SlotsKeepTheirContract` | `KeepsSlotContract` |

The heart of the invariant `SlotInv` is `Queued`. A scan waits only for the one it replaced, and
this one may itself still wait for another, so "nobody else writes" cannot be said of two scans
alone. `Queued` says that the scans of a wallet that have or wait for their turn stand in a
line: there is a `rank` by which the last is in the slot, and everybody behind another waits for
somebody who is not before that one (`InOrder`). Two scans that write would both be first. The
slot gains a scan only at the end of the line (`LastJoins`), and only a first one goes on
(`FirstGoesOn`) or leaves (`FirstLeaves`), because a scan that waits is not cancelled out of its
wait. Its other parts:

- `MaintenanceWaits` and `LocksHeld`: a maintenance operation waits for the scan in the slot,
  which is the last in the line; while it holds the lock nobody joins, so when that one has
  stopped the line is empty.
- `StopsKept`: a stopped scan has no entry with which it could still take a slot.
- `TokensInPlace`, `OutcomesInPlace`: a token's flags agree with what cancelled it first, and
  the answer that was chosen agrees with the flags until it is sent.
- `ReplacementWaits`: a scan that was cut off and still runs is the one its replacement waits
  for, so its priority is the one that was compared.
- `HandlesInPlace`, `SlotsInPlace`, `CallersInPlace`: an entry of the tables is where its task is.

`SlotsKeepTheirContract` is the refinement of `SlotContract`. That a wallet has one writer comes
from `Queued` and `MaintenanceWaits` (`WriterIsAlone`), and that the next one finds nobody from the
same (`EnterBegins`, `WaitMaintains`). A scan is over for the contract as soon as it can no longer
take a slot, so the stops and locks have to show that this never changes back (`OverIsNot`,
`StageAfter`): all they do to other scans is to give them up (`StepGivesUp`).

`ScanStreamProofs` proves, for every buffer of at least one event and every bound on events:

| Theorem | Property |
|---|---|
| `StreamTypeCorrect` | `TypeOK` |
| `NoEventIsLost` | `EverythingIsDelivered` |
| `StreamKeepsItsContract` | `KeepsContract` |

The last is the refinement: the initial states map to initial states of `ScanContract`
(`ContractInit`), and every step to one of its steps or to none (`ContractStep`). The invariant
`StreamInv` numbers the events: those in the channel are in the order of their emission
(`ChannelInOrder`), all that was delivered is older (`DeliveredBefore`), and a progress event
that was emitted is delivered or in the channel while the sink is open (`NothingLost`). So the
next event the forwarder shows is newer than every event before it; and since the terminal event
is sent after the forwarder ended, which it does only when the scanner returned and the channel
is empty (`StagesInOrder`), it is the last and nothing is missing.

`WalletProofs` proves, for all sets of calls, files, names and networks and whatever operations
the calls may be, from `ConstantsAssumption` (the wallets at the start have the first row ids,
one each; `None` is no element of the other sets):

| Theorem | Property |
|---|---|
| `WalletTypeCorrect` | `TypeOK` |
| `CheckedIsWritten` | `CheckedWalletIsWritten` |
| `ChangesStay` | `ChangesStayInTheirDatabase` |
| `OneNetworkOnly` | `OneNetwork` |

That a file never uses a row id twice (`RowIdsDiffer`, a part of `TypeOK`) is needed for the rest:
it makes an id found under the same name the same account. `LockExcludes` says that whoever is
between its maintenance lock and its return is the only one there for that name. `CheckedStays`
then says that once `same_account` agreed, the account stays its name's until it is written: a
delete or rename of the name needs its lock, an insert needs the name to be free, and a rename to
it too. `StaysOnItsFile` and `PathFollowsPool` say that a call that nobody moved is still on the
file it began on, and `NetworkKept` that between the network's choice and the insert the process's
network is the call's.

`BridgeRuntimeProofs` proves, for any number of calls of any functions about any wallets:

| Theorem | Property |
|---|---|
| `BridgeTypeCorrect` | `TypeOK` |
| `UiWaitsForInitLogger` | `UiWaitsForTheLogOnly` |

Every function's plan is a sequence of waits in which the gate is never the last one
(`PlansFit`), so a call that waits has something to wait for (`WaitsForSomething`). The functions
with the sync mode have no plan but `init_logger`'s (`SyncFits`), and nothing makes another plan theirs
(`SyncKeepsItsThread`: a sync call is never parked or queued either). So the UI's thread waits for
files or for the holder of the logger's lock; that one is a sync call past its own wait for it, and
is at work on the files or runs on to its return (`InstallerGoesOn`). The theorem
therefore excludes chains too: no UI thread waits for a pool thread through another engine's call.
The calls that keep a thread of a mode are a finite set that only `Schedule` adds to, one at a time
and below the limit (`ThreadsKept`). A new wire function that is sync and waits, or a wait added to
one of these, breaks `SyncFits`.

Only model-checked:

- All liveness, because fairness and `ENABLED` are beyond the prover: `SessionIsLocked`,
  `CallersReturn`, `ScansProceed`, `CancelledStreamEnds`, `ReservationEnds`, `EveryLogReturns`,
  `EveryCallIsAnswered`.
- The three runs that expect a violation, which show a state that can be reached.

Every other property of the runs has a theorem.

## Not modelled

- Amount formatting (`utils.rs`) and text cleaning (`domain/text.rs`): digits and characters put together, without
  state.
- Heights and birthdays: their waits are in `BridgeRuntime`; the arithmetic is minotari's or a
  saturating sum of u64, beyond the integers of TLC.
- What the reads answer: balances, transactions, seed words, fee estimates, the node's answers. They change no state of
  the bridge; those that run async have their waits in `BridgeRuntime`.
- Key derivation, address encoding and signatures: the Tari libraries'.
- `error.rs`: errors turned into texts.
- The encoding in `frb_generated.rs` and the Dart side: flutter_rust_bridge's.
- `verify/`: a replay harness beside the library.

## Plan

What is left to do, in the order of its worth:

1. `KeySessions` composed with `ScanSlots` through the session check, the lock and the
   maintenance lock, in place of the abstraction `scanning` of the one and `live` of the other.
   The contracts are the interface: a composition would show that the scans' promise holds
   beside the sessions' and not of a free environment.
2. The three hazards without a property: a closed stream between two instructions of `take_slot`
   needs its steps apart; two overlapping `set_log_level` calls can leave the log crate's maximum
   too low, which `MaximumCoversTargets` excuses (`raced`) because no document promises otherwise;
   and counts with the identity of their holder need another code.
