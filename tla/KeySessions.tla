---------------------------- MODULE KeySessions ----------------------------
(***************************************************************************)
(* Wallet sessions of the bridge: src/src/api/db.rs, with the delete and   *)
(* rename of src/src/api/wallet.rs that lock a wallet for every holder.    *)
(*                                                                         *)
(* Two Flutter engines share one process.  Each call one of them makes is  *)
(* run by a task.  DB_STATE (path, pool, open counts, generations) is      *)
(* guarded by a short RwLock, so each critical section is one action.  The *)
(* passphrase check (Argon2) and minotari's session calls happen outside   *)
(* that lock and inside the wallet's unlock gate, one action per call, so  *)
(* every interleaving of two unlocks, a lock, a force lock and a delete is *)
(* a behaviour.                                                            *)
(*                                                                         *)
(* minotari's key sessions are external: a set of wallet names, as         *)
(* session::lock takes a name.                                             *)
(***************************************************************************)
EXTENDS Naturals, FiniteSets

CONSTANTS
  Wallet,         \* wallet names
  File,           \* database files
  Task,           \* concurrent calls into the bridge
  None,           \* no file, no task
  MaxGeneration,  \* bound: how many session generations a behaviour hands out
  StaleLocks      \* whether an engine whose hold a force lock took away still
                  \* makes its own lock_wallet call later

ASSUME ConstantsAssumption ==
  /\ None \notin Wallet \cup File \cup Task
  /\ MaxGeneration \in Nat
  /\ StaleLocks \in BOOLEAN

VARIABLES
  path,            \* DbState.path: the last recorded database file
  open,            \* DbState.open: the file of the shared pool, None when closed
  count,           \* DbState.sessions: each wallet's open count, 0 when it has no entry
  generation,      \* DbState.sessions: the generation of each wallet's entry
  next_generation, \* DbState.next_generation
  gate,            \* UNLOCK_GATES: the task inside each wallet's gate
  maintenance,     \* the wallet's maintenance lock, as delete and rename take it
  live,            \* minotari: the wallets that have a key session
  accounts,        \* <<file, wallet>>: the account rows of every database
  scanning,        \* wallets with a scan admitted and not cancelled
  pc,              \* where each task is
  op,              \* what it runs: unlock, lock, force, or a change before / after its write
  wal,             \* its wallet name
  db,              \* its database file (the pool or connection it cloned)
  gen,             \* the generation its unlock counted in
  right            \* whether its passphrase opens the wallet

state    == <<path, open, count, generation, next_generation>>
external == <<live, accounts>>
args     == <<op, wal, db, gen, right>>
vars     == <<state, gate, maintenance, external, scanning, pc, args>>

\* Where a task is while it holds its wallet's gate.
UnlockPc == {"check", "verify", "recheck", "unlock", "confirm", "failed"}
LockPc   == {"read", "drop", "cancel"}
InGate   == UnlockPc \cup LockPc
Pc       == {"idle", "counted", "holding", "remove", "gate", "stop_scans", "change"} \cup InGate
Op       == {"unlock", "lock", "force", "before", "after"}

TypeOK ==
  /\ path \in File \cup {None}
  /\ open \in File \cup {None}
  /\ count \in [Wallet -> Nat]
  /\ generation \in [Wallet -> Nat]
  /\ next_generation \in Nat
  /\ gate \in [Wallet -> Task \cup {None}]
  /\ maintenance \in [Wallet -> Task \cup {None}]
  /\ live \in SUBSET Wallet
  /\ accounts \in SUBSET (File \X Wallet)
  /\ scanning \in SUBSET Wallet
  /\ pc \in [Task -> Pc]
  /\ op \in [Task -> Op]
  /\ wal \in [Task -> Wallet]
  /\ db \in [Task -> File]
  /\ gen \in [Task -> Nat]
  /\ right \in [Task -> BOOLEAN]

-----------------------------------------------------------------------------
(* Helpers *)

Goto(t, l) == pc' = [pc EXCEPT ![t] = l]

\* The wallet's count still includes the unlock of task t.
Counted(t) == count[wal[t]] > 0 /\ generation[wal[t]] = gen[t]

\* The file get_db_connection would use.
CurrentFile == IF open # None THEN open ELSE path

\* A task that counted (or tried to) and has not been told it failed.
Unlocking == {"counted", "check", "verify", "recheck", "unlock", "confirm", "failed"}

\* A delete or rename of w whose write is done and whose second lock is not.
ChangeInFlight(w) ==
  \E t \in Task : wal[t] = w /\ op[t] = "after" /\ pc[t] # "idle"

\* Mutant of PoolAfter: the pool stays open after the last lock.
PoolAfterKept(c) == open

\* The pool after the counts became c: closed when no wallet is counted.
PoolAfter(c) == IF \A w \in Wallet : c[w] = 0 THEN None ELSE open

\* release_one on an entry that exists.
ReleaseOne(w) ==
  LET c == [count EXCEPT ![w] = @ - 1] IN count' = c /\ open' = PoolAfter(c)

\* acquire_session: a wallet nobody holds gets a new generation.
AcquireSession(w) ==
  /\ IF count[w] = 0
       THEN /\ next_generation < MaxGeneration
            /\ generation' = [generation EXCEPT ![w] = next_generation]
            /\ next_generation' = next_generation + 1
       ELSE UNCHANGED <<generation, next_generation>>
  /\ count' = [count EXCEPT ![w] = @ + 1]

\* The state step of lock_wallet_everywhere.
RemoveEntry(w) ==
  LET c == [count EXCEPT ![w] = 0]
  IN  /\ count' = c
      /\ open' = IF count[w] > 0 THEN PoolAfter(c) ELSE open

-----------------------------------------------------------------------------
(* unlock_wallet *)

\* The first critical section: join or open the pool, record the path, count.
\* A different path is refused while a wallet is counted; the task stays idle.
\* (A failing open leaves the pool closed, as it was: an open pool is counted.)
UnlockCount(t, w, f, ok) ==
  /\ pc[t] = "idle"
  /\ open \in {None, f} \/ \A v \in Wallet : count[v] = 0
  /\ open' = f
  /\ path' = f
  /\ AcquireSession(w)
  /\ gen' = [gen EXCEPT ![t] = generation'[w]]
  /\ op' = [op EXCEPT ![t] = "unlock"]
  /\ wal' = [wal EXCEPT ![t] = w]
  /\ db' = [db EXCEPT ![t] = f]
  /\ right' = [right EXCEPT ![t] = ok]
  /\ Goto(t, "counted")
  /\ UNCHANGED <<gate, maintenance, external, scanning>>

\* Take the wallet's gate, for an unlock or for lock_session_unless_held.
TakeGate(t) ==
  /\ pc[t] \in {"counted", "gate"}
  /\ gate[wal[t]] = None
  /\ gate' = [gate EXCEPT ![wal[t]] = t]
  /\ Goto(t, IF pc[t] = "counted" THEN "check" ELSE "read")
  /\ UNCHANGED <<state, maintenance, external, scanning, args>>

\* The database or a read of it fails inside check_and_unlock.
CheckFails(t) ==
  /\ pc[t] \in {"check", "verify", "recheck", "unlock"}
  /\ Goto(t, "failed")
  /\ UNCHANGED <<state, gate, maintenance, external, scanning, args>>

\* Mutant of CheckSession: an existing session is shared without a passphrase check.
CheckSessionTrusts(t) ==
  /\ pc[t] \in {"check", "recheck"}
  /\ Goto(t, IF wal[t] \notin live THEN "unlock" ELSE "confirm")
  /\ UNCHANGED <<state, gate, maintenance, external, scanning, args>>

\* session::is_unlocked, before and again after the passphrase check.
CheckSession(t) ==
  /\ pc[t] \in {"check", "recheck"}
  /\ Goto(t, IF wal[t] \notin live THEN "unlock"
             ELSE IF pc[t] = "check" THEN "verify" ELSE "confirm")
  /\ UNCHANGED <<state, gate, maintenance, external, scanning, args>>

\* verify_passphrase against the stored account, for a session that exists.
VerifyPassphrase(t) ==
  /\ pc[t] = "verify"
  /\ Goto(t, IF <<db[t], wal[t]>> \in accounts /\ right[t] THEN "recheck" ELSE "failed")
  /\ UNCHANGED <<state, gate, maintenance, external, scanning, args>>

\* session::unlock: Ok without looking at the passphrase when a session exists.
SessionUnlock(t) ==
  /\ pc[t] = "unlock"
  /\ IF wal[t] \in live \/ (<<db[t], wal[t]>> \in accounts /\ right[t])
       THEN live' = live \cup {wal[t]} /\ Goto(t, "confirm")
       ELSE UNCHANGED live /\ Goto(t, "failed")
  /\ UNCHANGED <<state, gate, maintenance, accounts, scanning, args>>

\* Mutant of Confirm: a force-lock loser locks the session without the re-check.
ConfirmWipes(t) ==
  /\ pc[t] = "confirm"
  /\ IF Counted(t)
       THEN gate' = [gate EXCEPT ![wal[t]] = None] /\ Goto(t, "holding")
       ELSE UNCHANGED gate /\ Goto(t, "drop")
  /\ UNCHANGED <<state, maintenance, external, scanning, args>>

\* Mutant of Confirm: a force-lock loser returns without locking what it unlocked.
ConfirmLeaves(t) ==
  /\ pc[t] = "confirm"
  /\ gate' = [gate EXCEPT ![wal[t]] = None]
  /\ Goto(t, IF Counted(t) THEN "holding" ELSE "idle")
  /\ UNCHANGED <<state, maintenance, external, scanning, args>>

\* confirm_still_counted: return Ok and drop the gate, or lose to a force lock.
Confirm(t) ==
  /\ pc[t] = "confirm"
  /\ IF Counted(t)
       THEN gate' = [gate EXCEPT ![wal[t]] = None] /\ Goto(t, "holding")
       ELSE UNCHANGED gate /\ Goto(t, "read")
  /\ UNCHANGED <<state, maintenance, external, scanning, args>>

\* Mutant of ReleaseFailed: the count is given back whatever its generation.
ReleaseFailedAnyGeneration(t) ==
  /\ pc[t] = "failed"
  /\ IF count[wal[t]] > 0 THEN ReleaseOne(wal[t]) ELSE UNCHANGED <<count, open>>
  /\ IF count[wal[t]] = 1
       THEN UNCHANGED gate /\ Goto(t, "read")
       ELSE gate' = [gate EXCEPT ![wal[t]] = None] /\ Goto(t, "idle")
  /\ UNCHANGED <<path, generation, next_generation, maintenance, external, scanning, args>>

\* Mutant of ReleaseFailed: the failed unlock keeps its count.
ReleaseFailedKeeps(t) ==
  /\ pc[t] = "failed"
  /\ gate' = [gate EXCEPT ![wal[t]] = None]
  /\ Goto(t, "idle")
  /\ UNCHANGED <<state, maintenance, external, scanning, args>>

\* release_failed_unlock: give back a count of this generation only.
ReleaseFailed(t) ==
  /\ pc[t] = "failed"
  /\ IF Counted(t)
       THEN ReleaseOne(wal[t])
       ELSE UNCHANGED <<count, open>>
  /\ IF Counted(t) /\ count[wal[t]] = 1
       THEN UNCHANGED gate /\ Goto(t, "read")
       ELSE gate' = [gate EXCEPT ![wal[t]] = None] /\ Goto(t, "idle")
  /\ UNCHANGED <<path, generation, next_generation, maintenance, external, scanning, args>>

-----------------------------------------------------------------------------
(* lock_session_gate_held, inside the gate *)

\* Where a task goes when lock_session_gate_held returns and the gate is dropped.
AfterLock(t, locked) ==
  IF op[t] = "unlock" \/ (op[t] = "lock" /\ ~locked) THEN "idle" ELSE "stop_scans"

\* Mutant of ReadHeld: the early return forgets the gate.
ReadHeldKeepsGate(t) ==
  /\ pc[t] = "read"
  /\ Goto(t, IF count[wal[t]] > 0 THEN AfterLock(t, FALSE) ELSE "drop")
  /\ UNCHANGED <<state, gate, maintenance, external, scanning, args>>

\* Re-check that no new holder counted the wallet.
ReadHeld(t) ==
  /\ pc[t] = "read"
  /\ IF count[wal[t]] > 0
       THEN gate' = [gate EXCEPT ![wal[t]] = None] /\ Goto(t, AfterLock(t, FALSE))
       ELSE UNCHANGED gate /\ Goto(t, "drop")
  /\ UNCHANGED <<state, maintenance, external, scanning, args>>

\* session::lock, with DB_STATE released: a new holder may have counted since.
SessionLock(t) ==
  /\ pc[t] = "drop"
  /\ live' = live \ {wal[t]}
  /\ Goto(t, "cancel")
  /\ UNCHANGED <<state, gate, maintenance, accounts, scanning, args>>

\* Mutant of CancelScans: only the callers that can wait stop the scans.
CancelScansLater(t) ==
  /\ pc[t] = "cancel"
  /\ gate' = [gate EXCEPT ![wal[t]] = None]
  /\ Goto(t, AfterLock(t, TRUE))
  /\ UNCHANGED <<state, maintenance, external, scanning, args>>

\* cancel_wallet_scans, then the gate is dropped.
CancelScans(t) ==
  /\ pc[t] = "cancel"
  /\ scanning' = scanning \ {wal[t]}
  /\ gate' = [gate EXCEPT ![wal[t]] = None]
  /\ Goto(t, AfterLock(t, TRUE))
  /\ UNCHANGED <<state, maintenance, external, args>>

-----------------------------------------------------------------------------
(* lock_wallet, force_lock_wallet, delete_wallet and rename_wallet *)

\* lock_wallet by an engine that holds the wallet (stale when its count is gone).
LockRelease(t) ==
  /\ pc[t] = "holding"
  /\ StaleLocks \/ Counted(t)
  /\ IF count[wal[t]] > 0 THEN ReleaseOne(wal[t]) ELSE UNCHANGED <<count, open>>
  /\ op' = [op EXCEPT ![t] = "lock"]
  /\ Goto(t, IF count[wal[t]] = 1 THEN "gate" ELSE "idle")
  /\ UNCHANGED <<path, generation, next_generation, gate, maintenance, external, scanning,
                 wal, db, gen, right>>

\* An engine whose hold was taken away learns of it and never calls lock_wallet.
ForgetHold(t) ==
  /\ pc[t] = "holding"
  /\ ~Counted(t)
  /\ Goto(t, "idle")
  /\ UNCHANGED <<state, gate, maintenance, external, scanning, args>>

\* force_lock_wallet: remove the entry with every holder's count.
ForceLock(t, w) ==
  /\ pc[t] = "idle"
  /\ RemoveEntry(w)
  /\ op' = [op EXCEPT ![t] = "force"]
  /\ wal' = [wal EXCEPT ![t] = w]
  /\ Goto(t, "gate")
  /\ UNCHANGED <<path, generation, next_generation, gate, maintenance, external, scanning,
                 db, gen, right>>

\* with_wallet_locked: maintenance, and a connection to the database open before
\* locking; then lock_wallet_everywhere, the change, lock_wallet_everywhere again.
ChangeStart(t, w) ==
  /\ pc[t] = "idle"
  /\ maintenance[w] = None
  /\ CurrentFile # None
  /\ maintenance' = [maintenance EXCEPT ![w] = t]
  /\ op' = [op EXCEPT ![t] = "before"]
  /\ wal' = [wal EXCEPT ![t] = w]
  /\ db' = [db EXCEPT ![t] = CurrentFile]
  /\ Goto(t, "remove")
  /\ UNCHANGED <<state, gate, external, scanning, gen, right>>

\* Mutant of LockEverywhere: the wallet is not locked again after the change.
LockEverywhereOnce(t) ==
  /\ pc[t] = "remove"
  /\ IF op[t] = "before" THEN RemoveEntry(wal[t]) ELSE UNCHANGED <<count, open>>
  /\ Goto(t, "gate")
  /\ UNCHANGED <<path, generation, next_generation, gate, maintenance, external, scanning, args>>

\* The state step of lock_wallet_everywhere, before and after the change.
LockEverywhere(t) ==
  /\ pc[t] = "remove"
  /\ RemoveEntry(wal[t])
  /\ Goto(t, "gate")
  /\ UNCHANGED <<path, generation, next_generation, gate, maintenance, external, scanning, args>>

\* stop_wallet_scans, outside the gate, and the return of the lock.
StopScans(t) ==
  /\ pc[t] = "stop_scans"
  /\ scanning' = scanning \ {wal[t]}
  /\ maintenance' = IF op[t] = "after" THEN [maintenance EXCEPT ![wal[t]] = None]
                                       ELSE maintenance
  /\ Goto(t, IF op[t] = "before" THEN "change" ELSE "idle")
  /\ UNCHANGED <<state, gate, external, args>>

\* The delete or rename: the account row goes, or gets another name, and minotari
\* drops the old name's session.
Change(t) ==
  /\ pc[t] = "change"
  /\ <<db[t], wal[t]>> \in accounts
  /\ \E renamed \in {{}} \cup {{<<db[t], v>>} : v \in Wallet \ {wal[t]}} :
       /\ renamed \cap accounts = {}
       /\ accounts' = (accounts \ {<<db[t], wal[t]>>}) \cup renamed
  /\ live' = live \ {wal[t]}
  /\ op' = [op EXCEPT ![t] = "after"]
  /\ Goto(t, "remove")
  /\ UNCHANGED <<state, gate, maintenance, scanning, wal, db, gen, right>>

\* The delete or rename fails; the wallet is locked again all the same.
ChangeFails(t) ==
  /\ pc[t] = "change"
  /\ op' = [op EXCEPT ![t] = "after"]
  /\ Goto(t, "remove")
  /\ UNCHANGED <<state, gate, maintenance, external, scanning, wal, db, gen, right>>

-----------------------------------------------------------------------------
(* The rest of the process *)

\* set_database_path: refused while a pool is open on another path.
SetDatabasePath(f) ==
  /\ open \in {None, f}
  /\ path' = f
  /\ UNCHANGED <<open, count, generation, next_generation, gate, maintenance, external,
                 scanning, pc, args>>

\* create, restore or import: a new account row in the current database.
CreateAccount(w) ==
  /\ CurrentFile # None
  /\ accounts' = accounts \cup {<<CurrentFile, w>>}
  /\ UNCHANGED <<state, gate, maintenance, live, scanning, pc, args>>

\* A scan passes unlocked_account and may run (it was in `starting` before the
\* check, so a later cancel reaches it).
StartScan(w) ==
  /\ <<CurrentFile, w>> \in accounts
  /\ w \in live
  /\ scanning' = scanning \cup {w}
  /\ UNCHANGED <<state, gate, maintenance, external, pc, args>>

\* A scan ends by itself.
EndScan(w) ==
  /\ scanning' = scanning \ {w}
  /\ UNCHANGED <<state, gate, maintenance, external, pc, args>>

-----------------------------------------------------------------------------

Init ==
  /\ path = None
  /\ open = None
  /\ count = [w \in Wallet |-> 0]
  /\ generation = [w \in Wallet |-> 0]
  /\ next_generation = 0
  /\ gate = [w \in Wallet |-> None]
  /\ maintenance = [w \in Wallet |-> None]
  /\ live = {}
  /\ accounts \in SUBSET (File \X Wallet)
  /\ scanning = {}
  /\ pc = [t \in Task |-> "idle"]
  /\ op = [t \in Task |-> "unlock"]
  /\ wal \in [Task -> Wallet]
  /\ db \in [Task -> File]
  /\ gen = [t \in Task |-> 0]
  /\ right = [t \in Task |-> FALSE]

\* Steps of a call that has begun and has not returned.
InsideCall(t) ==
  \/ TakeGate(t) \/ CheckFails(t) \/ CheckSession(t) \/ VerifyPassphrase(t)
  \/ SessionUnlock(t) \/ Confirm(t) \/ ReleaseFailed(t)
  \/ ReadHeld(t) \/ SessionLock(t) \/ CancelScans(t)
  \/ LockEverywhere(t) \/ StopScans(t) \/ Change(t) \/ ChangeFails(t)

\* A call begins, or an engine forgets a hold.
BeginCall(t) ==
  \/ \E w \in Wallet, f \in File, ok \in BOOLEAN : UnlockCount(t, w, f, ok)
  \/ LockRelease(t)
  \/ ForgetHold(t)
  \/ \E w \in Wallet : ForceLock(t, w) \/ ChangeStart(t, w)

Environment ==
  \/ \E f \in File : SetDatabasePath(f)
  \/ \E w \in Wallet : CreateAccount(w) \/ StartScan(w) \/ EndScan(w)

Next == (\E t \in Task : InsideCall(t) \/ BeginCall(t)) \/ Environment

Spec == Init /\ [][Next]_vars

\* The operating system runs every call that has begun (each blocking call returns).
FairSpec == Spec /\ \A t \in Task : WF_vars(InsideCall(t))

-----------------------------------------------------------------------------
(* Properties *)

\* An engine that was told Ok and is still counted has a key session: no lock,
\* failed unlock or force-lock loser of another engine wiped it (db.rs:194-206,
\* 344-351).  Only a delete or rename may, and it is about to remove the count.
HolderHasSession ==
  \A t \in Task :
    pc[t] = "holding" /\ Counted(t) => wal[t] \in live \/ ChangeInFlight(wal[t])

\* The passphrase is always checked: an unlock with a wrong one never returns Ok,
\* although minotari's unlock answers Ok for any passphrase once a session exists
\* (db.rs:145-148, 239-243).
WrongPassphraseHoldsNothing ==
  \A t \in Task : pc[t] = "holding" => right[t]

\* A session nobody is counted for is about to be locked: some call that has not
\* returned still has to lock it (db.rs:116-118 "every key session was locked by
\* name when its count reached zero").
NoOrphanSession ==
  \A w \in live : count[w] = 0 =>
    \E t \in Task : wal[t] = w /\ pc[t] \in {"confirm", "read", "drop", "remove", "gate"}

\* Every count belongs to a call in progress or to an engine that was told Ok: a
\* failed unlock or a force-lock loser leaves none behind (db.rs:147-148, 276-280).
CountedCalls(w) ==
  {t \in Task : wal[t] = w /\ Counted(t) /\ pc[t] \in Unlocking \cup {"holding"}}

CountNeverLeaks == \A w \in Wallet : count[w] <= Cardinality(CountedCalls(w))

\* With every engine making one lock per hold, nobody's count is given back by another
\* call: until the call itself gives it back, only a force lock or a delete or rename
\* of the wallet, which mean to, take it away (db.rs:63-65, 276-291).
CountEndsWithItsCall ==
  [][\A t \in Task :
       pc[t] \in Unlocking \cup {"holding"} /\ Counted(t) /\ pc'[t] = pc[t] =>
         \/ Counted(t)'
         \/ \E u \in Task : /\ pc[u] # "gate" /\ pc'[u] = "gate" /\ wal'[u] = wal[t]
                            /\ op'[u] \in {"force", "before", "after"}]_vars

\* The pool is open exactly while a wallet is counted, on the file every counted
\* engine unlocked its wallet in (db.rs:52, 141-142).
PoolServesTheCounted ==
  /\ open # None <=> \E w \in Wallet : count[w] > 0
  /\ \A t \in Task : pc[t] \in Unlocking \cup {"holding"} /\ Counted(t) => db[t] = open

\* A scan that was admitted with the session and not cancelled since never outlives
\* the session, but for the lock or change that is about to cancel it (db.rs:362-365).
ScanHasSession ==
  \A w \in scanning \ live :
    \/ \E t \in Task : wal[t] = w /\ pc[t] = "cancel"
    \/ ChangeInFlight(w)

\* What SessionContract speaks of: who was told Ok and is still counted.
Held(w) == {t \in Task : wal[t] = w /\ pc[t] = "holding" /\ Counted(t)}

Sessions == INSTANCE SessionContract
              WITH session <- live, held <- [w \in Wallet |-> Held(w)],
                   changing <- {w \in Wallet : ChangeInFlight(w)}

\* What the sessions promise the engines (db.rs:194-206, 344-351, wallet.rs:345-347): a hold
\* is granted with a session and keeps it, until its engine locks or every hold goes at once.
KeepsSessionContract == Sessions!Spec

\* After a delete or rename returned, no engine is left counted for the old name,
\* also none that unlocked while the change ran (wallet.rs:345-347, 391-392).
DeletedWalletIsNotHeld ==
  \A t \in Task :
    pc[t] = "holding" /\ Counted(t) =>
      <<db[t], wal[t]>> \in accounts \/ ChangeInFlight(wal[t])

\* A session whose count reached zero is locked in the end, unless it is counted again:
\* the gate that its lock needs always becomes free (db.rs:17-21, 347-379).
SessionIsLocked ==
  \A w \in Wallet : w \in live /\ count[w] = 0 ~> w \notin live \/ count[w] > 0
=============================================================================
