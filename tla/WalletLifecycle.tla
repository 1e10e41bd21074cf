--------------------------- MODULE WalletLifecycle ---------------------------
(***************************************************************************)
(* The calls that change what wallets there are (api/wallet.rs,            *)
(* api/network.rs, abandon_send in api/send_transaction.rs): create,       *)
(* restore and import, change_passphrase, abandon_send, delete and rename. *)
(*                                                                         *)
(* Each of them works in several steps, some on database connections of    *)
(* their own, and the other Flutter engine can unlock, lock, rename or     *)
(* record another database path between any two.  A database file maps     *)
(* wallet names to accounts, which are their row ids here: a file never    *)
(* uses one again.  Passphrases are left out: a check passes or fails.     *)
(***************************************************************************)
EXTENDS Integers, FiniteSets

CONSTANTS
    Call,       \* the calls under way at the same time
    None,       \* no call, file, network or account
    File,       \* database files
    Name,       \* wallet names
    Network,    \* the networks the build allows
    Kinds,      \* the operations each call of a run may be
    FirstNames, \* the wallets in each file at the start, with the same ids
    MaxId       \* bound: row ids of a file

\* The wallets at the start have the first row ids, one each.
FirstIds == {FirstNames[n] : n \in {m \in Name : FirstNames[m] # None}}

ASSUME ConstantsAssumption ==
    /\ MaxId \in Nat
    /\ None \notin File \union Name \union Network \union Call \union 1 .. MaxId
    /\ FirstNames \in [Name -> 1 .. MaxId \union {None}]
    /\ IsFiniteSet(FirstIds)
    /\ \A id \in FirstIds : id <= Cardinality(FirstIds)
    /\ \A n, m \in Name : n # m /\ FirstNames[n] # None => FirstNames[n] # FirstNames[m]

VARIABLES
    network,    \* tari_common's write-once network of the process
    pool, path, \* the open pool's file and the recorded path
    unlocked,   \* the wallets with a session, all in the pool's file
    account,    \* the row id of each name's account in each file, or None
    next_id,    \* the next row id of each file
    maintenance,\* the call that holds each name's maintenance lock
    pc, op,     \* where a call is, and its arguments
    conn,       \* the file of the connection a call works on
    checked,    \* the row id of the account whose passphrase a call has checked
    start,      \* history: the current file when the call began
    moved       \* history: the current file changed since, by somebody else

process == <<network, pool, path, unlocked>>
vars == <<process, account, next_id, maintenance, pc, op, conn, checked, start, moved>>

Stage ==
    {"idle", "network", "derive", "insert", "verify", "maintain", "same", "stop", "write",
     "connect", "lock", "alter", "lockagain"}
Kind == {"create", "change", "abandon", "delete", "rename"}
Arguments == [kind : Kind \union {"none"}, name : Name \union {None},
              to : Name \union {None}, network : Network \union {None}]

Idle == [kind |-> "none", name |-> None, to |-> None, network |-> None]

\* get_db_pool, get_db_path: the open pool's file or the recorded path.
CurrentFile == IF pool # None THEN pool ELSE path

Init ==
    /\ network = None /\ pool = None /\ path = None /\ unlocked = {}
    /\ account = [f \in File |-> FirstNames]
    /\ next_id = [f \in File |-> 1 + Cardinality(FirstIds)]
    /\ maintenance = [n \in Name |-> None]
    /\ pc = [c \in Call |-> "idle"]
    /\ op = [c \in Call |-> Idle]
    /\ conn = [c \in Call |-> None]
    /\ checked = [c \in Call |-> None]
    /\ start = [c \in Call |-> None]
    /\ moved = [c \in Call |-> FALSE]

Go(c, at) == pc' = [pc EXCEPT ![c] = at]

\* A call returns, with an answer or an error; its maintenance lock is dropped.
Return(c) ==
    /\ Go(c, "idle")
    /\ op' = [op EXCEPT ![c] = Idle]
    /\ conn' = [conn EXCEPT ![c] = None]
    /\ checked' = [checked EXCEPT ![c] = None]
    /\ start' = [start EXCEPT ![c] = None]
    /\ moved' = [moved EXCEPT ![c] = FALSE]
    /\ maintenance' = [n \in Name |-> IF maintenance[n] = c THEN None ELSE maintenance[n]]

Begin(c, kind, name, to, net) ==
    /\ pc[c] = "idle" /\ CurrentFile # None
    /\ op' = [op EXCEPT ![c] = [kind |-> kind, name |-> name, to |-> to, network |-> net]]
    /\ start' = [start EXCEPT ![c] = CurrentFile]
    /\ UNCHANGED <<process, account, next_id, maintenance, conn, checked, moved>>

-----------------------------------------------------------------------------
(* create_wallet, restore_wallet, import_view_only_wallet and              *)
(* import_wallet_from_keys: the network first, then the words or keys and  *)
(* the current path, then the new row.  The steps are those of             *)
(* create_wallet, which the others share; restore_wallet reads its words   *)
(* before the path is taken, and the imports leave their keys to minotari. *)

\* Mutant of NetworkAllows: a later call's network replaces the first one's.
NetworkAllowsAny(net) == TRUE

\* apply_network: the first network is kept, another one is refused.
NetworkAllows(net) == network \in {None, net}

\* None resolves to the main network: the caller names every network here.
CallCreate(c) ==
    \E n \in Name, net \in Network :
        /\ Begin(c, "create", n, None, net)
        /\ Go(c, "network")

ApplyNetwork(c) ==
    /\ pc[c] = "network"
    /\ IF NetworkAllows(op[c].network)
       THEN /\ network' = op[c].network
            /\ Go(c, "derive")
            /\ UNCHANGED <<maintenance, op, conn, checked, start, moved>>
       ELSE Return(c) /\ UNCHANGED network
    /\ UNCHANGED <<pool, path, unlocked, account, next_id>>

\* The seed words or keys are wrong, or the name is taken: nothing is made, the network
\* stays.
CreateFails(c) ==
    /\ pc[c] \in {"derive", "insert"}
    /\ Return(c)
    /\ UNCHANGED <<process, account, next_id>>

Derive(c) ==
    /\ pc[c] = "derive"
    /\ conn' = [conn EXCEPT ![c] = CurrentFile]
    /\ Go(c, "insert")
    /\ UNCHANGED <<process, account, next_id, maintenance, op, checked, start, moved>>

\* minotari inserts the row; a name is used once in a file.  Nothing changes after it:
\* the answer was derived before or comes from minotari, but import_view_only_wallet
\* reads its keys again for it, and when it cannot, its error leaves the row.
Insert(c) ==
    LET f == conn[c] n == op[c].name IN
    /\ pc[c] = "insert" /\ account[f][n] = None /\ next_id[f] <= MaxId
    /\ account' = [account EXCEPT ![f][n] = next_id[f]]
    /\ next_id' = [next_id EXCEPT ![f] = @ + 1]
    /\ Return(c)
    /\ UNCHANGED <<network, pool, path, unlocked>>

-----------------------------------------------------------------------------
(* change_passphrase and abandon_send: the passphrase is checked before    *)
(* the maintenance lock, and the write uses a new connection.              *)

CallChecked(c, kind) ==
    \E n \in Name : Begin(c, kind, n, None, None) /\ Go(c, "verify")

CallChange(c) == CallChecked(c, "change")
CallAbandon(c) == CallChecked(c, "abandon")

\* No such account, or a wrong passphrase: nothing is stopped and nothing changes.
VerifyFails(c) ==
    /\ pc[c] = "verify"
    /\ Return(c)
    /\ UNCHANGED <<process, account, next_id>>

Verify(c) ==
    LET id == account[start[c]][op[c].name] IN
    /\ pc[c] = "verify" /\ id # None
    /\ checked' = [checked EXCEPT ![c] = id]
    /\ Go(c, "maintain")
    /\ UNCHANGED <<process, account, next_id, maintenance, op, conn, start, moved>>

\* begin_maintenance: one operation of a name at a time, until it returns.
BeginMaintenance(c) ==
    /\ pc[c] = "maintain" /\ maintenance[op[c].name] = None
    /\ maintenance' = [maintenance EXCEPT ![op[c].name] = c]
    /\ Go(c, CASE op[c].kind = "change" -> "stop"
               [] op[c].kind = "abandon" -> "same"
               [] OTHER -> "connect")
    /\ UNCHANGED <<process, account, next_id, op, conn, checked, start, moved>>

\* Mutant of SameAccount: some account of that name.
SameAccountByName(f, n, id) == account[f][n] # None

\* same_account: the name still is the account that was checked.
SameAccount(f, n, id) == account[f][n] = id

CheckSame(c) ==
    /\ pc[c] = "same"
    /\ IF SameAccount(CurrentFile, op[c].name, checked[c])
       THEN Go(c, "stop") /\ UNCHANGED <<maintenance, op, conn, checked, start, moved>>
       ELSE Return(c)
    /\ UNCHANGED <<process, account, next_id>>

\* stop_wallet_scans, which waits; then a new connection.
StopScans(c) ==
    /\ pc[c] = "stop"
    /\ conn' = [conn EXCEPT ![c] = CurrentFile]
    /\ Go(c, "write")
    /\ UNCHANGED <<process, account, next_id, maintenance, op, checked, start, moved>>

\* minotari rewrites the passphrase of the account that the old one opens, or
\* abandons a send of the account with the checked id; or refuses.
Write(c) ==
    /\ pc[c] = "write"
    /\ Return(c)
    /\ UNCHANGED <<process, account, next_id>>

-----------------------------------------------------------------------------
(* delete_wallet and rename_wallet: with_wallet_locked.                    *)

CallDelete(c) ==
    \E n \in Name : Begin(c, "delete", n, None, None) /\ Go(c, "maintain")

\* Its own name is refused at once.
CallRename(c) ==
    \E n, to \in Name : n # to /\ Begin(c, "rename", n, to, None) /\ Go(c, "maintain")

\* The connection is taken before the wallet is locked.
Connect(c) ==
    /\ pc[c] = "connect"
    /\ conn' = [conn EXCEPT ![c] = CurrentFile]
    /\ Go(c, "lock")
    /\ UNCHANGED <<process, account, next_id, maintenance, op, checked, start, moved>>

\* Locking the last wallet closes the pool.
CloseIfUnused(now) ==
    /\ unlocked' = now
    /\ pool' = IF now = {} THEN None ELSE pool
    /\ UNCHANGED <<network, path, account, next_id>>

\* lock_wallet_everywhere before the change: the session goes.
LockEverywhere(c) ==
    /\ pc[c] = "lock"
    /\ CloseIfUnused(unlocked \ {op[c].name})
    /\ Go(c, "alter")
    /\ UNCHANGED <<maintenance, op, conn, checked, start, moved>>

\* The accounts without the wallet a call deletes or renames.
Removed(c, f) == [account EXCEPT ![f][op[c].name] = None]

\* The row is deleted, or renamed to a name that is free; a failure changes nothing.
AlterIn(c, f) ==
    LET id == account[f][op[c].name] IN
    /\ pc[c] = "alter"
    /\ \/ UNCHANGED account
       \/ /\ id # None /\ op[c].kind = "delete"
          /\ account' = Removed(c, f)
       \/ /\ id # None /\ op[c].kind = "rename" /\ account[f][op[c].to] = None
          /\ account' = [Removed(c, f) EXCEPT ![f][op[c].to] = id]
    /\ Go(c, "lockagain")
    /\ UNCHANGED <<process, next_id, maintenance, op, conn, checked, start, moved>>

\* Mutant of Alter: on a connection taken after the lock.
AlterReconnected(c) == CurrentFile # None /\ AlterIn(c, CurrentFile)

Alter(c) == AlterIn(c, conn[c])

\* lock_wallet_everywhere again: what the other engine began meanwhile goes too.
LockAgain(c) ==
    /\ pc[c] = "lockagain"
    /\ CloseIfUnused(unlocked \ {op[c].name})
    /\ Return(c)

\* Either lock fails: the call ends with an error.
LockFails(c) ==
    /\ pc[c] \in {"lock", "lockagain"}
    /\ Return(c)
    /\ UNCHANGED <<process, account, next_id>>

-----------------------------------------------------------------------------
(* The other engine, and the app's end.                                    *)

\* A call whose database must not change under it: until its last connection.
Watching(c) ==
    pc[c] \in {"network", "derive", "verify", "maintain", "same", "stop", "connect"}

Moves(file) ==
    moved' = [c \in Call |-> moved[c] \/ (Watching(c) /\ file # CurrentFile)]

\* set_database_path
SetDatabasePath(f) ==
    /\ pool \in {None, f}
    /\ path' = f
    /\ Moves(f)
    /\ UNCHANGED <<network, pool, unlocked, account, next_id, maintenance, pc, op, conn,
            checked, start>>

\* unlock_wallet with the right passphrase, in the pool's file or another if none is unlocked.
Unlock(f, n) ==
    /\ unlocked = {} \/ pool = f
    /\ account[f][n] # None
    /\ pool' = f /\ path' = f /\ unlocked' = unlocked \union {n}
    /\ Moves(f)
    /\ UNCHANGED <<network, account, next_id, maintenance, pc, op, conn, checked, start>>

Lock(n) ==
    /\ n \in unlocked
    /\ CloseIfUnused(unlocked \ {n})
    /\ UNCHANGED <<maintenance, pc, op, conn, checked, start, moved>>

\* The app ends and starts again: only the files stay.
Restart ==
    /\ network' = None /\ pool' = None /\ path' = None /\ unlocked' = {}
    /\ maintenance' = [n \in Name |-> None]
    /\ pc' = [c \in Call |-> "idle"]
    /\ op' = [c \in Call |-> Idle]
    /\ conn' = [c \in Call |-> None] /\ checked' = [c \in Call |-> None]
    /\ start' = [c \in Call |-> None] /\ moved' = [c \in Call |-> FALSE]
    /\ UNCHANGED <<account, next_id>>

Next ==
    \/ \E c \in Call :
        \/ "create" \in Kinds[c] /\ CallCreate(c)
        \/ "change" \in Kinds[c] /\ CallChange(c)
        \/ "abandon" \in Kinds[c] /\ CallAbandon(c)
        \/ "delete" \in Kinds[c] /\ CallDelete(c)
        \/ "rename" \in Kinds[c] /\ CallRename(c)
        \/ ApplyNetwork(c) \/ CreateFails(c) \/ Derive(c) \/ Insert(c)
        \/ VerifyFails(c) \/ Verify(c) \/ BeginMaintenance(c) \/ CheckSame(c)
        \/ StopScans(c) \/ Write(c)
        \/ Connect(c) \/ LockEverywhere(c) \/ Alter(c) \/ LockAgain(c) \/ LockFails(c)
    \/ \E f \in File : SetDatabasePath(f) \/ \E n \in Name : Unlock(f, n)
    \/ \E n \in Name : Lock(n)
    \/ Restart

Spec == Init /\ [][Next]_vars

-----------------------------------------------------------------------------
(* Properties.                                                             *)

\* The accounts of a file have different row ids, all given out before (a rename
\* keeps one row).
RowIdsDiffer ==
    \A f \in File : \A n \in Name : account[f][n] # None =>
        /\ account[f][n] < next_id[f]
        /\ \A m \in Name \ {n} : account[f][m] # account[f][n]

\* The values are in their ranges.
Ranges ==
    /\ network \in Network \union {None}
    /\ pool \in File \union {None} /\ path \in File \union {None}
    /\ unlocked \subseteq Name
    /\ account \in [File -> [Name -> 1 .. MaxId \union {None}]]
    /\ next_id \in [File -> Nat \ {0}]
    /\ maintenance \in [Name -> Call \union {None}]
    /\ pc \in [Call -> Stage] /\ op \in [Call -> Arguments]
    /\ checked \in [Call -> 1 .. MaxId \union {None}]
    /\ conn \in [Call -> File \union {None}] /\ start \in [Call -> File \union {None}]
    /\ moved \in [Call -> BOOLEAN]

\* Type invariant: values in their ranges, and row ids used once.
TypeOK == Ranges /\ RowIdsDiffer

\* change_passphrase and abandon_send write in the database where they checked
\* the passphrase, and the abandon still finds the account it checked: no rename,
\* delete or re-creation in between hands the name, and the send, to another
\* wallet (as long as the process stays on the same database).
CheckedWalletIsWritten ==
    \A c \in Call : pc[c] = "write" /\ ~moved[c] =>
        /\ conn[c] = start[c]
        /\ op[c].kind = "abandon" => account[conn[c]][op[c].name] = checked[c]

\* A call changes the database it was made on, although locking the wallet may
\* close the pool and let the other engine record another path before the change.
ChangesStayInTheirDatabase ==
    [][\A c \in Call : pc'[c] # pc[c] /\ ~moved[c] =>
        \A f \in File \ {start[c]} : account'[f] = account[f]]_vars

\* All the wallets one process makes are of one network, the process's own,
\* which stays until the app ends, whichever calls race for it and fail.
OneNetwork ==
    [][ /\ network' \in {network, None} \/ network = None
        /\ \A c \in Call : pc[c] = "insert" /\ account' # account /\ pc'[c] # pc[c] =>
                op[c].network = network' ]_vars

=============================================================================
