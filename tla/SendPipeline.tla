---------------------------- MODULE SendPipeline ----------------------------
(***************************************************************************)
(* One wallet's sends: send_transaction_with_handler of                    *)
(* src/src/api/send_transaction.rs with the expiry sweep and the pool      *)
(* look-up of src/src/api/db.rs.                                           *)
(*                                                                         *)
(* A send reserves outputs in its database under a pending row, signs,     *)
(* records the transaction and broadcasts it.  Meanwhile the wallet can be *)
(* locked, the recorded path changed, another send or scan started, the    *)
(* reservation expire and the app be killed.                               *)
(*                                                                         *)
(* minotari's part (reserving, recording, expiring a row) is external:     *)
(* each is one database transaction.                                       *)
(***************************************************************************)
EXTENDS Naturals

CONSTANTS
  Send,     \* calls of send_transaction; also the pending rows they insert
  Output,   \* the outputs every database holds
  File,     \* database files
  None,     \* no file, no send; also the sweep of a database open or scan start
  Faults,   \* whether a database operation that the code tolerates may fail
  MaxKills  \* bound: how often the app is killed

ASSUME ConstantsAssumption ==
  /\ None \notin Send \cup File
  /\ Faults \in BOOLEAN
  /\ MaxKills \in Nat

VARIABLES
  path,        \* DbState.path
  open,        \* DbState.open: the file of the shared pool, None when closed
  unlocked,    \* whether the wallet has a key session
  lock,        \* by file and output: the row that reserved or spends it
  row,         \* status of each send's pending_transactions row
  expired,     \* the sends whose row is past its expires_at
  pc,          \* where each send is
  file,        \* the file of its TransactionSender's pool
  found,       \* the expired rows each sweep has listed and not yet released
  kills,       \* how often the app was killed
  inputs,      \* history: the outputs each send's transaction spends
  dark,        \* history: sends whose wallet was locked before their last check and still is
  released_in, \* history: the file on which a failed send's release was tried
  errored      \* history: sends that a database error kept from releasing

db      == <<path, open>>
disk    == <<lock, row, expired>>
history == <<inputs, dark, released_in, errored>>
vars    == <<db, unlocked, disk, pc, file, found, kills, history>>

\* A send that has reserved its inputs and has neither recorded nor given up.
Reserved == {"built", "sign", "signed", "finalize"}
\* Before the check that precedes finalize.
Unchecked == {"built", "sign", "signed"}
Ended     == {"sent", "failed", "killed"}
Pc == {"idle", "keys", "sweep", "build", "release", "recorded"} \cup Reserved \cup Ended

TypeOK ==
  /\ path \in File \cup {None}
  /\ open \in File \cup {None}
  /\ unlocked \in BOOLEAN
  /\ lock \in [File -> [Output -> Send \cup {None}]]
  /\ row \in [Send -> {"absent", "pending", "completed", "expired"}]
  /\ expired \in SUBSET Send
  /\ pc \in [Send -> Pc]
  /\ file \in [Send -> File \cup {None}]
  /\ found \in [Send \cup {None} -> SUBSET Send]
  /\ kills \in Nat
  /\ inputs \in [Send -> SUBSET Output]
  /\ dark \in SUBSET Send
  /\ released_in \in [Send -> File \cup {None}]
  /\ errored \in SUBSET Send

-----------------------------------------------------------------------------
(* The database *)

Goto(s, l) == pc' = [pc EXCEPT ![s] = l]

\* The file get_db_pool and get_db_connection use.
CurrentFile == IF open # None THEN open ELSE path

\* minotari's find_expired_pending_transactions on file f.
ExpiredRows(f) == {s \in expired : row[s] = "pending" /\ file[s] = f}

\* minotari's unlocking of a row's outputs.
UnlockOutputs(s) ==
  lock' = [f \in File |-> [o \in Output |-> IF lock[f][o] = s THEN None ELSE lock[f][o]]]

\* minotari's expire_and_unlock_pending_transaction: only a pending row.
ExpireAndUnlock(s) ==
  IF row[s] = "pending"
    THEN row' = [row EXCEPT ![s] = "expired"] /\ UnlockOutputs(s)
    ELSE UNCHANGED <<row, lock>>

\* minotari's reservation of outputs O for send s, in one transaction.
Reserve(s, O) ==
  /\ O # {}
  /\ \A o \in O : lock[file[s]][o] = None
  /\ lock' = [lock EXCEPT ![file[s]] =
                [o \in Output |-> IF o \in O THEN s ELSE lock[file[s]][o]]]
  /\ row' = [row EXCEPT ![s] = "pending"]

\* The reservation of s runs out SECONDS_TO_LOCK_UTXO after it was made.
ReservationExpires(s) ==
  /\ row[s] = "pending"
  /\ s \notin expired
  /\ expired' = expired \cup {s}
  /\ UNCHANGED <<db, unlocked, lock, row, pc, file, found, kills, history>>

-----------------------------------------------------------------------------
(* The expiry sweep, release_expired_reservations *)

\* Mutant of RowsToSweep: every pending row, expired or not.
RowsToSweepAll(f) == {s \in Send : row[s] = "pending" /\ file[s] = f}

\* Mutant of RowsToSweep: the rows of sends known to have failed, which a kill forgets.
RowsToSweepFailed(f) == {s \in ExpiredRows(f) : pc[s] = "failed"}

\* The rows a sweep lists.
RowsToSweep(f) == ExpiredRows(f)

\* Sweep x lists the rows it will release, in the current file; when that
\* fails it only logs.
FindExpired(x, f) ==
  \E R \in {RowsToSweep(f)} \cup (IF Faults THEN {{}} ELSE {}) :
    found' = [found EXCEPT ![x] = R]

\* Mutant of SweepRow: unlocks what the list says and does not look at the row again.
SweepRowListed(x, s) ==
  /\ s \in found[x]
  /\ found' = [found EXCEPT ![x] = @ \ {s}]
  /\ row' = [row EXCEPT ![s] = IF @ = "pending" THEN "expired" ELSE @]
  /\ UnlockOutputs(s)
  /\ UNCHANGED <<db, unlocked, expired, pc, file, kills, history>>

\* Sweep x releases one row of its list; an error is logged and it goes on.
SweepRow(x, s) ==
  /\ s \in found[x]
  /\ found' = [found EXCEPT ![x] = @ \ {s}]
  /\ \/ ExpireAndUnlock(s)
     \/ Faults /\ UNCHANGED <<row, lock>>
  /\ UNCHANGED <<db, unlocked, expired, pc, file, kills, history>>

\* A scan starts: it sweeps before it scans.  (At most one sweep at a time is
\* under way outside sends.)
ScanStartSweeps ==
  /\ CurrentFile # None
  /\ found[None] = {}
  /\ FindExpired(None, CurrentFile)
  /\ UNCHANGED <<db, unlocked, disk, pc, file, kills, history>>

-----------------------------------------------------------------------------
(* The rest of the app.  KeySessions models these in detail; here they come  *)
(* in any order that db.rs allows.                                           *)

\* set_database_path
SetDatabasePath(f) ==
  /\ open \in {None, f}
  /\ path' = f
  /\ UNCHANGED <<open, unlocked, disk, pc, file, found, kills, history>>

\* The first unlock of a wallet opens the pool on its path and sweeps there.
OpenPool(f) ==
  /\ open = None
  /\ found[None] = {}
  /\ open' = f
  /\ path' = f
  /\ FindExpired(None, f)
  /\ UNCHANGED <<unlocked, disk, pc, file, kills, history>>

\* The last lock closes the pool.
ClosePool ==
  /\ open # None
  /\ open' = None
  /\ UNCHANGED <<path, unlocked, disk, pc, file, found, kills, history>>

UnlockSession ==
  /\ open # None
  /\ ~unlocked
  /\ unlocked' = TRUE
  /\ dark' = {}
  /\ UNCHANGED <<db, disk, pc, file, found, kills, inputs, released_in, errored>>

LockSession ==
  /\ unlocked
  /\ unlocked' = FALSE
  /\ dark' = {s \in Send : pc[s] \in Unchecked}
  /\ UNCHANGED <<db, disk, pc, file, found, kills, inputs, released_in, errored>>

\* The app is killed: only the databases survive, and the sends that were running do not return.
Kill ==
  /\ kills < MaxKills
  /\ kills' = kills + 1
  /\ path' = None
  /\ open' = None
  /\ unlocked' = FALSE
  /\ dark' = {}
  /\ pc' = [s \in Send |-> IF pc[s] \in Ended \cup {"idle"} THEN pc[s] ELSE "killed"]
  /\ found' = [x \in Send \cup {None} |-> {}]
  /\ UNCHANGED <<disk, file, inputs, released_in, errored>>

App ==
  \/ \E f \in File : SetDatabasePath(f) \/ OpenPool(f)
  \/ ClosePool \/ UnlockSession \/ LockSession \/ ScanStartSweeps \/ Kill
  \/ \E s \in Send : ReservationExpires(s) \/ SweepRow(None, s)

-----------------------------------------------------------------------------
(* send_transaction_with_handler *)

\* Inputs are valid, the network fits, and the sender gets a pool.
CreateSender(s) ==
  /\ pc[s] = "idle"
  /\ CurrentFile # None
  /\ file' = [file EXCEPT ![s] = CurrentFile]
  /\ Goto(s, "keys")
  /\ UNCHANGED <<db, unlocked, disk, found, kills, history>>

\* An error before anything is reserved: invalid input, no database, a wallet
\* that is locked, missing or view-only.
Refuse(s) ==
  /\ pc[s] \in {"idle", "keys"}
  /\ Goto(s, "failed")
  /\ UNCHANGED <<db, unlocked, disk, file, found, kills, history>>

\* stored_key_manager: the session is looked at again after the keys were read.
LoadKeys(s) ==
  /\ pc[s] = "keys"
  /\ unlocked
  /\ Goto(s, "sweep")
  /\ UNCHANGED <<db, unlocked, disk, file, found, kills, history>>

\* The send's own sweep, in the current file.
SendSweeps(s) ==
  /\ pc[s] = "sweep"
  /\ FindExpired(s, CurrentFile)
  /\ Goto(s, "build")
  /\ UNCHANGED <<db, unlocked, disk, file, kills, history>>

\* build_unsigned_transaction: from here on the inputs are reserved.  The keys
\* were read before, so a lock meanwhile does not stop it.
Build(s) ==
  /\ pc[s] = "build"
  /\ found[s] = {}
  /\ \E O \in SUBSET Output : Reserve(s, O) /\ inputs' = [inputs EXCEPT ![s] = O]
  /\ dark' = IF unlocked THEN dark ELSE dark \cup {s}
  /\ Goto(s, "built")
  /\ UNCHANGED <<db, unlocked, expired, file, found, kills, released_in, errored>>

\* It fails: too little money, keys it cannot decrypt any more.  minotari may
\* fail after it reserved; the caller learns no row id then.
BuildFails(s) ==
  /\ pc[s] = "build"
  /\ found[s] = {}
  /\ \/ UNCHANGED <<lock, row, errored>>
     \/ /\ Faults
        /\ \E O \in SUBSET Output : Reserve(s, O)
        /\ errored' = errored \cup {s}
  /\ Goto(s, "failed")
  /\ UNCHANGED <<db, unlocked, expired, file, found, kills, inputs, dark, released_in>>

AfterCheck(s) == IF pc[s] = "built" THEN "sign" ELSE "finalize"

\* Mutant of CheckUnlocked: only looks at the session after the build.
CheckUnlockedOnce(s) ==
  /\ pc[s] \in {"built", "signed"}
  /\ pc[s] = "built" => unlocked
  /\ Goto(s, AfterCheck(s))
  /\ UNCHANGED <<db, unlocked, disk, file, found, kills, history>>

\* unlocked_in, after the build and before finalize: the wallet is seen unlocked.
CheckUnlocked(s) ==
  /\ pc[s] \in {"built", "signed"}
  /\ unlocked
  /\ Goto(s, AfterCheck(s))
  /\ UNCHANGED <<db, unlocked, disk, file, found, kills, history>>

\* It is not, or the database cannot say.
CheckFails(s) ==
  /\ pc[s] \in {"built", "signed"}
  /\ ~unlocked \/ Faults
  /\ Goto(s, "release")
  /\ UNCHANGED <<db, unlocked, disk, file, found, kills, history>>

Sign(s) ==
  /\ pc[s] = "sign"
  /\ Goto(s, "signed")
  /\ UNCHANGED <<db, unlocked, disk, file, found, kills, history>>

\* Mutant of SignFails: returns without giving the inputs back.
SignFailsKeeps(s) ==
  /\ pc[s] = "sign"
  /\ Goto(s, "failed")
  /\ UNCHANGED <<db, unlocked, disk, file, found, kills, history>>

SignFails(s) ==
  /\ pc[s] = "sign"
  /\ Goto(s, "release")
  /\ UNCHANGED <<db, unlocked, disk, file, found, kills, history>>

\* release_send_reservation, best-effort and in the current file.
ReleaseSendReservation(s) ==
  /\ \/ /\ IF CurrentFile = file[s] THEN ExpireAndUnlock(s) ELSE UNCHANGED <<row, lock>>
        /\ released_in' = [released_in EXCEPT ![s] = CurrentFile]
        /\ UNCHANGED errored
     \/ Faults /\ errored' = errored \cup {s} /\ UNCHANGED <<row, lock, released_in>>

\* The send gives up: it releases its reservation and returns its error.
GiveUp(s) ==
  /\ pc[s] = "release"
  /\ ReleaseSendReservation(s)
  /\ Goto(s, "failed")
  /\ UNCHANGED <<db, unlocked, expired, file, found, kills, inputs, dark>>

\* minotari's finalize: the row is completed while it is pending, and the
\* outputs stay with the transaction.
Record(s) ==
  /\ pc[s] = "finalize"
  /\ row[s] = "pending"
  /\ row' = [row EXCEPT ![s] = "completed"]
  /\ Goto(s, "recorded")
  /\ UNCHANGED <<db, unlocked, lock, expired, file, found, kills, history>>

\* finalize fails before it recorded: a key it cannot read, an expired row.
\* On most of these paths minotari releases the reservation itself.
FinalizeFails(s) ==
  /\ pc[s] = "finalize"
  /\ ExpireAndUnlock(s) \/ UNCHANGED <<row, lock>>
  /\ Goto(s, "release")
  /\ UNCHANGED <<db, unlocked, expired, file, found, kills, history>>

\* Mutant of Sent: reports `Wallet is locked` when the session has gone.
SentIfUnlocked(s) ==
  /\ pc[s] = "recorded"
  /\ Goto(s, IF unlocked THEN "sent" ELSE "release")
  /\ UNCHANGED <<db, unlocked, disk, file, found, kills, history>>

\* The broadcast is over, accepted or not: Ok.
Sent(s) ==
  /\ pc[s] = "recorded"
  /\ Goto(s, "sent")
  /\ UNCHANGED <<db, unlocked, disk, file, found, kills, history>>

SendStep(s) ==
  \/ LoadKeys(s) \/ SendSweeps(s) \/ (\E t \in Send : SweepRow(s, t))
  \/ Build(s) \/ BuildFails(s)
  \/ CheckUnlocked(s) \/ CheckFails(s)
  \/ Sign(s) \/ SignFails(s)
  \/ Record(s) \/ FinalizeFails(s) \/ GiveUp(s) \/ Sent(s)

Init ==
  /\ path = None /\ open = None /\ unlocked = FALSE
  /\ lock = [f \in File |-> [o \in Output |-> None]]
  /\ row = [s \in Send |-> "absent"]
  /\ expired = {}
  /\ pc = [s \in Send |-> "idle"]
  /\ file = [s \in Send |-> None]
  /\ found = [x \in Send \cup {None} |-> {}]
  /\ kills = 0
  /\ inputs = [s \in Send |-> {}]
  /\ dark = {}
  /\ released_in = [s \in Send |-> None]
  /\ errored = {}

Next == App \/ \E s \in Send : CreateSender(s) \/ Refuse(s) \/ SendStep(s)

Spec == Init /\ [][Next]_vars

(***************************************************************************)
(* A send that has begun is run, a sweep that has begun goes on, time      *)
(* passes, and scans go on being started in a database that stays, or      *)
(* comes back, in use; a database error does not come back for ever.       *)
(* Nobody has to send, lock or unlock.                                     *)
(***************************************************************************)
FairSpec ==
  /\ Spec
  /\ \A s \in Send :
       /\ WF_vars(SendStep(s)) /\ WF_vars(ReservationExpires(s)) /\ WF_vars(SweepRow(None, s))
       /\ SF_vars(SweepRow(None, s) /\ ExpireAndUnlock(s))
  /\ \A f \in File :
       SF_vars(CurrentFile = f /\ ScanStartSweeps /\ found'[None] = RowsToSweep(f))

-----------------------------------------------------------------------------
(* Properties *)

\* The inputs of a recorded send stay with it: no sweep with an old list, failed
\* send or backstop release gives them to another send, which would pay with
\* them a second time (release_expired_reservations, release_send_reservation).
RecordedKeepsInputs ==
  \A s \in Send : row[s] = "completed" =>
    \A o \in inputs[s] : lock[file[s]][o] = s

\* While a send is between its build and its record and its reservation has not
\* run out, nobody else takes its inputs: neither the sweep of a starting scan,
\* send or database open, nor another send's release.
LiveSendKeepsInputs ==
  \A s \in Send : pc[s] \in Reserved /\ s \notin expired =>
    row[s] = "pending" /\ \A o \in inputs[s] : lock[file[s]][o] = s

\* An error means that the send was not recorded, so sending again does not pay
\* twice, and Ok means that it was, whatever was locked or killed meanwhile.
AnswerTellsTheRecord ==
  \A s \in Send :
    /\ pc[s] = "failed" => row[s] # "completed"
    /\ pc[s] = "sent" => row[s] = "completed"

\* A send whose wallet was locked before its last session check, and not
\* unlocked again, is never recorded or broadcast, even where minotari would
\* read the keys of an empty passphrase without a session.
LockedSendIsNotRecorded ==
  \A s \in dark : pc[s] \notin {"recorded", "sent"}

\* A send that failed has given back its reservation, unless a database error kept it
\* from doing so or the path had been changed when it did: release_send_reservation
\* then looks for the row in another database.
FailedSendReleases ==
  \A s \in Send : pc[s] = "failed" /\ row[s] = "pending" =>
    s \in errored \/ released_in[s] \notin {None, file[s]}

\* What the comment of build_while_unlocked says of a refused send: its
\* reservation is released.
RefusedSendIsReleased ==
  \A s \in Send : pc[s] = "failed" => row[s] # "pending"

\* A reservation that is neither recorded nor released, after a kill or a change
\* of path, is released in the end if the app comes back to its database.
ReservationEnds ==
  \A s \in Send :
    []<>(CurrentFile = file[s]) => (row[s] = "pending" ~> row[s] # "pending")
=============================================================================
