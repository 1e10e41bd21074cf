------------------------------ MODULE KeyReads ------------------------------
(***************************************************************************)
(* The calls that read a wallet's keys, beside the sessions they read them *)
(* through: get_address (api/address.rs), the key manager of a send        *)
(* (api/send_transaction.rs) and sign_message (api/signing.rs), with       *)
(* unlocked_account and with_session of api/db.rs.                         *)
(*                                                                         *)
(* A reader holds neither the wallet's gate nor DB_STATE, so every step of *)
(* KeySessions may fall between two of its own.  minotari is external: for *)
(* an empty passphrase it takes the keys of the session, and when there is *)
(* none it decrypts them with that passphrase, which may or may not be the *)
(* wallet's.                                                               *)
(***************************************************************************)
EXTENDS KeySessions

CONSTANTS Reader    \* calls that read keys

VARIABLES
  stage,    \* "idle", "account", "stored" (get_address or a send reads the keys),
            \* "sign" (sign_message does), "check" or "done"
  wallet,   \* the wallet it names
  file,     \* the database it connected to
  source,   \* where the keys came from: "session", "empty" (the empty passphrase),
            \* "undecrypted" (it does not open the wallet) or "none"
  answer,   \* "none", "keys", "Locked", "NoAccounts" or "InvalidPassphrase"
  relocked  \* history: the wallet was unlocked between the read and its check

reads     == <<stage, wallet, file, source, answer>>
readVars  == <<vars, reads, relocked>>

Answers == {"keys", "Locked", "NoAccounts", "InvalidPassphrase"}

ReadInit ==
  /\ Init
  /\ stage = [r \in Reader |-> "idle"]
  /\ wallet \in [Reader -> Wallet]
  /\ file = [r \in Reader |-> None]
  /\ source = [r \in Reader |-> "none"]
  /\ answer = [r \in Reader |-> "none"]
  /\ relocked = [r \in Reader |-> FALSE]

To(r, s) == stage' = [stage EXCEPT ![r] = s] /\ UNCHANGED wallet

Answer(r, a) == To(r, "done") /\ answer' = [answer EXCEPT ![r] = a]

-----------------------------------------------------------------------------
(* Readers *)

\* get_db_connection.
Connect(r) ==
  /\ stage[r] = "idle" /\ CurrentFile # None
  /\ To(r, "account")
  /\ file' = [file EXCEPT ![r] = CurrentFile]
  /\ UNCHANGED <<source, answer>>

\* The account row, which must be there.
HasAccount(r) == <<file[r], wallet[r]>> \in accounts

NoAccount(r) ==
  /\ stage[r] = "account" /\ ~HasAccount(r)
  /\ Answer(r, "NoAccounts")
  /\ UNCHANGED <<file, source>>

\* unlocked_account: the row and the session.
UnlockedAccount(r) ==
  /\ stage[r] = "account" /\ HasAccount(r)
  /\ IF wallet[r] \in live
       THEN (\E s \in {"stored", "sign"} : To(r, s)) /\ UNCHANGED answer
       ELSE Answer(r, "Locked")
  /\ UNCHANGED <<file, source>>

\* minotari with an empty passphrase.
FallBack(w) == IF w \in live THEN {"session"} ELSE {"empty", "undecrypted"}

\* The closure of with_session.
ReadKeys(r) ==
  /\ stage[r] = "stored"
  /\ \E s \in FallBack(wallet[r]) : source' = [source EXCEPT ![r] = s]
  /\ To(r, "check")
  /\ UNCHANGED <<file, answer>>

\* Mutant of WithSession: what was read is answered unless it is an error.
WithSessionTrusts(r) ==
  /\ stage[r] = "check"
  /\ Answer(r, IF source[r] # "undecrypted" THEN "keys"
               ELSE IF wallet[r] \in live THEN "InvalidPassphrase" ELSE "Locked")
  /\ UNCHANGED <<file, source>>

\* with_session asks again, and answers what was read only if there is a session.
WithSession(r) ==
  /\ stage[r] = "check"
  /\ Answer(r, IF wallet[r] \notin live THEN "Locked"
               ELSE IF source[r] = "undecrypted" THEN "InvalidPassphrase" ELSE "keys")
  /\ UNCHANGED <<file, source>>

\* sign_message_unlocked reads the session only; NotUnlocked is mapped to Locked.
SignMessage(r) ==
  /\ stage[r] = "sign"
  /\ IF wallet[r] \in live
       THEN source' = [source EXCEPT ![r] = "session"] /\ Answer(r, "keys")
       ELSE Answer(r, "Locked") /\ UNCHANGED source
  /\ UNCHANGED file

Read(r) ==
  \/ Connect(r) \/ NoAccount(r) \/ UnlockedAccount(r)
  \/ ReadKeys(r) \/ WithSession(r) \/ SignMessage(r)

\* A step of the sessions; a wallet that gains one is remembered by its readers.
SessionsStep ==
  /\ Next
  /\ relocked' = [r \in Reader |-> relocked[r] \/ (stage[r] = "check" /\ wallet[r] \in live' \ live)]
  /\ UNCHANGED reads

ReadNext ==
  \/ SessionsStep
  \/ (\E r \in Reader : Read(r)) /\ UNCHANGED <<vars, relocked>>

ReadSpec == ReadInit /\ [][ReadNext]_readVars

-----------------------------------------------------------------------------
(* Properties *)

\* The caller was given what the empty passphrase made of the wallet's keys.
UsedFallback(r) ==
  /\ answer[r] \in {"keys", "InvalidPassphrase"}
  /\ source[r] \in {"empty", "undecrypted"}

\* A key path that lost its session in the middle answers Locked, unless somebody
\* unlocked the wallet again before the path asked (db.rs:413-428).  The documents do not make that exception
\* (docs/THREAT_MODEL.md:55-57), and with_session cannot tell the two sessions apart.
FallbackNeedsARelock == \A r \in Reader : UsedFallback(r) => relocked[r]
=============================================================================
