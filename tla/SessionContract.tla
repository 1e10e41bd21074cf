-------------------------- MODULE SessionContract --------------------------
(***************************************************************************)
(* What the sessions promise the engines (src/docs/ARCHITECTURE.md,        *)
(* "Database and sessions"): an engine that was told its wallet is         *)
(* unlocked has the wallet's key session until it locks the wallet, or     *)
(* until everybody's hold is taken at once.  Nobody's lock or failed       *)
(* unlock closes a session that is held.  A delete or rename does, and     *)
(* when it returns nobody holds the wallet without a session.              *)
(***************************************************************************)
CONSTANTS
  Wallet,  \* the wallet names
  Task     \* the calls of the engines

VARIABLES
  session,  \* the wallets with a key session
  held,     \* for each wallet, the calls that were told Ok and have not given it back
  changing  \* the wallets that a delete or rename has written and not yet left

vars == <<session, held, changing>>

Init ==
  /\ session = {}
  /\ held = [w \in Wallet |-> {}]
  /\ changing = {}

\* A passphrase opened the wallet.
Open(w) ==
  /\ session' = session \cup {w}
  /\ UNCHANGED <<held, changing>>

\* unlock_wallet returns Ok.
Grant(t, w) ==
  /\ w \in session \cup changing
  /\ held' = [held EXCEPT ![w] = @ \cup {t}]
  /\ UNCHANGED <<session, changing>>

\* One engine's lock_wallet.
Leave(t, w) ==
  /\ held' = [held EXCEPT ![w] = @ \ {t}]
  /\ UNCHANGED <<session, changing>>

\* The wallet's count is gone, and every hold with it.
Evict(w) ==
  /\ held' = [held EXCEPT ![w] = {}]
  /\ UNCHANGED <<session, changing>>

\* A session is dropped when nobody holds it.
Close(w) ==
  /\ held[w] = {}
  /\ session' = session \ {w}
  /\ UNCHANGED <<held, changing>>

\* A delete or rename writes; when it fails the session stays.
Change(w) ==
  /\ session' \in {session, session \ {w}}
  /\ changing' = changing \cup {w}
  /\ UNCHANGED held

EndChange(w) ==
  /\ held[w] = {} \/ w \in session
  /\ changing' = changing \ {w}
  /\ UNCHANGED <<session, held>>

Next ==
  \E w \in Wallet :
    \/ Open(w) \/ Evict(w) \/ Close(w) \/ Change(w) \/ EndChange(w)
    \/ \E t \in Task : Grant(t, w) \/ Leave(t, w)

Spec == Init /\ [][Next]_vars
=============================================================================
