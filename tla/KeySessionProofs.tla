-------------------------- MODULE KeySessionProofs --------------------------
(***************************************************************************)
(* Proofs about KeySessions, for every set of tasks, wallets and files and *)
(* every bound on the generations.                                         *)
(***************************************************************************)
EXTENDS KeySessions, FiniteSetTheorems, TLAPS

-----------------------------------------------------------------------------
(* Type correctness *)

LEMMA TypeInit == Init => TypeOK
  BY ConstantsAssumption DEF Init, TypeOK, Pc, Op

\* The counts and the pool stay well typed when a wallet's count is given back or removed.
LEMMA CountsTyped ==
  ASSUME TypeOK, NEW w \in Wallet,
         \/ count[w] > 0 /\ ReleaseOne(w)
         \/ RemoveEntry(w)
  PROVE  count' \in [Wallet -> Nat] /\ open' \in File \cup {None}
  BY DEF TypeOK, ReleaseOne, RemoveEntry, PoolAfter

LEMMA TypeStep ==
  ASSUME TypeOK, [Next]_vars
  PROVE  TypeOK'
<1> USE DEF TypeOK, Goto, Pc, InGate, UnlockPc, LockPc, Op, state, external, args
<1>1. CASE UNCHANGED vars
  BY <1>1 DEF vars
<1>2. ASSUME NEW t \in Task, InsideCall(t) PROVE TypeOK'
  <2>1. CASE TakeGate(t) BY <2>1 DEF TakeGate
  <2>2. CASE CheckFails(t) BY <2>2 DEF CheckFails
  <2>3. CASE CheckSession(t) BY <2>3 DEF CheckSession
  <2>4. CASE VerifyPassphrase(t) BY <2>4 DEF VerifyPassphrase
  <2>5. CASE SessionUnlock(t) BY <2>5 DEF SessionUnlock
  <2>6. CASE Confirm(t) BY <2>6 DEF Confirm
  <2>7. CASE ReleaseFailed(t)
    <3>1. count' \in [Wallet -> Nat] /\ open' \in File \cup {None}
      BY <2>7, CountsTyped DEF ReleaseFailed, Counted
    <3> QED BY <2>7, <3>1 DEF ReleaseFailed
  <2>8. CASE ReadHeld(t) BY <2>8 DEF ReadHeld, AfterLock
  <2>9. CASE SessionLock(t) BY <2>9 DEF SessionLock
  <2>10. CASE CancelScans(t) BY <2>10 DEF CancelScans, AfterLock
  <2>11. CASE LockEverywhere(t)
    <3>1. count' \in [Wallet -> Nat] /\ open' \in File \cup {None}
      BY <2>11, CountsTyped DEF LockEverywhere
    <3> QED BY <2>11, <3>1 DEF LockEverywhere
  <2>12. CASE StopScans(t) BY <2>12 DEF StopScans
  <2>13. CASE Change(t) BY <2>13 DEF Change
  <2>14. CASE ChangeFails(t) BY <2>14 DEF ChangeFails
  <2> QED BY <1>2, <2>1, <2>2, <2>3, <2>4, <2>5, <2>6, <2>7, <2>8, <2>9, <2>10, <2>11,
             <2>12, <2>13, <2>14 DEF InsideCall
<1>3. ASSUME NEW t \in Task, BeginCall(t) PROVE TypeOK'
  <2>1. ASSUME NEW w \in Wallet, NEW f \in File, NEW ok \in BOOLEAN, UnlockCount(t, w, f, ok)
        PROVE TypeOK'
    BY <2>1 DEF UnlockCount, AcquireSession
  <2>2. CASE LockRelease(t)
    <3>1. count' \in [Wallet -> Nat] /\ open' \in File \cup {None}
      BY <2>2, CountsTyped DEF LockRelease
    <3> QED BY <2>2, <3>1 DEF LockRelease
  <2>3. CASE ForgetHold(t) BY <2>3 DEF ForgetHold
  <2>4. ASSUME NEW w \in Wallet, ForceLock(t, w) PROVE TypeOK'
    <3>1. count' \in [Wallet -> Nat] /\ open' \in File \cup {None}
      BY <2>4, CountsTyped DEF ForceLock
    <3> QED BY <2>4, <3>1 DEF ForceLock
  <2>5. ASSUME NEW w \in Wallet, ChangeStart(t, w) PROVE TypeOK'
    BY <2>5 DEF ChangeStart, CurrentFile
  <2> QED BY <1>3, <2>1, <2>2, <2>3, <2>4, <2>5 DEF BeginCall
<1>4. CASE Environment
  <2>1. ASSUME NEW f \in File, SetDatabasePath(f) PROVE TypeOK'
    BY <2>1 DEF SetDatabasePath
  <2>2. ASSUME NEW w \in Wallet, CreateAccount(w) PROVE TypeOK'
    BY <2>2 DEF CreateAccount, CurrentFile
  <2>3. ASSUME NEW w \in Wallet, StartScan(w) PROVE TypeOK'
    BY <2>3 DEF StartScan
  <2>4. ASSUME NEW w \in Wallet, EndScan(w) PROVE TypeOK'
    BY <2>4 DEF EndScan
  <2> QED BY <1>4, <2>1, <2>2, <2>3, <2>4 DEF Environment
<1> QED BY <1>1, <1>2, <1>3, <1>4 DEF Next

\* Every variable keeps its type; in particular no count is ever taken below zero.
THEOREM TypeCorrect == Spec => []TypeOK
  BY TypeInit, TypeStep, PTL DEF Spec
-----------------------------------------------------------------------------
(* The inductive invariant *)

\* Whoever is inside a wallet's gate holds it, so two calls are never inside together.
GateHeld == \A t \in Task : pc[t] \in InGate => gate[wal[t]] = t

\* A generation once handed out is never handed out again.
FreshGenerations ==
  /\ \A w \in Wallet : count[w] > 0 => generation[w] < next_generation
  /\ \A t \in Task : pc[t] \in Unlocking \cup {"holding"} => gen[t] < next_generation

\* A call that counted is an unlock until its engine locks, and what removes a wallet's
\* counts at the two locks of a change is that delete or rename.
OpFits ==
  \A t \in Task :
    /\ pc[t] \in Unlocking \cup {"holding"} => op[t] = "unlock"
    /\ pc[t] = "remove" => op[t] \in {"before", "after"}

\* minotari's unlock is only reached with no session, and passed only with the passphrase.
PassphraseChecked ==
  \A t \in Task :
    /\ pc[t] = "unlock" => wal[t] \notin live
    /\ pc[t] \in {"recheck", "confirm", "holding"} => right[t]

\* A delete or rename of w is about to remove every count of it.
RemovalPending(w) == \E u \in Task : wal[u] = w /\ op[u] = "after" /\ pc[u] = "remove"

\* A counted call that has the session keeps it until a delete or rename removes the count.
SessionKept ==
  \A t \in Task :
    pc[t] \in {"confirm", "holding"} /\ Counted(t) => wal[t] \in live \/ RemovalPending(wal[t])

\* When a session is about to be dropped, nobody who was told Ok is counted.
DropIsSafe ==
  \A t, u \in Task :
    pc[u] = "drop" /\ pc[t] = "holding" /\ wal[t] = wal[u] => ~Counted(t)

\* An unlock that found the account stays allowed to hold it until a delete or rename
\* removes the count.
AccountKept ==
  \A t \in Task :
    pc[t] \in {"recheck", "confirm", "holding"} /\ Counted(t) =>
      <<db[t], wal[t]>> \in accounts \/ RemovalPending(wal[t])

\* A wallet's count counts calls, and misses none of those that hold it unless an
\* engine's stale lock gave back the count of another one.
CountsCalls ==
  \A w \in Wallet :
    /\ IsFiniteSet(CountedCalls(w))
    /\ count[w] <= Cardinality(CountedCalls(w))
    /\ ~StaleLocks => count[w] = Cardinality(CountedCalls(w))

-----------------------------------------------------------------------------
(* What one step can do *)

\* A call inside the gate moves only by its own steps, and a gate changes hands only
\* through its holder.
LEMMA GateStep ==
  ASSUME TypeOK, GateHeld, [Next]_vars
  PROVE  GateHeld'
<1> USE DEF TypeOK, GateHeld, Goto, InGate, UnlockPc, LockPc, state, external, args
<1>1. CASE UNCHANGED vars BY <1>1 DEF vars
<1>2. ASSUME NEW t \in Task, InsideCall(t) PROVE GateHeld'
  <2>1. CASE TakeGate(t) BY <2>1, ConstantsAssumption DEF TakeGate
  <2>2. CASE CheckFails(t) BY <2>2 DEF CheckFails
  <2>3. CASE CheckSession(t) BY <2>3 DEF CheckSession
  <2>4. CASE VerifyPassphrase(t) BY <2>4 DEF VerifyPassphrase
  <2>5. CASE SessionUnlock(t) BY <2>5 DEF SessionUnlock
  <2>6. CASE Confirm(t) BY <2>6 DEF Confirm
  <2>7. CASE ReleaseFailed(t) BY <2>7 DEF ReleaseFailed
  <2>8. CASE ReadHeld(t) BY <2>8 DEF ReadHeld, AfterLock
  <2>9. CASE SessionLock(t) BY <2>9 DEF SessionLock
  <2>10. CASE CancelScans(t) BY <2>10 DEF CancelScans, AfterLock
  <2>11. CASE LockEverywhere(t) BY <2>11 DEF LockEverywhere
  <2>12. CASE StopScans(t) BY <2>12 DEF StopScans
  <2>13. CASE Change(t) BY <2>13 DEF Change
  <2>14. CASE ChangeFails(t) BY <2>14 DEF ChangeFails
  <2> QED BY <1>2, <2>1, <2>2, <2>3, <2>4, <2>5, <2>6, <2>7, <2>8, <2>9, <2>10, <2>11,
             <2>12, <2>13, <2>14 DEF InsideCall
<1>3. ASSUME NEW t \in Task, BeginCall(t) PROVE GateHeld'
  BY <1>3 DEF BeginCall, UnlockCount, LockRelease, ForgetHold, ForceLock, ChangeStart
<1>4. CASE Environment
  BY <1>4 DEF Environment, SetDatabasePath, CreateAccount, StartScan, EndScan
<1> QED BY <1>1, <1>2, <1>3, <1>4 DEF Next

\* A session ends only by the lock in its gate or by a delete or rename.
LEMMA SessionEnds ==
  ASSUME TypeOK, [Next]_vars, NEW w \in Wallet, w \in live, w \notin live'
  PROVE  \E u \in Task : wal[u] = w /\ (SessionLock(u) \/ Change(u))
<1> USE DEF TypeOK, external
<1>1. CASE UNCHANGED vars BY <1>1 DEF vars
<1>2. ASSUME NEW t \in Task, InsideCall(t), ~SessionLock(t), ~Change(t) PROVE live \subseteq live'
  BY <1>2 DEF InsideCall, TakeGate, CheckFails, CheckSession, VerifyPassphrase, SessionUnlock,
     Confirm, ReleaseFailed, ReadHeld, CancelScans, LockEverywhere, StopScans, ChangeFails
<1>3. ASSUME NEW t \in Task, SessionLock(t) \/ Change(t), wal[t] # w PROVE w \in live'
  BY <1>3 DEF SessionLock, Change
<1>4. ASSUME NEW t \in Task, BeginCall(t) PROVE live' = live
  BY <1>4 DEF BeginCall, UnlockCount, LockRelease, ForgetHold, ForceLock, ChangeStart
<1>5. CASE Environment
  BY <1>5 DEF Environment, SetDatabasePath, CreateAccount, StartScan, EndScan
<1> QED BY <1>1, <1>2, <1>3, <1>4, <1>5 DEF Next

\* Only an unlock hands out generations: a new one for a wallet nobody holds.
LEMMA FreshStep ==
  ASSUME TypeOK, FreshGenerations, [Next]_vars
  PROVE  FreshGenerations'
<1> USE DEF TypeOK, FreshGenerations, Goto, Unlocking, state, external, args
<1>1. CASE UNCHANGED vars BY <1>1 DEF vars
<1>2. ASSUME NEW t \in Task, InsideCall(t) PROVE FreshGenerations'
  <2>1. CASE TakeGate(t) BY <2>1 DEF TakeGate
  <2>2. CASE CheckFails(t) BY <2>2 DEF CheckFails
  <2>3. CASE CheckSession(t) BY <2>3 DEF CheckSession
  <2>4. CASE VerifyPassphrase(t) BY <2>4 DEF VerifyPassphrase
  <2>5. CASE SessionUnlock(t) BY <2>5 DEF SessionUnlock
  <2>6. CASE Confirm(t) BY <2>6 DEF Confirm
  <2>7. CASE ReleaseFailed(t) BY <2>7 DEF ReleaseFailed, ReleaseOne
  <2>8. CASE ReadHeld(t) BY <2>8 DEF ReadHeld, AfterLock
  <2>9. CASE SessionLock(t) BY <2>9 DEF SessionLock
  <2>10. CASE CancelScans(t) BY <2>10 DEF CancelScans, AfterLock
  <2>11. CASE LockEverywhere(t) BY <2>11 DEF LockEverywhere, RemoveEntry
  <2>12. CASE StopScans(t) BY <2>12 DEF StopScans
  <2>13. CASE Change(t) BY <2>13 DEF Change
  <2>14. CASE ChangeFails(t) BY <2>14 DEF ChangeFails
  <2> QED BY <1>2, <2>1, <2>2, <2>3, <2>4, <2>5, <2>6, <2>7, <2>8, <2>9, <2>10, <2>11,
             <2>12, <2>13, <2>14 DEF InsideCall
<1>3. ASSUME NEW t \in Task, BeginCall(t) PROVE FreshGenerations'
  <2>1. ASSUME NEW w \in Wallet, NEW f \in File, NEW ok \in BOOLEAN, UnlockCount(t, w, f, ok)
        PROVE FreshGenerations'
    BY <2>1 DEF UnlockCount, AcquireSession
  <2>2. CASE LockRelease(t) BY <2>2 DEF LockRelease, ReleaseOne
  <2>3. CASE ForgetHold(t) BY <2>3 DEF ForgetHold
  <2>4. ASSUME NEW w \in Wallet, ForceLock(t, w) PROVE FreshGenerations'
    BY <2>4 DEF ForceLock, RemoveEntry
  <2>5. ASSUME NEW w \in Wallet, ChangeStart(t, w) PROVE FreshGenerations'
    BY <2>5 DEF ChangeStart
  <2> QED BY <1>3, <2>1, <2>2, <2>3, <2>4, <2>5 DEF BeginCall
<1>4. CASE Environment
  BY <1>4 DEF Environment, SetDatabasePath, CreateAccount, StartScan, EndScan
<1> QED BY <1>1, <1>2, <1>3, <1>4 DEF Next

\* The calls that count are unlocks.
LEMMA OpStep ==
  ASSUME TypeOK, OpFits, [Next]_vars
  PROVE  OpFits'
<1> USE DEF TypeOK, OpFits, Goto, Unlocking, state, external, args
<1>1. CASE UNCHANGED vars BY <1>1 DEF vars
<1>2. ASSUME NEW t \in Task, InsideCall(t) PROVE OpFits'
  <2>1. CASE TakeGate(t) BY <2>1 DEF TakeGate
  <2>2. CASE CheckFails(t) BY <2>2 DEF CheckFails
  <2>3. CASE CheckSession(t) BY <2>3 DEF CheckSession
  <2>4. CASE VerifyPassphrase(t) BY <2>4 DEF VerifyPassphrase
  <2>5. CASE SessionUnlock(t) BY <2>5 DEF SessionUnlock
  <2>6. CASE Confirm(t) BY <2>6 DEF Confirm
  <2>7. CASE ReleaseFailed(t) BY <2>7 DEF ReleaseFailed
  <2>8. CASE ReadHeld(t) BY <2>8 DEF ReadHeld, AfterLock
  <2>9. CASE SessionLock(t) BY <2>9 DEF SessionLock
  <2>10. CASE CancelScans(t) BY <2>10 DEF CancelScans, AfterLock
  <2>11. CASE LockEverywhere(t) BY <2>11 DEF LockEverywhere
  <2>12. CASE StopScans(t) BY <2>12 DEF StopScans
  <2>13. CASE Change(t) BY <2>13 DEF Change
  <2>14. CASE ChangeFails(t) BY <2>14 DEF ChangeFails
  <2> QED BY <1>2, <2>1, <2>2, <2>3, <2>4, <2>5, <2>6, <2>7, <2>8, <2>9, <2>10, <2>11,
             <2>12, <2>13, <2>14 DEF InsideCall
<1>3. ASSUME NEW t \in Task, BeginCall(t) PROVE OpFits'
  BY <1>3 DEF BeginCall, UnlockCount, LockRelease, ForgetHold, ForceLock, ChangeStart
<1>4. CASE Environment
  BY <1>4 DEF Environment, SetDatabasePath, CreateAccount, StartScan, EndScan
<1> QED BY <1>1, <1>2, <1>3, <1>4 DEF Next

\* No session appears while an unlock is inside its gate, and none passes unchecked.
LEMMA PassphraseStep ==
  ASSUME TypeOK, GateHeld, PassphraseChecked, [Next]_vars
  PROVE  PassphraseChecked'
<1> USE DEF TypeOK, GateHeld, PassphraseChecked, Goto, InGate, UnlockPc, LockPc, state, external,
           args
<1>1. CASE UNCHANGED vars BY <1>1 DEF vars
<1>2. ASSUME NEW t \in Task, InsideCall(t) PROVE PassphraseChecked'
  <2>1. CASE TakeGate(t) BY <2>1 DEF TakeGate
  <2>2. CASE CheckFails(t) BY <2>2 DEF CheckFails
  <2>3. CASE CheckSession(t) BY <2>3 DEF CheckSession
  <2>4. CASE VerifyPassphrase(t) BY <2>4 DEF VerifyPassphrase
  <2>5. CASE SessionUnlock(t)
    <3>1. \A u \in Task \ {t} : pc[u] = "unlock" => wal[u] # wal[t]
      BY <2>5 DEF SessionUnlock
    <3> QED BY <2>5, <3>1 DEF SessionUnlock
  <2>6. CASE Confirm(t) BY <2>6 DEF Confirm
  <2>7. CASE ReleaseFailed(t) BY <2>7 DEF ReleaseFailed
  <2>8. CASE ReadHeld(t) BY <2>8 DEF ReadHeld, AfterLock
  <2>9. CASE SessionLock(t) BY <2>9 DEF SessionLock
  <2>10. CASE CancelScans(t) BY <2>10 DEF CancelScans, AfterLock
  <2>11. CASE LockEverywhere(t) BY <2>11 DEF LockEverywhere
  <2>12. CASE StopScans(t) BY <2>12 DEF StopScans
  <2>13. CASE Change(t) BY <2>13 DEF Change
  <2>14. CASE ChangeFails(t) BY <2>14 DEF ChangeFails
  <2> QED BY <1>2, <2>1, <2>2, <2>3, <2>4, <2>5, <2>6, <2>7, <2>8, <2>9, <2>10, <2>11,
             <2>12, <2>13, <2>14 DEF InsideCall
<1>3. ASSUME NEW t \in Task, BeginCall(t) PROVE PassphraseChecked'
  BY <1>3 DEF BeginCall, UnlockCount, LockRelease, ForgetHold, ForceLock, ChangeStart
<1>4. CASE Environment
  BY <1>4 DEF Environment, SetDatabasePath, CreateAccount, StartScan, EndScan
<1> QED BY <1>1, <1>2, <1>3, <1>4 DEF Next

\* How a call came where it is: Ok only after confirm_still_counted, confirm only with a
\* session, the drop only with nobody counted.
LEMMA CallStep ==
  ASSUME TypeOK, [Next]_vars, NEW t \in Task
  PROVE  /\ pc[t] # "idle" => wal'[t] = wal[t] /\ db'[t] = db[t]
         /\ pc'[t] = "holding" => pc[t] \in {"confirm", "holding"}
         /\ pc'[t] = "confirm" =>
              pc[t] = "confirm" \/ (pc[t] \in {"recheck", "unlock"} /\ wal[t] \in live')
         /\ pc'[t] = "recheck" =>
              \/ pc[t] = "recheck"
              \/ pc[t] = "verify" /\ <<db[t], wal[t]>> \in accounts /\ UNCHANGED accounts
         /\ pc'[t] = "drop" => pc[t] = "drop" \/ (pc[t] = "read" /\ count'[wal[t]] = 0)
<1> USE DEF TypeOK, Goto, InGate, UnlockPc, LockPc, Pc, state, external, args
<1>1. CASE UNCHANGED vars BY <1>1 DEF vars
<1>2. ASSUME NEW u \in Task, InsideCall(u) PROVE wal' = wal /\ db' = db
  BY <1>2 DEF InsideCall, TakeGate, CheckFails, CheckSession, VerifyPassphrase, SessionUnlock,
     Confirm, ReleaseFailed, ReadHeld, SessionLock, CancelScans, LockEverywhere, StopScans,
     Change, ChangeFails
<1>3. ASSUME NEW u \in Task, InsideCall(u), u # t PROVE pc'[t] = pc[t]
  BY <1>3 DEF InsideCall, TakeGate, CheckFails, CheckSession, VerifyPassphrase, SessionUnlock,
     Confirm, ReleaseFailed, ReadHeld, SessionLock, CancelScans, LockEverywhere, StopScans,
     Change, ChangeFails
<1>4. CASE InsideCall(t)
  <2>1. CASE TakeGate(t) BY <2>1, <1>2, <1>4 DEF TakeGate
  <2>2. CASE CheckFails(t) BY <2>2, <1>2, <1>4 DEF CheckFails
  <2>3. CASE CheckSession(t) BY <2>3, <1>2, <1>4 DEF CheckSession
  <2>4. CASE VerifyPassphrase(t) BY <2>4, <1>2, <1>4 DEF VerifyPassphrase
  <2>5. CASE SessionUnlock(t) BY <2>5, <1>2, <1>4 DEF SessionUnlock
  <2>6. CASE Confirm(t) BY <2>6, <1>2, <1>4 DEF Confirm
  <2>7. CASE ReleaseFailed(t) BY <2>7, <1>2, <1>4 DEF ReleaseFailed
  <2>8. CASE ReadHeld(t) BY <2>8, <1>2, <1>4 DEF ReadHeld, AfterLock
  <2>9. CASE SessionLock(t) BY <2>9, <1>2, <1>4 DEF SessionLock
  <2>10. CASE CancelScans(t) BY <2>10, <1>2, <1>4 DEF CancelScans, AfterLock
  <2>11. CASE LockEverywhere(t) BY <2>11, <1>2, <1>4 DEF LockEverywhere
  <2>12. CASE StopScans(t) BY <2>12, <1>2, <1>4 DEF StopScans
  <2>13. CASE Change(t) BY <2>13, <1>2, <1>4 DEF Change
  <2>14. CASE ChangeFails(t) BY <2>14, <1>2, <1>4 DEF ChangeFails
  <2> QED BY <1>4, <2>1, <2>2, <2>3, <2>4, <2>5, <2>6, <2>7, <2>8, <2>9, <2>10, <2>11,
             <2>12, <2>13, <2>14 DEF InsideCall
<1>5. ASSUME NEW u \in Task, BeginCall(u)
      PROVE  /\ pc[t] # "idle" => wal'[t] = wal[t] /\ db'[t] = db[t]
             /\ pc'[t] = pc[t] \/ pc'[t] \in {"counted", "gate", "remove", "idle"}
  BY <1>5 DEF BeginCall, UnlockCount, LockRelease, ForgetHold, ForceLock, ChangeStart
<1>6. CASE Environment
  BY <1>6 DEF Environment, SetDatabasePath, CreateAccount, StartScan, EndScan
<1> QED BY <1>1, <1>2, <1>3, <1>4, <1>5, <1>6 DEF Next

\* A count is never handed to a call that lost it: a wallet counted anew gets a new
\* generation.
LEMMA CountedBefore ==
  ASSUME TypeOK, FreshGenerations, [Next]_vars, NEW t \in Task,
         pc[t] \in Unlocking \cup {"holding"}, pc'[t] \in Unlocking \cup {"holding"},
         Counted(t)'
  PROVE  Counted(t)
<1> USE DEF TypeOK, FreshGenerations, Counted, Goto, Unlocking, state, external, args
<1>1. CASE UNCHANGED vars BY <1>1 DEF vars
<1>2. ASSUME NEW u \in Task, InsideCall(u) PROVE Counted(t)
  <2>1. CASE ReleaseFailed(u) BY <2>1 DEF ReleaseFailed, ReleaseOne
  <2>2. CASE LockEverywhere(u) BY <2>2 DEF LockEverywhere, RemoveEntry
  <2>3. CASE UNCHANGED <<count, generation, wal, gen>> BY <2>3
  <2> QED BY <1>2, <2>1, <2>2, <2>3 DEF InsideCall, TakeGate, CheckFails, CheckSession,
             VerifyPassphrase, SessionUnlock, Confirm, ReadHeld, SessionLock, CancelScans,
             StopScans, Change, ChangeFails
<1>3. ASSUME NEW u \in Task, BeginCall(u) PROVE Counted(t)
  <2>1. ASSUME NEW w \in Wallet, NEW f \in File, NEW ok \in BOOLEAN, UnlockCount(u, w, f, ok)
        PROVE Counted(t)
    BY <2>1 DEF UnlockCount, AcquireSession
  <2>2. CASE LockRelease(u) BY <2>2 DEF LockRelease, ReleaseOne
  <2>3. CASE ForgetHold(u) BY <2>3 DEF ForgetHold
  <2>4. ASSUME NEW w \in Wallet, ForceLock(u, w) PROVE Counted(t)
    BY <2>4 DEF ForceLock, RemoveEntry
  <2>5. ASSUME NEW w \in Wallet, ChangeStart(u, w) PROVE Counted(t)
    BY <2>5 DEF ChangeStart
  <2> QED BY <1>3, <2>1, <2>2, <2>3, <2>4, <2>5 DEF BeginCall
<1>4. CASE Environment
  BY <1>4 DEF Environment, SetDatabasePath, CreateAccount, StartScan, EndScan
<1> QED BY <1>1, <1>2, <1>3, <1>4 DEF Next

\* A delete or rename that made its write keeps its promise to remove every count.
LEMMA RemovalStep ==
  ASSUME TypeOK, [Next]_vars, NEW w \in Wallet, RemovalPending(w)
  PROVE  RemovalPending(w)' \/ count'[w] = 0
<1> USE DEF TypeOK, Goto, state, external, args
<1>1. PICK u \in Task : wal[u] = w /\ op[u] = "after" /\ pc[u] = "remove"
  BY DEF RemovalPending
<1>2. CASE LockEverywhere(u)
  BY <1>1, <1>2 DEF LockEverywhere, RemoveEntry
<1>3. CASE ~LockEverywhere(u)
  <2>1. pc'[u] = "remove" /\ op'[u] = "after" /\ wal'[u] = w
    <3>1. CASE UNCHANGED vars BY <3>1, <1>1 DEF vars
    <3>2. ASSUME NEW t \in Task, InsideCall(t)
          PROVE pc'[u] = "remove" /\ op'[u] = "after" /\ wal'[u] = w
      BY <3>2, <1>1, <1>3 DEF InsideCall, TakeGate, CheckFails, CheckSession, VerifyPassphrase,
         SessionUnlock, Confirm, ReleaseFailed, ReadHeld, SessionLock, CancelScans,
         LockEverywhere, StopScans, Change, ChangeFails
    <3>3. ASSUME NEW t \in Task, BeginCall(t)
          PROVE pc'[u] = "remove" /\ op'[u] = "after" /\ wal'[u] = w
      BY <3>3, <1>1 DEF BeginCall, UnlockCount, LockRelease, ForgetHold, ForceLock, ChangeStart
    <3>4. CASE Environment
      BY <3>4, <1>1 DEF Environment, SetDatabasePath, CreateAccount, StartScan, EndScan
    <3> QED BY <3>1, <3>2, <3>3, <3>4 DEF Next
  <2> QED BY <2>1 DEF RemovalPending
<1> QED BY <1>2, <1>3

\* Nobody who was told Ok is counted when a session is about to be dropped: who comes to
\* hold it later comes through the gate.
LEMMA DropStep ==
  ASSUME TypeOK, GateHeld, FreshGenerations, DropIsSafe, [Next]_vars
  PROVE  DropIsSafe'
<1> SUFFICES ASSUME NEW t \in Task, NEW u \in Task,
                    pc'[u] = "drop", pc'[t] = "holding", wal'[t] = wal'[u], Counted(t)'
             PROVE  FALSE
  BY DEF DropIsSafe
<1>1. /\ pc[t] \in {"confirm", "holding"} /\ wal'[t] = wal[t]
      /\ pc[u] = "drop" \/ (pc[u] = "read" /\ count'[wal[u]] = 0)
      /\ wal'[u] = wal[u]
      /\ wal[t] = wal[u]
  BY CallStep DEF TypeOK, Pc
<1>2. Counted(t)
  BY <1>1, CountedBefore DEF Unlocking
<1>3. pc[u] = "drop"
  BY <1>1 DEF Counted, TypeOK
<1>4. CASE pc[t] = "holding" BY <1>1, <1>2, <1>3, <1>4 DEF DropIsSafe
<1>5. CASE pc[t] = "confirm"
  BY <1>1, <1>3, <1>5 DEF GateHeld, InGate, UnlockPc, LockPc
<1> QED BY <1>1, <1>4, <1>5

\* A counted call keeps its session: the lock that could take it needs the gate, or
\* nobody counted, and a delete or rename leaves its removal of the counts pending.
LEMMA SessionKeptStep ==
  ASSUME TypeOK, GateHeld, FreshGenerations, DropIsSafe, SessionKept, [Next]_vars
  PROVE  SessionKept'
<1> SUFFICES ASSUME NEW t \in Task, pc'[t] \in {"confirm", "holding"}, Counted(t)'
             PROVE  (wal[t] \in live \/ RemovalPending(wal[t]))'
  BY DEF SessionKept
<1>1. /\ pc[t] # "idle" /\ wal'[t] = wal[t] /\ wal[t] \in Wallet
      /\ pc[t] \in {"confirm", "holding"} \/ wal[t] \in live'
  BY CallStep DEF TypeOK
<1>2. CASE pc[t] \in {"confirm", "holding"} /\ wal[t] \notin live'
  <2>1. Counted(t)
    BY <1>2, CountedBefore DEF Unlocking
  <2>2. CASE RemovalPending(wal[t])
    BY <1>1, <2>2, RemovalStep DEF Counted, TypeOK
  <2>3. CASE wal[t] \in live
    <3>1. PICK u \in Task : wal[u] = wal[t] /\ (SessionLock(u) \/ Change(u))
      BY <1>1, <1>2, <2>3, SessionEnds
    <3>2. CASE SessionLock(u)
      BY <1>2, <2>1, <3>1, <3>2
         DEF SessionLock, DropIsSafe, GateHeld, InGate, UnlockPc, LockPc
    <3>3. CASE Change(u)
      BY <1>1, <3>1, <3>3 DEF Change, RemovalPending, Goto, TypeOK, args
    <3> QED BY <3>1, <3>2, <3>3
  <2> QED BY <1>2, <2>1, <2>2, <2>3 DEF SessionKept
<1> QED BY <1>1, <1>2

\* An account row goes only by the change of that wallet.
LEMMA AccountGoes ==
  ASSUME TypeOK, [Next]_vars, NEW f \in File, NEW w \in Wallet,
         <<f, w>> \in accounts, <<f, w>> \notin accounts'
  PROVE  \E u \in Task : Change(u) /\ wal[u] = w
<1> USE DEF TypeOK, external
<1>1. CASE UNCHANGED vars BY <1>1 DEF vars
<1>2. ASSUME NEW t \in Task, InsideCall(t), ~Change(t) PROVE accounts' = accounts
  BY <1>2 DEF InsideCall, TakeGate, CheckFails, CheckSession, VerifyPassphrase, SessionUnlock,
     Confirm, ReleaseFailed, ReadHeld, SessionLock, CancelScans, LockEverywhere, StopScans,
     ChangeFails
<1>3. ASSUME NEW t \in Task, Change(t), wal[t] # w PROVE <<f, w>> \in accounts'
  BY <1>3 DEF Change
<1>4. ASSUME NEW t \in Task, BeginCall(t) PROVE accounts' = accounts
  BY <1>4 DEF BeginCall, UnlockCount, LockRelease, ForgetHold, ForceLock, ChangeStart
<1>5. CASE Environment
  BY <1>5 DEF Environment, SetDatabasePath, CreateAccount, StartScan, EndScan
<1> QED BY <1>1, <1>2, <1>3, <1>4, <1>5 DEF Next

\* minotari's unlock of a wallet without a session needs its account row.
LEMMA UnlockNeedsAccount ==
  ASSUME TypeOK, [Next]_vars, NEW t \in Task, pc[t] = "unlock", pc'[t] = "confirm",
         wal[t] \notin live
  PROVE  <<db[t], wal[t]>> \in accounts /\ accounts' = accounts
<1> USE DEF TypeOK, Goto, external, args
<1>1. CASE UNCHANGED vars BY <1>1 DEF vars
<1>2. ASSUME NEW u \in Task, InsideCall(u), u # t PROVE pc'[t] = pc[t]
  BY <1>2 DEF InsideCall, TakeGate, CheckFails, CheckSession, VerifyPassphrase, SessionUnlock,
     Confirm, ReleaseFailed, ReadHeld, SessionLock, CancelScans, LockEverywhere, StopScans,
     Change, ChangeFails
<1>3. CASE InsideCall(t)
  BY <1>3 DEF InsideCall, TakeGate, CheckFails, CheckSession, VerifyPassphrase, SessionUnlock,
     Confirm, ReleaseFailed, ReadHeld, SessionLock, CancelScans, LockEverywhere, StopScans,
     Change, ChangeFails
<1>4. ASSUME NEW u \in Task, BeginCall(u) PROVE pc'[t] # "confirm"
  BY <1>4 DEF BeginCall, UnlockCount, LockRelease, ForgetHold, ForceLock, ChangeStart
<1>5. CASE Environment
  BY <1>5 DEF Environment, SetDatabasePath, CreateAccount, StartScan, EndScan
<1> QED BY <1>1, <1>2, <1>3, <1>4, <1>5 DEF Next

\* A counted call keeps its account row, but for a delete or rename that is about to
\* remove every count.
LEMMA AccountKeptStep ==
  ASSUME TypeOK, FreshGenerations, PassphraseChecked, AccountKept, [Next]_vars
  PROVE  AccountKept'
<1> SUFFICES ASSUME NEW t \in Task, pc'[t] \in {"recheck", "confirm", "holding"}, Counted(t)'
             PROVE  (<<db[t], wal[t]>> \in accounts \/ RemovalPending(wal[t]))'
  BY DEF AccountKept
<1> USE DEF TypeOK
<1>1. /\ pc[t] # "idle" /\ wal'[t] = wal[t] /\ db'[t] = db[t] /\ wal[t] \in Wallet
      /\ pc[t] \in {"verify", "recheck", "unlock", "confirm", "holding"}
      /\ Counted(t)
  BY CallStep, CountedBefore DEF Unlocking
<1>2. CASE RemovalPending(wal[t])
  BY <1>1, <1>2, RemovalStep DEF Counted
<1>3. CASE <<db[t], wal[t]>> \in accounts
  <2>1. CASE <<db[t], wal[t]>> \in accounts'
    BY <1>1, <2>1
  <2>2. CASE <<db[t], wal[t]>> \notin accounts'
    <3>1. PICK u \in Task : Change(u) /\ wal[u] = wal[t]
      BY <1>3, <2>2, AccountGoes
    <3> QED BY <1>1, <3>1 DEF Change, RemovalPending, Goto, args
  <2> QED BY <2>1, <2>2
<1>4. CASE <<db[t], wal[t]>> \notin accounts /\ ~RemovalPending(wal[t])
  <2>1. pc[t] \in {"verify", "unlock"}
    BY <1>1, <1>4 DEF AccountKept
  <2>2. pc[t] = "unlock" /\ pc'[t] = "confirm"
    BY <1>1, <1>4, <2>1, CallStep
  <2> QED BY <1>1, <1>4, <2>2, UnlockNeedsAccount DEF PassphraseChecked
<1> QED BY <1>2, <1>3, <1>4

\* A session nobody is counted for has its lock on the way, in every step.
LEMMA OrphanStep ==
  ASSUME TypeOK, NoOrphanSession, [Next]_vars
  PROVE  NoOrphanSession'
<1> USE DEF TypeOK, NoOrphanSession, Goto, state, external, args
<1>1. CASE UNCHANGED vars BY <1>1 DEF vars
<1>2. ASSUME NEW t \in Task, InsideCall(t) PROVE NoOrphanSession'
  <2>1. CASE TakeGate(t) BY <2>1 DEF TakeGate
  <2>2. CASE CheckFails(t) BY <2>2 DEF CheckFails
  <2>3. CASE CheckSession(t) BY <2>3 DEF CheckSession
  <2>4. CASE VerifyPassphrase(t) BY <2>4 DEF VerifyPassphrase
  <2>5. CASE SessionUnlock(t) BY <2>5 DEF SessionUnlock
  <2>6. CASE Confirm(t) BY <2>6 DEF Confirm, Counted
  <2>7. CASE ReleaseFailed(t) BY <2>7 DEF ReleaseFailed, ReleaseOne, Counted
  <2>8. CASE ReadHeld(t) BY <2>8 DEF ReadHeld, AfterLock
  <2>9. CASE SessionLock(t) BY <2>9 DEF SessionLock
  <2>10. CASE CancelScans(t) BY <2>10 DEF CancelScans, AfterLock
  <2>11. CASE LockEverywhere(t) BY <2>11 DEF LockEverywhere, RemoveEntry
  <2>12. CASE StopScans(t) BY <2>12 DEF StopScans
  <2>13. CASE Change(t) BY <2>13 DEF Change
  <2>14. CASE ChangeFails(t) BY <2>14 DEF ChangeFails
  <2> QED BY <1>2, <2>1, <2>2, <2>3, <2>4, <2>5, <2>6, <2>7, <2>8, <2>9, <2>10, <2>11,
             <2>12, <2>13, <2>14 DEF InsideCall
<1>3. ASSUME NEW t \in Task, BeginCall(t) PROVE NoOrphanSession'
  <2>1. ASSUME NEW w \in Wallet, NEW f \in File, NEW ok \in BOOLEAN, UnlockCount(t, w, f, ok)
        PROVE NoOrphanSession'
    BY <2>1 DEF UnlockCount, AcquireSession
  <2>2. CASE LockRelease(t) BY <2>2 DEF LockRelease, ReleaseOne
  <2>3. CASE ForgetHold(t) BY <2>3 DEF ForgetHold
  <2>4. ASSUME NEW w \in Wallet, ForceLock(t, w) PROVE NoOrphanSession'
    BY <2>4 DEF ForceLock, RemoveEntry
  <2>5. ASSUME NEW w \in Wallet, ChangeStart(t, w) PROVE NoOrphanSession'
    BY <2>5 DEF ChangeStart
  <2> QED BY <1>3, <2>1, <2>2, <2>3, <2>4, <2>5 DEF BeginCall
<1>4. CASE Environment
  <2>1. UNCHANGED <<count, live, pc, wal>>
    BY <1>4 DEF Environment, SetDatabasePath, CreateAccount, StartScan, EndScan
  <2> QED BY <2>1
<1> QED BY <1>1, <1>2, <1>3, <1>4 DEF Next

\* A call counts only where unlock_wallet counts it.
LEMMA CountsOnlyInUnlock ==
  ASSUME TypeOK, [Next]_vars, NEW t \in Task, pc'[t] \in Unlocking \cup {"holding"},
         \A w \in Wallet, f \in File, ok \in BOOLEAN : ~UnlockCount(t, w, f, ok)
  PROVE  pc[t] \in Unlocking \cup {"holding"}
<1> USE DEF TypeOK, Goto, Unlocking, args
<1>1. CASE UNCHANGED vars BY <1>1 DEF vars
<1>2. ASSUME NEW u \in Task, InsideCall(u), u # t PROVE pc'[t] = pc[t]
  BY <1>2 DEF InsideCall, TakeGate, CheckFails, CheckSession, VerifyPassphrase, SessionUnlock,
     Confirm, ReleaseFailed, ReadHeld, SessionLock, CancelScans, LockEverywhere, StopScans,
     Change, ChangeFails
<1>3. CASE InsideCall(t)
  BY <1>3 DEF InsideCall, TakeGate, CheckFails, CheckSession, VerifyPassphrase, SessionUnlock,
     Confirm, ReleaseFailed, ReadHeld, SessionLock, CancelScans, LockEverywhere, StopScans,
     Change, ChangeFails, AfterLock
<1>4. ASSUME NEW u \in Task, BeginCall(u)
      PROVE  pc'[t] = pc[t] \/ pc[t] = "holding" \/ pc'[t] \in {"gate", "remove", "idle"}
  BY <1>4 DEF BeginCall, UnlockCount, LockRelease, ForgetHold, ForceLock, ChangeStart
<1>5. CASE Environment
  BY <1>5 DEF Environment, SetDatabasePath, CreateAccount, StartScan, EndScan
<1> QED BY <1>1, <1>2, <1>3, <1>4, <1>5 DEF Next

\* Giving a count back, or removing a wallet's counts, closes the pool with the last one.
LEMMA PoolClosesWithTheLast ==
  ASSUME TypeOK, PoolServesTheCounted, NEW w \in Wallet,
         \/ count[w] > 0 /\ ReleaseOne(w)
         \/ RemoveEntry(w)
  PROVE  /\ open' # None <=> \E v \in Wallet : count'[v] > 0
         /\ open' # None => open' = open
         /\ \A v \in Wallet : count'[v] > 0 => count[v] > 0
<1> USE DEF TypeOK, PoolServesTheCounted, PoolAfter
<1>1. CASE count[w] > 0 /\ ReleaseOne(w)
  BY <1>1 DEF ReleaseOne
<1>2. CASE RemoveEntry(w)
  BY <1>2 DEF RemoveEntry
<1> QED BY <1>1, <1>2

\* The pool stays open for whoever is counted, on the file of every counted call.
LEMMA PoolStep ==
  ASSUME TypeOK, FreshGenerations, PoolServesTheCounted, [Next]_vars
  PROVE  PoolServesTheCounted'
<1> USE DEF TypeOK
<1>1. CASE \E t \in Task, w \in Wallet, f \in File, ok \in BOOLEAN : UnlockCount(t, w, f, ok)
  <2>1. PICK t \in Task, w \in Wallet, f \in File, ok \in BOOLEAN : UnlockCount(t, w, f, ok)
    BY <1>1
  <2>2. open' = f /\ f # None /\ count'[w] > 0
    BY <2>1, ConstantsAssumption DEF UnlockCount, AcquireSession
  <2>3. ASSUME NEW u \in Task, pc'[u] \in Unlocking \cup {"holding"}, Counted(u)'
        PROVE  db'[u] = f
    <3>1. CASE u = t BY <2>1, <3>1 DEF UnlockCount
    <3>2. CASE u # t
      <4>1. pc'[u] = pc[u] /\ db'[u] = db[u]
        BY <2>1, <3>2 DEF UnlockCount, Goto
      <4>2. Counted(u)
        BY <2>3, <4>1, CountedBefore
      <4> QED BY <2>1, <2>3, <4>1, <4>2
             DEF UnlockCount, AcquireSession, Counted, PoolServesTheCounted
    <3> QED BY <3>1, <3>2
  <2> QED BY <2>2, <2>3 DEF PoolServesTheCounted
<1>2. CASE ~\E t \in Task, w \in Wallet, f \in File, ok \in BOOLEAN : UnlockCount(t, w, f, ok)
  <2>1. /\ open' # None <=> \E v \in Wallet : count'[v] > 0
        /\ open' # None => open' = open
    <3>1. CASE UNCHANGED <<open, count>> BY <3>1 DEF PoolServesTheCounted
    <3>2. ASSUME NEW w \in Wallet, (count[w] > 0 /\ ReleaseOne(w)) \/ RemoveEntry(w)
          PROVE  /\ open' # None <=> \E v \in Wallet : count'[v] > 0
                 /\ open' # None => open' = open
      BY <3>2, PoolClosesWithTheLast
    <3>3. CASE UNCHANGED vars BY <3>1, <3>3 DEF vars, state
    <3>4. ASSUME NEW t \in Task, InsideCall(t)
          PROVE  \/ UNCHANGED <<open, count>>
                 \/ count[wal[t]] > 0 /\ ReleaseOne(wal[t])
                 \/ RemoveEntry(wal[t])
      BY <3>4 DEF InsideCall, TakeGate, CheckFails, CheckSession, VerifyPassphrase,
         SessionUnlock, Confirm, ReleaseFailed, ReadHeld, SessionLock, CancelScans,
         LockEverywhere, StopScans, Change, ChangeFails, Counted, state
    <3>5. ASSUME NEW t \in Task, BeginCall(t)
          PROVE  \/ UNCHANGED <<open, count>>
                 \/ \E w \in Wallet : (count[w] > 0 /\ ReleaseOne(w)) \/ RemoveEntry(w)
      BY <1>2, <3>5 DEF BeginCall, LockRelease, ForgetHold, ForceLock, ChangeStart, state
    <3>6. CASE Environment
      BY <3>1, <3>6 DEF Environment, SetDatabasePath, CreateAccount, StartScan, EndScan, state
    <3> QED BY <3>1, <3>2, <3>3, <3>4, <3>5, <3>6 DEF Next
  <2>2. ASSUME NEW u \in Task, pc'[u] \in Unlocking \cup {"holding"}, Counted(u)'
        PROVE  db'[u] = open'
    <3>1. pc[u] \in Unlocking \cup {"holding"} /\ db'[u] = db[u]
      BY <1>2, <2>2, CountsOnlyInUnlock, CallStep DEF Unlocking
    <3>2. Counted(u) /\ wal'[u] \in Wallet /\ count'[wal'[u]] > 0
      BY <2>2, <3>1, CountedBefore, TypeStep DEF Counted
    <3> QED BY <2>1, <3>1, <3>2 DEF PoolServesTheCounted
  <2> QED BY <2>1, <2>2 DEF PoolServesTheCounted
<1> QED BY <1>1, <1>2

\* Only a scan that sees the session starts.
LEMMA ScanStarts ==
  ASSUME TypeOK, [Next]_vars, NEW w \in Wallet, w \in scanning', w \notin scanning
  PROVE  w \in live'
<1>1. CASE UNCHANGED vars BY <1>1 DEF vars
<1>2. ASSUME NEW t \in Task, InsideCall(t) \/ BeginCall(t) PROVE scanning' \subseteq scanning
  BY <1>2 DEF InsideCall, TakeGate, CheckFails, CheckSession, VerifyPassphrase, SessionUnlock,
     Confirm, ReleaseFailed, ReadHeld, SessionLock, CancelScans, LockEverywhere, StopScans,
     Change, ChangeFails, BeginCall, UnlockCount, LockRelease, ForgetHold, ForceLock,
     ChangeStart
<1>3. CASE Environment
  BY <1>3 DEF Environment, SetDatabasePath, CreateAccount, StartScan, EndScan, external
<1> QED BY <1>1, <1>2, <1>3 DEF Next

\* A lock or change that still has the scans to cancel goes on until it cancelled them.
LEMMA CancelComes ==
  ASSUME TypeOK, OpFits, [Next]_vars, NEW t \in Task,
         pc[t] = "cancel" \/ (op[t] = "after" /\ pc[t] # "idle")
  PROVE  \/ wal[t] \notin scanning'
         \/ wal'[t] = wal[t] /\ pc[t] = "cancel" /\ pc'[t] = "cancel"
         \/ wal'[t] = wal[t] /\ op'[t] = "after" /\ pc'[t] # "idle"
<1> USE DEF TypeOK, Goto, state, external, args
<1>1. CASE UNCHANGED vars BY <1>1 DEF vars
<1>2. ASSUME NEW u \in Task, InsideCall(u), u # t
      PROVE  pc'[t] = pc[t] /\ op'[t] = op[t] /\ wal'[t] = wal[t]
  BY <1>2 DEF InsideCall, TakeGate, CheckFails, CheckSession, VerifyPassphrase, SessionUnlock,
     Confirm, ReleaseFailed, ReadHeld, SessionLock, CancelScans, LockEverywhere, StopScans,
     Change, ChangeFails
<1>3. CASE InsideCall(t)
  <2>1. CASE CancelScans(t) BY <2>1 DEF CancelScans
  <2>2. CASE StopScans(t) BY <2>2 DEF StopScans
  <2>3. CASE TakeGate(t) BY <2>3 DEF TakeGate
  <2>4. CASE ReadHeld(t) BY <2>4 DEF ReadHeld, AfterLock
  <2>5. CASE SessionLock(t) BY <2>5 DEF SessionLock
  <2>6. CASE LockEverywhere(t) BY <2>6 DEF LockEverywhere
  <2>7. CASE pc[t] \in Unlocking BY <2>7 DEF OpFits, Unlocking
  <2>8. CASE Change(t) \/ ChangeFails(t) BY <2>8 DEF Change, ChangeFails
  <2> QED BY <1>3, <2>1, <2>2, <2>3, <2>4, <2>5, <2>6, <2>7, <2>8 DEF InsideCall, CheckFails,
             CheckSession, VerifyPassphrase, SessionUnlock, Confirm, ReleaseFailed, Unlocking
<1>4. ASSUME NEW u \in Task, BeginCall(u)
      PROVE  u # t /\ pc'[t] = pc[t] /\ op'[t] = op[t] /\ wal'[t] = wal[t]
  BY <1>4 DEF BeginCall, UnlockCount, LockRelease, ForgetHold, ForceLock, ChangeStart, OpFits
<1>5. CASE Environment
  <2>1. UNCHANGED <<pc, op, wal>>
    BY <1>5 DEF Environment, SetDatabasePath, CreateAccount, StartScan, EndScan
  <2> QED BY <2>1
<1> QED BY <1>1, <1>2, <1>3, <1>4, <1>5 DEF Next

\* A scan outlives its session only while the lock or change that took it goes on.
LEMMA ScanStep ==
  ASSUME TypeOK, OpFits, ScanHasSession, [Next]_vars
  PROVE  ScanHasSession'
<1> SUFFICES ASSUME NEW w \in scanning', w \notin live'
             PROVE  \/ \E t \in Task : wal'[t] = w /\ pc'[t] = "cancel"
                    \/ \E t \in Task : wal'[t] = w /\ op'[t] = "after" /\ pc'[t] # "idle"
  BY DEF ScanHasSession, ChangeInFlight
<1> USE DEF TypeOK
<1>1. w \in Wallet /\ w \in scanning
  BY TypeStep, ScanStarts
<1>2. CASE w \in live
  <2>1. PICK u \in Task : wal[u] = w /\ (SessionLock(u) \/ Change(u))
    BY <1>1, <1>2, SessionEnds
  <2> QED BY <2>1 DEF SessionLock, Change, Goto, args
<1>3. CASE w \notin live
  <2>1. PICK t \in Task : wal[t] = w /\ (pc[t] = "cancel" \/ (op[t] = "after" /\ pc[t] # "idle"))
    BY <1>1, <1>3 DEF ScanHasSession, ChangeInFlight
  <2> QED BY <2>1, CancelComes
<1> QED BY <1>2, <1>3

-----------------------------------------------------------------------------
(* Counts *)

\* A step removes a wallet's counts, leaves them and the calls they are for alone, adds
\* or takes away a call with its count, or is a stale lock, which takes only a count.
LEMMA CountMoves ==
  ASSUME TypeOK, FreshGenerations, [Next]_vars, NEW w \in Wallet
  PROVE  \/ count'[w] = 0
         \/ count'[w] = count[w] /\ CountedCalls(w)' = CountedCalls(w)
         \/ /\ count'[w] = count[w] + 1
            /\ \E t \in Task \ CountedCalls(w) :
                  CountedCalls(w)' = CountedCalls(w) \cup {t}
         \/ /\ count[w] > 0 /\ count'[w] = count[w] - 1
            /\ \E t \in CountedCalls(w) : CountedCalls(w)' = CountedCalls(w) \ {t}
         \/ /\ StaleLocks /\ count[w] > 0 /\ count'[w] = count[w] - 1
            /\ CountedCalls(w)' = CountedCalls(w)
<1> USE DEF TypeOK, Goto, state, external, args
<1> DEFINE Counts(t) == wal[t] = w /\ Counted(t) /\ pc[t] \in Unlocking \cup {"holding"}
           Kept == count'[w] = count[w] /\ CountedCalls(w)' = CountedCalls(w)
<1>0. ASSUME count'[w] = count[w], \A u \in Task : Counts(u)' <=> Counts(u)
      PROVE  Kept
  BY <1>0 DEF CountedCalls
<1>1. CASE UNCHANGED vars
  BY <1>0, <1>1 DEF vars, Counted
<1>2. ASSUME NEW t \in Task, InsideCall(t), ~ReleaseFailed(t), ~LockEverywhere(t)
      PROVE  Kept
  <2>1. UNCHANGED <<count, generation, wal, gen>>
    BY <1>2 DEF InsideCall, TakeGate, CheckFails, CheckSession, VerifyPassphrase, SessionUnlock,
       Confirm, ReadHeld, SessionLock, CancelScans, StopScans, Change, ChangeFails
  <2>2. ASSUME NEW u \in Task, u # t PROVE pc'[u] = pc[u]
    BY <1>2, <2>2 DEF InsideCall, TakeGate, CheckFails, CheckSession, VerifyPassphrase,
       SessionUnlock, Confirm, ReadHeld, SessionLock, CancelScans, StopScans, Change, ChangeFails
  <2>3. Counted(t) =>
          (pc[t] \in Unlocking \cup {"holding"} <=> pc'[t] \in Unlocking \cup {"holding"})
    BY <1>2 DEF Unlocking, InsideCall, TakeGate, CheckFails, CheckSession, VerifyPassphrase,
       SessionUnlock, Confirm, ReadHeld, AfterLock, SessionLock, CancelScans, StopScans, Change,
       ChangeFails
  <2> QED BY <1>0, <2>1, <2>2, <2>3 DEF Counted
<1>3. ASSUME NEW t \in Task, ReleaseFailed(t) \/ LockRelease(t), count'[w] # 0
      PROVE  \/ Kept
             \/ /\ count[w] > 0 /\ count'[w] = count[w] - 1
                /\ \E u \in CountedCalls(w) : CountedCalls(w)' = CountedCalls(w) \ {u}
             \/ /\ StaleLocks /\ count[w] > 0 /\ count'[w] = count[w] - 1
                /\ CountedCalls(w)' = CountedCalls(w)
  <2>1. /\ UNCHANGED <<generation, wal, gen>>
        /\ pc[t] \in Unlocking \cup {"holding"} /\ pc'[t] \in {"read", "idle", "gate"}
        /\ \A u \in Task : u # t => pc'[u] = pc[u]
    BY <1>3 DEF ReleaseFailed, LockRelease, Unlocking
  <2>2. \A u \in Task : u # t => (Counts(u)' <=> Counts(u))
    BY <1>3, <2>1 DEF ReleaseFailed, LockRelease, ReleaseOne, Counted
  <2>3. ~Counts(t)'
    BY <2>1 DEF Unlocking
  <2>4. CASE Counts(t)
    <3>1. count[w] > 0 /\ count'[w] = count[w] - 1
      BY <1>3, <2>4 DEF ReleaseFailed, LockRelease, ReleaseOne, Counted
    <3>2. t \in CountedCalls(w) /\ CountedCalls(w)' = CountedCalls(w) \ {t}
      BY <2>2, <2>3, <2>4 DEF CountedCalls
    <3> QED BY <3>1, <3>2
  <2>5. CASE ~Counts(t)
    <3>1. CountedCalls(w)' = CountedCalls(w)
      BY <2>2, <2>3, <2>5 DEF CountedCalls
    <3>2. \/ count'[w] = count[w]
          \/ StaleLocks /\ count[w] > 0 /\ count'[w] = count[w] - 1
      BY <1>3, <2>1, <2>5 DEF ReleaseFailed, LockRelease, ReleaseOne, Counted
    <3> QED BY <3>1, <3>2
  <2> QED BY <2>4, <2>5
<1>4. ASSUME NEW t \in Task, LockEverywhere(t), count'[w] # 0 PROVE Kept
  <2>1. wal[t] # w
    BY <1>4 DEF LockEverywhere, RemoveEntry
  <2> QED BY <1>0, <1>4, <2>1 DEF LockEverywhere, RemoveEntry, Counted, Unlocking
<1>5. ASSUME NEW t \in Task, NEW v \in Wallet, ForceLock(t, v) \/ ChangeStart(t, v),
             count'[w] # 0
      PROVE  Kept
  BY <1>0, <1>5 DEF ForceLock, ChangeStart, RemoveEntry, Counted, Unlocking
<1>6. ASSUME NEW t \in Task, ForgetHold(t) PROVE Kept
  BY <1>0, <1>6 DEF ForgetHold, Counted, Unlocking
<1>7. CASE Environment
  <2>1. UNCHANGED <<count, generation, wal, gen, pc>>
    BY <1>7 DEF Environment, SetDatabasePath, CreateAccount, StartScan, EndScan
  <2> QED BY <1>0, <2>1 DEF Counted
<1>8. ASSUME NEW t \in Task, NEW v \in Wallet, NEW f \in File, NEW ok \in BOOLEAN,
             UnlockCount(t, v, f, ok)
      PROVE  \/ Kept
             \/ /\ count'[w] = count[w] + 1
                /\ \E u \in Task \ CountedCalls(w) :
                      CountedCalls(w)' = CountedCalls(w) \cup {u}
  <2>1. /\ pc[t] = "idle" /\ pc'[t] = "counted" /\ wal'[t] = v /\ gen'[t] = generation'[v]
        /\ \A u \in Task : u # t => pc'[u] = pc[u] /\ wal'[u] = wal[u] /\ gen'[u] = gen[u]
        /\ count'[v] = count[v] + 1
        /\ \A x \in Wallet : x # v => count'[x] = count[x] /\ generation'[x] = generation[x]
    BY <1>8 DEF UnlockCount, AcquireSession
  <2>2. CASE v # w
    <3>1. \A u \in Task : Counts(u)' <=> Counts(u)
      BY <2>1, <2>2 DEF Counted, Unlocking
    <3> QED BY <1>0, <2>1, <2>2, <3>1
  <2>3. CASE v = w
    <3>1. ~Counts(t) /\ Counts(t)'
      BY <2>1, <2>3 DEF Counted, Unlocking
    <3>2. \A u \in Task : u # t => (Counts(u)' <=> Counts(u))
      BY <1>8, <2>1, <2>3 DEF UnlockCount, AcquireSession, FreshGenerations, Counted
    <3>3. t \in Task \ CountedCalls(w) /\ CountedCalls(w)' = CountedCalls(w) \cup {t}
      BY <3>1, <3>2 DEF CountedCalls
    <3> QED BY <2>1, <2>3, <3>3
  <2> QED BY <2>2, <2>3
<1> QED BY <1>1, <1>2, <1>3, <1>4, <1>5, <1>6, <1>7, <1>8 DEF Next, InsideCall, BeginCall

\* Every count has its call, whoever gives counts back.
LEMMA CountsStep ==
  ASSUME TypeOK, FreshGenerations, CountsCalls, [Next]_vars
  PROVE  CountsCalls'
<1> SUFFICES ASSUME NEW w \in Wallet
             PROVE  /\ IsFiniteSet(CountedCalls(w)')
                    /\ count'[w] <= Cardinality(CountedCalls(w)')
                    /\ ~StaleLocks => count'[w] = Cardinality(CountedCalls(w)')
  BY DEF CountsCalls
<1> DEFINE S == CountedCalls(w)
           Z == CountedCalls(w)'
<1>1. /\ IsFiniteSet(S) /\ count[w] <= Cardinality(S) /\ Cardinality(S) \in Nat
      /\ ~StaleLocks => count[w] = Cardinality(S)
      /\ count[w] \in Nat
  BY FS_CardinalityType DEF CountsCalls, TypeOK
<1>2. CASE count'[w] = 0
  <2>1. Z = {}
    BY <1>2 DEF CountedCalls, Counted
  <2> QED BY <1>2, <2>1, FS_EmptySet
<1>3. CASE count'[w] = count[w] /\ Z = S
  BY <1>1, <1>3
<1>4. CASE count'[w] = count[w] + 1 /\ \E t \in Task \ S : Z = S \cup {t}
  <2>1. PICK t \in Task \ S : Z = S \cup {t}
    BY <1>4
  <2>2. IsFiniteSet(Z) /\ Cardinality(Z) = Cardinality(S) + 1
    BY <1>1, <2>1, FS_AddElement
  <2> QED BY <1>1, <1>4, <2>2
<1>5. CASE count[w] > 0 /\ count'[w] = count[w] - 1 /\ \E t \in S : Z = S \ {t}
  <2>1. PICK t \in S : Z = S \ {t}
    BY <1>5
  <2>2. IsFiniteSet(Z) /\ Cardinality(Z) = Cardinality(S) - 1
    BY <1>1, <2>1, FS_RemoveElement
  <2> QED BY <1>1, <1>5, <2>2
<1>6. CASE StaleLocks /\ count[w] > 0 /\ count'[w] = count[w] - 1 /\ Z = S
  BY <1>1, <1>6
<1> QED BY <1>2, <1>3, <1>4, <1>5, <1>6, CountMoves

-----------------------------------------------------------------------------
(* The invariants *)

IInv ==
  /\ TypeOK
  /\ GateHeld
  /\ FreshGenerations
  /\ OpFits
  /\ PassphraseChecked
  /\ DropIsSafe
  /\ SessionKept
  /\ AccountKept
  /\ NoOrphanSession
  /\ PoolServesTheCounted
  /\ ScanHasSession
  /\ CountsCalls

LEMMA InvInit == Init => IInv
<1> SUFFICES ASSUME Init PROVE IInv
  OBVIOUS
<1>1. TypeOK BY TypeInit
<1>2. CountsCalls
  <2>1. ASSUME NEW w \in Wallet PROVE CountedCalls(w) = {} /\ count[w] = 0
    BY DEF Init, CountedCalls, Counted
  <2> QED BY <2>1, FS_EmptySet DEF CountsCalls
<1> QED
  BY <1>1, <1>2 DEF Init, IInv, GateHeld, InGate, UnlockPc, LockPc, FreshGenerations, Unlocking,
     OpFits, PassphraseChecked, DropIsSafe, SessionKept, AccountKept, NoOrphanSession,
     PoolServesTheCounted, ScanHasSession

LEMMA InvStep == IInv /\ [Next]_vars => IInv'
  BY TypeStep, GateStep, FreshStep, OpStep, PassphraseStep, DropStep, SessionKeptStep,
     AccountKeptStep, OrphanStep, PoolStep, ScanStep, CountsStep
     DEF IInv

\* The inductive invariant of the sessions: who is in a gate holds it, generations are
\* never reused, and a session is dropped only when nobody who was told Ok is counted.
THEOREM Invariance == Spec => []IInv
  BY InvInit, InvStep, PTL DEF Spec

\* An unlock with a wrong passphrase never returns Ok, whoever else has the session.
THEOREM PassphraseAlwaysChecked == Spec => []WrongPassphraseHoldsNothing
<1>1. IInv => WrongPassphraseHoldsNothing
  BY DEF IInv, PassphraseChecked, WrongPassphraseHoldsNothing
<1> QED BY <1>1, Invariance, PTL

\* No lock, failed unlock or force-lock loser takes the session of an engine that was
\* told Ok and is still counted.
THEOREM HoldersKeepTheSession == Spec => []HolderHasSession
<1>1. IInv => HolderHasSession
  BY DEF IInv, SessionKept, RemovalPending, HolderHasSession, ChangeInFlight
<1> QED BY <1>1, Invariance, PTL

\* After a delete or rename nobody who was told Ok is left counted for the old name.
THEOREM DeletedWalletsAreReleased == Spec => []DeletedWalletIsNotHeld
<1>1. IInv => DeletedWalletIsNotHeld
  BY DEF IInv, AccountKept, RemovalPending, DeletedWalletIsNotHeld, ChangeInFlight
<1> QED BY <1>1, Invariance, PTL

\* Every session nobody is counted for has a call on the way that locks it.
THEOREM NoSessionIsOrphaned == Spec => []NoOrphanSession
<1>1. IInv => NoOrphanSession
  BY DEF IInv
<1> QED BY <1>1, Invariance, PTL

\* The pool is open exactly while a wallet is counted, on the file of everyone counted.
THEOREM PoolIsForTheCounted == Spec => []PoolServesTheCounted
<1>1. IInv => PoolServesTheCounted
  BY DEF IInv
<1> QED BY <1>1, Invariance, PTL

\* No scan outlives its session, but for the lock or change that is about to cancel it.
THEOREM ScansHaveTheirSession == Spec => []ScanHasSession
<1>1. IInv => ScanHasSession
  BY DEF IInv
<1> QED BY <1>1, Invariance, PTL

\* Every count belongs to a call in progress or to an engine that was told Ok, so a
\* wallet is not kept open by a failed unlock or by a call that lost to a force lock.
THEOREM NoCountIsLeaked == Spec => []CountNeverLeaks
<1>1. IInv => CountNeverLeaks
  BY DEF IInv, CountsCalls, CountNeverLeaks
<1> QED BY <1>1, Invariance, PTL

\* When every engine makes one lock per hold, nobody's count is given back by another
\* call: only a force lock, a delete or a rename takes it away.
THEOREM CountsEndWithTheirCalls ==
  ASSUME ~StaleLocks
  PROVE  Spec => CountEndsWithItsCall
<1>1. ASSUME IInv, [Next]_vars, NEW t \in Task,
             pc[t] \in Unlocking \cup {"holding"}, Counted(t), pc'[t] = pc[t], ~Counted(t)'
      PROVE  \E u \in Task : /\ pc[u] # "gate" /\ pc'[u] = "gate" /\ wal'[u] = wal[t]
                             /\ op'[u] \in {"force", "before", "after"}
  <2> USE DEF TypeOK, Goto, state, external, args
  <2> DEFINE w == wal[t]
  <2>0. TypeOK /\ FreshGenerations /\ w \in Wallet /\ t \in CountedCalls(w)
    BY <1>1 DEF IInv, CountedCalls
  <2>1. wal'[t] = wal[t]
    BY <1>1, <2>0, CallStep DEF Unlocking
  <2>2. t \notin CountedCalls(w)'
    BY <1>1 DEF CountedCalls
  <2>3. count[w] = Cardinality(CountedCalls(w)) /\ IsFiniteSet(CountedCalls(w))
    BY <1>1, <2>0 DEF IInv, CountsCalls
  <2>4. ASSUME NEW u \in Task, ReleaseFailed(u) \/ LockRelease(u) PROVE FALSE
    <3>1. u # t
      BY <1>1, <2>0, <2>4 DEF ReleaseFailed, LockRelease
    <3>2. count'[w] = 0 /\ wal[u] = w
      BY <1>1, <2>0, <2>4 DEF ReleaseFailed, LockRelease, ReleaseOne, Counted
    <3>3. u \in CountedCalls(w) /\ count[w] = 1
      <4>1. count[w] > 0
        BY <1>1, <2>0 DEF Counted
      <4>2. pc[u] \in Unlocking \cup {"holding"} /\ Counted(u)
        BY <2>4, <3>2, <4>1 DEF ReleaseFailed, LockRelease, Unlocking
      <4>3. count'[w] = count[w] - 1
        BY <2>0, <2>4, <3>2, <4>1, <4>2 DEF ReleaseFailed, LockRelease, ReleaseOne
      <4>4. count[w] = 1
        BY <2>0, <3>2, <4>1, <4>3
      <4>5. u \in CountedCalls(w)
        BY <3>2, <4>2 DEF CountedCalls
      <4> QED BY <4>4, <4>5
    <3>4. PICK x : CountedCalls(w) = {x}
      BY <2>3, <3>3, FS_Singleton
    <3> QED BY <2>0, <3>1, <3>3, <3>4
  <2>5. ASSUME NEW u \in Task, InsideCall(u), ~ReleaseFailed(u), ~LockEverywhere(u) PROVE FALSE
    <3>1. UNCHANGED <<count, generation, wal, gen>>
      BY <2>5 DEF InsideCall, TakeGate, CheckFails, CheckSession, VerifyPassphrase,
         SessionUnlock, Confirm, ReadHeld, SessionLock, CancelScans, StopScans, Change,
         ChangeFails
    <3> QED BY <1>1, <3>1 DEF Counted
  <2>6. ASSUME NEW u \in Task, LockEverywhere(u)
        PROVE  /\ pc[u] # "gate" /\ pc'[u] = "gate" /\ wal'[u] = w
               /\ op'[u] \in {"force", "before", "after"}
    <3>1. wal[u] = w
      BY <1>1, <2>0, <2>6 DEF LockEverywhere, RemoveEntry, Counted
    <3>2. op[u] \in {"before", "after"}
      BY <1>1, <2>6 DEF IInv, OpFits, LockEverywhere
    <3> QED BY <2>0, <2>6, <3>1, <3>2 DEF LockEverywhere
  <2>7. ASSUME NEW u \in Task, NEW v \in Wallet, ForceLock(u, v)
        PROVE  /\ pc[u] # "gate" /\ pc'[u] = "gate" /\ wal'[u] = w
               /\ op'[u] \in {"force", "before", "after"}
    <3>1. v = w
      BY <1>1, <2>0, <2>1, <2>7 DEF ForceLock, RemoveEntry, Counted
    <3> QED BY <2>0, <2>7, <3>1 DEF ForceLock
  <2>8. ASSUME NEW u \in Task, NEW v \in Wallet, NEW f \in File, NEW ok \in BOOLEAN,
               UnlockCount(u, v, f, ok)
        PROVE  FALSE
    <3>1. u # t
      BY <1>1, <2>0, <2>8 DEF UnlockCount, Unlocking
    <3>2. gen'[t] = gen[t] /\ generation'[w] = generation[w] /\ count'[w] > 0
      BY <1>1, <2>0, <2>8, <3>1 DEF UnlockCount, AcquireSession, Counted
    <3> QED BY <1>1, <2>0, <2>1, <3>2 DEF Counted
  <2>9. ASSUME NEW u \in Task, ForgetHold(u) \/ \E v \in Wallet : ChangeStart(u, v)
        PROVE  FALSE
    BY <1>1, <2>1, <2>9 DEF ForgetHold, ChangeStart, Counted
  <2>10. ~UNCHANGED vars /\ ~Environment
    BY <1>1, <2>1 DEF vars, Environment, SetDatabasePath, CreateAccount, StartScan, EndScan,
       Counted
  <2> QED BY <1>1, <2>4, <2>5, <2>6, <2>7, <2>8, <2>9, <2>10 DEF Next, InsideCall, BeginCall
<1>2. IInv /\ [Next]_vars =>
        [\A t \in Task :
           pc[t] \in Unlocking \cup {"holding"} /\ Counted(t) /\ pc'[t] = pc[t] =>
             \/ Counted(t)'
             \/ \E u \in Task : /\ pc[u] # "gate" /\ pc'[u] = "gate" /\ wal'[u] = wal[t]
                                /\ op'[u] \in {"force", "before", "after"}]_vars
  BY <1>1
<1> QED BY <1>2, Invariance, PTL DEF Spec, CountEndsWithItsCall

-----------------------------------------------------------------------------
(* The sessions keep their contract *)

\* A call that was told Ok and is still counted, and a delete or rename that has written.
Holds(t) == pc[t] = "holding" /\ Counted(t)
Changing(t) == op[t] = "after" /\ pc[t] # "idle"

\* The contract's state.
Holders == [w \in Wallet |-> Held(w)]
Altered == {w \in Wallet : ChangeInFlight(w)}

\* The holders stay when every hold does; a change in flight likewise.
LEMMA HoldersKept ==
  ASSUME \A u \in Task : Holds(u)' <=> Holds(u),
         \A u \in Task : Holds(u) => wal'[u] = wal[u]
  PROVE  Holders' = Holders
<1>1. ASSUME NEW w \in Wallet PROVE Held(w)' = Held(w)
  BY DEF Held, Holds
<1> QED BY <1>1 DEF Holders

LEMMA AlteredKept ==
  ASSUME \A u \in Task : Changing(u)' <=> Changing(u),
         \A u \in Task : Changing(u) => wal'[u] = wal[u]
  PROVE  Altered' = Altered
<1>1. ASSUME NEW w \in Wallet PROVE ChangeInFlight(w)' <=> ChangeInFlight(w)
  BY DEF ChangeInFlight, Changing
<1> QED BY <1>1 DEF Altered

\* When one task's hold begins or ends, its wallet's holders are one more or one less.
LEMMA OneHolderMoves ==
  ASSUME NEW t \in Task, wal[t] \in Wallet, wal' = wal,
         \A u \in Task \ {t} : Holds(u)' <=> Holds(u)
  PROVE  /\ Holds(t)' => Holders' = [Holders EXCEPT ![wal[t]] = @ \cup {t}]
         /\ ~Holds(t)' => Holders' = [Holders EXCEPT ![wal[t]] = @ \ {t}]
<1>1. ASSUME NEW w \in Wallet, w # wal[t] PROVE Held(w)' = Held(w)
  BY <1>1 DEF Held, Holds
<1>2. Holds(t)' => Held(wal[t])' = Held(wal[t]) \cup {t}
  BY DEF Held, Holds
<1>3. ~Holds(t)' => Held(wal[t])' = Held(wal[t]) \ {t}
  BY DEF Held, Holds
<1> QED BY <1>1, <1>2, <1>3 DEF Holders

\* When a wallet's count is gone, nobody holds it, and the others keep their holders.
LEMMA CountGoneEvicts ==
  ASSUME NEW w \in Wallet, \A u \in Task : wal[u] \in Wallet,
         count'[w] = 0,
         \A u \in Task : Holds(u) /\ wal[u] # w => Holds(u)' /\ wal'[u] = wal[u],
         \A u \in Task : Holds(u)' => Holds(u) /\ wal'[u] = wal[u]
  PROVE  Holders' = [Holders EXCEPT ![w] = {}]
<1>1. Held(w)' = {}
  BY DEF Held, Holds, Counted
<1>2. ASSUME NEW v \in Wallet, v # w PROVE Held(v)' = Held(v)
  BY <1>2 DEF Held, Holds
<1> QED BY <1>1, <1>2 DEF Holders

\* One step of the contract, or none, when the counts and the holds are left alone.
LEMMA QuietStep ==
  ASSUME UNCHANGED <<live, count, generation, wal, gen>>,
         \A u \in Task : pc'[u] = "holding" <=> pc[u] = "holding",
         \A u \in Task : Changing(u)' <=> Changing(u)
  PROVE  UNCHANGED <<live, Holders, Altered>>
<1>1. \A u \in Task : Holds(u)' <=> Holds(u)
  BY DEF Holds, Counted
<1> QED BY <1>1, HoldersKept, AlteredKept

\* unlock_wallet is told Ok: the session is there, or a change is about to remove the count.
LEMMA ConfirmGrants ==
  ASSUME TypeOK, SessionKept, NEW t \in Task, Confirm(t)
  PROVE  Sessions!Grant(t, wal[t]) \/ UNCHANGED <<live, Holders, Altered>>
<1> USE DEF TypeOK, Goto, state, external, args
<1>1. CASE Counted(t)
  <2>1. UNCHANGED <<live, wal, op>> /\ pc' = [pc EXCEPT ![t] = "holding"] /\ wal[t] \in Wallet
    BY <1>1 DEF Confirm
  <2>2. /\ \A u \in Task \ {t} : Holds(u)' <=> Holds(u)
        /\ Holds(t)'
    BY <1>1 DEF Confirm, Holds, Counted
  <2>3. Holders' = [Holders EXCEPT ![wal[t]] = @ \cup {t}]
    BY <2>1, <2>2, OneHolderMoves
  <2>4. Altered' = Altered
    BY <1>1, AlteredKept DEF Confirm, Changing
  <2>5. wal[t] \in live \cup Altered
    BY <1>1, <2>1 DEF Confirm, SessionKept, RemovalPending, ChangeInFlight, Altered
  <2> QED BY <2>1, <2>3, <2>4, <2>5 DEF Sessions!Grant, Holders, Altered
<1>2. CASE ~Counted(t)
  <2>1. /\ UNCHANGED <<live, count, generation, wal, gen, op>>
        /\ pc[t] = "confirm" /\ pc' = [pc EXCEPT ![t] = "read"]
    BY <1>2 DEF Confirm
  <2> QED BY <2>1, QuietStep DEF Changing
<1> QED BY <1>1, <1>2

\* One call gives its count back: its hold ends, or with the last count everybody's.
LEMMA LockGivesBack ==
  ASSUME TypeOK, OpFits, NEW t \in Task, LockRelease(t)
  PROVE  \/ Sessions!Leave(t, wal[t])
         \/ Sessions!Evict(wal[t])
<1> USE DEF TypeOK, Goto, state, external, args
<1>1. /\ UNCHANGED <<live, wal, gen, generation>> /\ wal[t] \in Wallet
      /\ pc[t] = "holding" /\ op[t] = "unlock" /\ op' = [op EXCEPT ![t] = "lock"]
      /\ pc'[t] # "holding" /\ \A u \in Task \ {t} : pc'[u] = pc[u]
  BY DEF LockRelease, OpFits
<1>2. Altered' = Altered
  BY <1>1, AlteredKept DEF Changing
<1>3. \A w \in Wallet \ {wal[t]} : count'[w] = count[w]
  BY DEF LockRelease, ReleaseOne
<1>4. CASE count'[wal[t]] = 0
  <2>1. \A u \in Task : Holds(u) /\ wal[u] # wal[t] => Holds(u)'
    BY <1>1, <1>3 DEF Holds, Counted
  <2>2. \A u \in Task : Holds(u)' => Holds(u)
    BY <1>1, <1>3, <1>4 DEF Holds, Counted
  <2>3. Holders' = [Holders EXCEPT ![wal[t]] = {}]
    BY <1>1, <1>4, <2>1, <2>2, CountGoneEvicts
  <2> QED BY <1>1, <1>2, <2>3 DEF Sessions!Evict, Holders, Altered
<1>5. CASE count'[wal[t]] # 0
  <2>1. count[wal[t]] > 0 /\ count'[wal[t]] > 0
    BY <1>1, <1>5 DEF LockRelease, ReleaseOne
  <2>2. /\ \A u \in Task \ {t} : Holds(u)' <=> Holds(u)
        /\ ~Holds(t)'
    BY <1>1, <1>3, <2>1 DEF Holds, Counted
  <2>3. Holders' = [Holders EXCEPT ![wal[t]] = @ \ {t}]
    BY <1>1, <2>2, OneHolderMoves
  <2> QED BY <1>1, <1>2, <2>3 DEF Sessions!Leave, Holders, Altered
<1> QED BY <1>4, <1>5

\* A failed unlock gives back its own count and takes nobody's hold but with the last one.
LEMMA FailureGivesBack ==
  ASSUME TypeOK, OpFits, NEW t \in Task, ReleaseFailed(t)
  PROVE  Sessions!Evict(wal[t]) \/ UNCHANGED <<live, Holders, Altered>>
<1> USE DEF TypeOK, Goto, state, external, args
<1>1. /\ UNCHANGED <<live, wal, gen, generation, op>> /\ wal[t] \in Wallet
      /\ pc[t] = "failed" /\ op[t] = "unlock" /\ pc'[t] \in {"read", "idle"}
      /\ \A u \in Task \ {t} : pc'[u] = pc[u]
  BY DEF ReleaseFailed, OpFits, Unlocking
<1>2. \A w \in Wallet \ {wal[t]} : count'[w] = count[w]
  BY DEF ReleaseFailed, ReleaseOne
<1>3. Altered' = Altered
  BY <1>1, AlteredKept DEF Changing
<1>4. CASE count'[wal[t]] = 0
  <2>1. \A u \in Task : Holds(u) /\ wal[u] # wal[t] => Holds(u)'
    BY <1>1, <1>2 DEF Holds, Counted
  <2>2. \A u \in Task : Holds(u)' => Holds(u)
    BY <1>1, <1>2, <1>4 DEF Holds, Counted
  <2>3. Holders' = [Holders EXCEPT ![wal[t]] = {}]
    BY <1>1, <1>4, <2>1, <2>2, CountGoneEvicts
  <2> QED BY <1>1, <1>3, <2>3 DEF Sessions!Evict, Holders, Altered
<1>5. CASE count'[wal[t]] # 0
  <2>1. count[wal[t]] > 0 /\ count'[wal[t]] > 0
    BY <1>1, <1>5 DEF ReleaseFailed, ReleaseOne, Counted
  <2>2. \A u \in Task : Holds(u)' <=> Holds(u)
    BY <1>1, <1>2, <2>1 DEF Holds, Counted
  <2> QED BY <1>1, <1>3, <2>2, HoldersKept
<1> QED BY <1>4, <1>5

\* A force lock and both locks of a change take every hold of the wallet at once.
LEMMA RemovalEvicts ==
  ASSUME TypeOK, NEW w \in Wallet, RemoveEntry(w), UNCHANGED <<live, generation, gen>>,
         NEW t \in Task, pc[t] \in {"idle", "remove"}, pc'[t] = "gate",
         \A u \in Task \ {t} : pc'[u] = pc[u] /\ wal'[u] = wal[u] /\ op'[u] = op[u],
         Changing(t)' <=> Changing(t), Changing(t) => wal'[t] = wal[t]
  PROVE  Sessions!Evict(w)
<1>1. count'[w] = 0 /\ \A v \in Wallet \ {w} : count'[v] = count[v]
  BY DEF TypeOK, RemoveEntry
<1>2. /\ \A u \in Task : wal[u] \in Wallet
      /\ \A u \in Task : Holds(u) \/ Holds(u)' => u # t
  BY DEF TypeOK, Holds
<1>3. \A u \in Task \ {t} : Changing(u)' <=> Changing(u)
  BY DEF Changing
<1>4. Altered' = Altered
  BY <1>3, AlteredKept
<1>5. \A u \in Task : Holds(u) /\ wal[u] # w => Holds(u)' /\ wal'[u] = wal[u]
  BY <1>1, <1>2 DEF Holds, Counted
<1>6. \A u \in Task : Holds(u)' => Holds(u) /\ wal'[u] = wal[u]
  BY <1>1, <1>2 DEF TypeOK, Holds, Counted
<1>7. Holders' = [Holders EXCEPT ![w] = {}]
  BY <1>1, <1>2, <1>5, <1>6, CountGoneEvicts
<1> QED BY <1>4, <1>7 DEF Sessions!Evict, Holders, Altered

\* session::unlock opens a session; session::lock drops one that nobody holds.
LEMMA SessionMoves ==
  ASSUME TypeOK, DropIsSafe, NEW t \in Task, SessionUnlock(t) \/ SessionLock(t)
  PROVE  \/ Sessions!Open(wal[t])
         \/ Sessions!Close(wal[t])
         \/ UNCHANGED <<live, Holders, Altered>>
<1> USE DEF TypeOK, Goto, state, external, args
<1>1. /\ UNCHANGED <<count, generation, wal, gen, op>> /\ wal[t] \in Wallet
      /\ \A u \in Task : pc'[u] = "holding" <=> pc[u] = "holding"
      /\ \A u \in Task : pc'[u] = "idle" <=> pc[u] = "idle"
  BY DEF SessionUnlock, SessionLock
<1>2. Holders' = Holders
  BY <1>1, HoldersKept DEF Holds, Counted
<1>3. Altered' = Altered
  BY <1>1, AlteredKept DEF Changing
<1>4. CASE SessionUnlock(t)
  BY <1>2, <1>3, <1>4 DEF SessionUnlock, Sessions!Open, Holders, Altered
<1>5. CASE SessionLock(t)
  <2>1. Held(wal[t]) = {}
    BY <1>5 DEF SessionLock, DropIsSafe, Held
  <2> QED BY <1>1, <1>2, <1>3, <1>5, <2>1 DEF SessionLock, Sessions!Close, Holders, Altered
<1> QED BY <1>4, <1>5

\* A delete or rename writes, and returns when nobody holds the wallet without a session.
LEMMA ChangeMoves ==
  ASSUME TypeOK, SessionKept, NEW t \in Task, Change(t) \/ ChangeFails(t) \/ StopScans(t)
  PROVE  \/ Sessions!Change(wal[t])
         \/ Sessions!EndChange(wal[t])
         \/ UNCHANGED <<live, Holders, Altered>>
<1> USE DEF TypeOK, Goto, state, external, args
<1>1. /\ UNCHANGED <<count, generation, wal, gen>> /\ wal[t] \in Wallet
      /\ \A u \in Task : pc'[u] = "holding" <=> pc[u] = "holding"
      /\ \A u \in Task \ {t} : pc'[u] = pc[u] /\ op'[u] = op[u]
  BY DEF Change, ChangeFails, StopScans
<1>2. Holders' = Holders
  BY <1>1, HoldersKept DEF Holds, Counted
<1>3. \A u \in Task \ {t} : Changing(u)' <=> Changing(u)
  BY <1>1 DEF Changing
<1>4. \A w \in Wallet \ {wal[t]} : w \in Altered' <=> w \in Altered
  BY <1>1, <1>3 DEF Altered, ChangeInFlight, Changing
<1>5. CASE Change(t) \/ ChangeFails(t)
  <2>1. Changing(t)'
    BY <1>5 DEF Change, ChangeFails, Changing
  <2>2. wal[t] \in Altered'
    BY <1>1, <2>1 DEF Altered, ChangeInFlight, Changing
  <2>3. Altered' = Altered \cup {wal[t]}
    BY <1>1, <1>4, <2>2 DEF Altered
  <2>4. live' \in {live, live \ {wal[t]}}
    BY <1>5 DEF Change, ChangeFails
  <2> QED BY <1>1, <1>2, <2>3, <2>4 DEF Sessions!Change, Holders, Altered
<1>6. CASE StopScans(t) /\ wal[t] \in Altered'
  <2>1. UNCHANGED <<live, op>> /\ pc[t] = "stop_scans"
    BY <1>6 DEF StopScans
  <2>2. wal[t] \in Altered
    BY <1>1, <1>6, <2>1 DEF Altered, ChangeInFlight
  <2>3. Altered' = Altered
    BY <1>4, <1>6, <2>2 DEF Altered
  <2> QED BY <1>2, <2>1, <2>3
<1>7. CASE StopScans(t) /\ wal[t] \notin Altered'
  <2>1. UNCHANGED live /\ pc[t] = "stop_scans"
    BY <1>7 DEF StopScans
  <2>2. Altered' = Altered \ {wal[t]}
    BY <1>4, <1>7 DEF Altered
  <2>3. ~RemovalPending(wal[t])
    BY <1>1, <1>7, <2>1 DEF Altered, ChangeInFlight, RemovalPending
  <2>4. Held(wal[t]) = {} \/ wal[t] \in live
    BY <2>3 DEF Held, SessionKept
  <2> QED BY <1>1, <1>2, <2>1, <2>2, <2>4 DEF Sessions!EndChange, Holders, Altered
<1> QED BY <1>5, <1>6, <1>7

\* Every step is one step of the contract, or none.
LEMMA ContractStep ==
  ASSUME IInv, [Next]_vars
  PROVE  [Sessions!Next]_(Sessions!vars)
<1> DEFINE Moves == [Sessions!Next]_(Sessions!vars)
           Quiet == UNCHANGED <<live, Holders, Altered>>
<1> USE DEF Goto, state, external, args
<1>0. /\ TypeOK /\ OpFits /\ SessionKept /\ DropIsSafe /\ FreshGenerations
      /\ Quiet => Moves
      /\ \A t \in Task : wal[t] \in Wallet
  BY DEF IInv, TypeOK, Sessions!vars, Holders, Altered
<1>1. CASE UNCHANGED vars
  BY <1>0, <1>1, QuietStep DEF vars, Changing
<1>2. ASSUME NEW t \in Task, Confirm(t) PROVE Moves
  BY <1>0, <1>2, ConfirmGrants DEF Sessions!Next
<1>3. ASSUME NEW t \in Task, LockRelease(t) PROVE Moves
  BY <1>0, <1>3, LockGivesBack DEF Sessions!Next
<1>4. ASSUME NEW t \in Task, ReleaseFailed(t) PROVE Moves
  BY <1>0, <1>4, FailureGivesBack DEF Sessions!Next
<1>5. ASSUME NEW t \in Task, SessionUnlock(t) \/ SessionLock(t) PROVE Moves
  BY <1>0, <1>5, SessionMoves DEF Sessions!Next
<1>6. ASSUME NEW t \in Task, Change(t) \/ ChangeFails(t) \/ StopScans(t) PROVE Moves
  BY <1>0, <1>6, ChangeMoves DEF Sessions!Next
<1>7. ASSUME NEW t \in Task, LockEverywhere(t) PROVE Moves
  <2>1. /\ RemoveEntry(wal[t]) /\ UNCHANGED <<live, generation, gen, wal, op>>
        /\ pc[t] = "remove" /\ pc'[t] = "gate" /\ \A u \in Task \ {t} : pc'[u] = pc[u]
    BY <1>0, <1>7 DEF TypeOK, LockEverywhere
  <2>2. Sessions!Evict(wal[t])
    BY <1>0, <2>1, RemovalEvicts DEF Changing
  <2> QED BY <1>0, <2>2 DEF Sessions!Next
<1>8. ASSUME NEW t \in Task, NEW w \in Wallet, ForceLock(t, w) PROVE Moves
  <2>1. /\ RemoveEntry(w) /\ UNCHANGED <<live, generation, gen>>
        /\ pc[t] = "idle" /\ pc'[t] = "gate" /\ op'[t] = "force"
        /\ \A u \in Task \ {t} : pc'[u] = pc[u] /\ wal'[u] = wal[u] /\ op'[u] = op[u]
    BY <1>0, <1>8 DEF TypeOK, ForceLock
  <2>2. Sessions!Evict(w)
    BY <1>0, <2>1, RemovalEvicts DEF Changing
  <2> QED BY <2>2 DEF Sessions!Next
<1>9. ASSUME NEW t \in Task,
             \/ TakeGate(t) \/ CheckFails(t) \/ CheckSession(t) \/ VerifyPassphrase(t)
             \/ ReadHeld(t) \/ CancelScans(t)
      PROVE  Moves
  <2>1. /\ UNCHANGED <<live, count, generation, wal, gen, op>>
        /\ pc[t] \notin {"holding", "idle"} /\ pc'[t] # "holding"
        /\ pc'[t] = "idle" => op[t] # "after"
        /\ \A u \in Task \ {t} : pc'[u] = pc[u]
    BY <1>0, <1>9 DEF TypeOK, TakeGate, CheckFails, CheckSession, VerifyPassphrase, ReadHeld,
       CancelScans, AfterLock
  <2> QED BY <1>0, <2>1, QuietStep DEF Changing
<1>10. ASSUME NEW t \in Task, ForgetHold(t) PROVE Moves
  <2>1. /\ UNCHANGED <<live, count, generation, wal, gen, op>> /\ op[t] = "unlock"
        /\ ~Holds(t) /\ ~Holds(t)' /\ \A u \in Task \ {t} : pc'[u] = pc[u]
    BY <1>0, <1>10 DEF TypeOK, ForgetHold, OpFits, Holds
  <2>2. Holders' = Holders
    BY <2>1, HoldersKept DEF Holds, Counted
  <2>3. Altered' = Altered
    BY <2>1, AlteredKept DEF Changing
  <2> QED BY <1>0, <2>1, <2>2, <2>3
<1>11. ASSUME NEW t \in Task, NEW w \in Wallet, ChangeStart(t, w) PROVE Moves
  <2>1. /\ UNCHANGED <<live, count, generation, gen>>
        /\ pc[t] = "idle" /\ pc'[t] = "remove" /\ op'[t] = "before"
        /\ \A u \in Task \ {t} : pc'[u] = pc[u] /\ wal'[u] = wal[u] /\ op'[u] = op[u]
    BY <1>0, <1>11 DEF TypeOK, ChangeStart
  <2>2. Holders' = Holders
    BY <2>1, HoldersKept DEF Holds, Counted
  <2>3. Altered' = Altered
    BY <2>1, AlteredKept DEF Changing
  <2> QED BY <1>0, <2>1, <2>2, <2>3
<1>12. ASSUME NEW t \in Task, NEW w \in Wallet, NEW f \in File, NEW ok \in BOOLEAN,
              UnlockCount(t, w, f, ok)
       PROVE  Moves
  <2>1. /\ UNCHANGED live /\ pc[t] = "idle" /\ pc'[t] = "counted" /\ op'[t] = "unlock"
        /\ \A u \in Task \ {t} :
             pc'[u] = pc[u] /\ wal'[u] = wal[u] /\ op'[u] = op[u] /\ gen'[u] = gen[u]
    BY <1>0, <1>12 DEF TypeOK, UnlockCount
  <2>2. /\ \A v \in Wallet \ {w} : count'[v] = count[v] /\ generation'[v] = generation[v]
        /\ count'[w] > 0
        /\ count[w] > 0 => generation'[w] = generation[w]
        /\ count[w] = 0 => generation'[w] = next_generation
    BY <1>0, <1>12 DEF TypeOK, UnlockCount, AcquireSession
  <2>3. \A u \in Task \ {t} : Holds(u)' <=> Holds(u)
    <3>1. TAKE u \in Task \ {t}
    <3>2. CASE pc[u] # "holding"
      BY <2>1, <3>2 DEF Holds
    <3>3. CASE pc[u] = "holding" /\ (wal[u] # w \/ count[w] > 0)
      <4>1. wal'[u] = wal[u] /\ gen'[u] = gen[u] /\ pc'[u] = pc[u] /\ wal[u] \in Wallet
        BY <1>0, <2>1
      <4>2. CASE wal[u] # w
        <5>1. count'[wal[u]] = count[wal[u]] /\ generation'[wal[u]] = generation[wal[u]]
          BY <2>2, <4>1, <4>2
        <5> QED BY <4>1, <5>1 DEF Holds, Counted
      <4>3. CASE wal[u] = w /\ count[w] > 0
        <5>1. count'[w] > 0 /\ generation'[w] = generation[w]
          BY <2>2, <4>3
        <5> QED BY <4>1, <4>3, <5>1 DEF Holds, Counted
      <4> QED BY <3>3, <4>2, <4>3
    <3>4. CASE pc[u] = "holding" /\ wal[u] = w /\ ~(count[w] > 0)
      <4>1. gen[u] < next_generation /\ generation'[w] = next_generation
        BY <1>0, <2>2, <3>4 DEF TypeOK, FreshGenerations
      <4>2. ~Counted(u) /\ ~Counted(u)'
        BY <1>0, <2>1, <3>4, <4>1 DEF TypeOK, Counted
      <4> QED BY <4>2 DEF Holds
    <3> QED BY <3>2, <3>3, <3>4
  <2>4. Holders' = Holders
    BY <2>1, <2>3, HoldersKept DEF Holds
  <2>5. Altered' = Altered
    BY <2>1, AlteredKept DEF Changing
  <2> QED BY <1>0, <2>1, <2>4, <2>5
<1>13. CASE Environment
  <2>1. UNCHANGED <<live, count, generation, wal, gen, op, pc>>
    BY <1>13 DEF Environment, SetDatabasePath, CreateAccount, StartScan, EndScan
  <2> QED BY <1>0, <2>1, QuietStep DEF Changing
<1> QED BY <1>1, <1>2, <1>3, <1>4, <1>5, <1>6, <1>7, <1>8, <1>9, <1>10, <1>11, <1>12, <1>13
        DEF Next, InsideCall, BeginCall

LEMMA ContractInit == Init => Sessions!Init
<1> SUFFICES ASSUME Init PROVE Sessions!Init
  OBVIOUS
<1>1. \A w \in Wallet : Held(w) = {} /\ ~ChangeInFlight(w)
  BY DEF Init, Held, ChangeInFlight
<1> QED BY <1>1 DEF Init, Sessions!Init

\* The sessions implement SessionContract: whoever is told a wallet is unlocked has its
\* session until the engine's own lock or until every hold is taken at once, however unlocks,
\* locks, force locks, deletes and renames interleave, stale locks included.
THEOREM SessionsKeepTheirContract == Spec => KeepsSessionContract
<1>1. IInv /\ [Next]_vars => [Sessions!Next]_(Sessions!vars)
  BY ContractStep
<1>2. Spec => Sessions!Spec
  BY <1>1, ContractInit, Invariance, PTL DEF Spec, Sessions!Spec
<1> QED BY <1>2 DEF KeepsSessionContract
=============================================================================
