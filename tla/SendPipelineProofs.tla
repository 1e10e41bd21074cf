------------------------- MODULE SendPipelineProofs -------------------------
(***************************************************************************)
(* Proofs about SendPipeline, for every set of sends, outputs and files,   *)
(* any number of kills, and with or without database errors.               *)
(***************************************************************************)
EXTENDS SendPipeline, TLAPS

-----------------------------------------------------------------------------
(* Type correctness *)

\* The sweeps when none is under way.
LEMMA NothingFound == [x \in Send \cup {None} |-> {}] \in [Send \cup {None} -> SUBSET Send]
  OBVIOUS

LEMMA TypeInit == Init => TypeOK
<1> SUFFICES ASSUME Init PROVE TypeOK
  OBVIOUS
<1>1. found \in [Send \cup {None} -> SUBSET Send]
  BY NothingFound DEF Init
<1>2. inputs \in [Send -> SUBSET Output]
  BY DEF Init
<1>3. lock \in [File -> [Output -> Send \cup {None}]]
  BY DEF Init
<1> QED BY <1>1, <1>2, <1>3 DEF Init, TypeOK, Pc

\* Expiring a row keeps rows and locks well typed.
LEMMA ExpiryTyped ==
  ASSUME TypeOK, NEW s \in Send, ExpireAndUnlock(s) \/ UNCHANGED <<row, lock>>
  PROVE  /\ lock' \in [File -> [Output -> Send \cup {None}]]
         /\ row' \in [Send -> {"absent", "pending", "completed", "expired"}]
<1>1. ASSUME ExpireAndUnlock(s), row[s] = "pending"
      PROVE  /\ lock' \in [File -> [Output -> Send \cup {None}]]
             /\ row' \in [Send -> {"absent", "pending", "completed", "expired"}]
  <2>1. UnlockOutputs(s) /\ row' = [row EXCEPT ![s] = "expired"]
    BY <1>1 DEF ExpireAndUnlock
  <2>2. lock' \in [File -> [Output -> Send \cup {None}]]
    BY <2>1 DEF TypeOK, UnlockOutputs
  <2> QED BY <2>1, <2>2 DEF TypeOK
<1> QED BY <1>1 DEF TypeOK, ExpireAndUnlock

\* So does reserving outputs.
LEMMA ReserveTyped ==
  ASSUME TypeOK, NEW s \in Send, NEW O \in SUBSET Output, Reserve(s, O)
  PROVE  /\ lock' \in [File -> [Output -> Send \cup {None}]]
         /\ row' \in [Send -> {"absent", "pending", "completed", "expired"}]
<1>1. [o \in Output |-> IF o \in O THEN s ELSE lock[file[s]][o]] \in [Output -> Send \cup {None}]
      \/ file[s] \notin File
  BY DEF TypeOK
<1> QED BY <1>1 DEF TypeOK, Reserve

\* A sweep lists expired rows only.
LEMMA SweepListsExpired ==
  ASSUME TypeOK, NEW x \in Send \cup {None}, NEW f, FindExpired(x, f)
  PROVE  /\ found' \in [Send \cup {None} -> SUBSET Send]
         /\ found'[x] \subseteq expired
         /\ \A y \in Send \cup {None} : y # x => found'[y] = found[y]
<1>1. PICK R \in {RowsToSweep(f)} \cup (IF Faults THEN {{}} ELSE {}) :
        found' = [found EXCEPT ![x] = R]
  BY DEF FindExpired
<1>2. R \subseteq expired /\ R \subseteq Send
  BY <1>1 DEF RowsToSweep, ExpiredRows, TypeOK
<1> QED BY <1>1, <1>2 DEF TypeOK

LEMMA TypeStep ==
  ASSUME TypeOK, [Next]_vars
  PROVE  TypeOK'
<1> USE DEF TypeOK, Goto, Pc, Reserved, Ended, db, disk, history
<1>1. CASE UNCHANGED vars BY <1>1 DEF vars
<1>2. ASSUME NEW x \in Send \cup {None}, NEW s \in Send, SweepRow(x, s) PROVE TypeOK'
  <2>1. ExpireAndUnlock(s) \/ UNCHANGED <<row, lock>>
    BY <1>2 DEF SweepRow
  <2>2. found' \in [Send \cup {None} -> SUBSET Send]
    BY <1>2 DEF SweepRow
  <2> QED BY <1>2, <2>1, <2>2, ExpiryTyped DEF SweepRow
<1>3. CASE App
  <2>1. ASSUME NEW f \in File, SetDatabasePath(f) PROVE TypeOK' BY <2>1 DEF SetDatabasePath
  <2>2. ASSUME NEW f \in File, OpenPool(f) PROVE TypeOK'
    BY <2>2, SweepListsExpired DEF OpenPool
  <2>3. CASE ClosePool BY <2>3 DEF ClosePool
  <2>4. CASE UnlockSession BY <2>4 DEF UnlockSession
  <2>5. CASE LockSession BY <2>5 DEF LockSession
  <2>6. CASE ScanStartSweeps BY <2>6, SweepListsExpired DEF ScanStartSweeps
  <2>7. CASE Kill
    <3>1. found' \in [Send \cup {None} -> SUBSET Send]
      BY <2>7, NothingFound DEF Kill
    <3>2. pc' \in [Send -> Pc]
      BY <2>7 DEF Kill
    <3>3. kills' \in Nat
      BY <2>7 DEF Kill
    <3>4. /\ path' = None /\ open' = None /\ unlocked' = FALSE /\ dark' = {}
          /\ UNCHANGED <<lock, row, expired, file, inputs, released_in, errored>>
      BY <2>7 DEF Kill
    <3> QED BY <3>1, <3>2, <3>3, <3>4
  <2>8. ASSUME NEW s \in Send, ReservationExpires(s) PROVE TypeOK'
    BY <2>8 DEF ReservationExpires
  <2> QED BY <1>2, <1>3, <2>1, <2>2, <2>3, <2>4, <2>5, <2>6, <2>7, <2>8 DEF App
<1>4. ASSUME NEW s \in Send, CreateSender(s) \/ Refuse(s) \/ SendStep(s) PROVE TypeOK'
  <2>1. CASE CreateSender(s) BY <2>1 DEF CreateSender, CurrentFile
  <2>2. CASE Refuse(s) BY <2>2 DEF Refuse
  <2>3. CASE LoadKeys(s) BY <2>3 DEF LoadKeys
  <2>4. CASE SendSweeps(s) BY <2>4, SweepListsExpired DEF SendSweeps
  <2>5. CASE Build(s) BY <2>5, ReserveTyped DEF Build
  <2>6. CASE BuildFails(s) BY <2>6, ReserveTyped DEF BuildFails
  <2>7. CASE CheckUnlocked(s) BY <2>7 DEF CheckUnlocked, AfterCheck
  <2>8. CASE CheckFails(s) BY <2>8 DEF CheckFails
  <2>9. CASE Sign(s) \/ SignFails(s) BY <2>9 DEF Sign, SignFails
  <2>10. CASE Record(s) BY <2>10 DEF Record
  <2>11. CASE FinalizeFails(s) BY <2>11, ExpiryTyped DEF FinalizeFails
  <2>12. CASE GiveUp(s)
    <3>1. ExpireAndUnlock(s) \/ UNCHANGED <<row, lock>>
      BY <2>12 DEF GiveUp, ReleaseSendReservation
    <3> QED BY <2>12, <3>1, ExpiryTyped DEF GiveUp, ReleaseSendReservation, CurrentFile
  <2>13. CASE Sent(s) BY <2>13 DEF Sent
  <2> QED BY <1>2, <1>4, <2>1, <2>2, <2>3, <2>4, <2>5, <2>6, <2>7, <2>8, <2>9, <2>10, <2>11,
             <2>12, <2>13 DEF SendStep
<1> QED BY <1>1, <1>3, <1>4 DEF Next

\* Every variable keeps its type: no action writes a status or a stage it should not.
THEOREM SendTypeCorrect == Spec => []TypeOK
  BY TypeInit, TypeStep, PTL DEF Spec

-----------------------------------------------------------------------------
(* The inductive invariant *)

\* A sweep only holds rows that have expired, so it cannot touch a fresh reservation.
SweepsExpired == \A x \in Send \cup {None} : found[x] \subseteq expired

\* What a send's stage says of its row.
RowOfStage ==
  \A s \in Send :
    /\ pc[s] \in {"idle", "keys", "sweep", "build"} => row[s] = "absent" /\ inputs[s] = {}
    /\ pc[s] \in Reserved /\ s \notin expired => row[s] = "pending"
    /\ pc[s] \in {"recorded", "sent"} => row[s] = "completed"
    /\ row[s] = "completed" => pc[s] \in {"recorded", "sent", "killed"}

\* A reservation or record has its inputs.
HoldsInputs ==
  \A s \in Send : row[s] \in {"pending", "completed"} =>
    \A o \in inputs[s] : lock[file[s]][o] = s

\* Only while the wallet is locked is it dark for a send, and then the send has not
\* passed its last check.
DarkIsUnchecked ==
  /\ unlocked => dark = {}
  /\ \A s \in dark : pc[s] \notin {"finalize", "recorded", "sent"}

\* There is a current file as soon as one was recorded; a running send and a row
\* have their own.
FilesKnown ==
  /\ open # None => path # None
  /\ \A s \in Send : pc[s] \notin {"idle"} \cup Ended => file[s] # None /\ CurrentFile # None
  /\ \A s \in Send : row[s] # "absent" => file[s] # None

IInv ==
  /\ TypeOK
  /\ SweepsExpired
  /\ RowOfStage
  /\ HoldsInputs
  /\ DarkIsUnchecked
  /\ FilesKnown

LEMMA InvInit == Init => IInv
<1> SUFFICES ASSUME Init PROVE IInv
  OBVIOUS
<1>1. SweepsExpired
  BY DEF Init, SweepsExpired
<1>2. RowOfStage
  BY ConstantsAssumption DEF Init, RowOfStage, Reserved
<1>3. HoldsInputs
  BY DEF Init, HoldsInputs
<1>4. DarkIsUnchecked /\ FilesKnown
  BY DEF Init, DarkIsUnchecked, FilesKnown
<1> QED BY TypeInit, <1>1, <1>2, <1>3, <1>4 DEF IInv

-----------------------------------------------------------------------------
(* What a step can do *)

\* Expiry is for good, and sweeps list expired rows only.
LEMMA SweepStep ==
  ASSUME TypeOK, SweepsExpired, [Next]_vars
  PROVE  SweepsExpired' /\ expired \subseteq expired'
<1> USE DEF SweepsExpired, db, disk, history
<1>1. CASE UNCHANGED vars BY <1>1 DEF vars
<1>2. ASSUME NEW x \in Send \cup {None}, NEW f, FindExpired(x, f), expired' = expired
      PROVE  SweepsExpired'
  BY <1>2, SweepListsExpired
<1>3. ASSUME NEW x \in Send \cup {None}, NEW s \in Send, SweepRow(x, s)
      PROVE  SweepsExpired' /\ expired \subseteq expired'
  BY <1>3 DEF SweepRow, TypeOK
<1>4. CASE App
  <2>1. CASE \E f \in File : SetDatabasePath(f) BY <2>1 DEF SetDatabasePath
  <2>2. CASE \E f \in File : OpenPool(f) BY <1>2, <2>2 DEF OpenPool
  <2>3. CASE ClosePool \/ UnlockSession \/ LockSession
    BY <2>3 DEF ClosePool, UnlockSession, LockSession
  <2>4. CASE ScanStartSweeps BY <1>2, <2>4 DEF ScanStartSweeps
  <2>5. CASE Kill BY <2>5 DEF Kill
  <2>6. CASE \E s \in Send : ReservationExpires(s) BY <2>6 DEF ReservationExpires
  <2> QED BY <1>3, <1>4, <2>1, <2>2, <2>3, <2>4, <2>5, <2>6 DEF App
<1>5. ASSUME NEW s \in Send, CreateSender(s) \/ Refuse(s) \/ SendStep(s)
      PROVE  SweepsExpired' /\ expired \subseteq expired'
  <2>1. CASE SendSweeps(s) BY <1>2, <2>1 DEF SendSweeps
  <2>2. CASE \E t \in Send : SweepRow(s, t) BY <1>3, <2>2
  <2>3. CASE UNCHANGED <<expired, found>> BY <2>3
  <2> QED BY <1>5, <2>1, <2>2, <2>3 DEF CreateSender, Refuse, SendStep, LoadKeys, Build,
             BuildFails, CheckUnlocked, CheckFails, Sign, SignFails, Record, FinalizeFails,
             GiveUp, Sent
<1> QED BY <1>1, <1>4, <1>5 DEF Next

\* Expiring the row of t: what it does to the row of s.
LEMMA ExpiryOfRow ==
  ASSUME TypeOK, NEW s \in Send, NEW t \in Send, ExpireAndUnlock(t)
  PROVE  \/ row'[s] = row[s]
         \/ s = t /\ row[s] = "pending" /\ row'[s] = "expired"
  BY DEF TypeOK, ExpireAndUnlock

\* The moves of a send and its row, whoever makes the step.
LEMMA SendMoves ==
  ASSUME TypeOK, SweepsExpired, [Next]_vars, NEW s \in Send
  PROVE  \/ pc'[s] = pc[s] /\ row'[s] = row[s]
         \/ pc'[s] = pc[s] /\ row[s] = "pending" /\ row'[s] = "expired" /\ s \in expired
         \/ /\ row'[s] = row[s]
            /\ \/ <<pc[s], pc'[s]>> \in
                    {<<"idle", "keys">>, <<"idle", "failed">>, <<"keys", "failed">>,
                     <<"keys", "sweep">>, <<"sweep", "build">>, <<"build", "failed">>,
                     <<"sign", "signed">>, <<"recorded", "sent">>}
               \/ unlocked /\ <<pc[s], pc'[s]>> \in {<<"built", "sign">>, <<"signed", "finalize">>}
               \/ pc[s] \in Reserved /\ pc'[s] = "release"
               \/ pc[s] = "release" /\ pc'[s] = "failed"
               \/ pc[s] \notin Ended \cup {"idle"} /\ pc'[s] = "killed"
         \/ pc[s] = "build" /\ row'[s] = "pending" /\ pc'[s] \in {"built", "failed"}
         \/ pc[s] = "finalize" /\ row[s] = "pending" /\ row'[s] = "completed" /\ pc'[s] = "recorded"
         \/ /\ pc[s] \in {"finalize", "release"} /\ pc'[s] \in {"release", "failed"}
            /\ row[s] = "pending" /\ row'[s] = "expired"
<1> USE DEF TypeOK, Goto, db, disk, history
<1>1. CASE UNCHANGED vars BY <1>1 DEF vars
<1>2. ASSUME NEW x \in Send \cup {None}, NEW t \in Send, SweepRow(x, t)
      PROVE  /\ pc' = pc
             /\ row'[s] = row[s] \/ (row[s] = "pending" /\ row'[s] = "expired" /\ s \in expired)
  <2>1. t \in expired
    BY <1>2 DEF SweepRow, SweepsExpired
  <2> QED BY <1>2, <2>1, ExpiryOfRow DEF SweepRow
<1>3. CASE App
  <2>1. CASE Kill BY <2>1 DEF Kill
  <2>2. CASE UNCHANGED <<pc, row>> BY <2>2
  <2> QED BY <1>2, <1>3, <2>1, <2>2 DEF App, SetDatabasePath, OpenPool, ClosePool, UnlockSession,
             LockSession, ScanStartSweeps, ReservationExpires
<1>4. ASSUME NEW t \in Send, CreateSender(t) \/ Refuse(t) \/ SendStep(t), t # s
      PROVE  /\ pc'[s] = pc[s]
             /\ row'[s] = row[s] \/ (row[s] = "pending" /\ row'[s] = "expired" /\ s \in expired)
  <2>1. CASE \E u \in Send : SweepRow(t, u) BY <1>2, <2>1
  <2>2. CASE FinalizeFails(t) BY <1>4, <2>2, ExpiryOfRow DEF FinalizeFails
  <2>3. CASE GiveUp(t) BY <1>4, <2>3, ExpiryOfRow DEF GiveUp, ReleaseSendReservation
  <2>4. CASE Build(t) \/ BuildFails(t) BY <1>4, <2>4 DEF Build, BuildFails, Reserve
  <2>5. CASE Record(t) BY <1>4, <2>5 DEF Record
  <2> QED BY <1>4, <2>1, <2>2, <2>3, <2>4, <2>5 DEF CreateSender, Refuse, SendStep, LoadKeys,
             SendSweeps, CheckUnlocked, CheckFails, Sign, SignFails, Sent
<1>5. CASE CreateSender(s) \/ Refuse(s) \/ SendStep(s)
  <2>1. CASE \E u \in Send : SweepRow(s, u) BY <1>2, <2>1
  <2>2. CASE FinalizeFails(s) BY <2>2, ExpiryOfRow DEF FinalizeFails, Reserved
  <2>3. CASE GiveUp(s) BY <2>3, ExpiryOfRow DEF GiveUp, ReleaseSendReservation
  <2>4. CASE Build(s) \/ BuildFails(s) BY <2>4 DEF Build, BuildFails, Reserve
  <2>5. CASE Record(s) BY <2>5 DEF Record
  <2>6. CASE CheckUnlocked(s) BY <2>6 DEF CheckUnlocked, AfterCheck
  <2>7. CASE CheckFails(s) \/ SignFails(s) BY <2>7 DEF CheckFails, SignFails, Reserved
  <2> QED BY <1>5, <2>1, <2>2, <2>3, <2>4, <2>5, <2>6, <2>7 DEF CreateSender, Refuse, SendStep,
             LoadKeys, SendSweeps, Sign, Sent
<1> QED BY <1>1, <1>3, <1>4, <1>5 DEF Next

\* Outputs stay with their row until the row expires.
LEMMA LocksStay ==
  ASSUME TypeOK, [Next]_vars, NEW s \in Send, NEW f \in File, NEW o \in Output, lock[f][o] = s
  PROVE  lock'[f][o] = s \/ row'[s] = "expired"
<1> USE DEF TypeOK, db, disk, history
<1>0. s # None
  BY ConstantsAssumption
<1>1. CASE UNCHANGED lock BY <1>1
<1>2. ASSUME NEW t \in Send, ExpireAndUnlock(t)
      PROVE  lock'[f][o] = s \/ row'[s] = "expired"
  BY <1>2 DEF ExpireAndUnlock, UnlockOutputs
<1>3. ASSUME NEW t \in Send, NEW O \in SUBSET Output, Reserve(t, O)
      PROVE  lock'[f][o] = s
  <2>1. CASE f = file[t] BY <1>0, <1>3, <2>1 DEF Reserve
  <2>2. CASE f # file[t] BY <1>3, <2>2 DEF Reserve
  <2> QED BY <2>1, <2>2
<1>4. ASSUME NEW x \in Send \cup {None}, NEW t \in Send, SweepRow(x, t)
      PROVE  lock'[f][o] = s \/ row'[s] = "expired"
  BY <1>1, <1>2, <1>4 DEF SweepRow
<1>5. CASE App
  BY <1>1, <1>4, <1>5 DEF App, SetDatabasePath, OpenPool, ClosePool, UnlockSession, LockSession,
     ScanStartSweeps, Kill, ReservationExpires
<1>6. ASSUME NEW t \in Send, CreateSender(t) \/ Refuse(t) \/ SendStep(t)
      PROVE  lock'[f][o] = s \/ row'[s] = "expired"
  <2>1. CASE Build(t) BY <1>3, <2>1 DEF Build
  <2>2. CASE BuildFails(t) BY <1>1, <1>3, <2>2 DEF BuildFails
  <2>3. CASE FinalizeFails(t) BY <1>1, <1>2, <2>3 DEF FinalizeFails
  <2>4. CASE GiveUp(t) BY <1>1, <1>2, <2>4 DEF GiveUp, ReleaseSendReservation
  <2>5. CASE \E u \in Send : SweepRow(t, u) BY <1>4, <2>5
  <2> QED BY <1>1, <1>6, <2>1, <2>2, <2>3, <2>4, <2>5 DEF CreateSender, Refuse, SendStep,
             LoadKeys, SendSweeps, CheckUnlocked, CheckFails, Sign, SignFails, Record, Sent
<1> QED BY <1>1, <1>5, <1>6 DEF Next, vars

\* A send's file is fixed when it begins, its inputs when it is built.
LEMMA FileAndInputsFixed ==
  ASSUME TypeOK, [Next]_vars, NEW s \in Send
  PROVE  /\ file'[s] = file[s] \/ (CreateSender(s) /\ pc[s] = "idle")
         /\ inputs'[s] = inputs[s] \/ (Build(s) /\ pc[s] = "build")
<1> USE DEF TypeOK, db, disk, history
<1>1. CASE UNCHANGED <<file, inputs>> BY <1>1
<1>2. CASE App
  BY <1>1, <1>2 DEF App, SetDatabasePath, OpenPool, ClosePool, UnlockSession, LockSession,
     ScanStartSweeps, Kill, ReservationExpires, SweepRow
<1>3. ASSUME NEW t \in Send, CreateSender(t) PROVE file'[s] = file[s] \/ t = s
  BY <1>3 DEF CreateSender
<1>4. ASSUME NEW t \in Send, Build(t) PROVE inputs'[s] = inputs[s] \/ t = s
  BY <1>4 DEF Build
<1>5. ASSUME NEW t \in Send, CreateSender(t) \/ Refuse(t) \/ SendStep(t)
      PROVE  /\ file'[s] = file[s] \/ (CreateSender(s) /\ pc[s] = "idle")
             /\ inputs'[s] = inputs[s] \/ (Build(s) /\ pc[s] = "build")
  <2>1. CASE CreateSender(t) BY <1>3, <2>1 DEF CreateSender
  <2>2. CASE Build(t) BY <1>4, <2>2 DEF Build
  <2> QED BY <1>1, <1>5, <2>1, <2>2 DEF Refuse, SendStep, LoadKeys, SendSweeps, SweepRow,
             BuildFails, CheckUnlocked, CheckFails, Sign, SignFails, Record, FinalizeFails,
             GiveUp, Sent
<1> QED BY <1>1, <1>2, <1>5 DEF Next, vars

-----------------------------------------------------------------------------
(* Every part of the invariant is kept *)

LEMMA RowStep ==
  ASSUME TypeOK, SweepsExpired, RowOfStage, [Next]_vars
  PROVE  RowOfStage'
<1> SUFFICES ASSUME NEW s \in Send
             PROVE /\ pc'[s] \in {"idle", "keys", "sweep", "build"} =>
                        row'[s] = "absent" /\ inputs'[s] = {}
                   /\ pc'[s] \in Reserved /\ s \notin expired' => row'[s] = "pending"
                   /\ pc'[s] \in {"recorded", "sent"} => row'[s] = "completed"
                   /\ row'[s] = "completed" => pc'[s] \in {"recorded", "sent", "killed"}
  BY DEF RowOfStage
<1>1. s \notin expired' => s \notin expired
  BY SweepStep
<1>2. inputs'[s] = inputs[s] \/ pc'[s] = "built"
  BY FileAndInputsFixed DEF Build, Goto, TypeOK
<1> QED BY <1>1, <1>2, SendMoves DEF RowOfStage, Reserved, Ended, TypeOK, Pc

LEMMA InputsStep ==
  ASSUME TypeOK, SweepsExpired, RowOfStage, HoldsInputs, FilesKnown, [Next]_vars
  PROVE  HoldsInputs'
<1> SUFFICES ASSUME NEW s \in Send, row'[s] \in {"pending", "completed"}, NEW o \in inputs'[s]
             PROVE  lock'[file'[s]][o] = s
  BY DEF HoldsInputs
<1>1. CASE Build(s)
  <2>1. PICK O \in SUBSET Output : Reserve(s, O) /\ inputs' = [inputs EXCEPT ![s] = O]
    BY <1>1 DEF Build
  <2>2. file' = file /\ file[s] \in File
    BY <1>1 DEF Build, FilesKnown, TypeOK, Ended
  <2>3. o \in O /\ o \in Output
    BY <2>1 DEF TypeOK
  <2> QED BY <2>1, <2>2, <2>3 DEF Reserve, TypeOK
<1>2. CASE ~Build(s)
  <2>1. inputs'[s] = inputs[s]
    BY <1>2, FileAndInputsFixed
  <2>2. pc[s] \notin {"idle", "keys", "sweep", "build"}
    BY <2>1 DEF RowOfStage
  <2>3. file'[s] = file[s]
    BY <2>2, FileAndInputsFixed
  <2>4. row[s] \in {"pending", "completed"}
    BY <2>2, SendMoves
  <2>5. lock[file[s]][o] = s /\ o \in Output
    BY <2>1, <2>4 DEF HoldsInputs, TypeOK
  <2>6. file[s] \in File
    BY <2>4 DEF FilesKnown, TypeOK
  <2> QED BY <2>3, <2>5, <2>6, LocksStay
<1> QED BY <1>1, <1>2

\* The current file, once known, stays known until the app is killed.
LEMMA CurrentFileStays ==
  ASSUME TypeOK, FilesKnown, [Next]_vars
  PROVE  /\ open' # None => path' # None
         /\ CurrentFile # None => CurrentFile' # None \/ Kill
<1> USE ConstantsAssumption DEF TypeOK, CurrentFile, FilesKnown, db, disk, history
<1>1. CASE UNCHANGED db BY <1>1
<1>2. CASE App
  <2>1. CASE \E f \in File : SetDatabasePath(f) BY <2>1 DEF SetDatabasePath
  <2>2. CASE \E f \in File : OpenPool(f) BY <2>2 DEF OpenPool
  <2>3. CASE ClosePool BY <2>3 DEF ClosePool
  <2>4. CASE Kill BY <2>4 DEF Kill
  <2> QED BY <1>1, <1>2, <2>1, <2>2, <2>3, <2>4 DEF App, UnlockSession, LockSession,
             ScanStartSweeps, ReservationExpires, SweepRow
<1>3. ASSUME NEW s \in Send, CreateSender(s) \/ Refuse(s) \/ SendStep(s) PROVE UNCHANGED db
  BY <1>3 DEF CreateSender, Refuse, SendStep, LoadKeys, SendSweeps, SweepRow, Build,
     BuildFails, CheckUnlocked, CheckFails, Sign, SignFails, Record, FinalizeFails, GiveUp, Sent
<1> QED BY <1>1, <1>2, <1>3 DEF Next, vars

\* A send begins with its sender, or fails.
LEMMA IdleBegins ==
  ASSUME TypeOK, [Next]_vars, NEW s \in Send, pc[s] = "idle", ~CreateSender(s)
  PROVE  pc'[s] \in {"idle", "failed"}
<1> USE DEF TypeOK, Goto, history
<1>1. CASE UNCHANGED pc BY <1>1
<1>2. CASE App
  BY <1>1, <1>2 DEF App, SetDatabasePath, OpenPool, ClosePool, UnlockSession, LockSession,
     ScanStartSweeps, Kill, ReservationExpires, SweepRow
<1>3. ASSUME NEW t \in Send, CreateSender(t) \/ Refuse(t) \/ SendStep(t)
      PROVE  pc'[s] \in {"idle", "failed"}
  BY <1>1, <1>3 DEF CreateSender, Refuse, SendStep, LoadKeys, SendSweeps, SweepRow, Build,
     BuildFails, CheckUnlocked, CheckFails, Sign, SignFails, Record, FinalizeFails, GiveUp, Sent
<1> QED BY <1>1, <1>2, <1>3 DEF Next, vars

\* A send that had sender and keys fails in its own release or build.
LEMMA FailsByItself ==
  ASSUME TypeOK, [Next]_vars, NEW s \in Send,
         pc[s] \notin {"idle", "keys", "failed"}, pc'[s] = "failed"
  PROVE  GiveUp(s) \/ BuildFails(s)
<1> USE DEF TypeOK, Goto, history
<1>1. CASE UNCHANGED pc BY <1>1
<1>2. CASE App
  BY <1>1, <1>2 DEF App, SetDatabasePath, OpenPool, ClosePool, UnlockSession, LockSession,
     ScanStartSweeps, Kill, ReservationExpires, SweepRow
<1>3. ASSUME NEW t \in Send, CreateSender(t) \/ Refuse(t) \/ SendStep(t)
      PROVE  GiveUp(s) \/ BuildFails(s)
  <2>1. CASE t # s
    BY <2>1, <1>3 DEF CreateSender, Refuse, SendStep, LoadKeys, SendSweeps, SweepRow, Build,
       BuildFails, CheckUnlocked, CheckFails, Sign, SignFails, Record, FinalizeFails, GiveUp, Sent
  <2>2. CASE t = s
    BY <2>2, <1>3 DEF CreateSender, Refuse, SendStep, LoadKeys, SendSweeps, SweepRow, Build,
       CheckUnlocked, AfterCheck, CheckFails, Sign, SignFails, Record, FinalizeFails, Sent
  <2> QED BY <2>1, <2>2
<1> QED BY <1>1, <1>2, <1>3 DEF Next, vars

LEMMA FilesStep ==
  ASSUME TypeOK, SweepsExpired, RowOfStage, FilesKnown, [Next]_vars
  PROVE  FilesKnown'
<1> SUFFICES ASSUME NEW s \in Send
             PROVE  /\ pc'[s] \notin {"idle"} \cup Ended => file'[s] # None /\ CurrentFile' # None
                    /\ row'[s] # "absent" => file'[s] # None
  BY CurrentFileStays DEF FilesKnown
<1>1. CASE CreateSender(s)
  <2>1. file'[s] # None /\ CurrentFile' # None
    BY <1>1, CurrentFileStays DEF CreateSender, CurrentFile, TypeOK, db
  <2> QED BY <2>1
<1>2. CASE ~CreateSender(s)
  <2>1. file'[s] = file[s]
    BY <1>2, FileAndInputsFixed
  <2>2. row'[s] # "absent" => row[s] # "absent" \/ pc[s] = "build"
    BY SendMoves
  <2>3. row'[s] # "absent" => file'[s] # None
    BY <2>1, <2>2 DEF FilesKnown, Ended
  <2>4. ASSUME pc'[s] \notin {"idle"} \cup Ended
        PROVE  pc[s] \notin {"idle"} \cup Ended /\ ~Kill
    <3>1. ~Kill
      BY <2>4 DEF Kill, TypeOK, Ended
    <3>2. pc[s] = "idle" => pc'[s] \in {"idle", "failed"}
      BY <1>2, <3>1, IdleBegins
    <3> QED BY <2>4, <3>1, <3>2, SendMoves DEF Ended, Reserved
  <2> QED BY <2>1, <2>3, <2>4, CurrentFileStays DEF FilesKnown
<1> QED BY <1>1, <1>2

\* A lock or unlock is what changes whether the wallet is dark for a send.
LEMMA DarkStep ==
  ASSUME TypeOK, SweepsExpired, DarkIsUnchecked, [Next]_vars
  PROVE  DarkIsUnchecked'
<1> USE DEF TypeOK, DarkIsUnchecked, db, disk, history
<1>1. ASSUME dark' = dark, unlocked' = unlocked
      PROVE  DarkIsUnchecked'
  <2> SUFFICES ASSUME NEW s \in dark' PROVE pc'[s] \notin {"finalize", "recorded", "sent"}
    BY <1>1
  <2> QED BY <1>1, SendMoves
<1>2. CASE App
  <2>1. CASE UnlockSession BY <2>1 DEF UnlockSession
  <2>2. CASE LockSession BY <2>2 DEF LockSession, Unchecked
  <2>3. CASE Kill BY <2>3 DEF Kill
  <2> QED BY <1>1, <1>2, <2>1, <2>2, <2>3 DEF App, SetDatabasePath, OpenPool, ClosePool,
             ScanStartSweeps, ReservationExpires, SweepRow
<1>3. ASSUME NEW s \in Send, CreateSender(s) \/ Refuse(s) \/ SendStep(s)
      PROVE  DarkIsUnchecked'
  <2>1. CASE Build(s) BY <2>1 DEF Build, Goto
  <2> QED BY <1>1, <1>3, <2>1 DEF CreateSender, Refuse, SendStep, LoadKeys, SendSweeps, SweepRow,
             BuildFails, CheckUnlocked, CheckFails, Sign, SignFails, Record, FinalizeFails,
             GiveUp, Sent
<1> QED BY <1>1, <1>2, <1>3 DEF Next, vars

LEMMA InvStep == IInv /\ [Next]_vars => IInv'
  BY TypeStep, SweepStep, RowStep, InputsStep, FilesStep, DarkStep DEF IInv

-----------------------------------------------------------------------------
(* The theorems *)

\* The inductive invariant of the sends: the stage of a send tells its row, and a row
\* that is pending or completed has its inputs.
THEOREM SendInvariance == Spec => []IInv
  BY InvInit, InvStep, PTL DEF Spec

\* The inputs of a recorded send are never given to another, by a sweep with an old
\* list, a failed send or a backstop release.
THEOREM RecordedSendsKeepInputs == Spec => []RecordedKeepsInputs
<1>1. IInv => RecordedKeepsInputs
  BY DEF IInv, HoldsInputs, RecordedKeepsInputs
<1> QED BY <1>1, SendInvariance, PTL

\* Nobody takes the inputs of a send between its build and its record while its
\* reservation lasts.
THEOREM LiveSendsKeepInputs == Spec => []LiveSendKeepsInputs
<1>1. IInv => LiveSendKeepsInputs
  BY DEF IInv, HoldsInputs, RowOfStage, LiveSendKeepsInputs
<1> QED BY <1>1, SendInvariance, PTL

\* Ok means recorded and an error not recorded, whatever was locked or killed meanwhile.
THEOREM AnswersTellTheRecord == Spec => []AnswerTellsTheRecord
<1>1. IInv => AnswerTellsTheRecord
  BY DEF IInv, RowOfStage, AnswerTellsTheRecord
<1> QED BY <1>1, SendInvariance, PTL

\* No send is recorded whose wallet was locked before its last check and still is.
THEOREM LockedSendsAreNotRecorded == Spec => []LockedSendIsNotRecorded
<1>1. IInv => LockedSendIsNotRecorded
  BY DEF IInv, DarkIsUnchecked, LockedSendIsNotRecorded
<1> QED BY <1>1, SendInvariance, PTL

\* A send that fails is not left with a pending row, unless a database error kept it from
\* releasing or its release looked in another database.
LEMMA ReleaseStep ==
  ASSUME IInv, FailedSendReleases, [Next]_vars
  PROVE  FailedSendReleases'
<1> USE DEF IInv, TypeOK, Goto, db, disk, history
<1> SUFFICES ASSUME NEW s \in Send, pc'[s] = "failed", row'[s] = "pending", s \notin errored'
             PROVE  released_in'[s] \notin {None, file'[s]}
  BY DEF FailedSendReleases
<1>0. errored \subseteq errored'
  BY DEF Next, vars, App, SetDatabasePath, OpenPool, ClosePool,
         UnlockSession, LockSession, ScanStartSweeps, Kill, ReservationExpires, SweepRow,
         CreateSender, Refuse, SendStep, LoadKeys, SendSweeps, Build, BuildFails, GiveUp,
         ReleaseSendReservation, CheckUnlocked, CheckFails, Sign, SignFails, Record,
         FinalizeFails, Sent
<1>1. CASE pc[s] = "failed"
  <2>1. row[s] = "pending"
    BY <1>1, SendMoves
  <2>2. released_in'[s] = released_in[s]
    <3>1. ASSUME NEW t \in Send, GiveUp(t) PROVE released_in'[s] = released_in[s]
      BY <1>1, <3>1 DEF GiveUp, ReleaseSendReservation
    <3>2. CASE UNCHANGED released_in BY <3>2
    <3> QED BY <3>1, <3>2 DEF Next, vars, App, SetDatabasePath, OpenPool, ClosePool,
               UnlockSession, LockSession, ScanStartSweeps, Kill, ReservationExpires, SweepRow,
               CreateSender, Refuse, SendStep, LoadKeys, SendSweeps, Build, BuildFails,
               CheckUnlocked, CheckFails, Sign, SignFails, Record, FinalizeFails, Sent
  <2>3. file'[s] = file[s]
    BY <1>1, FileAndInputsFixed
  <2> QED BY <1>0, <1>1, <2>1, <2>2, <2>3 DEF FailedSendReleases
<1>2. CASE pc[s] # "failed"
  <2>1. pc[s] \notin {"idle", "keys"}
    BY <1>2, SendMoves DEF RowOfStage
  <2>2. GiveUp(s) \/ BuildFails(s)
    BY <1>2, <2>1, FailsByItself
  <2>3. ~BuildFails(s)
    BY DEF BuildFails, RowOfStage
  <2>4. released_in' = [released_in EXCEPT ![s] = CurrentFile] /\ file' = file
        /\ (CurrentFile = file[s] => ExpireAndUnlock(s))
    BY <2>2, <2>3 DEF GiveUp, ReleaseSendReservation
  <2>5. CurrentFile # None
    BY <2>2, <2>3 DEF GiveUp, FilesKnown, Ended
  <2>6. CurrentFile # file[s]
    BY <2>4 DEF ExpireAndUnlock
  <2> QED BY <2>4, <2>5, <2>6
<1> QED BY <1>1, <1>2

\* Every failed send tried to release its reservation: one that is still pending met a
\* database error or was looked for in another database.
THEOREM FailedSendsRelease == Spec => []FailedSendReleases
<1>1. Init => FailedSendReleases
  BY DEF Init, FailedSendReleases
<1>2. IInv /\ FailedSendReleases /\ [Next]_vars => FailedSendReleases'
  BY ReleaseStep
<1> QED BY <1>1, <1>2, SendInvariance, PTL DEF Spec
=============================================================================
