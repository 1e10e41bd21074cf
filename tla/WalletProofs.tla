---------------------------- MODULE WalletProofs ----------------------------
(***************************************************************************)
(* Proofs about WalletLifecycle, for any number of calls, database files,  *)
(* wallet names and networks, and whatever operations the calls may be.    *)
(***************************************************************************)
EXTENDS WalletLifecycle, FiniteSetTheorems, TLAPS

-----------------------------------------------------------------------------
(* The inductive invariant *)

\* The stages of the calls of each kind.
CreateStages == {"network", "derive", "insert"}
CheckStages  == {"verify", "maintain", "same", "stop", "write"}
AlterStages  == {"maintain", "connect", "lock", "alter", "lockagain"}
\* The stages at which a call holds its wallet's maintenance lock, and those at which it
\* has the connection it works on.
HoldStages   == {"same", "stop", "write", "connect", "lock", "alter", "lockagain"}
LastStages   == {"insert", "write", "lock", "alter", "lockagain"}

\* A call's stage goes with its arguments.
StagesFit ==
    \A c \in Call :
        /\ pc[c] \in {"idle"} \union CreateStages \union CheckStages \union AlterStages
        /\ pc[c] = "idle" => ~moved[c]
        /\ pc[c] # "idle" => op[c].name \in Name /\ start[c] \in File /\ path \in File
        /\ pc[c] \in CreateStages => op[c].kind = "create" /\ op[c].network \in Network
        /\ pc[c] \in CheckStages \ AlterStages => op[c].kind \in {"change", "abandon"}
        /\ pc[c] \in AlterStages \ CheckStages => op[c].kind \in {"delete", "rename"}
        /\ pc[c] = "maintain" => op[c].kind \in {"change", "abandon", "delete", "rename"}
        /\ op[c].kind = "rename" => op[c].to \in Name \ {op[c].name}
        /\ pc[c] \in LastStages => conn[c] \in File

\* The recorded path is the open pool's.
PathFollowsPool == pool # None => path = pool

\* A call that nobody moved away from its database is still on it, and its last
\* connection is to it.
StaysOnItsFile ==
    \A c \in Call : ~moved[c] =>
        /\ Watching(c) => start[c] = CurrentFile
        /\ pc[c] \in LastStages => conn[c] = start[c]

\* A name's maintenance lock excludes every other call that alters it.
LockExcludes ==
    \A c \in Call : pc[c] \in HoldStages => maintenance[op[c].name] = c

\* The account an abandon checked stays its name's account until it is written.
CheckedStays ==
    \A c \in Call : op[c].kind = "abandon" =>
        /\ pc[c] \in {"maintain", "same", "stop", "write"} => checked[c] \in 1 .. MaxId
        /\ pc[c] \in {"stop", "write"} /\ ~moved[c] =>
              account[start[c]][op[c].name] = checked[c]

\* A call that may still write its row has the process's network.
NetworkKept ==
    \A c \in Call : pc[c] \in {"derive", "insert"} => network = op[c].network

WalletInv ==
    /\ TypeOK
    /\ StagesFit
    /\ PathFollowsPool
    /\ StaysOnItsFile
    /\ LockExcludes
    /\ CheckedStays
    /\ NetworkKept

-----------------------------------------------------------------------------
(* Type correctness *)

LEMMA TypeInit == Init => TypeOK
<1> SUFFICES ASSUME Init PROVE TypeOK
    OBVIOUS
<1>1. Cardinality(FirstIds) \in Nat
    BY ConstantsAssumption, FS_CardinalityType
<1>2. next_id \in [File -> Nat \ {0}]
    BY <1>1 DEF Init
<1>3. ASSUME NEW f \in File, NEW n \in Name, account[f][n] # None
      PROVE  /\ account[f][n] < next_id[f]
             /\ \A m \in Name \ {n} : account[f][m] # account[f][n]
    <2>1. account[f] = FirstNames /\ next_id[f] = 1 + Cardinality(FirstIds)
        BY DEF Init
    <2>2. FirstNames[n] \in FirstIds /\ FirstNames[n] \in 1 .. MaxId
        BY <1>3, <2>1, ConstantsAssumption DEF FirstIds
    <2>3. FirstNames[n] <= Cardinality(FirstIds)
        BY <2>2, ConstantsAssumption
    <2>4. FirstNames[n] < 1 + Cardinality(FirstIds)
        BY <1>1, <2>2, <2>3, ConstantsAssumption
    <2> QED BY <1>3, <2>1, <2>4, ConstantsAssumption
<1>4. account \in [File -> [Name -> 1 .. MaxId \union {None}]]
    BY ConstantsAssumption DEF Init
<1>5. op \in [Call -> Arguments]
    BY DEF Init, Idle, Arguments
<1>6. /\ network \in Network \union {None} /\ pool \in File \union {None}
      /\ path \in File \union {None} /\ unlocked \subseteq Name
      /\ maintenance \in [Name -> Call \union {None}] /\ pc \in [Call -> Stage]
      /\ checked \in [Call -> 1 .. MaxId \union {None}]
      /\ conn \in [Call -> File \union {None}] /\ start \in [Call -> File \union {None}]
      /\ moved \in [Call -> BOOLEAN]
    BY DEF Init, Stage
<1> QED BY <1>2, <1>3, <1>4, <1>5, <1>6 DEF TypeOK, Ranges, RowIdsDiffer

\* A call that returns is idle, holds no lock, and leaves the others alone.
LEMMA Returned ==
    ASSUME Ranges, NEW c \in Call, Return(c)
    PROVE  /\ pc' \in [Call -> Stage] /\ pc'[c] = "idle"
           /\ op' \in [Call -> Arguments] /\ op'[c] = Idle
           /\ conn' \in [Call -> File \union {None}]
           /\ checked' \in [Call -> 1 .. MaxId \union {None}]
           /\ start' \in [Call -> File \union {None}]
           /\ moved' \in [Call -> BOOLEAN] /\ ~moved'[c]
           /\ maintenance' \in [Name -> Call \union {None}]
           /\ \A d \in Call : d # c =>
                /\ pc'[d] = pc[d] /\ op'[d] = op[d] /\ conn'[d] = conn[d]
                /\ checked'[d] = checked[d] /\ start'[d] = start[d] /\ moved'[d] = moved[d]
                /\ \A n \in Name : maintenance[n] = d => maintenance'[n] = d
<1>1. Idle \in Arguments
    BY DEF Idle, Arguments
<1> QED BY <1>1 DEF Return, Go, Ranges, Stage

\* A call that begins has arguments, and the file that is the current one.
LEMMA Began ==
    ASSUME Ranges, NEW c \in Call, NEW kind \in Kind, NEW n \in Name,
           NEW to \in Name \union {None}, NEW net \in Network \union {None},
           Begin(c, kind, n, to, net)
    PROVE  /\ op' \in [Call -> Arguments]
           /\ op'[c] = [kind |-> kind, name |-> n, to |-> to, network |-> net]
           /\ start' \in [Call -> File \union {None}]
           /\ start'[c] = CurrentFile /\ CurrentFile \in File
           /\ \A d \in Call : d # c => op'[d] = op[d] /\ start'[d] = start[d]
<1>1. [kind |-> kind, name |-> n, to |-> to, network |-> net] \in Arguments
    BY DEF Arguments
<1>2. CurrentFile \in File
    BY DEF Begin, CurrentFile, Ranges
<1> QED BY <1>1, <1>2 DEF Begin, Ranges

\* Every operation keeps the values in their ranges.
LEMMA RangesStep ==
    ASSUME Ranges, StagesFit, [Next]_vars
    PROVE  Ranges'
<1> USE DEF Ranges, process
<1>1. CASE UNCHANGED vars BY <1>1 DEF vars
<1>2. ASSUME NEW c \in Call, CallCreate(c) PROVE Ranges'
    <2> PICK n \in Name, net \in Network :
            Begin(c, "create", n, None, net) /\ Go(c, "network")
        BY <1>2 DEF CallCreate
    <2>1. "create" \in Kind
        BY DEF Kind
    <2>2. pc' \in [Call -> Stage]
        BY DEF Go, Stage
    <2>3. op' \in [Call -> Arguments] /\ start' \in [Call -> File \union {None}]
        BY <2>1, Began
    <2> QED BY <2>2, <2>3 DEF Begin
<1>3. ASSUME NEW c \in Call, NEW kind \in {"change", "abandon"}, CallChecked(c, kind)
      PROVE  Ranges'
    <2> PICK n \in Name : Begin(c, kind, n, None, None) /\ Go(c, "verify")
        BY <1>3 DEF CallChecked
    <2>1. kind \in Kind
        BY DEF Kind
    <2>2. pc' \in [Call -> Stage]
        BY DEF Go, Stage
    <2>3. op' \in [Call -> Arguments] /\ start' \in [Call -> File \union {None}]
        BY <2>1, Began
    <2> QED BY <2>2, <2>3 DEF Begin
<1>4. ASSUME NEW c \in Call, CallDelete(c) PROVE Ranges'
    <2> PICK n \in Name : Begin(c, "delete", n, None, None) /\ Go(c, "maintain")
        BY <1>4 DEF CallDelete
    <2>1. "delete" \in Kind
        BY DEF Kind
    <2>2. pc' \in [Call -> Stage]
        BY DEF Go, Stage
    <2>3. op' \in [Call -> Arguments] /\ start' \in [Call -> File \union {None}]
        BY <2>1, Began
    <2> QED BY <2>2, <2>3 DEF Begin
<1>5. ASSUME NEW c \in Call, CallRename(c) PROVE Ranges'
    <2> PICK n \in Name, to \in Name :
            Begin(c, "rename", n, to, None) /\ Go(c, "maintain")
        BY <1>5 DEF CallRename
    <2>1. "rename" \in Kind
        BY DEF Kind
    <2>2. pc' \in [Call -> Stage]
        BY DEF Go, Stage
    <2>3. op' \in [Call -> Arguments] /\ start' \in [Call -> File \union {None}]
        BY <2>1, Began
    <2> QED BY <2>2, <2>3 DEF Begin
<1>6. ASSUME NEW c \in Call, ApplyNetwork(c) PROVE Ranges'
    <2>1. op[c].network \in Network
        BY <1>6 DEF ApplyNetwork, StagesFit, CreateStages
    <2>2. CASE Return(c)
        BY <1>6, <2>1, <2>2, Returned DEF ApplyNetwork
    <2>3. CASE Go(c, "derive") /\ UNCHANGED <<maintenance, op, conn, checked, start, moved>>
        BY <1>6, <2>1, <2>3 DEF ApplyNetwork, Go, Stage
    <2> QED BY <1>6, <2>2, <2>3 DEF ApplyNetwork
<1>7. ASSUME NEW c \in Call, CreateFails(c) \/ VerifyFails(c) \/ Write(c) \/ LockFails(c)
      PROVE  Ranges'
    <2>1. Return(c) /\ UNCHANGED <<process, account, next_id>>
        BY <1>7 DEF CreateFails, VerifyFails, Write, LockFails
    <2> QED BY <2>1, Returned
<1>8. ASSUME NEW c \in Call, Derive(c) \/ StopScans(c) \/ Connect(c) PROVE Ranges'
    <2>1. PICK at \in Stage : Go(c, at)
        BY <1>8 DEF Derive, StopScans, Connect, Stage
    <2>2. /\ conn' = [conn EXCEPT ![c] = CurrentFile]
          /\ UNCHANGED <<process, account, next_id, maintenance, op, checked, start, moved>>
        BY <1>8 DEF Derive, StopScans, Connect
    <2>3. CurrentFile \in File \union {None}
        BY DEF CurrentFile
    <2>4. pc' \in [Call -> Stage]
        BY <2>1 DEF Go
    <2>5. conn' \in [Call -> File \union {None}]
        BY <2>2, <2>3
    <2> QED BY <2>2, <2>4, <2>5
<1>9. ASSUME NEW c \in Call, Insert(c) PROVE Ranges'
    <2>1. Return(c) /\ UNCHANGED <<network, pool, path, unlocked>>
        BY <1>9 DEF Insert
    <2>2. conn[c] \in File /\ op[c].name \in Name /\ next_id[conn[c]] \in 1 .. MaxId
        BY <1>9, ConstantsAssumption DEF Insert, StagesFit, CreateStages, LastStages
    <2>3. account' \in [File -> [Name -> 1 .. MaxId \union {None}]]
        BY <1>9, <2>2 DEF Insert
    <2>4. next_id' \in [File -> Nat \ {0}]
        BY <1>9, <2>2 DEF Insert
    <2> QED BY <2>1, <2>3, <2>4, Returned
<1>10. ASSUME NEW c \in Call, Verify(c) PROVE Ranges'
    <2>1. start[c] \in File /\ op[c].name \in Name
        BY <1>10 DEF Verify, StagesFit
    <2> QED BY <1>10, <2>1 DEF Verify, Go, Stage
<1>11. ASSUME NEW c \in Call, BeginMaintenance(c) PROVE Ranges'
    <2>1. pc' \in [Call -> Stage]
        BY <1>11 DEF BeginMaintenance, Go, Stage
    <2> QED BY <1>11, <2>1 DEF BeginMaintenance
<1>12. ASSUME NEW c \in Call, CheckSame(c) PROVE Ranges'
    <2>1. CASE Return(c)
        BY <1>12, <2>1, Returned DEF CheckSame
    <2>2. CASE Go(c, "stop") /\ UNCHANGED <<maintenance, op, conn, checked, start, moved>>
        BY <1>12, <2>2 DEF CheckSame, Go, Stage
    <2> QED BY <1>12, <2>1, <2>2 DEF CheckSame
<1>13. ASSUME NEW c \in Call, LockEverywhere(c) PROVE Ranges'
    BY <1>13 DEF LockEverywhere, CloseIfUnused, Go, Stage
<1>14. ASSUME NEW c \in Call, Alter(c) PROVE Ranges'
    <2>1. conn[c] \in File /\ op[c].name \in Name
        BY <1>14 DEF Alter, AlterIn, StagesFit, LastStages
    <2>2. op[c].kind = "rename" => op[c].to \in Name
        BY <1>14 DEF StagesFit
    <2>3. Removed(c, conn[c]) \in [File -> [Name -> 1 .. MaxId \union {None}]]
        BY <2>1 DEF Removed
    <2>4. ASSUME op[c].kind = "rename",
                 account' = [Removed(c, conn[c]) EXCEPT
                                ![conn[c]][op[c].to] = account[conn[c]][op[c].name]]
          PROVE  account' \in [File -> [Name -> 1 .. MaxId \union {None}]]
        BY <2>1, <2>2, <2>3, <2>4
    <2>5. account' \in [File -> [Name -> 1 .. MaxId \union {None}]]
        BY <1>14, <2>3, <2>4 DEF Alter, AlterIn
    <2> QED BY <1>14, <2>5 DEF Alter, AlterIn, Go, Stage
<1>15. ASSUME NEW c \in Call, LockAgain(c) PROVE Ranges'
    BY <1>15, Returned DEF LockAgain, CloseIfUnused
<1>16. ASSUME NEW f \in File, SetDatabasePath(f) PROVE Ranges'
    BY <1>16 DEF SetDatabasePath, Moves
<1>17. ASSUME NEW f \in File, NEW n \in Name, Unlock(f, n) PROVE Ranges'
    BY <1>17 DEF Unlock, Moves
<1>18. ASSUME NEW n \in Name, Lock(n) PROVE Ranges'
    BY <1>18 DEF Lock, CloseIfUnused
<1>19. CASE Restart
    <2>1. op' \in [Call -> Arguments]
        BY <1>19 DEF Restart, Idle, Arguments
    <2> QED BY <1>19, <2>1 DEF Restart, Stage
<1> QED BY <1>1, <1>2, <1>3, <1>4, <1>5, <1>6, <1>7, <1>8, <1>9, <1>10, <1>11, <1>12, <1>13,
           <1>14, <1>15, <1>16, <1>17, <1>18, <1>19 DEF Next, CallChange, CallAbandon

\* Only a new row and an altered one change the accounts.
LEMMA AccountsKept ==
    ASSUME [Next]_vars,
           \A c \in Call : ~Insert(c) /\ ~Alter(c)
    PROVE  UNCHANGED <<account, next_id>>
<1> USE DEF process, Begin
<1>1. CASE UNCHANGED vars BY <1>1 DEF vars
<1>2. ASSUME NEW c \in Call, CallCreate(c) \/ CallChange(c) \/ CallAbandon(c) \/ CallDelete(c)
             \/ CallRename(c)
      PROVE  UNCHANGED <<account, next_id>>
    BY <1>2 DEF CallCreate, CallChange, CallAbandon, CallChecked, CallDelete, CallRename
<1>3. ASSUME NEW c \in Call, ApplyNetwork(c) \/ CreateFails(c) \/ Derive(c) \/ VerifyFails(c)
             \/ Verify(c) \/ BeginMaintenance(c) \/ CheckSame(c) \/ StopScans(c) \/ Write(c)
             \/ Connect(c) \/ LockEverywhere(c) \/ LockAgain(c) \/ LockFails(c)
      PROVE  UNCHANGED <<account, next_id>>
    BY <1>3 DEF ApplyNetwork, CreateFails, Derive, VerifyFails, Verify, BeginMaintenance,
        CheckSame, StopScans, Write, Connect, LockEverywhere, LockAgain, LockFails,
        CloseIfUnused
<1>4. CASE (\E f \in File : SetDatabasePath(f) \/ \E n \in Name : Unlock(f, n))
           \/ (\E n \in Name : Lock(n)) \/ Restart
    BY <1>4 DEF SetDatabasePath, Unlock, Lock, CloseIfUnused, Restart
<1> QED BY <1>1, <1>2, <1>3, <1>4 DEF Next

\* A row id is given out once, and moves with its wallet.
LEMMA RowIdsStep ==
    ASSUME TypeOK, StagesFit, [Next]_vars
    PROVE  RowIdsDiffer'
<1> USE DEF TypeOK, Ranges
<1>1. ASSUME NEW c \in Call, Insert(c) PROVE RowIdsDiffer'
    <2>1. conn[c] \in File /\ op[c].name \in Name
        BY <1>1 DEF Insert, StagesFit, CreateStages, LastStages
    <2>2. next_id[conn[c]] \in 1 .. MaxId
        BY <1>1, <2>1, ConstantsAssumption DEF Insert
    <2> DEFINE f == conn[c]
               n == op[c].name
    <2>3. /\ account' = [account EXCEPT ![f][n] = next_id[f]]
          /\ next_id' = [next_id EXCEPT ![f] = next_id[f] + 1]
        BY <1>1 DEF Insert
    <2>4. /\ \A g \in File \ {f} : account'[g] = account[g] /\ next_id'[g] = next_id[g]
          /\ \A m \in Name \ {n} : account'[f][m] = account[f][m]
          /\ account'[f][n] = next_id[f] /\ next_id'[f] = next_id[f] + 1
        BY <2>1, <2>3
    <2>5. \A g \in File : g # f => \A m \in Name : account'[g][m] # None =>
            /\ account'[g][m] < next_id'[g]
            /\ \A k \in Name \ {m} : account'[g][k] # account'[g][m]
        BY <2>4 DEF RowIdsDiffer
    <2>6. \A m \in Name : account'[f][m] # None =>
            /\ account'[f][m] < next_id'[f]
            /\ \A k \in Name \ {m} : account'[f][k] # account'[f][m]
        <3> SUFFICES ASSUME NEW m \in Name, account'[f][m] # None
                     PROVE  /\ account'[f][m] < next_id'[f]
                            /\ \A k \in Name \ {m} : account'[f][k] # account'[f][m]
            OBVIOUS
        <3>1. \A k \in Name : account[f][k] # None =>
                account[f][k] \in 1 .. MaxId /\ account[f][k] < next_id[f]
            BY <2>1 DEF RowIdsDiffer
        <3> HIDE DEF f, n
        <3>2. CASE m = n
            <4>1. \A k \in Name \ {n} : account[f][k] # next_id[f]
                BY <2>2, <3>1, ConstantsAssumption DEF f
            <4> QED BY <2>2, <2>4, <3>2, <4>1 DEF f
        <3>3. CASE m # n
            <4>1. account[f][m] # None /\ account'[f][m] = account[f][m]
                BY <2>4, <3>3
            <4>2. account[f][m] < next_id[f] /\ account[f][m] \in 1 .. MaxId
                BY <3>1, <4>1
            <4>3. account'[f][m] < next_id'[f]
                BY <2>2, <2>4, <4>1, <4>2 DEF f
            <4>4. \A k \in Name \ {m} : account'[f][k] # account'[f][m]
                BY <2>1, <2>2, <2>4, <4>1, <4>2 DEF RowIdsDiffer, f
            <4> QED BY <4>3, <4>4
        <3> QED BY <3>2, <3>3
    <2> QED BY <2>1, <2>5, <2>6 DEF RowIdsDiffer
<1>2. ASSUME NEW c \in Call, Alter(c) PROVE RowIdsDiffer'
    <2> DEFINE f == conn[c]
               n == op[c].name
    <2>1. f \in File /\ n \in Name
        BY <1>2 DEF Alter, AlterIn, StagesFit, LastStages
    <2>2. next_id' = next_id
        BY <1>2 DEF Alter, AlterIn
    <2>3. CASE UNCHANGED account
        BY <2>2, <2>3 DEF TypeOK, RowIdsDiffer
    <2>4. CASE account' = Removed(c, f)
        <3>1. /\ \A g \in File \ {f} : account'[g] = account[g]
              /\ \A m \in Name \ {n} : account'[f][m] = account[f][m]
              /\ account'[f][n] = None
            BY <2>1, <2>4 DEF Removed
        <3>2. \A g \in File \ {f} : \A m \in Name : account'[g][m] # None =>
                /\ account'[g][m] < next_id'[g]
                /\ \A k \in Name \ {m} : account'[g][k] # account'[g][m]
            BY <2>2, <3>1 DEF RowIdsDiffer
        <3>3. \A m \in Name : account'[f][m] # None =>
                /\ account'[f][m] < next_id'[f]
                /\ \A k \in Name \ {m} : account'[f][k] # account'[f][m]
            <4> SUFFICES ASSUME NEW m \in Name, account'[f][m] # None
                         PROVE  /\ account'[f][m] < next_id'[f]
                                /\ \A k \in Name \ {m} : account'[f][k] # account'[f][m]
                OBVIOUS
            <4>1. m # n /\ account'[f][m] = account[f][m]
                BY <3>1
            <4>2. /\ account[f][m] < next_id[f]
                  /\ \A k \in Name \ {m} : account[f][k] # account[f][m]
                BY <2>1, <4>1 DEF RowIdsDiffer
            <4>3. account'[f][m] < next_id'[f]
                BY <2>2, <4>1, <4>2
            <4>4. \A k \in Name \ {m} : account'[f][k] # account'[f][m]
                BY <3>1, <4>1, <4>2
            <4> QED BY <4>3, <4>4
        <3> QED BY <3>2, <3>3 DEF RowIdsDiffer
    <2>5. ASSUME op[c].kind = "rename", account[f][op[c].to] = None,
                 account[f][n] # None,
                 account' = [Removed(c, f) EXCEPT ![f][op[c].to] = account[f][n]]
          PROVE  RowIdsDiffer'
        <3>1. op[c].to \in Name /\ op[c].to # n
            BY <2>5 DEF StagesFit
        <3>2. /\ \A g \in File \ {f} : account'[g] = account[g]
              /\ \A m \in Name \ {n, op[c].to} : account'[f][m] = account[f][m]
              /\ account'[f][n] = None /\ account'[f][op[c].to] = account[f][n]
            BY <2>1, <2>5, <3>1 DEF Removed
        <3>3. \A g \in File \ {f} : \A m \in Name : account'[g][m] # None =>
                /\ account'[g][m] < next_id'[g]
                /\ \A k \in Name \ {m} : account'[g][k] # account'[g][m]
            BY <2>2, <3>2 DEF RowIdsDiffer
        <3>4. \A m \in Name : account'[f][m] # None =>
                /\ account'[f][m] < next_id'[f]
                /\ \A k \in Name \ {m} : account'[f][k] # account'[f][m]
            <4>1. /\ account[f][n] < next_id[f]
                  /\ \A k \in Name \ {n} : account[f][k] # account[f][n]
                BY <2>1, <2>5 DEF RowIdsDiffer
            <4> SUFFICES ASSUME NEW m \in Name, account'[f][m] # None
                         PROVE  /\ account'[f][m] < next_id'[f]
                                /\ \A k \in Name \ {m} : account'[f][k] # account'[f][m]
                OBVIOUS
            <4>2. m # n
                BY <3>2
            <4>3. CASE m = op[c].to
                <5>1. account'[f][m] = account[f][n]
                    BY <3>2, <4>3
                <5>2. account'[f][m] < next_id'[f]
                    BY <2>2, <4>1, <5>1
                <5>3. ASSUME NEW k \in Name \ {m} PROVE account'[f][k] # account'[f][m]
                    <6>1. CASE k = n BY <2>5, <3>2, <5>1, <6>1
                    <6>2. CASE k # n
                        <7>1. account'[f][k] = account[f][k]
                            BY <3>2, <4>3, <6>2
                        <7> QED BY <4>1, <5>1, <6>2, <7>1
                    <6> QED BY <6>1, <6>2
                <5> QED BY <5>2, <5>3
            <4>4. CASE m # op[c].to
                <5>1. account'[f][m] = account[f][m]
                    BY <3>2, <4>2, <4>4
                <5>2. /\ account[f][m] < next_id[f]
                      /\ \A k \in Name \ {m} : account[f][k] # account[f][m]
                    BY <2>1, <5>1 DEF RowIdsDiffer
                <5>3. account'[f][m] < next_id'[f]
                    BY <2>2, <5>1, <5>2
                <5>4. \A k \in Name \ {m} : account'[f][k] # account'[f][m]
                    BY <2>1, <3>2, <4>2, <5>1, <5>2
                <5> QED BY <5>3, <5>4
            <4> QED BY <4>3, <4>4
        <3> QED BY <3>3, <3>4 DEF RowIdsDiffer
    <2> QED BY <1>2, <2>3, <2>4, <2>5 DEF Alter, AlterIn
<1>3. CASE \A c \in Call : ~Insert(c) /\ ~Alter(c)
    BY <1>3, AccountsKept DEF RowIdsDiffer
<1> QED BY <1>1, <1>2, <1>3

-----------------------------------------------------------------------------
(* What a step leaves alone *)

\* The steps of one call, by what they do to its stage.
BeginStep(c)  ==
    \/ CallCreate(c) \/ CallChange(c) \/ CallAbandon(c)
    \/ CallDelete(c) \/ CallRename(c)
ReturnStep(c) == CreateFails(c) \/ VerifyFails(c) \/ Write(c) \/ LockFails(c) \/ Insert(c)
                 \/ LockAgain(c)
WorkStep(c)   == ApplyNetwork(c) \/ Derive(c) \/ Verify(c) \/ BeginMaintenance(c)
                 \/ CheckSame(c) \/ StopScans(c) \/ Connect(c) \/ LockEverywhere(c) \/ Alter(c)
CallStep(c)   == BeginStep(c) \/ ReturnStep(c) \/ WorkStep(c)
OtherStep     == \/ \E f \in File : SetDatabasePath(f) \/ \E n \in Name : Unlock(f, n)
                 \/ \E n \in Name : Lock(n)
                 \/ Restart

LEMMA Steps ==
    ASSUME [Next]_vars
    PROVE  (\E c \in Call : CallStep(c)) \/ OtherStep \/ UNCHANGED vars
BY DEF Next, CallStep, BeginStep, ReturnStep, WorkStep, OtherStep

LEMMA Returns ==
    ASSUME NEW c \in Call, ReturnStep(c)
    PROVE  Return(c)
BY DEF ReturnStep, CreateFails, VerifyFails, Write, LockFails, Insert, LockAgain

\* A call's step leaves the other calls and their locks alone.
LEMMA OthersKept ==
    ASSUME Ranges, NEW c \in Call, CallStep(c), NEW d \in Call, d # c
    PROVE  /\ pc'[d] = pc[d] /\ op'[d] = op[d] /\ conn'[d] = conn[d]
           /\ checked'[d] = checked[d] /\ start'[d] = start[d] /\ moved'[d] = moved[d]
           /\ \A n \in Name : maintenance[n] = d => maintenance'[n] = d
<1> USE DEF Ranges, Go, process
<1>1. CASE BeginStep(c)
    BY <1>1 DEF BeginStep, CallCreate, CallChange, CallAbandon, CallChecked, CallDelete,
        CallRename, Begin
<1>2. CASE Return(c)
    BY <1>2, Returned
<1>3. CASE Derive(c) \/ StopScans(c) \/ Connect(c) \/ Verify(c) \/ LockEverywhere(c) \/ Alter(c)
    BY <1>3 DEF Derive, StopScans, Connect, Verify, LockEverywhere, Alter, AlterIn
<1>4. CASE BeginMaintenance(c)
    BY <1>4, ConstantsAssumption DEF BeginMaintenance
<1>5. CASE ApplyNetwork(c) \/ CheckSame(c)
    BY <1>2, <1>5 DEF ApplyNetwork, CheckSame
<1> QED BY <1>1, <1>2, <1>3, <1>4, <1>5, Returns DEF CallStep, WorkStep

\* A call's step records no path, and closing the unused pool leaves its path.
LEMMA FileKept ==
    ASSUME Ranges, PathFollowsPool,
           (\E c \in Call : CallStep(c)) \/ \E n \in Name : Lock(n)
    PROVE  path' = path /\ PathFollowsPool' /\ CurrentFile' = CurrentFile
<1>1. path' = path /\ (pool' = pool \/ pool' = None)
    <2>1. ASSUME NEW c \in Call, CallStep(c)
          PROVE  path' = path /\ (pool' = pool \/ pool' = None)
        <3>1. CASE BeginStep(c)
            BY <3>1 DEF BeginStep, CallCreate, CallChange, CallAbandon, CallChecked,
                CallDelete, CallRename, Begin, process
        <3>2. CASE ReturnStep(c)
            BY <3>2 DEF ReturnStep, CreateFails, VerifyFails, Write, LockFails, Insert,
                LockAgain, CloseIfUnused, process
        <3>3. CASE WorkStep(c)
            BY <3>3 DEF WorkStep, ApplyNetwork, Derive, Verify, BeginMaintenance, CheckSame,
                StopScans, Connect, LockEverywhere, Alter, AlterIn, CloseIfUnused, process
        <3> QED BY <2>1, <3>1, <3>2, <3>3 DEF CallStep
    <2>2. ASSUME NEW n \in Name, Lock(n)
          PROVE  path' = path /\ (pool' = pool \/ pool' = None)
        BY <2>2 DEF Lock, CloseIfUnused
    <2> QED BY <2>1, <2>2
<1> QED BY <1>1 DEF PathFollowsPool, CurrentFile

\* A step of the other engine leaves the calls where they are; only the restart ends them.
LEMMA OtherStepKeeps ==
    ASSUME Ranges, OtherStep
    PROVE  /\ UNCHANGED <<account, next_id>>
           /\ \/ UNCHANGED <<network, pc, op, conn, checked, start, maintenance>>
              \/ /\ pc' = [c \in Call |-> "idle"] /\ op' = [c \in Call |-> Idle]
                 /\ moved' = [c \in Call |-> FALSE]
                 /\ pool' = None /\ path' = None /\ network' = None
BY DEF OtherStep, SetDatabasePath, Unlock, Lock, CloseIfUnused, Restart

-----------------------------------------------------------------------------
(* Each part of the invariant is kept *)

LEMMA PathStep ==
    ASSUME Ranges, PathFollowsPool, [Next]_vars
    PROVE  PathFollowsPool'
<1>1. CASE UNCHANGED vars BY <1>1 DEF vars, process, PathFollowsPool
<1>2. CASE (\E c \in Call : CallStep(c)) \/ \E n \in Name : Lock(n)
    BY <1>2, FileKept
<1>3. CASE (\E f \in File : SetDatabasePath(f) \/ \E n \in Name : Unlock(f, n)) \/ Restart
    BY <1>3 DEF SetDatabasePath, Unlock, Restart, PathFollowsPool
<1> QED BY <1>1, <1>2, <1>3, Steps DEF OtherStep

LEMMA NetworkStep ==
    ASSUME Ranges, StagesFit, NetworkKept, [Next]_vars
    PROVE  NetworkKept'
<1> USE DEF NetworkKept
<1>1. CASE UNCHANGED vars BY <1>1 DEF vars, process
<1>2. CASE OtherStep
    BY <1>2, OtherStepKeeps
<1>3. ASSUME NEW c \in Call, CallStep(c) PROVE NetworkKept'
    <2>1. ASSUME NEW d \in Call, d # c, pc'[d] \in {"derive", "insert"}
          PROVE  network' = op'[d].network
        <3>1. pc'[d] = pc[d] /\ op'[d] = op[d]
            BY <1>3, <2>1, OthersKept
        <3>2. network = op[d].network /\ op[d].network \in Network
            BY <2>1, <3>1 DEF StagesFit, CreateStages
        <3>3. network' = network \/ ApplyNetwork(c)
            BY <1>3 DEF CallStep, BeginStep, CallCreate, CallChange, CallAbandon, CallChecked,
                CallDelete, CallRename, Begin, ReturnStep, CreateFails, VerifyFails, Write,
                LockFails, Insert, LockAgain, CloseIfUnused, WorkStep, Derive, Verify,
                BeginMaintenance, CheckSame, StopScans, Connect, LockEverywhere, Alter,
                AlterIn, process
        <3>4. ApplyNetwork(c) => network' = network
            BY <3>2, ConstantsAssumption DEF ApplyNetwork, NetworkAllows
        <3> QED BY <3>1, <3>2, <3>3, <3>4
    <2>2. ASSUME pc'[c] \in {"derive", "insert"} PROVE network' = op'[c].network
        <3>1. ~BeginStep(c)
            BY <2>2 DEF Ranges, BeginStep, CallCreate, CallChange, CallAbandon, CallChecked,
                CallDelete, CallRename, Go
        <3>2. ~Return(c)
            BY <2>2 DEF Ranges, Return, Go
        <3>3. ApplyNetwork(c) \/ Derive(c)
            BY <1>3, <2>2, <3>1, <3>2, Returns DEF CallStep, WorkStep, Ranges, Go, Verify,
                BeginMaintenance, CheckSame, StopScans, Connect, LockEverywhere, Alter, AlterIn
        <3>4. CASE ApplyNetwork(c)
            BY <3>2, <3>4 DEF ApplyNetwork
        <3>5. CASE Derive(c)
            BY <3>5 DEF Derive, process
        <3> QED BY <3>3, <3>4, <3>5
    <2> QED BY <2>1, <2>2
<1> QED BY <1>1, <1>2, <1>3, Steps

LEMMA LockStep ==
    ASSUME Ranges, StagesFit, LockExcludes, [Next]_vars
    PROVE  LockExcludes'
<1> USE DEF LockExcludes, HoldStages
<1>1. CASE UNCHANGED vars BY <1>1 DEF vars
<1>2. CASE OtherStep
    BY <1>2, OtherStepKeeps
<1>3. ASSUME NEW c \in Call, CallStep(c) PROVE LockExcludes'
    <2>1. ASSUME NEW d \in Call, d # c, pc'[d] \in HoldStages
          PROVE  maintenance'[op'[d].name] = d
        <3>1. pc'[d] = pc[d] /\ op'[d] = op[d]
            BY <1>3, <2>1, OthersKept
        <3>2. op[d].name \in Name /\ maintenance[op[d].name] = d
            BY <2>1, <3>1 DEF StagesFit
        <3> QED BY <1>3, <2>1, <3>1, <3>2, OthersKept
    <2>2. ASSUME pc'[c] \in HoldStages PROVE maintenance'[op'[c].name] = c
        <3>1. ~BeginStep(c)
            BY <2>2 DEF Ranges, BeginStep, CallCreate, CallChange, CallAbandon, CallChecked,
                CallDelete, CallRename, Go
        <3>2. ~Return(c)
            BY <2>2 DEF Ranges, Return, Go
        <3>3. CASE BeginMaintenance(c)
            <4>1. op[c].name \in Name
                BY <3>3 DEF BeginMaintenance, StagesFit
            <4> QED BY <3>3, <4>1 DEF BeginMaintenance, Ranges
        <3>4. CASE ApplyNetwork(c) \/ Derive(c) \/ Verify(c)
            BY <2>2, <3>2, <3>4 DEF Ranges, ApplyNetwork, Derive, Verify, Go
        <3>5. CASE CheckSame(c) \/ StopScans(c) \/ Connect(c) \/ LockEverywhere(c) \/ Alter(c)
            <4>1. pc[c] \in HoldStages /\ UNCHANGED <<maintenance, op>>
                BY <3>2, <3>5 DEF CheckSame, StopScans, Connect, LockEverywhere, Alter, AlterIn
            <4> QED BY <4>1
        <3> QED BY <1>3, <3>1, <3>2, <3>3, <3>4, <3>5, Returns DEF CallStep, WorkStep
    <2> QED BY <2>1, <2>2
<1> QED BY <1>1, <1>2, <1>3, Steps

LEMMA FileStep ==
    ASSUME Ranges, StagesFit, PathFollowsPool, StaysOnItsFile, [Next]_vars
    PROVE  StaysOnItsFile'
<1> USE DEF StaysOnItsFile, Watching, LastStages
<1>1. CASE UNCHANGED vars BY <1>1 DEF vars, process, CurrentFile
<1>2. ASSUME NEW c \in Call, CallStep(c) PROVE StaysOnItsFile'
    <2>0. CurrentFile' = CurrentFile
        BY <1>2, FileKept
    <2>1. ASSUME NEW d \in Call, d # c, ~moved'[d]
          PROVE  /\ Watching(d)' => start'[d] = CurrentFile'
                 /\ pc'[d] \in LastStages => conn'[d] = start'[d]
        <3>1. pc'[d] = pc[d] /\ conn'[d] = conn[d] /\ start'[d] = start[d] /\ moved'[d] = moved[d]
            BY <1>2, <2>1, OthersKept
        <3> QED BY <2>0, <2>1, <3>1
    <2>2. ASSUME ~moved'[c]
          PROVE  /\ Watching(c)' => start'[c] = CurrentFile'
                 /\ pc'[c] \in LastStages => conn'[c] = start'[c]
        <3>1. CASE BeginStep(c)
            BY <2>0, <3>1 DEF Ranges, BeginStep, CallCreate, CallChange, CallAbandon,
                CallChecked, CallDelete, CallRename, Begin, Go
        <3>2. CASE Return(c)
            BY <3>2 DEF Ranges, Return, Go
        <3>3. CASE WorkStep(c) /\ ~Return(c)
            <4>1. moved' = moved /\ start' = start
                BY <3>3 DEF WorkStep, ApplyNetwork, Derive, Verify, BeginMaintenance, CheckSame,
                    StopScans, Connect, LockEverywhere, Alter, AlterIn
            <4>2. CASE Derive(c) \/ StopScans(c) \/ Connect(c)
                BY <2>0, <2>2, <4>1, <4>2 DEF Ranges, Derive, StopScans, Connect, Go
            <4>3. CASE ApplyNetwork(c) \/ Verify(c) \/ BeginMaintenance(c) \/ CheckSame(c)
                BY <2>0, <2>2, <3>3, <4>1, <4>3 DEF Ranges, ApplyNetwork, Verify,
                    BeginMaintenance, CheckSame, Go
            <4>4. CASE LockEverywhere(c) \/ Alter(c)
                BY <2>0, <2>2, <4>1, <4>4 DEF Ranges, LockEverywhere, Alter, AlterIn, Go
            <4> QED BY <3>3, <4>2, <4>3, <4>4 DEF WorkStep
        <3> QED BY <1>2, <3>1, <3>2, <3>3, Returns DEF CallStep
    <2> QED BY <2>1, <2>2
<1>3. ASSUME NEW n \in Name, Lock(n) PROVE StaysOnItsFile'
    BY <1>3, FileKept DEF Lock
<1>4. ASSUME NEW f \in File, SetDatabasePath(f) PROVE StaysOnItsFile'
    <2>1. CurrentFile' = f
        BY <1>4 DEF SetDatabasePath, CurrentFile
    <2> QED BY <1>4, <2>1 DEF SetDatabasePath, Moves
<1>5. ASSUME NEW f \in File, NEW n \in Name, Unlock(f, n) PROVE StaysOnItsFile'
    <2>1. CurrentFile' = f
        BY <1>5, ConstantsAssumption DEF Unlock, CurrentFile
    <2> QED BY <1>5, <2>1 DEF Unlock, Moves
<1>6. CASE Restart
    BY <1>6 DEF Restart
<1> QED BY <1>1, <1>2, <1>3, <1>4, <1>5, <1>6, Steps DEF OtherStep

LEMMA StagesStep ==
    ASSUME Ranges, PathFollowsPool, StagesFit, [Next]_vars
    PROVE  StagesFit'
<1> DEFINE Fits(d) ==
        /\ pc[d] \in {"idle"} \union CreateStages \union CheckStages \union AlterStages
        /\ pc[d] = "idle" => ~moved[d]
        /\ pc[d] # "idle" => op[d].name \in Name /\ start[d] \in File /\ path \in File
        /\ pc[d] \in CreateStages => op[d].kind = "create" /\ op[d].network \in Network
        /\ pc[d] \in CheckStages \ AlterStages => op[d].kind \in {"change", "abandon"}
        /\ pc[d] \in AlterStages \ CheckStages => op[d].kind \in {"delete", "rename"}
        /\ pc[d] = "maintain" => op[d].kind \in {"change", "abandon", "delete", "rename"}
        /\ op[d].kind = "rename" => op[d].to \in Name \ {op[d].name}
        /\ pc[d] \in LastStages => conn[d] \in File
<1> USE DEF StagesFit, CreateStages, CheckStages, AlterStages, LastStages
<1>1. CASE UNCHANGED vars BY <1>1 DEF vars, process
<1>2. ASSUME NEW c \in Call, CallStep(c) PROVE StagesFit'
    <2>0. path' = path
        BY <1>2, FileKept
    <2>1. ASSUME NEW d \in Call, d # c PROVE Fits(d)'
        <3>1. /\ pc'[d] = pc[d] /\ op'[d] = op[d] /\ conn'[d] = conn[d]
              /\ start'[d] = start[d] /\ moved'[d] = moved[d]
            BY <1>2, <2>1, OthersKept
        <3>2. Fits(d)
            OBVIOUS
        <3> QED BY <2>0, <3>1, <3>2
    <2>2. Fits(c)'
        <3>1. ASSUME NEW kind \in Kind, NEW n \in Name, NEW to \in Name \union {None},
                     NEW net \in Network \union {None}, Begin(c, kind, n, to, net),
                     kind = "rename" => to \in Name \ {n}
              PROVE  /\ ~moved'[c] /\ start'[c] \in File /\ path' \in File
                     /\ op'[c].name = n /\ op'[c].kind = kind /\ op'[c].network = net
                     /\ op'[c].kind = "rename" => op'[c].to \in Name \ {op'[c].name}
            <4>1. /\ op'[c] = [kind |-> kind, name |-> n, to |-> to, network |-> net]
                  /\ start'[c] = CurrentFile /\ CurrentFile \in File
                BY <3>1, Began
            <4>2. path \in File
                BY <4>1, ConstantsAssumption DEF CurrentFile, PathFollowsPool
            <4>3. ~moved'[c]
                BY <3>1 DEF Begin
            <4> QED BY <2>0, <3>1, <4>1, <4>2, <4>3
        <3>2. CASE BeginStep(c)
            <4>1. CASE CallCreate(c)
                <5> PICK n \in Name, net \in Network :
                        Begin(c, "create", n, None, net) /\ Go(c, "network")
                    BY <4>1 DEF CallCreate
                <5>1. "create" \in Kind
                    BY DEF Kind
                <5>2. pc'[c] = "network"
                    BY DEF Go, Ranges
                <5>3. /\ ~moved'[c] /\ start'[c] \in File /\ path' \in File
                      /\ op'[c].name = n /\ op'[c].kind = "create" /\ op'[c].network = net
                    BY <3>1, <5>1
                <5> QED BY <5>2, <5>3
            <4>2. CASE CallChange(c) \/ CallAbandon(c)
                <5> PICK kind \in {"change", "abandon"}, n \in Name :
                        Begin(c, kind, n, None, None) /\ Go(c, "verify")
                    BY <4>2 DEF CallChange, CallAbandon, CallChecked
                <5>1. kind \in Kind
                    BY DEF Kind
                <5>2. pc'[c] = "verify"
                    BY DEF Go, Ranges
                <5>3. /\ ~moved'[c] /\ start'[c] \in File /\ path' \in File
                      /\ op'[c].name = n /\ op'[c].kind = kind
                    BY <3>1, <5>1
                <5> QED BY <5>2, <5>3
            <4>3. CASE CallDelete(c)
                <5> PICK n \in Name : Begin(c, "delete", n, None, None) /\ Go(c, "maintain")
                    BY <4>3 DEF CallDelete
                <5>1. "delete" \in Kind
                    BY DEF Kind
                <5>2. pc'[c] = "maintain"
                    BY DEF Go, Ranges
                <5>3. /\ ~moved'[c] /\ start'[c] \in File /\ path' \in File
                      /\ op'[c].name = n /\ op'[c].kind = "delete"
                    BY <3>1, <5>1
                <5> QED BY <5>2, <5>3
            <4>4. CASE CallRename(c)
                <5> PICK n \in Name, to \in Name :
                        n # to /\ Begin(c, "rename", n, to, None) /\ Go(c, "maintain")
                    BY <4>4 DEF CallRename
                <5>1. "rename" \in Kind
                    BY DEF Kind
                <5>2. pc'[c] = "maintain"
                    BY DEF Go, Ranges
                <5>3. /\ ~moved'[c] /\ start'[c] \in File /\ path' \in File
                      /\ op'[c].name = n /\ op'[c].kind = "rename"
                      /\ op'[c].to \in Name \ {op'[c].name}
                    BY <3>1, <5>1
                <5> QED BY <5>2, <5>3
            <4> QED BY <3>2, <4>1, <4>2, <4>3, <4>4 DEF BeginStep
        <3>3. CASE Return(c)
            BY <3>3, Returned DEF Idle
        <3>4. CASE WorkStep(c) /\ ~Return(c)
            <4>1. op' = op /\ start' = start /\ moved' = moved
                BY <3>4 DEF WorkStep, ApplyNetwork, Derive, Verify, BeginMaintenance, CheckSame,
                    StopScans, Connect, LockEverywhere, Alter, AlterIn
            <4>2. CASE Derive(c) \/ StopScans(c) \/ Connect(c)
                <5>1. CurrentFile \in File
                    BY <4>2, ConstantsAssumption
                       DEF Derive, StopScans, Connect, CurrentFile, PathFollowsPool
                <5> QED BY <2>0, <4>1, <4>2, <5>1 DEF Ranges, Derive, StopScans, Connect, Go
            <4>3. CASE ApplyNetwork(c) \/ Verify(c) \/ CheckSame(c)
                BY <2>0, <3>4, <4>1, <4>3 DEF Ranges, ApplyNetwork, Verify, CheckSame, Go
            <4>4. CASE BeginMaintenance(c)
                BY <2>0, <4>1, <4>4 DEF Ranges, BeginMaintenance, Go
            <4>5. CASE LockEverywhere(c) \/ Alter(c)
                BY <2>0, <4>1, <4>5 DEF Ranges, LockEverywhere, Alter, AlterIn, Go
            <4> QED BY <3>4, <4>2, <4>3, <4>4, <4>5 DEF WorkStep
        <3> QED BY <1>2, <3>2, <3>3, <3>4, Returns DEF CallStep
    <2> QED BY <2>1, <2>2
<1>3. CASE OtherStep
    <2>1. CASE Restart
        BY <2>1 DEF Restart, Idle
    <2>2. ASSUME NEW f \in File, SetDatabasePath(f) \/ \E n \in Name : Unlock(f, n)
          PROVE  StagesFit'
        <3>1. /\ UNCHANGED <<pc, op, conn, start>> /\ path' \in File
              /\ \A d \in Call : pc[d] = "idle" => ~moved'[d]
            BY <2>2 DEF SetDatabasePath, Unlock, Moves, Watching
        <3> QED BY <3>1
    <2>3. ASSUME NEW n \in Name, Lock(n) PROVE StagesFit'
        BY <2>3 DEF Lock, CloseIfUnused
    <2> QED BY <1>3, <2>1, <2>2, <2>3 DEF OtherStep
<1> QED BY <1>1, <1>2, <1>3, Steps

\* Nobody alters the account that an abandon under way has checked: the row it was
\* altered for would need the name's maintenance lock, and a row that is made or
\* renamed needs a free name.
LEMMA CheckedKept ==
    ASSUME Ranges, StagesFit, LockExcludes, CheckedStays, [Next]_vars,
           NEW d \in Call, op[d].kind = "abandon", pc[d] \in {"stop", "write"}, ~moved[d]
    PROVE  account'[start[d]][op[d].name] = checked[d]
<1>1. /\ start[d] \in File /\ op[d].name \in Name
      /\ account[start[d]][op[d].name] = checked[d] /\ checked[d] # None
    BY ConstantsAssumption DEF StagesFit, CheckedStays
<1>2. ASSUME NEW c \in Call, Insert(c)
      PROVE  account'[start[d]][op[d].name] = account[start[d]][op[d].name]
    <2>1. conn[c] \in File /\ op[c].name \in Name
        BY <1>2 DEF Insert, StagesFit, LastStages
    <2>2. account[conn[c]][op[c].name] = None
        BY <1>2 DEF Insert
    <2> QED BY <1>1, <1>2, <2>1, <2>2 DEF Insert, Ranges
<1>3. ASSUME NEW c \in Call, Alter(c)
      PROVE  account'[start[d]][op[d].name] = account[start[d]][op[d].name]
    <2>1. conn[c] \in File /\ op[c].name \in Name
        BY <1>3 DEF Alter, AlterIn, StagesFit, LastStages
    <2>2. op[c].kind # "abandon"
        BY <1>3 DEF Alter, AlterIn, StagesFit, AlterStages, CheckStages
    <2>3. op[c].name # op[d].name
        BY <1>3, <2>2 DEF Alter, AlterIn, LockExcludes, HoldStages
    <2>4. Removed(c, conn[c])[start[d]][op[d].name] = account[start[d]][op[d].name]
        BY <1>1, <2>1, <2>3 DEF Removed, Ranges
    <2>5. ASSUME op[c].kind = "rename", account[conn[c]][op[c].to] = None,
                 account' = [Removed(c, conn[c]) EXCEPT
                                ![conn[c]][op[c].to] = account[conn[c]][op[c].name]]
          PROVE  account'[start[d]][op[d].name] = account[start[d]][op[d].name]
        <3>1. op[c].to \in Name
            BY <2>5 DEF StagesFit
        <3>2. ~(conn[c] = start[d] /\ op[c].to = op[d].name)
            BY <1>1, <2>5
        <3>3. Removed(c, conn[c]) \in [File -> [Name -> 1 .. MaxId \union {None}]]
            BY <2>1 DEF Removed, Ranges
        <3> QED BY <1>1, <2>1, <2>4, <2>5, <3>1, <3>2, <3>3
    <2> QED BY <1>3, <2>4, <2>5 DEF Alter, AlterIn
<1> QED BY <1>1, <1>2, <1>3, AccountsKept

LEMMA CheckedStep ==
    ASSUME WalletInv, [Next]_vars
    PROVE  CheckedStays'
<1> USE DEF WalletInv, TypeOK
<1> DEFINE Stays(d) == op[d].kind = "abandon" =>
        /\ pc[d] \in {"maintain", "same", "stop", "write"} => checked[d] \in 1 .. MaxId
        /\ pc[d] \in {"stop", "write"} /\ ~moved[d] =>
              account[start[d]][op[d].name] = checked[d]
<1>1. CASE UNCHANGED vars BY <1>1 DEF vars, CheckedStays
<1>2. ASSUME NEW c \in Call, CallStep(c) PROVE CheckedStays'
    <2>1. ASSUME NEW d \in Call, d # c PROVE Stays(d)'
        <3>1. /\ pc'[d] = pc[d] /\ op'[d] = op[d] /\ start'[d] = start[d]
              /\ checked'[d] = checked[d] /\ moved'[d] = moved[d]
            BY <1>2, <2>1, OthersKept
        <3>2. Stays(d)
            BY DEF CheckedStays
        <3> QED BY <3>1, <3>2, CheckedKept
    <2>2. Stays(c)'
        <3>1. CASE BeginStep(c)
            <4>1. pc'[c] \in {"network", "verify"} \/ op'[c].kind \in {"delete", "rename"}
                BY <3>1 DEF BeginStep, CallCreate, CallChange, CallAbandon, CallChecked,
                    CallDelete, CallRename, Begin, Go, Ranges
            <4> QED BY <4>1
        <3>2. CASE Return(c)
            BY <3>2, Returned
        <3>3. CASE Verify(c)
            <4>1. start[c] \in File /\ op[c].name \in Name
                BY <3>3 DEF Verify, StagesFit
            <4>2. checked'[c] \in 1 .. MaxId /\ pc'[c] = "maintain"
                BY <3>3, <4>1 DEF Verify, Go, Ranges
            <4> QED BY <4>2
        <3>4. CASE BeginMaintenance(c)
            BY <3>4 DEF BeginMaintenance, Go, Ranges, CheckedStays
        <3>5. CASE CheckSame(c) /\ ~Return(c)
            <4>1. /\ pc[c] = "same" /\ account[CurrentFile][op[c].name] = checked[c]
                  /\ UNCHANGED <<op, checked, start, moved, account>>
                BY <3>5 DEF CheckSame, SameAccount
            <4>2. ~moved[c] => start[c] = CurrentFile
                BY <4>1 DEF StaysOnItsFile, Watching
            <4> QED BY <4>1, <4>2 DEF CheckedStays
        <3>6. CASE StopScans(c)
            BY <3>6 DEF StopScans, Go, Ranges, CheckedStays
        <3>7. CASE ApplyNetwork(c) \/ Derive(c) \/ Connect(c) \/ LockEverywhere(c) \/ Alter(c)
            <4>1. op[c].kind # "abandon"
                BY <3>7 DEF ApplyNetwork, Derive, Connect, LockEverywhere, Alter, AlterIn,
                    StagesFit, CreateStages, AlterStages, CheckStages
            <4>2. CASE op' = op
                BY <4>1, <4>2
            <4> QED BY <3>2, <3>7, <4>2 DEF ApplyNetwork, Derive, Connect, LockEverywhere, Alter,
                    AlterIn
        <3> QED BY <1>2, <3>1, <3>2, <3>3, <3>4, <3>5, <3>6, <3>7, Returns DEF CallStep, WorkStep
    <2> QED BY <2>1, <2>2 DEF CheckedStays
<1>3. CASE OtherStep
    <2>1. UNCHANGED account
        BY <1>3, OtherStepKeeps
    <2>2. CASE UNCHANGED <<pc, op, checked, start>> /\ \A d \in Call : moved[d] => moved'[d]
        BY <2>1, <2>2 DEF CheckedStays
    <2>3. CASE op' = [c \in Call |-> Idle]
        BY <2>3 DEF CheckedStays, Idle
    <2> QED BY <1>3, <2>2, <2>3 DEF OtherStep, SetDatabasePath, Unlock, Moves, Lock,
            CloseIfUnused, Restart
<1> QED BY <1>1, <1>2, <1>3, Steps

-----------------------------------------------------------------------------
(* The theorems *)

LEMMA WalletInit == Init => WalletInv
<1> SUFFICES ASSUME Init PROVE WalletInv
    OBVIOUS
<1>1. TypeOK
    BY TypeInit
<1>2. StagesFit
    BY DEF Init, StagesFit, Idle, CreateStages, CheckStages, AlterStages, LastStages
<1>3. PathFollowsPool /\ StaysOnItsFile /\ LockExcludes /\ CheckedStays /\ NetworkKept
    BY DEF Init, PathFollowsPool, StaysOnItsFile, Watching, LastStages, LockExcludes,
        HoldStages, CheckedStays, NetworkKept
<1> QED BY <1>1, <1>2, <1>3 DEF WalletInv

LEMMA WalletInvStep == WalletInv /\ [Next]_vars => WalletInv'
BY RangesStep, RowIdsStep, StagesStep, PathStep, FileStep, LockStep, CheckedStep, NetworkStep
   DEF WalletInv, TypeOK

LEMMA WalletInvariant == Spec => []WalletInv
BY WalletInit, WalletInvStep, PTL DEF Spec

\* The values are in their ranges, and a row id is given out once in a file,
\* whichever calls make, rename and delete wallets at the same time.
THEOREM WalletTypeCorrect == Spec => []TypeOK
<1>1. WalletInv => TypeOK
    BY DEF WalletInv
<1> QED BY <1>1, WalletInvariant, PTL

\* change_passphrase and abandon_send write in the database where they checked the
\* passphrase, and an abandon still finds there the account that it checked.
THEOREM CheckedIsWritten == Spec => []CheckedWalletIsWritten
<1>1. WalletInv => CheckedWalletIsWritten
    <2> SUFFICES ASSUME WalletInv, NEW c \in Call, pc[c] = "write", ~moved[c]
                 PROVE  /\ conn[c] = start[c]
                        /\ op[c].kind = "abandon" =>
                              account[conn[c]][op[c].name] = checked[c]
        BY DEF CheckedWalletIsWritten
    <2>1. conn[c] = start[c]
        BY DEF WalletInv, StaysOnItsFile, LastStages
    <2> QED BY <2>1 DEF WalletInv, CheckedStays
<1> QED BY <1>1, WalletInvariant, PTL

\* A create, delete or rename changes the database it was made on, and no other,
\* although locking the wallet may let the other engine record another path.
THEOREM ChangesStay == Spec => ChangesStayInTheirDatabase
<1>1. ASSUME WalletInv, [Next]_vars, NEW c \in Call, pc'[c] # pc[c], ~moved[c],
             NEW f \in File \ {start[c]}
      PROVE  account'[f] = account[f]
    <2>1. ASSUME NEW d \in Call, Insert(d) \/ Alter(d) PROVE account'[f] = account[f]
        <3>1. d = c
            BY <1>1, <2>1, OthersKept
               DEF WalletInv, TypeOK, CallStep, ReturnStep, WorkStep
        <3>2. pc[c] \in LastStages
            BY <2>1, <3>1 DEF Insert, Alter, AlterIn, LastStages
        <3>3. conn[c] = start[c] /\ conn[c] \in File
            BY <1>1, <3>2 DEF WalletInv, StaysOnItsFile, StagesFit
        <3> QED BY <1>1, <2>1, <3>1, <3>3
                DEF Insert, Alter, AlterIn, Removed, WalletInv, TypeOK, Ranges
    <2> QED BY <1>1, <2>1, AccountsKept
<1>2. WalletInv /\ [Next]_vars =>
        [\A c \in Call : pc'[c] # pc[c] /\ ~moved[c] =>
            \A f \in File \ {start[c]} : account'[f] = account[f]]_vars
    BY <1>1
<1> QED BY <1>2, WalletInvariant, PTL DEF Spec, ChangesStayInTheirDatabase

\* The wallets that one process makes are of one network, which stays until the app
\* ends, whichever calls race for it and fail.
THEOREM OneNetworkOnly == Spec => OneNetwork
<1>1. ASSUME WalletInv, [Next]_vars
      PROVE  /\ network' \in {network, None} \/ network = None
             /\ \A c \in Call : pc[c] = "insert" /\ account' # account /\ pc'[c] # pc[c] =>
                    op[c].network = network'
    <2>1. network' \in {network, None} \/ network = None
        <3>1. CASE UNCHANGED vars BY <3>1 DEF vars, process
        <3>2. CASE OtherStep
            BY <3>2 DEF OtherStep, SetDatabasePath, Unlock, Lock, CloseIfUnused, Restart
        <3>3. ASSUME NEW c \in Call, CallStep(c)
              PROVE  network' \in {network, None} \/ network = None
            <4>1. network' = network \/ ApplyNetwork(c)
                BY <3>3 DEF CallStep, BeginStep, CallCreate, CallChange, CallAbandon,
                    CallChecked, CallDelete, CallRename, Begin, ReturnStep, CreateFails,
                    VerifyFails, Write, LockFails, Insert, LockAgain, CloseIfUnused, WorkStep,
                    Derive, Verify, BeginMaintenance, CheckSame, StopScans, Connect,
                    LockEverywhere, Alter, AlterIn, process
            <4> QED BY <4>1 DEF ApplyNetwork, NetworkAllows
        <3> QED BY <1>1, <3>1, <3>2, <3>3, Steps
    <2>2. ASSUME NEW c \in Call, pc[c] = "insert", account' # account, pc'[c] # pc[c]
          PROVE  op[c].network = network'
        <3>1. PICK d \in Call : Insert(d) \/ Alter(d)
            BY <1>1, <2>2, AccountsKept
        <3>2. network' = network
            BY <3>1 DEF Insert, Alter, AlterIn, process
        <3> QED BY <1>1, <2>2, <3>2 DEF WalletInv, NetworkKept
    <2> QED BY <2>1, <2>2
<1>2. WalletInv /\ [Next]_vars =>
        [ /\ network' \in {network, None} \/ network = None
          /\ \A c \in Call : pc[c] = "insert" /\ account' # account /\ pc'[c] # pc[c] =>
                op[c].network = network' ]_vars
    BY <1>1
<1> QED BY <1>2, WalletInvariant, PTL DEF Spec, OneNetwork

=============================================================================
