--------------------------- MODULE ScanSlotProofs ---------------------------
(***************************************************************************)
(* Proofs about ScanSlots, for any number of scans, callers and wallets,   *)
(* with or without a panicking scanner.                                    *)
(***************************************************************************)
EXTENDS ScanSlots, TLAPS

-----------------------------------------------------------------------------
(* The inductive invariant *)

\* A scan that has its slot, or waits for the one it took it from.
InLine == {"queued", "rollback", "scanning"}
\* A scan whose task entered the slot and has not returned.
Entered == InLine \cup {"clearing", "panicked"}
\* A scan that may have been cancelled or replaced.
Slotted == Entered \cup {"leaving", "ending"}

\* A handle's entry is where its task is; a task that returned fired `stopped`.
HandlesInPlace ==
  \A s \in Scan :
    /\ s \in issued \cup stopped_before_start => pc[s] = "issued"
    /\ s \in issued => s \notin stopped_before_start
    /\ s \in starting => pc[s] \in {"admitted", "waiting", "claiming", "leaving"}
    /\ s \in stopped => pc[s] \in {"done", "panicked"}

\* A caller's stage goes with its call.
CallersInPlace ==
  \A c \in Caller :
    /\ at[c] = "idle" => kind[c] = None
    /\ at[c] = "gate" => kind[c] = "lock"
    /\ at[c] = "stop" => kind[c] \in {"lock", "maintenance"}
    /\ at[c] = "write" => kind[c] = "maintenance"
    /\ at[c] = "wait" /\ kind[c] = "stop_scan" => target[c] \in Scan

\* The scan in a slot is one that entered it, and a replaced scan is in no slot.
SlotsInPlace ==
  /\ \A w \in Wallet : running[w] # None => of[running[w]] = w /\ pc[running[w]] \in Entered
  /\ \A s \in Scan :
       /\ replacement[s] # None => pc[s] \in Slotted /\ running[of[s]] # s
       /\ pc[s] \in InLine /\ running[of[s]] # s => replacement[s] # None

\* A token's state and what is remembered of it agree.
TokensInPlace ==
  \A s \in Scan :
    /\ s \in cancelled <=> cause[s] # None
    /\ s \in superseded <=> cause[s] = "replaced"
    /\ s \in superseded => replacement[s] # None
    /\ s \in cancelled => pc[s] \in Slotted

\* The terminal event a scan is about to send is the one its token asks for.
OutcomesInPlace ==
  \A s \in Scan :
    /\ outcome[s] = "Superseded" => s \in superseded
    /\ outcome[s] = "Cancelled" => s \notin superseded
    /\ outcome[s] = "Cancelled" /\ running[of[s]] = s => s \in cancelled
    /\ outcome[s] # None => pc[s] \in {"clearing", "leaving", "ending"}

\* A wallet's lock is held by the scan that claims its slot, or by the maintenance that
\* took it.
LocksHeld ==
  /\ \A s \in Scan : pc[s] = "claiming" => maintenance[of[s]] = s
  /\ \A c \in Caller : kind[c] = "maintenance" => maintenance[on[c]] = c

\* A replaced scan that still runs is waited for by the scan that replaced it.
ReplacementWaits ==
  \A s \in superseded : pc[s] # "panicked" =>
    /\ pc[replacement[s]] = "queued"
    /\ previous[replacement[s]] = s
    /\ priority[s] = "Foreground" => priority[replacement[s]] = "Foreground"

\* rank orders each wallet's scans in line as they took the slot: the last is in it, and
\* whoever is behind another waits for one that is not before that one.
InOrder(rank) ==
  /\ \A s, t \in Scan :
       pc[s] \in InLine /\ pc[t] \in InLine /\ of[s] = of[t] /\ s # t => rank[s] # rank[t]
  /\ \A s, t \in Scan :
       pc[s] \in InLine /\ pc[t] \in InLine /\ of[s] = of[t] /\ rank[s] < rank[t] =>
         /\ pc[t] = "queued"
         /\ previous[t] \in Scan
         /\ of[previous[t]] = of[t] /\ pc[previous[t]] \in InLine
         /\ rank[s] <= rank[previous[t]]
  /\ \A s \in Scan :
       pc[s] \in InLine =>
         /\ running[of[s]] \in Scan
         /\ pc[running[of[s]]] \in InLine
         /\ rank[s] <= rank[running[of[s]]]

\* There is such an order.
Queued == \E rank \in [Scan -> Nat] : InOrder(rank)

\* A maintenance operation waits for whoever is in the slot, and writes when nobody is.
MaintenanceWaits ==
  \A c \in Caller :
    /\ at[c] = "wait" /\ kind[c] = "maintenance" => running[on[c]] \in {target[c], None}
    /\ at[c] = "write" => \A s \in Scan : of[s] = on[c] => pc[s] \notin InLine

\* A scan whose stop returned has no entry to claim a slot with, unless it was replaced.
StopsKept ==
  \A s \in stop_returned :
    /\ pc[s] \notin {"none", "issued"}
    /\ replacement[s] = None => s \notin starting /\ pc[s] \notin InLine

SlotInv ==
  /\ TypeOK
  /\ HandlesInPlace
  /\ CallersInPlace
  /\ SlotsInPlace
  /\ TokensInPlace
  /\ OutcomesInPlace
  /\ LocksHeld
  /\ ReplacementWaits
  /\ Queued
  /\ MaintenanceWaits
  /\ StopsKept
  /\ ScanHasSession

-----------------------------------------------------------------------------
(* Type correctness *)

LEMMA TypeInit == Init => TypeOK
  BY DEF Init, TypeOK, Pc, Priority

LEMMA CallersInit == Init => CallersInPlace
  BY DEF Init, CallersInPlace

\* Cancelling a token and cancelling a wallet's scans keep their types.
LEMMA CancelTyped ==
  ASSUME TypeOK, NEW s \in Scan, NEW r \in Cause, CancelToken(s, r)
  PROVE  /\ cancelled' \subseteq Scan
         /\ cause' \in [Scan -> Cause \cup {None}]
  BY DEF TypeOK, CancelToken

LEMMA CancelWalletTyped ==
  ASSUME TypeOK, NEW w \in Wallet, CancelWalletScans(w)
  PROVE  /\ starting' \subseteq Scan
         /\ cancelled' \subseteq Scan
         /\ cause' \in [Scan -> Cause \cup {None}]
<1>1. running[w] = None \/ running[w] \in Scan
  BY DEF TypeOK
<1> QED BY <1>1, CancelTyped DEF TypeOK, CancelWalletScans, Cause

\* So does taking a slot.
LEMMA TakeTyped ==
  ASSUME TypeOK, NEW s \in Scan, TakeSlot(s)
  PROVE  /\ running' \in [Wallet -> Scan \cup {None}]
         /\ previous' \in [Scan -> Scan \cup {None}]
         /\ cancelled' \subseteq Scan
         /\ superseded' \subseteq Scan
         /\ replacement' \in [Scan -> Scan \cup {None}]
         /\ cause' \in [Scan -> Cause \cup {None}]
<1>1. of[s] \in Wallet /\ running[of[s]] \in Scan \cup {None}
  BY DEF TypeOK
<1>2. CASE running[of[s]] = None
  BY <1>1, <1>2 DEF TypeOK, TakeSlot
<1>3. CASE running[of[s]] \in Scan /\ running[of[s]] # None
  BY <1>1, <1>3, CancelTyped DEF TypeOK, TakeSlot, Cause
<1> QED BY <1>1, <1>2, <1>3

LEMMA TypeStep ==
  ASSUME TypeOK, CallersInPlace, [Next]_vars
  PROVE  TypeOK'
<1> USE DEF Goto, Move, SetOutcome, fixed, handles, slots, scans, callers
<1>1. CASE UNCHANGED vars BY <1>1 DEF vars, TypeOK
<1>2. ASSUME NEW s \in Scan, CreateHandle(s) \/ Claim(s) \/ CheckSession(s) \/ RefuseStart(s)
             \/ WaitMaintenance(s)
      PROVE  TypeOK'
  <2>1. CASE CreateHandle(s) BY <2>1 DEF CreateHandle, TypeOK, Pc
  <2>2. CASE Claim(s) BY <2>2 DEF Claim, TypeOK, Pc, Terminal
  <2>3. CASE CheckSession(s) BY <2>3 DEF CheckSession, TypeOK, Pc, Admitted
  <2>4. CASE RefuseStart(s) BY <2>4 DEF RefuseStart, TypeOK, Pc, Terminal
  <2>5. CASE WaitMaintenance(s) BY <2>5 DEF WaitMaintenance, TypeOK, Pc, Admitted
  <2> QED BY <1>2, <2>1, <2>2, <2>3, <2>4, <2>5
<1>3. ASSUME NEW s \in Scan, ClaimSlot(s) PROVE TypeOK'
  <2>1. \/ UNCHANGED <<slots, previous>>
        \/ TakeSlot(s)
    BY <1>3 DEF ClaimSlot
  <2>2. CASE UNCHANGED <<slots, previous>>
    BY <1>3, <2>2 DEF ClaimSlot, TypeOK, Pc, Terminal, Admitted
  <2>3. CASE TakeSlot(s)
    <3>1. /\ starting' \subseteq Scan
          /\ maintenance' \in [Wallet -> Scan \cup Caller \cup {None}]
          /\ pc' \in [Scan -> Pc]
          /\ outcome' \in [Scan -> Terminal \cup {None}]
      BY <1>3 DEF ClaimSlot, TypeOK, Pc, Terminal, Admitted
    <3> QED BY <1>3, <2>3, <3>1, TakeTyped DEF ClaimSlot, TypeOK
  <2> QED BY <2>1, <2>2, <2>3
<1>4. ASSUME NEW s \in Scan, EnterSlot(s) \/ FinishRollback(s) \/ ScannerEnds(s) PROVE TypeOK'
  <2>1. StoppedEvent(s) \in Terminal
    BY DEF StoppedEvent, Terminal
  <2>2. CASE EnterSlot(s) BY <2>1, <2>2 DEF EnterSlot, TypeOK, Pc, Admitted, Writing
  <2>3. CASE FinishRollback(s) BY <2>1, <2>3 DEF FinishRollback, TypeOK, Pc, Admitted, Terminal
  <2>4. CASE ScannerEnds(s) BY <2>4 DEF ScannerEnds, TypeOK, Pc, Terminal
  <2> QED BY <1>4, <2>2, <2>3, <2>4
<1>5. ASSUME NEW s \in Scan, CloseStream(s) \/ ClearSlot(s) \/ LeaveStarting(s) \/ Return(s)
             \/ Panic(s)
      PROVE  TypeOK'
  <2>1. CASE CloseStream(s) BY <2>1, CancelTyped DEF CloseStream, TypeOK, Cause
  <2>2. CASE ClearSlot(s) BY <2>2 DEF ClearSlot, TypeOK, Pc
  <2>3. CASE LeaveStarting(s) BY <2>3 DEF LeaveStarting, TypeOK, Pc
  <2>4. CASE Return(s) BY <2>4 DEF Return, DropController, TypeOK, Pc, Priority
  <2>5. CASE Panic(s) BY <2>5 DEF Panic, TypeOK, Pc
  <2> QED BY <1>5, <2>1, <2>2, <2>3, <2>4, <2>5
<1>6. ASSUME NEW c \in Caller, NEW s \in Scan, StopScan(c, s) PROVE TypeOK'
  <2>1. CASE StopIssued(c, s) BY <1>6, <2>1 DEF StopScan, StopIssued, TypeOK
  <2>2. CASE StopStarting(c, s) BY <1>6, <2>2 DEF StopScan, StopStarting, TypeOK
  <2>3. CASE StopRunning(c, s) BY <1>6, <2>3, CancelTyped DEF StopScan, StopRunning, TypeOK,
          Cause, Call
  <2>4. CASE StopOther(c, s) BY <1>6, <2>4 DEF StopScan, StopOther, TypeOK
  <2> QED BY <1>6, <2>1, <2>2, <2>3, <2>4 DEF StopScan
<1>7. ASSUME NEW c \in Caller, NEW w \in Wallet, LockSession(c, w) \/ BeginMaintenance(c, w)
      PROVE  TypeOK'
  BY <1>7 DEF LockSession, BeginMaintenance, TypeOK, Call
<1>8. ASSUME NEW c \in Caller, CallerStep(c) PROVE TypeOK'
  <2>1. on[c] \in Wallet
    BY DEF TypeOK
  <2>2. CASE CancelUnderGate(c)
    BY <2>1, <2>2, CancelWalletTyped DEF CancelUnderGate, CancelWalletScans, TypeOK
  <2>3. CASE StopWalletScans(c)
    BY <2>1, <2>3, CancelWalletTyped DEF StopWalletScans, CancelWalletScans, TypeOK
  <2>4. CASE WaitStopped(c)
    <3>1. stop_returned' \subseteq Scan
      BY <2>4 DEF WaitStopped, TypeOK, CallersInPlace
    <3> QED BY <2>4, <3>1 DEF WaitStopped, TypeOK
  <2>5. CASE EndMaintenance(c) BY <2>1, <2>5 DEF EndMaintenance, TypeOK
  <2> QED BY <1>8, <2>2, <2>3, <2>4, <2>5 DEF CallerStep
<1>9. ASSUME NEW w \in Wallet, UnlockSession(w) PROVE TypeOK'
  BY <1>9 DEF UnlockSession, TypeOK
<1> QED BY <1>1, <1>2, <1>3, <1>4, <1>5, <1>6, <1>7, <1>8, <1>9 DEF Next, ScanStep

-----------------------------------------------------------------------------
(* Each part of the invariant is kept by every step *)

\* An entry is added, moved and removed with the task it is for.
LEMMA HandlesStep ==
  ASSUME TypeOK, HandlesInPlace, [Next]_vars
  PROVE  HandlesInPlace'
<1> USE DEF TypeOK, HandlesInPlace, Goto, Move, SetOutcome, fixed, handles, slots, scans, callers
<1>1. CASE UNCHANGED vars BY <1>1 DEF vars
<1>2. ASSUME NEW s \in Scan, Claim(s) PROVE HandlesInPlace'
  BY <1>2 DEF Claim
<1>3. ASSUME NEW s \in Scan, ClaimSlot(s) PROVE HandlesInPlace'
  BY <1>3 DEF ClaimSlot
<1>4. ASSUME NEW s \in Scan, EnterSlot(s) PROVE HandlesInPlace'
  BY <1>4 DEF EnterSlot, Writing
<1>5. ASSUME NEW s \in Scan, Return(s) PROVE HandlesInPlace'
  BY <1>5 DEF Return, DropController
<1>6. ASSUME NEW s \in Scan, Panic(s) PROVE HandlesInPlace'
  BY <1>6 DEF Panic
<1>7. ASSUME NEW s \in Scan, CreateHandle(s) \/ CheckSession(s) \/ RefuseStart(s)
             \/ WaitMaintenance(s) \/ FinishRollback(s) \/ CloseStream(s)
             \/ ScannerEnds(s) \/ ClearSlot(s) \/ LeaveStarting(s)
      PROVE  HandlesInPlace'
  BY <1>7 DEF CreateHandle, CheckSession, RefuseStart, WaitMaintenance, FinishRollback,
     CloseStream, ScannerEnds, ClearSlot, LeaveStarting
<1>8. ASSUME NEW c \in Caller, NEW s \in Scan, StopScan(c, s) PROVE HandlesInPlace'
  BY <1>8 DEF StopScan, StopIssued, StopStarting, StopRunning, StopOther
<1>9. ASSUME NEW c \in Caller, CancelUnderGate(c) PROVE HandlesInPlace'
  BY <1>9 DEF CancelUnderGate, CancelWalletScans
<1>10. ASSUME NEW c \in Caller, StopWalletScans(c) PROVE HandlesInPlace'
  BY <1>10 DEF StopWalletScans, CancelWalletScans
<1>11. ASSUME NEW c \in Caller, WaitStopped(c) \/ EndMaintenance(c)
      PROVE  HandlesInPlace'
  BY <1>11 DEF WaitStopped, EndMaintenance
<1>12. ASSUME NEW c \in Caller, NEW w \in Wallet, LockSession(c, w) \/ BeginMaintenance(c, w)
      PROVE  HandlesInPlace'
  BY <1>12 DEF LockSession, BeginMaintenance
<1>13. ASSUME NEW w \in Wallet, UnlockSession(w) PROVE HandlesInPlace'
  BY <1>13 DEF UnlockSession
<1> QED BY <1>1, <1>2, <1>3, <1>4, <1>5, <1>6, <1>7, <1>8, <1>9, <1>10, <1>11, <1>12,
         <1>13 DEF Next, ScanStep, CallerStep

\* A caller's stages follow its call.
LEMMA CallersStep ==
  ASSUME TypeOK, CallersInPlace, [Next]_vars
  PROVE  CallersInPlace'
<1> USE DEF TypeOK, CallersInPlace, Goto, Move, SetOutcome, fixed, handles, slots, scans, callers
<1>1. CASE UNCHANGED vars BY <1>1 DEF vars
<1>2. ASSUME NEW s \in Scan, CreateHandle(s) \/ Claim(s) \/ CheckSession(s)
             \/ RefuseStart(s) \/ WaitMaintenance(s) \/ ClaimSlot(s)
             \/ EnterSlot(s) \/ FinishRollback(s) \/ CloseStream(s)
             \/ ScannerEnds(s) \/ ClearSlot(s) \/ LeaveStarting(s)
             \/ Return(s) \/ Panic(s)
      PROVE  CallersInPlace'
  BY <1>2 DEF CreateHandle, Claim, CheckSession, RefuseStart, WaitMaintenance, ClaimSlot,
     EnterSlot, FinishRollback, CloseStream, ScannerEnds, ClearSlot, LeaveStarting, Return,
     Panic
<1>3. ASSUME NEW c \in Caller, NEW s \in Scan, StopScan(c, s) PROVE CallersInPlace'
  BY <1>3 DEF StopScan, StopIssued, StopStarting, StopRunning, StopOther
<1>4. ASSUME NEW c \in Caller, WaitStopped(c) PROVE CallersInPlace'
  BY <1>4 DEF WaitStopped
<1>5. ASSUME NEW c \in Caller, CancelUnderGate(c) \/ StopWalletScans(c) \/ EndMaintenance(c)
      PROVE  CallersInPlace'
  BY <1>5 DEF CancelUnderGate, StopWalletScans, EndMaintenance
<1>6. ASSUME NEW c \in Caller, NEW w \in Wallet, LockSession(c, w) \/ BeginMaintenance(c, w)
      PROVE  CallersInPlace'
  BY <1>6 DEF LockSession, BeginMaintenance
<1>7. ASSUME NEW w \in Wallet, UnlockSession(w) PROVE CallersInPlace'
  BY <1>7 DEF UnlockSession
<1> QED BY <1>1, <1>2, <1>3, <1>4, <1>5, <1>6, <1>7 DEF Next, ScanStep, CallerStep

\* A slot is filled by the scan that takes it and emptied by the scan that leaves it.
LEMMA SlotsStep ==
  ASSUME TypeOK, HandlesInPlace, SlotsInPlace, [Next]_vars
  PROVE  SlotsInPlace'
<1> USE DEF TypeOK, HandlesInPlace, SlotsInPlace, InLine, Entered, Slotted, Goto, Move,
            SetOutcome, fixed, handles, slots, scans, callers
<1>1. CASE UNCHANGED vars BY <1>1 DEF vars
<1>2. ASSUME NEW s \in Scan, ClaimSlot(s) PROVE SlotsInPlace'
  <2>1. CASE s \notin starting \/ Refused(s)
    BY <1>2, <2>1 DEF ClaimSlot
  <2>2. CASE s \in starting /\ ~Refused(s) /\ running[of[s]] = None
    BY <1>2, <2>2, ConstantsAssumption DEF ClaimSlot, TakeSlot
  <2>3. CASE s \in starting /\ ~Refused(s) /\ running[of[s]] # None
    BY <1>2, <2>3, ConstantsAssumption DEF ClaimSlot, TakeSlot
  <2> QED BY <2>1, <2>2, <2>3
<1>3. ASSUME NEW s \in Scan, EnterSlot(s) PROVE SlotsInPlace'
  <2>1. CASE s \in cancelled BY <1>3, <2>1 DEF EnterSlot
  <2>2. CASE s \notin cancelled
    <3>1. PICK l \in Writing : pc' = [pc EXCEPT ![s] = l]
      BY <1>3, <2>2 DEF EnterSlot
    <3>2. l \in InLine
      BY DEF Writing
    <3> QED BY <1>3, <3>1, <3>2 DEF EnterSlot
  <2> QED BY <2>1, <2>2
<1>4. ASSUME NEW s \in Scan, ClearSlot(s) PROVE SlotsInPlace'
  BY <1>4, ConstantsAssumption DEF ClearSlot
<1>5. ASSUME NEW s \in Scan, Return(s) PROVE SlotsInPlace'
  BY <1>5 DEF Return, DropController
<1>6. ASSUME NEW s \in Scan, Panic(s) PROVE SlotsInPlace'
  BY <1>6 DEF Panic
<1>7. ASSUME NEW s \in Scan, CreateHandle(s) \/ Claim(s) \/ CheckSession(s)
             \/ RefuseStart(s) \/ WaitMaintenance(s) \/ FinishRollback(s)
             \/ CloseStream(s) \/ ScannerEnds(s) \/ LeaveStarting(s)
      PROVE  SlotsInPlace'
  BY <1>7 DEF CreateHandle, Claim, CheckSession, RefuseStart, WaitMaintenance, FinishRollback,
     CloseStream, ScannerEnds, LeaveStarting
<1>8. ASSUME NEW c \in Caller, NEW s \in Scan, StopScan(c, s) PROVE SlotsInPlace'
  BY <1>8 DEF StopScan, StopIssued, StopStarting, StopRunning, StopOther
<1>9. ASSUME NEW c \in Caller, CancelUnderGate(c) PROVE SlotsInPlace'
  BY <1>9 DEF CancelUnderGate, CancelWalletScans
<1>10. ASSUME NEW c \in Caller, StopWalletScans(c) PROVE SlotsInPlace'
  BY <1>10 DEF StopWalletScans, CancelWalletScans
<1>11. ASSUME NEW c \in Caller, WaitStopped(c) \/ EndMaintenance(c)
      PROVE  SlotsInPlace'
  BY <1>11 DEF WaitStopped, EndMaintenance
<1>12. ASSUME NEW c \in Caller, NEW w \in Wallet, LockSession(c, w) \/ BeginMaintenance(c, w)
      PROVE  SlotsInPlace'
  BY <1>12 DEF LockSession, BeginMaintenance
<1>13. ASSUME NEW w \in Wallet, UnlockSession(w) PROVE SlotsInPlace'
  BY <1>13 DEF UnlockSession
<1> QED BY <1>1, <1>2, <1>3, <1>4, <1>5, <1>6, <1>7, <1>8, <1>9, <1>10, <1>11, <1>12,
         <1>13 DEF Next, ScanStep, CallerStep

\* A token is cancelled for one reason, kept until its scan returned.
LEMMA TokensStep ==
  ASSUME TypeOK, HandlesInPlace, SlotsInPlace, TokensInPlace, [Next]_vars
  PROVE  TokensInPlace'
<1> USE DEF TypeOK, HandlesInPlace, SlotsInPlace, TokensInPlace, CancelToken, InLine, Entered,
            Slotted, Cause, Goto, Move, SetOutcome, fixed, handles, slots, scans, callers
<1>1. CASE UNCHANGED vars BY <1>1 DEF vars
<1>2. ASSUME NEW s \in Scan, ClaimSlot(s) PROVE TokensInPlace'
  <2>1. CASE s \notin starting \/ Refused(s)
    BY <1>2, <2>1 DEF ClaimSlot
  <2>2. CASE s \in starting /\ ~Refused(s) /\ running[of[s]] = None
    BY <1>2, <2>2, ConstantsAssumption DEF ClaimSlot, TakeSlot
  <2>3. CASE s \in starting /\ ~Refused(s) /\ running[of[s]] # None
    BY <1>2, <2>3, ConstantsAssumption DEF ClaimSlot, TakeSlot
  <2> QED BY <2>1, <2>2, <2>3
<1>3. ASSUME NEW s \in Scan, EnterSlot(s) PROVE TokensInPlace'
  BY <1>3 DEF EnterSlot, Writing
<1>4. ASSUME NEW s \in Scan, CloseStream(s) PROVE TokensInPlace'
  BY <1>4, ConstantsAssumption DEF CloseStream
<1>5. ASSUME NEW s \in Scan, Return(s) PROVE TokensInPlace'
  BY <1>5, ConstantsAssumption DEF Return, DropController
<1>6. ASSUME NEW s \in Scan, Panic(s) PROVE TokensInPlace'
  BY <1>6 DEF Panic
<1>7. ASSUME NEW s \in Scan, CreateHandle(s) \/ Claim(s) \/ CheckSession(s)
             \/ RefuseStart(s) \/ WaitMaintenance(s) \/ FinishRollback(s)
             \/ ScannerEnds(s) \/ ClearSlot(s) \/ LeaveStarting(s)
      PROVE  TokensInPlace'
  BY <1>7 DEF CreateHandle, Claim, CheckSession, RefuseStart, WaitMaintenance, FinishRollback,
     ScannerEnds, ClearSlot, LeaveStarting
<1>8. ASSUME NEW c \in Caller, NEW s \in Scan, StopScan(c, s) PROVE TokensInPlace'
  BY <1>8, ConstantsAssumption DEF StopScan, StopIssued, StopStarting, StopRunning, StopOther
<1>9. ASSUME NEW c \in Caller, CancelUnderGate(c) PROVE TokensInPlace'
  BY <1>9, ConstantsAssumption DEF CancelUnderGate, CancelWalletScans
<1>10. ASSUME NEW c \in Caller, StopWalletScans(c) PROVE TokensInPlace'
  BY <1>10, ConstantsAssumption DEF StopWalletScans, CancelWalletScans
<1>11. ASSUME NEW c \in Caller, WaitStopped(c) \/ EndMaintenance(c)
      PROVE  TokensInPlace'
  BY <1>11 DEF WaitStopped, EndMaintenance
<1>12. ASSUME NEW c \in Caller, NEW w \in Wallet, LockSession(c, w) \/ BeginMaintenance(c, w)
      PROVE  TokensInPlace'
  BY <1>12 DEF LockSession, BeginMaintenance
<1>13. ASSUME NEW w \in Wallet, UnlockSession(w) PROVE TokensInPlace'
  BY <1>13 DEF UnlockSession
<1> QED BY <1>1, <1>2, <1>3, <1>4, <1>5, <1>6, <1>7, <1>8, <1>9, <1>10, <1>11, <1>12,
         <1>13 DEF Next, ScanStep, CallerStep

\* A scan ends Superseded when it was replaced, and Cancelled when it was stopped otherwise.
LEMMA OutcomesStep ==
  ASSUME TypeOK, HandlesInPlace, SlotsInPlace, TokensInPlace, OutcomesInPlace, [Next]_vars
  PROVE  OutcomesInPlace'
<1> USE DEF TypeOK, HandlesInPlace, SlotsInPlace, TokensInPlace, OutcomesInPlace, CancelToken,
            StoppedEvent, InLine, Entered, Slotted, Cause, Terminal, Goto, Move, SetOutcome,
            fixed, handles, slots, scans, callers
<1>1. CASE UNCHANGED vars BY <1>1 DEF vars
<1>2. ASSUME NEW s \in Scan, Claim(s) PROVE OutcomesInPlace'
  BY <1>2, ConstantsAssumption DEF Claim
<1>3. ASSUME NEW s \in Scan, ClaimSlot(s) PROVE OutcomesInPlace'
  <2>1. CASE s \notin starting \/ Refused(s)
    BY <1>3, <2>1, ConstantsAssumption DEF ClaimSlot
  <2>2. CASE s \in starting /\ ~Refused(s) /\ running[of[s]] = None
    BY <1>3, <2>2, ConstantsAssumption DEF ClaimSlot, TakeSlot
  <2>3. CASE s \in starting /\ ~Refused(s) /\ running[of[s]] # None
    BY <1>3, <2>3, ConstantsAssumption DEF ClaimSlot, TakeSlot
  <2> QED BY <2>1, <2>2, <2>3
<1>4. ASSUME NEW s \in Scan, EnterSlot(s) PROVE OutcomesInPlace'
  BY <1>4 DEF EnterSlot, Writing
<1>5. ASSUME NEW s \in Scan, FinishRollback(s) PROVE OutcomesInPlace'
  BY <1>5 DEF FinishRollback
<1>6. ASSUME NEW s \in Scan, CloseStream(s) PROVE OutcomesInPlace'
  BY <1>6, ConstantsAssumption DEF CloseStream
<1>7. ASSUME NEW s \in Scan, ScannerEnds(s) PROVE OutcomesInPlace'
  BY <1>7 DEF ScannerEnds
<1>8. ASSUME NEW s \in Scan, ClearSlot(s) PROVE OutcomesInPlace'
  BY <1>8, ConstantsAssumption DEF ClearSlot
<1>9. ASSUME NEW s \in Scan, Return(s) PROVE OutcomesInPlace'
  BY <1>9, ConstantsAssumption DEF Return, DropController
<1>10. ASSUME NEW s \in Scan, Panic(s) PROVE OutcomesInPlace'
  BY <1>10 DEF Panic
<1>11. ASSUME NEW s \in Scan, CreateHandle(s) \/ CheckSession(s) \/ RefuseStart(s)
             \/ WaitMaintenance(s) \/ LeaveStarting(s)
      PROVE  OutcomesInPlace'
  BY <1>11 DEF CreateHandle, CheckSession, RefuseStart, WaitMaintenance, LeaveStarting
<1>12. ASSUME NEW c \in Caller, NEW s \in Scan, StopScan(c, s) PROVE OutcomesInPlace'
  BY <1>12, ConstantsAssumption DEF StopScan, StopIssued, StopStarting, StopRunning, StopOther
<1>13. ASSUME NEW c \in Caller, CancelUnderGate(c) PROVE OutcomesInPlace'
  BY <1>13, ConstantsAssumption DEF CancelUnderGate, CancelWalletScans
<1>14. ASSUME NEW c \in Caller, StopWalletScans(c) PROVE OutcomesInPlace'
  BY <1>14, ConstantsAssumption DEF StopWalletScans, CancelWalletScans
<1>15. ASSUME NEW c \in Caller, WaitStopped(c) \/ EndMaintenance(c)
      PROVE  OutcomesInPlace'
  BY <1>15 DEF WaitStopped, EndMaintenance
<1>16. ASSUME NEW c \in Caller, NEW w \in Wallet, LockSession(c, w) \/ BeginMaintenance(c, w)
      PROVE  OutcomesInPlace'
  BY <1>16 DEF LockSession, BeginMaintenance
<1>17. ASSUME NEW w \in Wallet, UnlockSession(w) PROVE OutcomesInPlace'
  BY <1>17 DEF UnlockSession
<1> QED BY <1>1, <1>2, <1>3, <1>4, <1>5, <1>6, <1>7, <1>8, <1>9, <1>10, <1>11, <1>12,
         <1>13, <1>14, <1>15, <1>16, <1>17 DEF Next, ScanStep, CallerStep

\* A wallet's lock is given up by whoever holds it, and by nobody else.
LEMMA LocksStep ==
  ASSUME TypeOK, CallersInPlace, LocksHeld, [Next]_vars
  PROVE  LocksHeld'
<1> USE DEF TypeOK, CallersInPlace, LocksHeld, Goto, Move, SetOutcome, fixed, handles, slots,
            scans, callers
<1>1. CASE UNCHANGED vars BY <1>1 DEF vars
<1>2. ASSUME NEW s \in Scan, WaitMaintenance(s) PROVE LocksHeld'
  BY <1>2, ConstantsAssumption DEF WaitMaintenance
<1>3. ASSUME NEW s \in Scan, ClaimSlot(s) PROVE LocksHeld'
  BY <1>3, ConstantsAssumption DEF ClaimSlot
<1>4. ASSUME NEW s \in Scan, EnterSlot(s) PROVE LocksHeld'
  BY <1>4 DEF EnterSlot, Writing
<1>5. ASSUME NEW s \in Scan, CreateHandle(s) \/ Claim(s) \/ CheckSession(s)
             \/ RefuseStart(s) \/ FinishRollback(s) \/ CloseStream(s)
             \/ ScannerEnds(s) \/ ClearSlot(s) \/ LeaveStarting(s)
             \/ Return(s) \/ Panic(s)
      PROVE  LocksHeld'
  BY <1>5 DEF CreateHandle, Claim, CheckSession, RefuseStart, FinishRollback, CloseStream,
     ScannerEnds, ClearSlot, LeaveStarting, Return, Panic
<1>6. ASSUME NEW c \in Caller, NEW s \in Scan, StopScan(c, s) PROVE LocksHeld'
  BY <1>6, ConstantsAssumption DEF StopScan, StopIssued, StopStarting, StopRunning, StopOther
<1>7. ASSUME NEW c \in Caller, WaitStopped(c) PROVE LocksHeld'
  BY <1>7, ConstantsAssumption DEF WaitStopped, Call
<1>8. ASSUME NEW c \in Caller, EndMaintenance(c) PROVE LocksHeld'
  BY <1>8, ConstantsAssumption DEF EndMaintenance, CallersInPlace, Call
<1>9. ASSUME NEW c \in Caller, CancelUnderGate(c) \/ StopWalletScans(c)
      PROVE  LocksHeld'
  BY <1>9 DEF CancelUnderGate, StopWalletScans
<1>10. ASSUME NEW c \in Caller, NEW w \in Wallet, LockSession(c, w) PROVE LocksHeld'
  BY <1>10 DEF LockSession
<1>11. ASSUME NEW c \in Caller, NEW w \in Wallet, BeginMaintenance(c, w) PROVE LocksHeld'
  BY <1>11, ConstantsAssumption DEF BeginMaintenance
<1>12. ASSUME NEW w \in Wallet, UnlockSession(w) PROVE LocksHeld'
  BY <1>12 DEF UnlockSession
<1> QED BY <1>1, <1>2, <1>3, <1>4, <1>5, <1>6, <1>7, <1>8, <1>9, <1>10, <1>11, <1>12 DEF
         Next, ScanStep, CallerStep

\* Whoever replaced a scan waits until that scan has stopped.
LEMMA WaitsStep ==
  ASSUME TypeOK, HandlesInPlace, SlotsInPlace, TokensInPlace, ReplacementWaits, [Next]_vars
  PROVE  ReplacementWaits'
<1> USE DEF TypeOK, HandlesInPlace, SlotsInPlace, TokensInPlace, ReplacementWaits,
            CancelToken, InLine, Entered, Slotted, Goto, Move, SetOutcome, fixed, handles,
            slots, scans, callers
<1>1. CASE UNCHANGED vars BY <1>1 DEF vars
<1>2. ASSUME NEW s \in Scan, Claim(s) PROVE ReplacementWaits'
  BY <1>2 DEF Claim
<1>3. ASSUME NEW s \in Scan, ClaimSlot(s) PROVE ReplacementWaits'
  <2>1. CASE s \notin starting \/ Refused(s)
    BY <1>3, <2>1, ConstantsAssumption DEF ClaimSlot
  <2>2. CASE s \in starting /\ ~Refused(s) /\ running[of[s]] = None
    BY <1>3, <2>2, ConstantsAssumption DEF ClaimSlot, TakeSlot
  <2>3. CASE s \in starting /\ ~Refused(s) /\ running[of[s]] # None
    BY <1>3, <2>3, ConstantsAssumption DEF ClaimSlot, TakeSlot, Refused, Priority
  <2> QED BY <2>1, <2>2, <2>3
<1>4. ASSUME NEW s \in Scan, EnterSlot(s) PROVE ReplacementWaits'
  BY <1>4, ConstantsAssumption DEF EnterSlot, Writing
<1>5. ASSUME NEW s \in Scan, FinishRollback(s) PROVE ReplacementWaits'
  BY <1>5 DEF FinishRollback
<1>6. ASSUME NEW s \in Scan, CloseStream(s) PROVE ReplacementWaits'
  BY <1>6 DEF CloseStream
<1>7. ASSUME NEW s \in Scan, ScannerEnds(s) PROVE ReplacementWaits'
  BY <1>7 DEF ScannerEnds
<1>8. ASSUME NEW s \in Scan, Return(s) PROVE ReplacementWaits'
  BY <1>8, ConstantsAssumption DEF Return, DropController
<1>9. ASSUME NEW s \in Scan, Panic(s) PROVE ReplacementWaits'
  BY <1>9 DEF Panic
<1>10. ASSUME NEW s \in Scan, CreateHandle(s) \/ CheckSession(s) \/ RefuseStart(s)
             \/ WaitMaintenance(s) \/ ClearSlot(s) \/ LeaveStarting(s)
      PROVE  ReplacementWaits'
  BY <1>10 DEF CreateHandle, CheckSession, RefuseStart, WaitMaintenance, ClearSlot, LeaveStarting
<1>11. ASSUME NEW c \in Caller, NEW s \in Scan, StopScan(c, s) PROVE ReplacementWaits'
  BY <1>11, ConstantsAssumption DEF StopScan, StopIssued, StopStarting, StopRunning, StopOther
<1>12. ASSUME NEW c \in Caller, CancelUnderGate(c) PROVE ReplacementWaits'
  BY <1>12 DEF CancelUnderGate, CancelWalletScans
<1>13. ASSUME NEW c \in Caller, StopWalletScans(c) PROVE ReplacementWaits'
  BY <1>13 DEF StopWalletScans, CancelWalletScans
<1>14. ASSUME NEW c \in Caller, WaitStopped(c) \/ EndMaintenance(c)
      PROVE  ReplacementWaits'
  BY <1>14 DEF WaitStopped, EndMaintenance
<1>15. ASSUME NEW c \in Caller, NEW w \in Wallet, LockSession(c, w) \/ BeginMaintenance(c, w)
      PROVE  ReplacementWaits'
  BY <1>15 DEF LockSession, BeginMaintenance
<1>16. ASSUME NEW w \in Wallet, UnlockSession(w) PROVE ReplacementWaits'
  BY <1>16 DEF UnlockSession
<1> QED BY <1>1, <1>2, <1>3, <1>4, <1>5, <1>6, <1>7, <1>8, <1>9, <1>10, <1>11, <1>12,
         <1>13, <1>14, <1>15, <1>16 DEF Next, ScanStep, CallerStep

\* A stop that returned took the scan's entry, or its slot was taken.
LEMMA StopsStep ==
  ASSUME TypeOK, HandlesInPlace, CallersInPlace, SlotsInPlace, StopsKept, [Next]_vars
  PROVE  StopsKept'
<1> USE DEF TypeOK, HandlesInPlace, CallersInPlace, SlotsInPlace, StopsKept, InLine, Entered,
            Slotted, Goto, Move, SetOutcome, fixed, handles, slots, scans, callers
<1>1. CASE UNCHANGED vars BY <1>1 DEF vars
<1>2. ASSUME NEW s \in Scan, Claim(s) PROVE StopsKept'
  BY <1>2 DEF Claim
<1>3. ASSUME NEW s \in Scan, ClaimSlot(s) PROVE StopsKept'
  <2>1. CASE s \notin starting \/ Refused(s)
    BY <1>3, <2>1, ConstantsAssumption DEF ClaimSlot
  <2>2. CASE s \in starting /\ ~Refused(s) /\ running[of[s]] = None
    BY <1>3, <2>2, ConstantsAssumption DEF ClaimSlot, TakeSlot
  <2>3. CASE s \in starting /\ ~Refused(s) /\ running[of[s]] # None
    BY <1>3, <2>3, ConstantsAssumption DEF ClaimSlot, TakeSlot
  <2> QED BY <2>1, <2>2, <2>3
<1>4. ASSUME NEW s \in Scan, EnterSlot(s) PROVE StopsKept'
  BY <1>4 DEF EnterSlot, Writing
<1>5. ASSUME NEW s \in Scan, FinishRollback(s) PROVE StopsKept'
  BY <1>5 DEF FinishRollback
<1>6. ASSUME NEW s \in Scan, ScannerEnds(s) PROVE StopsKept'
  BY <1>6 DEF ScannerEnds
<1>7. ASSUME NEW s \in Scan, Return(s) PROVE StopsKept'
  BY <1>7, ConstantsAssumption DEF Return, DropController
<1>8. ASSUME NEW s \in Scan, Panic(s) PROVE StopsKept'
  BY <1>8 DEF Panic
<1>9. ASSUME NEW s \in Scan, CreateHandle(s) \/ CheckSession(s) \/ RefuseStart(s)
             \/ WaitMaintenance(s) \/ CloseStream(s) \/ ClearSlot(s)
             \/ LeaveStarting(s)
      PROVE  StopsKept'
  BY <1>9 DEF CreateHandle, CheckSession, RefuseStart, WaitMaintenance, CloseStream,
     ClearSlot, LeaveStarting
<1>10. ASSUME NEW c \in Caller, NEW s \in Scan, StopScan(c, s) PROVE StopsKept'
  BY <1>10, ConstantsAssumption DEF StopScan, StopIssued, StopStarting, StopRunning, StopOther
<1>11. ASSUME NEW c \in Caller, CancelUnderGate(c) PROVE StopsKept'
  BY <1>11 DEF CancelUnderGate, CancelWalletScans
<1>12. ASSUME NEW c \in Caller, StopWalletScans(c) PROVE StopsKept'
  BY <1>12 DEF StopWalletScans, CancelWalletScans
<1>13. ASSUME NEW c \in Caller, WaitStopped(c) PROVE StopsKept'
  BY <1>13, ConstantsAssumption DEF WaitStopped
<1>14. ASSUME NEW c \in Caller, EndMaintenance(c)
      PROVE  StopsKept'
  BY <1>14 DEF EndMaintenance
<1>15. ASSUME NEW c \in Caller, NEW w \in Wallet, LockSession(c, w) \/ BeginMaintenance(c, w)
      PROVE  StopsKept'
  BY <1>15 DEF LockSession, BeginMaintenance
<1>16. ASSUME NEW w \in Wallet, UnlockSession(w) PROVE StopsKept'
  BY <1>16 DEF UnlockSession
<1> QED BY <1>1, <1>2, <1>3, <1>4, <1>5, <1>6, <1>7, <1>8, <1>9, <1>10, <1>11, <1>12,
         <1>13, <1>14, <1>15, <1>16 DEF Next, ScanStep, CallerStep

\* A scan whose session is taken is cancelled by the lock that took it.
LEMMA SessionStep ==
  ASSUME TypeOK, HandlesInPlace, CallersInPlace, SlotsInPlace, TokensInPlace, ScanHasSession,
         [Next]_vars
  PROVE  ScanHasSession'
<1> USE DEF TypeOK, HandlesInPlace, CallersInPlace, SlotsInPlace, TokensInPlace,
            ScanHasSession, CancelToken, Admitted, Writing, Goto, Move, SetOutcome, fixed,
            handles, slots, scans, callers
<1>1. CASE UNCHANGED vars BY <1>1 DEF vars
<1>2. ASSUME NEW s \in Scan, CheckSession(s) PROVE ScanHasSession'
  BY <1>2 DEF CheckSession
<1>3. ASSUME NEW s \in Scan, WaitMaintenance(s) PROVE ScanHasSession'
  BY <1>3 DEF WaitMaintenance
<1>4. ASSUME NEW s \in Scan, ClaimSlot(s) PROVE ScanHasSession'
  <2>1. CASE s \notin starting \/ Refused(s)
    BY <1>4, <2>1, ConstantsAssumption DEF ClaimSlot
  <2>2. CASE s \in starting /\ ~Refused(s) /\ running[of[s]] = None
    BY <1>4, <2>2, ConstantsAssumption DEF ClaimSlot, TakeSlot
  <2>3. CASE s \in starting /\ ~Refused(s) /\ running[of[s]] # None
    BY <1>4, <2>3, ConstantsAssumption DEF ClaimSlot, TakeSlot
  <2> QED BY <2>1, <2>2, <2>3
<1>5. ASSUME NEW s \in Scan, EnterSlot(s) PROVE ScanHasSession'
  BY <1>5 DEF EnterSlot
<1>6. ASSUME NEW s \in Scan, FinishRollback(s) PROVE ScanHasSession'
  BY <1>6 DEF FinishRollback
<1>7. ASSUME NEW s \in Scan, ClearSlot(s) PROVE ScanHasSession'
  BY <1>7, ConstantsAssumption DEF ClearSlot
<1>8. ASSUME NEW s \in Scan, Return(s) PROVE ScanHasSession'
  BY <1>8, ConstantsAssumption DEF Return, DropController
<1>9. ASSUME NEW s \in Scan, CreateHandle(s) \/ Claim(s) \/ RefuseStart(s)
             \/ CloseStream(s) \/ ScannerEnds(s) \/ LeaveStarting(s)
             \/ Panic(s)
      PROVE  ScanHasSession'
  BY <1>9 DEF CreateHandle, Claim, RefuseStart, CloseStream, ScannerEnds, LeaveStarting, Panic
<1>10. ASSUME NEW c \in Caller, NEW s \in Scan, StopScan(c, s) PROVE ScanHasSession'
  BY <1>10, ConstantsAssumption DEF StopScan, StopIssued, StopStarting, StopRunning, StopOther
<1>11. ASSUME NEW c \in Caller, CancelUnderGate(c) PROVE ScanHasSession'
  BY <1>11, ConstantsAssumption DEF CancelUnderGate, CancelWalletScans
<1>12. ASSUME NEW c \in Caller, StopWalletScans(c) PROVE ScanHasSession'
  BY <1>12, ConstantsAssumption DEF StopWalletScans, CancelWalletScans
<1>13. ASSUME NEW c \in Caller, WaitStopped(c) PROVE ScanHasSession'
  BY <1>13 DEF WaitStopped
<1>14. ASSUME NEW c \in Caller, EndMaintenance(c)
      PROVE  ScanHasSession'
  BY <1>14 DEF EndMaintenance
<1>15. ASSUME NEW c \in Caller, NEW w \in Wallet, LockSession(c, w) PROVE ScanHasSession'
  BY <1>15 DEF LockSession
<1>16. ASSUME NEW c \in Caller, NEW w \in Wallet, BeginMaintenance(c, w)
      PROVE  ScanHasSession'
  BY <1>16 DEF BeginMaintenance
<1>17. ASSUME NEW w \in Wallet, UnlockSession(w) PROVE ScanHasSession'
  BY <1>17 DEF UnlockSession
<1> QED BY <1>1, <1>2, <1>3, <1>4, <1>5, <1>6, <1>7, <1>8, <1>9, <1>10, <1>11, <1>12,
         <1>13, <1>14, <1>15, <1>16, <1>17 DEF Next, ScanStep, CallerStep

-----------------------------------------------------------------------------
(* The line of each wallet's scans *)

\* The first in line: nobody in line took the wallet's slot before it.
First(rank, s) ==
  \A t \in Scan : pc[t] \in InLine /\ of[t] = of[s] /\ t # s => rank[s] < rank[t]

\* A scan in line whose predecessor, if any, is not, is the first.
LEMMA FirstInLine ==
  ASSUME TypeOK, NEW rank \in [Scan -> Nat], InOrder(rank), NEW s \in Scan, pc[s] \in InLine,
         \/ pc[s] # "queued"
         \/ previous[s] \notin Scan
         \/ pc[previous[s]] \notin InLine
  PROVE  First(rank, s)
<1> SUFFICES ASSUME NEW t \in Scan, pc[t] \in InLine, of[t] = of[s], t # s
             PROVE  rank[s] < rank[t]
  BY DEF First
<1>1. rank[s] # rank[t] /\ rank[s] \in Nat /\ rank[t] \in Nat
  BY DEF InOrder
<1>2. ~(rank[t] < rank[s])
  BY DEF InOrder
<1> QED BY <1>1, <1>2

\* The order of the line is kept when its first leaves it.
LEMMA FirstLeaves ==
  ASSUME TypeOK, SlotsInPlace, NEW rank \in [Scan -> Nat], InOrder(rank),
         NEW s \in Scan, pc[s] \in InLine, First(rank, s),
         pc'[s] \notin InLine,
         \A t \in Scan : t # s => pc'[t] = pc[t] /\ previous'[t] = previous[t],
         running' = running, of' = of
  PROVE  InOrder(rank)'
<1>1. ASSUME NEW t \in Scan, pc'[t] \in InLine
      PROVE  t # s /\ pc[t] \in InLine /\ pc'[t] = pc[t] /\ previous'[t] = previous[t]
             /\ rank[t] \in Nat /\ rank[s] \in Nat /\ (of[t] = of[s] => rank[s] < rank[t])
  BY <1>1 DEF First
<1>2. \A t, u \in Scan :
        pc'[t] \in InLine /\ pc'[u] \in InLine /\ of'[t] = of'[u] /\ t # u => rank[t] # rank[u]
  BY <1>1 DEF InOrder
<1>3. ASSUME NEW t \in Scan, NEW u \in Scan, pc'[t] \in InLine, pc'[u] \in InLine,
             of'[t] = of'[u], rank[t] < rank[u]
      PROVE  /\ pc'[u] = "queued"
             /\ previous'[u] \in Scan
             /\ of'[previous'[u]] = of'[u] /\ pc'[previous'[u]] \in InLine
             /\ rank[t] <= rank[previous'[u]]
  <2>1. /\ pc[u] = "queued" /\ previous[u] \in Scan /\ of[previous[u]] = of[u]
        /\ pc[previous[u]] \in InLine /\ rank[t] <= rank[previous[u]]
    BY <1>1, <1>3 DEF InOrder
  <2>2. previous[u] # s
    BY <1>1, <1>3, <2>1
  <2> QED BY <1>1, <1>3, <2>1, <2>2
<1>4. ASSUME NEW t \in Scan, pc'[t] \in InLine
      PROVE  /\ running'[of'[t]] \in Scan
             /\ pc'[running'[of'[t]]] \in InLine
             /\ rank[t] <= rank[running'[of'[t]]]
  <2>1. /\ running[of[t]] \in Scan /\ pc[running[of[t]]] \in InLine
        /\ rank[t] <= rank[running[of[t]]]
    BY <1>1, <1>4 DEF InOrder
  <2>2. of[running[of[t]]] = of[t]
    BY <2>1, ConstantsAssumption DEF SlotsInPlace, TypeOK
  <2>3. running[of[t]] # s
    BY <1>1, <1>4, <2>1, <2>2
  <2> QED BY <1>1, <1>4, <2>1, <2>3
<1> QED BY <1>2, <1>3, <1>4 DEF InOrder

\* It is kept when the first goes on, and nobody joins or leaves.
LEMMA FirstGoesOn ==
  ASSUME TypeOK, NEW rank \in [Scan -> Nat], InOrder(rank),
         NEW s \in Scan, pc[s] \in InLine, First(rank, s),
         pc'[s] \in InLine,
         \A t \in Scan : t # s => pc'[t] = pc[t] /\ previous'[t] = previous[t],
         running' = running, of' = of
  PROVE  InOrder(rank)'
<1>1. \A t \in Scan : pc'[t] \in InLine <=> pc[t] \in InLine
  OBVIOUS
<1>2. ASSUME NEW t \in Scan, NEW u \in Scan, pc'[t] \in InLine, pc'[u] \in InLine,
             of'[t] = of'[u], rank[t] < rank[u]
      PROVE  u # s /\ pc'[u] = pc[u] /\ previous'[u] = previous[u]
  <2>1. rank[t] \in Nat /\ rank[u] \in Nat /\ t # u /\ pc[t] \in InLine /\ of[t] = of[u]
    BY <1>1, <1>2
  <2>2. u # s
    BY <1>2, <2>1 DEF First
  <2> QED BY <2>2
<1>3. \A t, u \in Scan :
        pc'[t] \in InLine /\ pc'[u] \in InLine /\ of'[t] = of'[u] /\ t # u => rank[t] # rank[u]
  BY <1>1 DEF InOrder
<1>4. ASSUME NEW t \in Scan, NEW u \in Scan, pc'[t] \in InLine, pc'[u] \in InLine,
             of'[t] = of'[u], rank[t] < rank[u]
      PROVE  /\ pc'[u] = "queued"
             /\ previous'[u] \in Scan
             /\ of'[previous'[u]] = of'[u] /\ pc'[previous'[u]] \in InLine
             /\ rank[t] <= rank[previous'[u]]
  BY <1>1, <1>2, <1>4 DEF InOrder
<1>5. \A t \in Scan :
        pc'[t] \in InLine =>
          /\ running'[of'[t]] \in Scan
          /\ pc'[running'[of'[t]]] \in InLine
          /\ rank[t] <= rank[running'[of'[t]]]
  BY <1>1 DEF InOrder
<1> QED BY <1>3, <1>4, <1>5 DEF InOrder

\* It is kept when the line is left alone.
LEMMA LineLeftAlone ==
  ASSUME TypeOK, NEW rank \in [Scan -> Nat], InOrder(rank), of' = of,
         \A t \in Scan : pc'[t] \in InLine => pc[t] \in InLine,
         \A t \in Scan : pc[t] \in InLine =>
           pc'[t] = pc[t] /\ previous'[t] = previous[t] /\ running'[of[t]] = running[of[t]]
  PROVE  InOrder(rank)'
  BY DEF InOrder, TypeOK

\* A scan that takes the slot joins the line behind the one it takes it from.
LEMMA LastJoins ==
  ASSUME TypeOK, SlotsInPlace, NEW rank \in [Scan -> Nat], InOrder(rank), NEW s \in Scan,
         pc[s] = "claiming", pc' = [pc EXCEPT ![s] = "queued"], TakeSlot(s), of' = of
  PROVE  Queued'
<1> DEFINE p == running[of[s]]
<1>1. /\ running' = [running EXCEPT ![of[s]] = s]
      /\ previous' = [previous EXCEPT ![s] = p]
      /\ of[s] \in Wallet
  BY DEF TakeSlot, TypeOK
<1> DEFINE n == IF p \in Scan THEN rank[p] + 1 ELSE 0
<1>2. PICK r \in [Scan -> Nat] : r = [rank EXCEPT ![s] = n]
  <2>1. n \in Nat
    OBVIOUS
  <2>2. [rank EXCEPT ![s] = n] \in [Scan -> Nat]
    BY <2>1
  <2> QED BY <2>2
<1>3. ASSUME NEW t \in Scan, pc'[t] \in InLine, t # s
      PROVE  pc[t] \in InLine /\ pc'[t] = pc[t] /\ previous'[t] = previous[t]
  BY <1>1, <1>3 DEF TypeOK
<1>4. pc[s] \notin InLine /\ pc'[s] = "queued" /\ "queued" \in InLine
  BY DEF InLine, TypeOK
<1>5. ASSUME NEW t \in Scan, pc[t] \in InLine, of[t] = of[s]
      PROVE  /\ p \in Scan /\ pc[p] \in InLine /\ of[p] = of[s] /\ p # s
             /\ rank[t] <= rank[p] /\ r[s] = rank[p] + 1
  <2>1. p \in Scan /\ pc[p] \in InLine /\ rank[t] <= rank[p]
    BY <1>5 DEF InOrder
  <2>2. of[p] = of[s]
    BY <1>1, <2>1, ConstantsAssumption DEF SlotsInPlace
  <2> QED BY <1>2, <1>4, <2>1, <2>2
<1>6. InOrder(r)'
  <2>1. \A t, u \in Scan :
          pc'[t] \in InLine /\ pc'[u] \in InLine /\ of'[t] = of'[u] /\ t # u => r[t] # r[u]
    <3> SUFFICES ASSUME NEW t \in Scan, NEW u \in Scan, pc'[t] \in InLine, pc'[u] \in InLine,
                        of[t] = of[u], t # u
                 PROVE  r[t] # r[u]
      OBVIOUS
    <3>1. CASE t # s /\ u # s
      BY <1>2, <1>3, <3>1 DEF InOrder
    <3>2. CASE t = s
      BY <1>2, <1>3, <1>5, <3>2
    <3>3. CASE u = s
      BY <1>2, <1>3, <1>5, <3>3
    <3> QED BY <3>1, <3>2, <3>3
  <2>2. ASSUME NEW t \in Scan, NEW u \in Scan, pc'[t] \in InLine, pc'[u] \in InLine,
               of'[t] = of'[u], r[t] < r[u]
        PROVE  /\ pc'[u] = "queued"
               /\ previous'[u] \in Scan
               /\ of'[previous'[u]] = of'[u] /\ pc'[previous'[u]] \in InLine
               /\ r[t] <= r[previous'[u]]
    <3>1. t # u
      BY <1>2, <2>2
    <3>2. CASE u = s
      BY <1>1, <1>2, <1>3, <1>4, <1>5, <2>2, <3>1, <3>2 DEF TypeOK
    <3>3. CASE t = s
      BY <1>2, <1>3, <1>5, <2>2, <3>1, <3>3
    <3>4. CASE t # s /\ u # s
      <4>1. /\ pc[u] = "queued" /\ previous[u] \in Scan /\ of[previous[u]] = of[u]
            /\ pc[previous[u]] \in InLine /\ rank[t] <= rank[previous[u]]
        BY <1>2, <1>3, <2>2, <3>4 DEF InOrder
      <4>2. previous[u] # s
        BY <1>4, <4>1
      <4> QED BY <1>2, <1>3, <2>2, <3>4, <4>1, <4>2
    <3> QED BY <3>2, <3>3, <3>4
  <2>3. ASSUME NEW t \in Scan, pc'[t] \in InLine
        PROVE  /\ running'[of'[t]] \in Scan
               /\ pc'[running'[of'[t]]] \in InLine
               /\ r[t] <= r[running'[of'[t]]]
    <3>1. CASE of[t] = of[s]
      <4>1. running'[of'[t]] = s
        BY <1>1, <3>1 DEF TypeOK
      <4>2. ASSUME t # s PROVE r[t] <= r[s]
        <5>1. pc[t] \in InLine
          BY <1>3, <2>3, <4>2
        <5> QED BY <1>2, <1>5, <3>1, <4>2, <5>1
      <4> QED BY <1>2, <1>4, <4>1, <4>2
    <3>2. CASE of[t] # of[s]
      <4>1. t # s /\ of[t] \in Wallet /\ running'[of'[t]] = running[of[t]]
        BY <1>1, <3>2 DEF TypeOK
      <4>2. /\ running[of[t]] \in Scan /\ pc[running[of[t]]] \in InLine
            /\ rank[t] <= rank[running[of[t]]]
        BY <1>3, <2>3, <4>1 DEF InOrder
      <4>3. running[of[t]] # s
        BY <1>4, <4>2
      <4> QED BY <1>2, <4>1, <4>2, <4>3 DEF TypeOK
    <3> QED BY <3>1, <3>2
  <2> QED BY <2>1, <2>2, <2>3 DEF InOrder
<1> QED BY <1>6 DEF Queued

\* Scans join the line at its end and leave it from its front.
LEMMA QueueStep ==
  ASSUME TypeOK, HandlesInPlace, SlotsInPlace, Queued, [Next]_vars
  PROVE  Queued'
<1> USE DEF Goto, Move, SetOutcome, fixed, handles, slots, scans, callers
<1>1. PICK rank \in [Scan -> Nat] : InOrder(rank)
  BY DEF Queued
<1>2. SUFFICES InOrder(rank)' \/ Queued'
  BY DEF Queued
<1>3. CASE UNCHANGED <<of, pc, previous, running>>
  BY <1>1, <1>3, LineLeftAlone
<1>4. ASSUME NEW s \in Scan, CreateHandle(s) \/ Claim(s) \/ CheckSession(s) \/ RefuseStart(s)
             \/ WaitMaintenance(s) \/ LeaveStarting(s) \/ Return(s)
      PROVE  InOrder(rank)'
  <2>1. /\ of' = of /\ running' = running /\ previous' = previous
        /\ pc[s] \notin InLine /\ pc'[s] \notin InLine
        /\ \A t \in Scan : t # s => pc'[t] = pc[t]
    BY <1>4 DEF CreateHandle, Claim, CheckSession, RefuseStart, WaitMaintenance, LeaveStarting,
                Return, DropController, InLine, TypeOK
  <2> QED BY <1>1, <2>1, LineLeftAlone
<1>5. ASSUME NEW s \in Scan, ClaimSlot(s) PROVE InOrder(rank)' \/ Queued'
  <2>1. CASE TakeSlot(s) /\ Goto(s, "queued")
    BY <1>1, <1>5, <2>1, LastJoins DEF ClaimSlot
  <2>2. CASE Goto(s, "leaving") /\ UNCHANGED <<slots, previous>>
    <3>1. /\ of' = of /\ running' = running /\ previous' = previous
          /\ pc[s] \notin InLine /\ pc'[s] \notin InLine
          /\ \A t \in Scan : t # s => pc'[t] = pc[t]
      BY <1>5, <2>2 DEF ClaimSlot, InLine, TypeOK
    <3> QED BY <1>1, <3>1, LineLeftAlone
  <2> QED BY <1>5, <2>1, <2>2 DEF ClaimSlot
<1>6. ASSUME NEW s \in Scan, EnterSlot(s) PROVE InOrder(rank)'
  <2>1. /\ of' = of /\ running' = running
        /\ \A t \in Scan : t # s => pc'[t] = pc[t] /\ previous'[t] = previous[t]
        /\ pc[s] \in InLine
    BY <1>6 DEF EnterSlot, InLine, TypeOK
  <2>2. previous[s] \notin Scan \/ pc[previous[s]] \notin InLine
    BY <1>6, ConstantsAssumption DEF EnterSlot, HandlesInPlace, InLine
  <2>3. First(rank, s)
    BY <1>1, <2>1, <2>2, FirstInLine
  <2>4. CASE pc'[s] \in InLine
    BY <1>1, <2>1, <2>3, <2>4, FirstGoesOn
  <2>5. CASE pc'[s] \notin InLine
    BY <1>1, <2>1, <2>3, <2>5, FirstLeaves
  <2> QED BY <2>4, <2>5
<1>7. ASSUME NEW s \in Scan, FinishRollback(s) \/ ScannerEnds(s) \/ Panic(s) PROVE InOrder(rank)'
  <2>1. /\ of' = of /\ running' = running /\ previous' = previous
        /\ \A t \in Scan : t # s => pc'[t] = pc[t]
        /\ pc[s] \in InLine /\ pc[s] # "queued"
    BY <1>7 DEF FinishRollback, ScannerEnds, Panic, InLine, TypeOK
  <2>2. First(rank, s)
    BY <1>1, <2>1, FirstInLine
  <2>3. CASE pc'[s] \in InLine
    BY <1>1, <2>1, <2>2, <2>3, FirstGoesOn
  <2>4. CASE pc'[s] \notin InLine
    BY <1>1, <2>1, <2>2, <2>4, FirstLeaves
  <2> QED BY <2>3, <2>4
<1>8. ASSUME NEW s \in Scan, ClearSlot(s) PROVE InOrder(rank)'
  <2>1. /\ of' = of /\ previous' = previous
        /\ pc[s] = "clearing" /\ pc'[s] = "leaving"
        /\ \A t \in Scan : t # s => pc'[t] = pc[t]
        /\ running' = IF running[of[s]] = s THEN [running EXCEPT ![of[s]] = None] ELSE running
    BY <1>8 DEF ClearSlot, TypeOK
  <2>2. ASSUME NEW t \in Scan, pc[t] \in InLine
        PROVE  running'[of[t]] = running[of[t]]
    <3>1. pc[running[of[t]]] \in InLine
      BY <1>1, <2>2 DEF InOrder
    <3>2. running[of[t]] # s
      BY <2>1, <3>1 DEF InLine
    <3> QED BY <2>1, <3>2 DEF TypeOK
  <2>3. pc[s] \notin InLine /\ pc'[s] \notin InLine
    BY <2>1 DEF InLine
  <2> QED BY <1>1, <2>1, <2>2, <2>3, LineLeftAlone
<1>9. ASSUME NEW s \in Scan, CloseStream(s) PROVE UNCHANGED <<of, pc, previous, running>>
  BY <1>9 DEF CloseStream
<1>10. ASSUME NEW c \in Caller, CallerStep(c) PROVE UNCHANGED <<of, pc, previous, running>>
  BY <1>10 DEF CallerStep, CancelUnderGate, StopWalletScans, CancelWalletScans, WaitStopped,
               EndMaintenance
<1>11. ASSUME NEW c \in Caller, NEW s \in Scan, StopScan(c, s)
       PROVE  UNCHANGED <<of, pc, previous, running>>
  BY <1>11 DEF StopScan
<1>12. ASSUME NEW c \in Caller, NEW w \in Wallet, LockSession(c, w) \/ BeginMaintenance(c, w)
       PROVE  UNCHANGED <<of, pc, previous, running>>
  BY <1>12 DEF LockSession, BeginMaintenance
<1>13. ASSUME NEW w \in Wallet, UnlockSession(w) PROVE UNCHANGED <<of, pc, previous, running>>
  BY <1>13 DEF UnlockSession
<1>14. CASE UNCHANGED vars
  BY <1>3, <1>14 DEF vars
<1> QED BY <1>3, <1>4, <1>5, <1>6, <1>7, <1>8, <1>9, <1>10, <1>11, <1>12, <1>13, <1>14
        DEF Next, ScanStep

\* Whoever holds a wallet's lock lets nobody into its slot, and outlasts whoever is in it.
LEMMA MaintenanceStep ==
  ASSUME TypeOK, HandlesInPlace, CallersInPlace, SlotsInPlace, LocksHeld, Queued,
         MaintenanceWaits, [Next]_vars
  PROVE  MaintenanceWaits'
<1> USE DEF Goto, Move, SetOutcome, fixed, handles, slots, scans, callers
\* Nobody takes the slot of a wallet under maintenance.
<1>1. ASSUME NEW s \in Scan, NEW c \in Caller, ClaimSlot(s), kind[c] = "maintenance"
      PROVE  of[s] # on[c]
  BY <1>1, ConstantsAssumption DEF ClaimSlot, LocksHeld
\* A step that moves no caller and lets no scan into a slot or into line keeps it.
<1>2. ASSUME UNCHANGED <<of, callers>>,
             \A w \in Wallet : running'[w] = running[w] \/ running'[w] = None,
             \A s \in Scan : pc'[s] \in InLine => pc[s] \in InLine
      PROVE  MaintenanceWaits'
  BY <1>2 DEF MaintenanceWaits, TypeOK
<1>3. CASE UNCHANGED vars
  BY <1>2, <1>3 DEF vars
<1>4. ASSUME NEW s \in Scan, CreateHandle(s) \/ Claim(s) \/ CheckSession(s) \/ RefuseStart(s)
             \/ WaitMaintenance(s) \/ LeaveStarting(s) \/ Return(s) \/ CloseStream(s)
      PROVE  MaintenanceWaits'
  <2>1. \A t \in Scan : pc'[t] \in InLine => pc[t] \in InLine
    BY <1>4 DEF CreateHandle, Claim, CheckSession, RefuseStart, WaitMaintenance, LeaveStarting,
                Return, CloseStream, InLine, TypeOK
  <2>2. UNCHANGED <<of, callers, running>>
    BY <1>4 DEF CreateHandle, Claim, CheckSession, RefuseStart, WaitMaintenance, LeaveStarting,
                Return, DropController, CloseStream
  <2> QED BY <1>2, <2>1, <2>2
<1>5. ASSUME NEW s \in Scan, EnterSlot(s) \/ FinishRollback(s) \/ ScannerEnds(s) \/ ClearSlot(s)
             \/ Panic(s)
      PROVE  MaintenanceWaits'
  <2>1. \A t \in Scan : pc'[t] \in InLine => pc[t] \in InLine
    BY <1>5 DEF EnterSlot, FinishRollback, ScannerEnds, ClearSlot, Panic, InLine, TypeOK
  <2>2. \A w \in Wallet : running'[w] = running[w] \/ running'[w] = None
    BY <1>5 DEF EnterSlot, FinishRollback, ScannerEnds, ClearSlot, Panic, TypeOK
  <2>3. UNCHANGED <<of, callers>>
    BY <1>5 DEF EnterSlot, FinishRollback, ScannerEnds, ClearSlot, Panic
  <2> QED BY <1>2, <2>1, <2>2, <2>3
<1>6. ASSUME NEW s \in Scan, ClaimSlot(s) PROVE MaintenanceWaits'
  <2>1. /\ UNCHANGED <<of, callers>>
        /\ \A w \in Wallet : w # of[s] => running'[w] = running[w]
        /\ \A t \in Scan : t # s => pc'[t] = pc[t]
    BY <1>6 DEF ClaimSlot, TakeSlot, TypeOK
  <2>2. ASSUME NEW c \in Caller, kind[c] = "maintenance"
        PROVE  running'[on[c]] = running[on[c]] /\ of[s] # on[c]
    BY <1>1, <1>6, <2>1, <2>2 DEF TypeOK
  <2> QED BY <2>1, <2>2 DEF MaintenanceWaits, CallersInPlace
<1>7. ASSUME NEW c \in Caller, StopWalletScans(c) PROVE MaintenanceWaits'
  BY <1>7 DEF StopWalletScans, CancelWalletScans, MaintenanceWaits, TypeOK
<1>8. ASSUME NEW c \in Caller, WaitStopped(c) PROVE MaintenanceWaits'
  <2>1. ASSUME kind[c] = "maintenance", NEW s \in Scan, of[s] = on[c]
        PROVE  pc[s] \notin InLine
    <3>1. running[on[c]] \in stopped \cup {None}
      BY <1>8, <2>1 DEF WaitStopped, MaintenanceWaits
    <3>2. PICK rank \in [Scan -> Nat] : InOrder(rank)
      BY DEF Queued
    <3>3. pc[s] \in InLine => running[on[c]] \in Scan /\ pc[running[on[c]]] \in InLine
      BY <2>1, <3>2 DEF InOrder
    <3> QED BY <3>1, <3>3, ConstantsAssumption DEF HandlesInPlace, InLine
  <2>2. UNCHANGED <<of, pc, running, on>>
    BY <1>8 DEF WaitStopped
  <2>3. \A d \in Caller : d # c => at'[d] = at[d] /\ kind'[d] = kind[d] /\ target'[d] = target[d]
    BY <1>8 DEF WaitStopped, TypeOK
  <2>4. /\ at'[c] # "wait"
        /\ at'[c] = "write" => kind[c] = "maintenance"
    BY <1>8 DEF WaitStopped, TypeOK
  <2> QED BY <2>1, <2>2, <2>3, <2>4 DEF MaintenanceWaits
<1>9. ASSUME NEW c \in Caller, CancelUnderGate(c) \/ EndMaintenance(c) PROVE MaintenanceWaits'
  BY <1>9 DEF CancelUnderGate, CancelWalletScans, EndMaintenance, MaintenanceWaits, TypeOK
<1>10. ASSUME NEW c \in Caller, NEW s \in Scan, StopScan(c, s) PROVE MaintenanceWaits'
  BY <1>10 DEF StopScan, StopIssued, StopStarting, StopRunning, StopOther, MaintenanceWaits,
     TypeOK
<1>11. ASSUME NEW c \in Caller, NEW w \in Wallet, LockSession(c, w) \/ BeginMaintenance(c, w)
       PROVE  MaintenanceWaits'
  BY <1>11 DEF LockSession, BeginMaintenance, MaintenanceWaits, TypeOK
<1>12. ASSUME NEW w \in Wallet, UnlockSession(w) PROVE MaintenanceWaits'
  BY <1>12 DEF UnlockSession, MaintenanceWaits
<1> QED BY <1>3, <1>4, <1>5, <1>6, <1>7, <1>8, <1>9, <1>10, <1>11, <1>12
        DEF Next, ScanStep, CallerStep

-----------------------------------------------------------------------------
(* The inductive invariant, and what follows from it *)

LEMMA SlotInvInit == Init => SlotInv
<1> SUFFICES ASSUME Init PROVE SlotInv
  OBVIOUS
<1>1. TypeOK /\ CallersInPlace
  BY TypeInit, CallersInit
<1>2. HandlesInPlace /\ SlotsInPlace /\ LocksHeld /\ MaintenanceWaits
  BY ConstantsAssumption DEF Init, HandlesInPlace, SlotsInPlace, LocksHeld, MaintenanceWaits,
     InLine, Call
<1>3. TokensInPlace /\ OutcomesInPlace
  BY ConstantsAssumption DEF Init, TokensInPlace, OutcomesInPlace, Cause, Terminal
<1>4. ReplacementWaits /\ StopsKept /\ ScanHasSession
  BY DEF Init, ReplacementWaits, StopsKept, ScanHasSession, Admitted, Writing
<1>5. Queued
  <2>1. PICK rank \in [Scan -> Nat] : rank = [s \in Scan |-> 0]
    <3>1. [s \in Scan |-> 0] \in [Scan -> Nat]
      OBVIOUS
    <3> QED BY <3>1
  <2>2. InOrder(rank)
    BY DEF Init, InOrder, InLine
  <2> QED BY <2>2 DEF Queued
<1> QED BY <1>1, <1>2, <1>3, <1>4, <1>5 DEF SlotInv

LEMMA SlotInvStep == SlotInv /\ [Next]_vars => SlotInv'
  BY TypeStep, HandlesStep, CallersStep, SlotsStep, TokensStep, OutcomesStep, LocksStep,
     WaitsStep,
     QueueStep, MaintenanceStep, StopsStep, SessionStep
     DEF SlotInv

LEMMA SlotInvariant == Spec => []SlotInv
  BY SlotInvInit, SlotInvStep, PTL DEF Spec

\* Every variable keeps its type: no handle, slot or token is ever out of its range.
THEOREM ScanTypeCorrect == Spec => []TypeOK
<1>1. SlotInv => TypeOK
  BY DEF SlotInv
<1> QED BY <1>1, SlotInvariant, PTL

\* Two scans of one wallet never write its rows at the same time, however many scans
\* replaced one another before they could begin: of two scans in line the later waits.
THEOREM OneScanAtATime == Spec => []OneScanWrites
<1>1. ASSUME SlotInv PROVE OneScanWrites
  <2>1. SUFFICES ASSUME NEW s1 \in Scan, NEW s2 \in Scan, s1 # s2, of[s1] = of[s2],
                        pc[s1] \in Writing, pc[s2] \in Writing
                 PROVE  FALSE
    BY DEF OneScanWrites
  <2>2. PICK rank \in [Scan -> Nat] : InOrder(rank)
    BY <1>1 DEF SlotInv, Queued
  <2>3. /\ pc[s1] \in InLine /\ pc[s2] \in InLine
        /\ pc[s1] # "queued" /\ pc[s2] # "queued"
    BY <2>1 DEF Writing, InLine
  <2>4. First(rank, s1) /\ First(rank, s2)
    BY <1>1, <2>2, <2>3, FirstInLine DEF SlotInv
  <2>5. rank[s1] < rank[s2] /\ rank[s2] < rank[s1]
    BY <2>1, <2>3, <2>4 DEF First
  <2> QED BY <2>5
<1> QED BY <1>1, SlotInvariant, PTL

\* No scan writes a wallet's rows while a passphrase change or an abandon does.
THEOREM MaintenanceAlone == Spec => []MaintenanceIsAlone
<1>1. SlotInv => MaintenanceIsAlone
  BY DEF SlotInv, MaintenanceWaits, MaintenanceIsAlone, InLine, Writing
<1> QED BY <1>1, SlotInvariant, PTL

\* Once stop_scan returned, the scan it stopped never touches the database.
THEOREM StopIsFinal == Spec => []StoppedScanNeverWrites
<1>1. SlotInv => StoppedScanNeverWrites
  BY DEF SlotInv, StopsKept, StoppedScanNeverWrites, InLine, Writing
<1> QED BY <1>1, SlotInvariant, PTL

\* A scan's terminal event tells what first ended it.
THEOREM TerminalEventIsTrue == Spec => []TerminalTellsTheCause
<1>1. SlotInv => TerminalTellsTheCause
  BY DEF SlotInv, TokensInPlace, OutcomesInPlace, TerminalTellsTheCause
<1> QED BY <1>1, SlotInvariant, PTL

\* A Background scan never supersedes a Foreground one whose task still runs.
THEOREM ForegroundKeepsItsSlot == Spec => []ForegroundIsNotCutOff
<1>1. SlotInv => ForegroundIsNotCutOff
  BY DEF SlotInv, ReplacementWaits, ForegroundIsNotCutOff
<1> QED BY <1>1, SlotInvariant, PTL

\* A scan outlives its wallet's session only until the lock that took it cancels it.
THEOREM ScansLoseTheirSession == Spec => []ScanHasSession
<1>1. SlotInv => ScanHasSession
  BY DEF SlotInv
<1> QED BY <1>1, SlotInvariant, PTL

\* A scan that ended is in no handle set and in no slot.
THEOREM EndedScanIsGone == Spec => []EndedScanLeavesNothing
<1>1. SlotInv => EndedScanLeavesNothing
  BY ConstantsAssumption DEF SlotInv, HandlesInPlace, SlotsInPlace, EndedScanLeavesNothing,
     Entered,
     InLine, TypeOK
<1> QED BY <1>1, SlotInvariant, PTL

-----------------------------------------------------------------------------
(* The slots keep their contract *)

\* Whoever writes a wallet's rows is alone.
LEMMA WriterIsAlone ==
  ASSUME SlotInv, NEW w \in Wallet
  PROVE  /\ \A s \in Scan : of[s] = w /\ pc[s] \in Writing => Writers(w) = {s}
         /\ \A c \in Caller : on[c] = w /\ at[c] = "write" => Writers(w) = {c}
<1>1. PICK rank \in [Scan -> Nat] : InOrder(rank)
  BY DEF SlotInv, Queued
<1>2. ASSUME NEW s \in Scan, NEW t \in Scan, of[s] = of[t], pc[s] \in Writing, pc[t] \in Writing
      PROVE  s = t
  <2>1. /\ pc[s] \in InLine /\ pc[s] # "queued"
        /\ pc[t] \in InLine /\ pc[t] # "queued"
    BY <1>2 DEF Writing, InLine
  <2>2. First(rank, s) /\ First(rank, t)
    BY <1>1, <2>1, FirstInLine DEF SlotInv
  <2>3. s # t => rank[s] < rank[t] /\ rank[t] < rank[s]
    BY <1>2, <2>1, <2>2 DEF First
  <2> QED BY <2>3
<1>3. ASSUME NEW s \in Scan, NEW c \in Caller, of[s] = on[c], at[c] = "write"
      PROVE  pc[s] \notin Writing
  BY <1>3 DEF SlotInv, MaintenanceWaits, InLine, Writing
<1>4. ASSUME NEW c \in Caller, NEW d \in Caller, on[c] = on[d], at[c] = "write", at[d] = "write"
      PROVE  c = d
  BY <1>4 DEF SlotInv, CallersInPlace, LocksHeld
<1>5. \A s \in Scan : of[s] = w /\ pc[s] \in Writing => Writers(w) = {s}
  BY <1>2, <1>3 DEF Writers
<1>6. \A c \in Caller : on[c] = w /\ at[c] = "write" => Writers(w) = {c}
  BY <1>3, <1>4 DEF Writers
<1> QED BY <1>5, <1>6

\* A scan that is over neither writes nor has returned.
LEMMA OverIsNot ==
  ASSUME HandlesInPlace, NEW s \in Scan, IsOver(s)
  PROVE  pc[s] \notin Writing /\ pc[s] # "done"
  BY DEF HandlesInPlace, IsOver, Writing

\* The stages, told apart.
LEMMA StageOf ==
  ASSUME HandlesInPlace, NEW s \in Scan
  PROVE  /\ pc[s] \in Writing => Stage(s) = "writing"
         /\ pc[s] = "done" => Stage(s) = "returned"
         /\ IsOver(s) => Stage(s) = "over"
         /\ ~IsOver(s) /\ pc[s] \notin Writing /\ pc[s] # "done" => Stage(s) = "new"
         /\ Stage(s) \in Slots!Stages
<1>1. pc[s] \in Writing => pc[s] # "done"
  BY DEF Writing
<1> QED BY <1>1, OverIsNot DEF Stage, Slots!Stages

\* The same after a step.
LEMMA StageAfter ==
  ASSUME HandlesInPlace', NEW s \in Scan
  PROVE  /\ pc'[s] \in Writing => Stage(s)' = "writing"
         /\ pc'[s] = "done" => Stage(s)' = "returned"
         /\ IsOver(s)' => Stage(s)' = "over"
         /\ ~IsOver(s)' /\ pc'[s] \notin Writing /\ pc'[s] # "done" => Stage(s)' = "new"
<1>1. IsOver(s)' => pc'[s] \notin Writing /\ pc'[s] # "done"
  BY DEF HandlesInPlace, IsOver, Writing
<1>2. pc'[s] \in Writing => pc'[s] # "done"
  BY DEF Writing
<1> QED BY <1>1, <1>2 DEF Stage

\* Nothing that the contract speaks of changes for a scan that a step leaves alone.
ScanKept(s) ==
  /\ pc'[s] = pc[s] /\ of'[s] = of[s]
  /\ s \in cancelled' <=> s \in cancelled
  /\ s \in starting' <=> s \in starting
  /\ s \in stopped_before_start' <=> s \in stopped_before_start

LEMMA StageKept ==
  ASSUME NEW s \in Scan, ScanKept(s)
  PROVE  Stage(s)' = Stage(s)
<1>1. IsOver(s)' <=> IsOver(s)
  BY DEF ScanKept, IsOver
<1> QED BY <1>1 DEF ScanKept, Stage

\* Nobody begins or stops to write.
WritersKept ==
  /\ \A s \in Scan : of'[s] = of[s] /\ (pc'[s] \in Writing <=> pc[s] \in Writing)
  /\ \A c \in Caller :
       /\ at'[c] = "write" <=> at[c] = "write"
       /\ at[c] = "write" => on'[c] = on[c]

LEMMA SameWriters ==
  ASSUME WritersKept, NEW w \in Wallet
  PROVE  Writers(w)' = Writers(w)
<1>1. \A s \in Scan : (of'[s] = w /\ pc'[s] \in Writing) <=> (of[s] = w /\ pc[s] \in Writing)
  BY DEF WritersKept
<1>2. \A c \in Caller : (on'[c] = w /\ at'[c] = "write") <=> (on[c] = w /\ at[c] = "write")
  BY DEF WritersKept
<1>3. {s \in Scan : of'[s] = w /\ pc'[s] \in Writing} = {s \in Scan : of[s] = w /\ pc[s] \in Writing}
  BY <1>1
<1>4. {c \in Caller : on'[c] = w /\ at'[c] = "write"} = {c \in Caller : on[c] = w /\ at[c] = "write"}
  BY <1>2
<1> QED BY <1>3, <1>4 DEF Writers

\* A step that lets nobody write, and after which whoever was over is, gives scans up.
LEMMA StepGivesUp ==
  ASSUME HandlesInPlace, HandlesInPlace', WritersKept,
         \A s \in Scan : pc'[s] = "done" <=> pc[s] = "done",
         \A s \in Scan : IsOver(s) => IsOver(s)'
  PROVE  [Slots!Next]_(Slots!vars)
<1>1. ASSUME NEW s \in Scan, Stage(s)' # Stage(s)
      PROVE  Stage(s) = "new" /\ Stage(s)' = "over"
  <2>1. pc'[s] \in Writing <=> pc[s] \in Writing
    BY DEF WritersKept
  <2> QED BY <1>1, <2>1, StageOf, StageAfter
<1>2. ASSUME NEW s \in Scan PROVE Stage(s)' \in Slots!Stages
  BY <1>1, <1>2, StageOf DEF Slots!Stages
<1>3. \A w \in Wallet : Writers(w)' = Writers(w)
  BY SameWriters
<1>4. Slots!GiveUp
  <2>1. [w \in Wallet |-> Writers(w)]' = [w \in Wallet |-> Writers(w)]
    BY <1>3
  <2>2. [s \in Scan |-> Stage(s)]' \in [Scan -> Slots!Stages]
    BY <1>2
  <2>3. \A s \in Scan :
          [t \in Scan |-> Stage(t)]'[s] # [t \in Scan |-> Stage(t)][s]
          => [t \in Scan |-> Stage(t)][s] = "new" /\ [t \in Scan |-> Stage(t)]'[s] = "over"
    BY <1>1
  <2> QED BY <2>1, <2>2, <2>3 DEF Slots!GiveUp
<1> QED BY <1>4 DEF Slots!Next

\* A step of one scan's task changes its stage only, and its wallet's writers only.
LEMMA OneScanMoves ==
  ASSUME TypeOK, NEW s \in Scan, UNCHANGED <<of, at, on>>,
         \A t \in Scan \ {s} : ScanKept(t)
  PROVE  /\ [t \in Scan |-> Stage(t)]' = [[t \in Scan |-> Stage(t)] EXCEPT ![s] = Stage(s)']
         /\ [w \in Wallet |-> Writers(w)]'
              = [[w \in Wallet |-> Writers(w)] EXCEPT ![of[s]] = Writers(of[s])']
<1>1. \A t \in Scan \ {s} : Stage(t)' = Stage(t)
  BY StageKept
<1>2. ASSUME NEW w \in Wallet, w # of[s] PROVE Writers(w)' = Writers(w)
  <2>1. \A t \in Scan : (of'[t] = w /\ pc'[t] \in Writing) <=> (of[t] = w /\ pc[t] \in Writing)
    BY <1>2 DEF ScanKept
  <2> QED BY <2>1 DEF Writers
<1>3. [t \in Scan |-> Stage(t)]' = [[t \in Scan |-> Stage(t)] EXCEPT ![s] = Stage(s)']
  BY <1>1
<1>4. [w \in Wallet |-> Writers(w)]'
        = [[w \in Wallet |-> Writers(w)] EXCEPT ![of[s]] = Writers(of[s])']
  BY <1>2
<1> QED BY <1>3, <1>4

\* A scan that enters its slot finds nobody writing.
LEMMA EnterBegins ==
  ASSUME SlotInv, HandlesInPlace', NEW s \in Scan, EnterSlot(s), s \notin cancelled
  PROVE  Slots!Begin(s, of[s])
<1>1. TypeOK /\ HandlesInPlace /\ of[s] \in Wallet
  BY DEF SlotInv, TypeOK
<1>2. /\ UNCHANGED <<of, at, on, cancelled, starting, stopped_before_start>>
      /\ pc[s] = "queued" /\ pc'[s] \in Writing
      /\ \A t \in Scan \ {s} : pc'[t] = pc[t]
  <2>1. UNCHANGED <<of, at, on, cancelled, starting, stopped_before_start>> /\ pc[s] = "queued"
    BY DEF EnterSlot, fixed, handles, slots, callers
  <2>2. PICK l \in Writing : pc' = [pc EXCEPT ![s] = l]
    BY DEF EnterSlot, Goto
  <2> QED BY <1>1, <2>1, <2>2 DEF TypeOK
<1>3. \A t \in Scan \ {s} : ScanKept(t)
  BY <1>2 DEF ScanKept
<1>4. Writers(of[s]) = {}
  <2>1. PICK rank \in [Scan -> Nat] : InOrder(rank)
    BY DEF SlotInv, Queued
  <2>2. previous[s] \notin Scan \/ pc[previous[s]] \notin InLine
    BY <1>1, ConstantsAssumption DEF EnterSlot, HandlesInPlace, InLine
  <2>3. pc[s] \in InLine
    BY <1>2 DEF InLine
  <2>4. First(rank, s)
    BY <1>1, <2>1, <2>2, <2>3, FirstInLine
  <2>5. ASSUME NEW t \in Scan, of[t] = of[s], pc[t] \in Writing PROVE FALSE
    <3>1. pc[t] \in InLine /\ pc[t] # "queued" /\ t # s
      BY <1>2, <2>5 DEF InLine, Writing
    <3>2. First(rank, t)
      BY <1>1, <2>1, <3>1, FirstInLine
    <3>3. rank[s] < rank[t] /\ rank[t] < rank[s]
      BY <2>3, <2>4, <2>5, <3>1, <3>2 DEF First
    <3> QED BY <3>3
  <2>6. ASSUME NEW c \in Caller, on[c] = of[s], at[c] = "write" PROVE FALSE
    BY <2>3, <2>6 DEF SlotInv, MaintenanceWaits
  <2> QED BY <2>5, <2>6 DEF Writers
<1>5. Writers(of[s])' = {s}
  <2>1. \A t \in Scan : of'[t] = of'[s] /\ pc'[t] \in Writing <=> t = s
    BY <1>2, <1>4 DEF Writers
  <2>2. \A c \in Caller : ~(on'[c] = of'[s] /\ at'[c] = "write")
    BY <1>2, <1>4 DEF Writers
  <2> QED BY <2>1, <2>2 DEF Writers
<1>6. Stage(s) = "new" /\ Stage(s)' = "writing"
  <2>1. ~IsOver(s) /\ pc[s] \notin Writing /\ pc[s] # "done"
    BY <1>1, <1>2 DEF IsOver, Writing, HandlesInPlace
  <2>2. Stage(s) = "new"
    BY <1>1, <2>1, StageOf
  <2>3. Stage(s)' = "writing"
    BY <1>2, StageAfter
  <2> QED BY <2>2, <2>3
<1> QED BY <1>1, <1>2, <1>3, <1>4, <1>5, <1>6, OneScanMoves DEF Slots!Begin, Slots!Take

\* A scan that stops to write gives its wallet's rows back.
LEMMA WriterEnds ==
  ASSUME SlotInv, HandlesInPlace', NEW s \in Scan, pc[s] \in Writing,
         UNCHANGED <<of, at, on, cancelled, starting, stopped_before_start>>,
         pc'[s] \in {"clearing", "panicked"},
         \A t \in Scan \ {s} : pc'[t] = pc[t]
  PROVE  Slots!End(s, of[s])
<1>1. TypeOK /\ HandlesInPlace /\ of[s] \in Wallet
  BY DEF SlotInv, TypeOK
<1>2. \A t \in Scan \ {s} : ScanKept(t)
  BY DEF ScanKept
<1>3. Writers(of[s]) = {s}
  BY <1>1, WriterIsAlone
<1>4. Writers(of[s])' = {}
  <2>1. \A t \in Scan : ~(of'[t] = of'[s] /\ pc'[t] \in Writing)
    BY <1>3 DEF Writers, Writing
  <2>2. \A c \in Caller : ~(on'[c] = of'[s] /\ at'[c] = "write")
    BY <1>3, ConstantsAssumption DEF Writers
  <2> QED BY <2>1, <2>2 DEF Writers
<1>5. Stage(s) = "writing" /\ Stage(s)' = "over"
  <2>1. IsOver(s)' /\ pc'[s] \notin Writing /\ pc'[s] # "done"
    BY DEF IsOver, Writing
  <2>2. Stage(s) = "writing"
    BY <1>1, StageOf
  <2>3. Stage(s)' = "over"
    BY <2>1, StageAfter
  <2> QED BY <2>2, <2>3
<1> QED BY <1>1, <1>2, <1>3, <1>4, <1>5, OneScanMoves DEF Slots!End, Slots!Drop

\* A scan that returns was over.
LEMMA ReturnEnds ==
  ASSUME SlotInv, HandlesInPlace', NEW s \in Scan, Return(s)
  PROVE  Slots!Return(s)
<1>1. TypeOK /\ HandlesInPlace /\ of[s] \in Wallet
  BY DEF SlotInv, TypeOK
<1>2. /\ UNCHANGED <<of, at, on, starting, stopped_before_start>>
      /\ pc[s] = "ending" /\ pc'[s] = "done" /\ cancelled' = cancelled \ {s}
      /\ \A t \in Scan \ {s} : pc'[t] = pc[t]
  BY <1>1 DEF Return, DropController, Goto, handles, callers, TypeOK
<1>3. \A t \in Scan \ {s} : ScanKept(t)
  BY <1>2 DEF ScanKept
<1>4. WritersKept
  BY <1>2 DEF WritersKept, Writing
<1>5. Stage(s) = "over" /\ Stage(s)' = "returned"
  <2>1. IsOver(s) /\ pc'[s] \notin Writing
    BY <1>2 DEF IsOver, Writing
  <2>2. Stage(s) = "over"
    BY <1>1, <2>1, StageOf
  <2>3. Stage(s)' = "returned"
    BY <1>2, StageAfter
  <2> QED BY <2>2, <2>3
<1>6. \A w \in Wallet : Writers(w)' = Writers(w)
  BY <1>4, SameWriters
<1> QED BY <1>1, <1>2, <1>3, <1>5, <1>6, OneScanMoves DEF Slots!Return

\* A caller's step changes no stage, and one wallet's writers.
LEMMA OneCallerMoves ==
  ASSUME TypeOK, NEW c \in Caller,
         UNCHANGED <<of, pc, on, cancelled, starting, stopped_before_start>>,
         \A d \in Caller \ {c} : at'[d] = at[d]
  PROVE  /\ [t \in Scan |-> Stage(t)]' = [t \in Scan |-> Stage(t)]
         /\ [w \in Wallet |-> Writers(w)]'
              = [[w \in Wallet |-> Writers(w)] EXCEPT ![on[c]] = Writers(on[c])']
<1>1. \A t \in Scan : Stage(t)' = Stage(t)
  BY StageKept DEF ScanKept
<1>2. ASSUME NEW w \in Wallet, w # on[c] PROVE Writers(w)' = Writers(w)
  <2>1. \A d \in Caller : (on'[d] = w /\ at'[d] = "write") <=> (on[d] = w /\ at[d] = "write")
    BY <1>2
  <2> QED BY <2>1 DEF Writers
<1>3. [t \in Scan |-> Stage(t)]' = [t \in Scan |-> Stage(t)]
  BY <1>1
<1>4. [w \in Wallet |-> Writers(w)]'
        = [[w \in Wallet |-> Writers(w)] EXCEPT ![on[c]] = Writers(on[c])']
  BY <1>2
<1> QED BY <1>3, <1>4

\* A maintenance operation whose scan has stopped writes alone.
LEMMA WaitMaintains ==
  ASSUME SlotInv, NEW c \in Caller, WaitStopped(c), kind[c] = "maintenance"
  PROVE  Slots!Maintain(c, on[c])
<1>1. TypeOK /\ HandlesInPlace /\ on[c] \in Wallet
  BY DEF SlotInv, TypeOK
<1>2. /\ UNCHANGED <<of, pc, on, cancelled, starting, stopped_before_start>>
      /\ at[c] = "wait" /\ at'[c] = "write"
      /\ \A d \in Caller \ {c} : at'[d] = at[d]
  BY <1>1 DEF WaitStopped, Move, fixed, handles, slots, scans, TypeOK
<1>3. Writers(on[c]) = {}
  <2>1. ASSUME NEW s \in Scan, of[s] = on[c], pc[s] \in Writing PROVE FALSE
    <3>1. running[on[c]] \in stopped \cup {None}
      BY DEF WaitStopped, SlotInv, MaintenanceWaits
    <3>2. PICK rank \in [Scan -> Nat] : InOrder(rank)
      BY DEF SlotInv, Queued
    <3>3. pc[s] \in InLine
      BY <2>1 DEF InLine, Writing
    <3>4. running[on[c]] \in Scan /\ pc[running[on[c]]] \in InLine
      BY <2>1, <3>2, <3>3 DEF InOrder
    <3> QED BY <1>1, <3>1, <3>4, ConstantsAssumption DEF HandlesInPlace, InLine
  <2>2. ASSUME NEW d \in Caller, on[d] = on[c], at[d] = "write" PROVE FALSE
    <3>1. maintenance[on[c]] = c /\ maintenance[on[d]] = d
      BY <2>2 DEF SlotInv, CallersInPlace, LocksHeld
    <3> QED BY <1>2, <2>2, <3>1
  <2> QED BY <2>1, <2>2 DEF Writers
<1>4. Writers(on[c])' = {c}
  <2>1. \A s \in Scan : ~(of'[s] = on'[c] /\ pc'[s] \in Writing)
    BY <1>2, <1>3 DEF Writers
  <2>2. \A d \in Caller : on'[d] = on'[c] /\ at'[d] = "write" <=> d = c
    BY <1>2, <1>3 DEF Writers
  <2> QED BY <2>1, <2>2 DEF Writers
<1> QED BY <1>1, <1>2, <1>3, <1>4, OneCallerMoves DEF Slots!Maintain, Slots!Take

\* It gives the rows back with its guard.
LEMMA MaintenanceEnds ==
  ASSUME SlotInv, NEW c \in Caller, EndMaintenance(c)
  PROVE  Slots!EndMaintenance(c, on[c])
<1>1. TypeOK /\ on[c] \in Wallet
  BY DEF SlotInv, TypeOK
<1>2. /\ UNCHANGED <<of, pc, on, cancelled, starting, stopped_before_start>>
      /\ at[c] = "write" /\ at'[c] = "idle"
      /\ \A d \in Caller \ {c} : at'[d] = at[d]
  BY <1>1 DEF EndMaintenance, Move, fixed, handles, slots, scans, TypeOK
<1>3. Writers(on[c]) = {c}
  BY <1>1, <1>2, WriterIsAlone
<1>4. Writers(on[c])' = {}
  <2>1. \A s \in Scan : ~(of'[s] = on'[c] /\ pc'[s] \in Writing)
    BY <1>2, <1>3, ConstantsAssumption DEF Writers
  <2>2. \A d \in Caller : ~(on'[d] = on'[c] /\ at'[d] = "write")
    BY <1>2, <1>3 DEF Writers
  <2> QED BY <2>1, <2>2 DEF Writers
<1> QED BY <1>1, <1>2, <1>3, <1>4, OneCallerMoves DEF Slots!EndMaintenance, Slots!Drop

\* A cancelled scan stays so, an entry dropped does not come back: whoever was over is.
LEMMA CancelWalletGivesUp ==
  ASSUME SlotInv, NEW w \in Wallet, CancelWalletScans(w), UNCHANGED pc, NEW s \in Scan, IsOver(s)
  PROVE  IsOver(s)'
<1>1. /\ UNCHANGED <<pc, stopped_before_start>>
      /\ starting' \subseteq starting /\ cancelled \subseteq cancelled'
  BY DEF CancelWalletScans, CancelToken
<1> QED BY <1>1 DEF IsOver

\* Every step writes alone, gives the rows back, returns, or gives up scans that had not written.
LEMMA SlotContractStep ==
  ASSUME SlotInv, SlotInv', [Next]_vars
  PROVE  [Slots!Next]_(Slots!vars)
<1> USE DEF Goto, Move, SetOutcome, fixed, handles, slots, scans, callers
<1>0. TypeOK /\ HandlesInPlace /\ HandlesInPlace' /\ TokensInPlace
  BY DEF SlotInv
<1>1. CASE UNCHANGED vars
  <2>1. WritersKept /\ UNCHANGED <<pc, cancelled, starting, stopped_before_start>>
    BY <1>1 DEF vars, WritersKept
  <2>2. \A s \in Scan : IsOver(s) => IsOver(s)'
    BY <2>1 DEF IsOver
  <2> QED BY <1>0, <2>1, <2>2, StepGivesUp
<1>2. ASSUME NEW s \in Scan, CreateHandle(s) \/ Claim(s) \/ CheckSession(s) \/ RefuseStart(s)
             \/ WaitMaintenance(s)
      PROVE  [Slots!Next]_(Slots!vars)
  <2>1. /\ UNCHANGED <<of, at, on, cancelled>>
        /\ pc[s] \notin Writing /\ pc'[s] \notin Writing
        /\ pc[s] # "done" /\ pc'[s] # "done"
        /\ \A t \in Scan \ {s} : pc'[t] = pc[t]
    BY <1>0, <1>2 DEF CreateHandle, Claim, CheckSession, RefuseStart, WaitMaintenance, TypeOK,
                      Writing
  <2>2. IsOver(s) => IsOver(s)'
    BY <1>0, <1>2 DEF CreateHandle, Claim, CheckSession, RefuseStart, WaitMaintenance, TypeOK,
                      HandlesInPlace, IsOver
  <2>3. /\ \A t \in Scan \ {s} : t \in starting' <=> t \in starting
        /\ \A t \in Scan \ {s} : t \in stopped_before_start' <=> t \in stopped_before_start
    BY <1>2 DEF CreateHandle, Claim, CheckSession, RefuseStart, WaitMaintenance
  <2>4. \A t \in Scan : IsOver(t) => IsOver(t)'
    BY <2>1, <2>2, <2>3 DEF IsOver
  <2>5. WritersKept /\ \A t \in Scan : pc'[t] = "done" <=> pc[t] = "done"
    BY <2>1 DEF WritersKept
  <2> QED BY <1>0, <2>4, <2>5, StepGivesUp
<1>3. ASSUME NEW s \in Scan, ClaimSlot(s) PROVE [Slots!Next]_(Slots!vars)
  <2>1. /\ UNCHANGED <<of, at, on, stopped_before_start>>
        /\ starting' = starting \ {s}
        /\ pc[s] = "claiming"
        /\ pc'[s] \in {"leaving", "queued"}
        /\ s \notin starting => pc'[s] = "leaving"
        /\ \A t \in Scan \ {s} : pc'[t] = pc[t]
    BY <1>0, <1>3 DEF ClaimSlot, TypeOK
  <2>2. cancelled \subseteq cancelled'
    BY <1>3 DEF ClaimSlot, TakeSlot, CancelToken
  <2>3. \A t \in Scan : IsOver(t) => IsOver(t)'
    BY <1>0, <2>1, <2>2 DEF IsOver, HandlesInPlace
  <2>4. WritersKept /\ \A t \in Scan : pc'[t] = "done" <=> pc[t] = "done"
    BY <2>1 DEF WritersKept, Writing
  <2> QED BY <1>0, <2>3, <2>4, StepGivesUp
<1>4. ASSUME NEW s \in Scan, EnterSlot(s) PROVE [Slots!Next]_(Slots!vars)
  <2>1. CASE s \notin cancelled
    BY <1>0, <1>4, <2>1, EnterBegins DEF Slots!Next, SlotInv, TypeOK
  <2>2. CASE s \in cancelled
    <3>1. /\ UNCHANGED <<of, at, on, cancelled, starting, stopped_before_start>>
          /\ pc[s] = "queued" /\ pc'[s] = "clearing"
          /\ \A t \in Scan \ {s} : pc'[t] = pc[t]
      BY <1>0, <1>4, <2>2 DEF EnterSlot, TypeOK
    <3>2. \A t \in Scan : IsOver(t) => IsOver(t)'
      BY <3>1 DEF IsOver
    <3>3. WritersKept /\ \A t \in Scan : pc'[t] = "done" <=> pc[t] = "done"
      BY <3>1 DEF WritersKept, Writing
    <3> QED BY <1>0, <3>2, <3>3, StepGivesUp
  <2> QED BY <2>1, <2>2
<1>5. ASSUME NEW s \in Scan, FinishRollback(s) \/ ScannerEnds(s) \/ Panic(s)
      PROVE  [Slots!Next]_(Slots!vars)
  <2>1. /\ UNCHANGED <<of, at, on, cancelled, starting, stopped_before_start>>
        /\ pc[s] \in Writing /\ pc'[s] \in {"scanning", "clearing", "panicked"}
        /\ \A t \in Scan \ {s} : pc'[t] = pc[t]
    BY <1>0, <1>5 DEF FinishRollback, ScannerEnds, Panic, TypeOK, Writing
  <2>2. CASE pc'[s] # "scanning"
    <3>1. pc'[s] \in {"clearing", "panicked"}
      BY <2>1, <2>2
    <3>2. Slots!End(s, of[s])
      BY <1>0, <2>1, <3>1, WriterEnds
    <3> QED BY <3>2 DEF Slots!Next, SlotInv, TypeOK
  <2>3. CASE pc'[s] = "scanning"
    <3>1. WritersKept /\ \A t \in Scan : pc'[t] = "done" <=> pc[t] = "done"
      BY <2>1, <2>3 DEF WritersKept, Writing
    <3>2. \A t \in Scan : IsOver(t) => IsOver(t)'
      BY <1>0, <2>1, OverIsNot DEF IsOver
    <3> QED BY <1>0, <3>1, <3>2, StepGivesUp
  <2> QED BY <2>2, <2>3
<1>6. ASSUME NEW s \in Scan, CloseStream(s) \/ ClearSlot(s) \/ LeaveStarting(s)
      PROVE  [Slots!Next]_(Slots!vars)
  <2>1. /\ UNCHANGED <<of, at, on, stopped_before_start>>
        /\ starting' \subseteq starting /\ cancelled \subseteq cancelled'
        /\ \/ UNCHANGED <<pc, starting>>
           \/ pc[s] \in {"clearing", "leaving"} /\ pc'[s] \in {"leaving", "ending"}
        /\ \A t \in Scan \ {s} : pc'[t] = pc[t] /\ (t \in starting' <=> t \in starting)
    BY <1>0, <1>6 DEF CloseStream, CancelToken, ClearSlot, LeaveStarting, TypeOK
  <2>2. \A t \in Scan : IsOver(t) => IsOver(t)'
    BY <2>1 DEF IsOver
  <2>3. WritersKept /\ \A t \in Scan : pc'[t] = "done" <=> pc[t] = "done"
    BY <2>1 DEF WritersKept, Writing
  <2> QED BY <1>0, <2>2, <2>3, StepGivesUp
<1>7. ASSUME NEW s \in Scan, Return(s) PROVE [Slots!Next]_(Slots!vars)
  BY <1>0, <1>7, ReturnEnds DEF Slots!Next
<1>8. ASSUME NEW c \in Caller, NEW s \in Scan, StopScan(c, s) PROVE [Slots!Next]_(Slots!vars)
  <2>1. /\ UNCHANGED <<of, pc>>
        /\ starting' \subseteq starting /\ cancelled \subseteq cancelled'
        /\ stopped_before_start \subseteq stopped_before_start'
        /\ at[c] = "idle" /\ at'[c] # "write"
        /\ \A d \in Caller \ {c} : at'[d] = at[d] /\ on'[d] = on[d]
    BY <1>0, <1>8 DEF StopScan, StopIssued, StopStarting, StopRunning, StopOther, CancelToken,
                      TypeOK
  <2>2. \A t \in Scan : IsOver(t) => IsOver(t)'
    BY <2>1 DEF IsOver
  <2>3. WritersKept /\ \A t \in Scan : pc'[t] = "done" <=> pc[t] = "done"
    BY <2>1 DEF WritersKept
  <2> QED BY <1>0, <2>2, <2>3, StepGivesUp
<1>9. ASSUME NEW c \in Caller, CancelUnderGate(c) \/ StopWalletScans(c)
      PROVE  [Slots!Next]_(Slots!vars)
  <2>1. /\ UNCHANGED <<of, pc, on>> /\ CancelWalletScans(on[c]) /\ on[c] \in Wallet
        /\ at[c] # "write" /\ at'[c] # "write"
        /\ \A d \in Caller \ {c} : at'[d] = at[d]
    BY <1>0, <1>9 DEF CancelUnderGate, StopWalletScans, TypeOK
  <2>2. \A t \in Scan : IsOver(t) => IsOver(t)'
    BY <2>1, CancelWalletGivesUp
  <2>3. WritersKept /\ \A t \in Scan : pc'[t] = "done" <=> pc[t] = "done"
    BY <2>1 DEF WritersKept
  <2> QED BY <1>0, <2>2, <2>3, StepGivesUp
<1>10. ASSUME NEW c \in Caller, WaitStopped(c) PROVE [Slots!Next]_(Slots!vars)
  <2>1. CASE kind[c] = "maintenance"
    BY <1>10, <2>1, WaitMaintains DEF Slots!Next, SlotInv, TypeOK
  <2>2. CASE kind[c] # "maintenance"
    <3>1. /\ UNCHANGED <<of, pc, on, cancelled, starting, stopped_before_start>>
          /\ at[c] = "wait" /\ at'[c] = "idle"
          /\ \A d \in Caller \ {c} : at'[d] = at[d]
      BY <1>0, <1>10, <2>2 DEF WaitStopped, TypeOK
    <3>2. \A t \in Scan : IsOver(t) => IsOver(t)'
      BY <3>1 DEF IsOver
    <3>3. WritersKept /\ \A t \in Scan : pc'[t] = "done" <=> pc[t] = "done"
      BY <3>1 DEF WritersKept
    <3> QED BY <1>0, <3>2, <3>3, StepGivesUp
  <2> QED BY <2>1, <2>2
<1>11. ASSUME NEW c \in Caller, EndMaintenance(c) PROVE [Slots!Next]_(Slots!vars)
  BY <1>11, MaintenanceEnds DEF Slots!Next, SlotInv, TypeOK
<1>12. ASSUME NEW c \in Caller, NEW w \in Wallet, LockSession(c, w) \/ BeginMaintenance(c, w)
       PROVE  [Slots!Next]_(Slots!vars)
  <2>1. /\ UNCHANGED <<of, pc, cancelled, starting, stopped_before_start>>
        /\ at[c] = "idle" /\ at'[c] # "write"
        /\ \A d \in Caller \ {c} : at'[d] = at[d] /\ on'[d] = on[d]
    BY <1>0, <1>12 DEF LockSession, BeginMaintenance, TypeOK
  <2>2. \A t \in Scan : IsOver(t) => IsOver(t)'
    BY <2>1 DEF IsOver
  <2>3. WritersKept /\ \A t \in Scan : pc'[t] = "done" <=> pc[t] = "done"
    BY <2>1 DEF WritersKept
  <2> QED BY <1>0, <2>2, <2>3, StepGivesUp
<1>13. ASSUME NEW w \in Wallet, UnlockSession(w) PROVE [Slots!Next]_(Slots!vars)
  <2>1. WritersKept /\ UNCHANGED <<pc, cancelled, starting, stopped_before_start>>
    BY <1>13 DEF UnlockSession, WritersKept
  <2>2. \A s \in Scan : IsOver(s) => IsOver(s)'
    BY <2>1 DEF IsOver
  <2> QED BY <1>0, <2>1, <2>2, StepGivesUp
<1> QED BY <1>1, <1>2, <1>3, <1>4, <1>5, <1>6, <1>7, <1>8, <1>9, <1>10, <1>11, <1>12, <1>13
        DEF Next, ScanStep, CallerStep

LEMMA SlotContractInit == Init => Slots!Init
<1> SUFFICES ASSUME Init PROVE Slots!Init
  OBVIOUS
<1>1. \A w \in Wallet : Writers(w) = {}
  BY DEF Init, Writers, Writing
<1>2. \A s \in Scan : Stage(s) = "new"
  BY DEF Init, Stage, IsOver, Writing
<1> QED BY <1>1, <1>2 DEF Slots!Init

\* The slots implement SlotContract: one task at a time writes a wallet's rows, and no scan
\* that was stopped, replaced or refused before it wrote ever writes, however scans, stops,
\* locks and maintenance operations interleave.
THEOREM SlotsKeepTheirContract == Spec => KeepsSlotContract
<1>1. SlotInv /\ [Next]_vars => [Slots!Next]_(Slots!vars)
  BY SlotInvStep, SlotContractStep
<1>2. Spec => Slots!Spec
  BY <1>1, SlotContractInit, SlotInvariant, PTL DEF Spec, Slots!Spec
<1> QED BY <1>2 DEF KeepsSlotContract
=============================================================================
