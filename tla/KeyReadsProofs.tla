--------------------------- MODULE KeyReadsProofs ---------------------------
(***************************************************************************)
(* Proofs about KeyReads.  The sessions are taken as they come: nothing is *)
(* used of KeySessions but that a wallet's session is there or not.        *)
(***************************************************************************)
EXTENDS KeyReads, TLAPS

Fallen == {"empty", "undecrypted"}

\* A reader that has not asked yet has no answer, and one whose keys did not come
\* from the session finds one only if the wallet was unlocked since.
ReadInv ==
  /\ stage \in [Reader -> {"idle", "account", "stored", "sign", "check", "done"}]
  /\ source \in [Reader -> {"none", "session", "empty", "undecrypted"}]
  /\ answer \in [Reader -> Answers \cup {"none"}]
  /\ relocked \in [Reader -> BOOLEAN]
  /\ \A r \in Reader :
       /\ stage[r] # "done" => answer[r] = "none"
       /\ stage[r] \in {"idle", "account", "stored", "sign"} => source[r] = "none"
       /\ stage[r] = "check" /\ source[r] \in Fallen /\ wallet[r] \in live => relocked[r]
       /\ UsedFallback(r) => relocked[r]

\* The readers have not begun.
LEMMA ReadInvInit == ReadInit => ReadInv
  BY DEF ReadInit, ReadInv, UsedFallback, Fallen, Answers

\* Whatever the sessions do, a wallet that gains one is remembered.
LEMMA SessionsKeepReadInv ==
  ASSUME ReadInv, SessionsStep
  PROVE  ReadInv'
<1>1. UNCHANGED <<stage, wallet, source, answer>>
  BY DEF SessionsStep, reads
<1>2. relocked' = [r \in Reader |->
                     relocked[r] \/ (stage[r] = "check" /\ wallet[r] \in live' \ live)]
  BY DEF SessionsStep
<1>3. relocked' \in [Reader -> BOOLEAN]
  BY <1>2 DEF ReadInv
<1>4. ASSUME NEW r \in Reader, relocked[r] PROVE relocked'[r]
  BY <1>2, <1>4
<1>5. ASSUME NEW r \in Reader, stage[r] = "check", source[r] \in Fallen, wallet[r] \in live'
      PROVE  relocked'[r]
  <2>1. CASE wallet[r] \in live
    BY <1>4, <1>5, <2>1 DEF ReadInv
  <2>2. CASE wallet[r] \notin live
    BY <1>2, <1>5, <2>2
  <2> QED BY <2>1, <2>2
<1> QED BY <1>1, <1>3, <1>4, <1>5 DEF ReadInv, UsedFallback

\* A step of one reader: only with_session answers keys that were read without one,
\* and it has asked again.
LEMMA ReadersKeepReadInv ==
  ASSUME ReadInv, NEW r \in Reader, Read(r), UNCHANGED <<vars, relocked>>
  PROVE  ReadInv'
<1>1. UNCHANGED <<live, wallet>>
  BY DEF Read, vars, external, Connect, NoAccount, UnlockedAccount, ReadKeys,
         WithSession, SignMessage, To, Answer
<1>2. CASE Connect(r)
  BY <1>1, <1>2 DEF ReadInv, Connect, To, UsedFallback
<1>3. CASE NoAccount(r)
  BY <1>1, <1>3 DEF ReadInv, NoAccount, To, Answer, Answers, UsedFallback
<1>4. CASE UnlockedAccount(r)
  BY <1>1, <1>4 DEF ReadInv, UnlockedAccount, To, Answer, Answers, UsedFallback
<1>5. CASE ReadKeys(r)
  BY <1>1, <1>5 DEF ReadInv, ReadKeys, FallBack, To, UsedFallback, Fallen
<1>6. CASE WithSession(r)
  BY <1>1, <1>6 DEF ReadInv, WithSession, To, Answer, Answers, UsedFallback, Fallen
<1>7. CASE SignMessage(r)
  BY <1>1, <1>7 DEF ReadInv, SignMessage, To, Answer, Answers, UsedFallback
<1> QED BY <1>2, <1>3, <1>4, <1>5, <1>6, <1>7 DEF Read

\* A key path that loses its session answers Locked unless the wallet was unlocked
\* again before it asked (with_session, db.rs:413-428): for any number of wallets,
\* databases, readers and calls, whatever the calls do to the sessions.
THEOREM FallbackIsCaught == ReadSpec => []FallbackNeedsARelock
<1>1. ReadInv /\ [ReadNext]_readVars => ReadInv'
  <2> SUFFICES ASSUME ReadInv, [ReadNext]_readVars PROVE ReadInv'
    OBVIOUS
  <2>1. CASE SessionsStep
    BY <2>1, SessionsKeepReadInv
  <2>2. CASE (\E r \in Reader : Read(r)) /\ UNCHANGED <<vars, relocked>>
    BY <2>2, ReadersKeepReadInv
  <2>3. CASE UNCHANGED readVars
    BY <2>3 DEF ReadInv, readVars, vars, external, reads, UsedFallback
  <2> QED BY <2>1, <2>2, <2>3 DEF ReadNext
<1>2. ReadInv => FallbackNeedsARelock
  BY DEF ReadInv, FallbackNeedsARelock
<1> QED BY <1>1, <1>2, ReadInvInit, PTL DEF ReadSpec
=============================================================================
