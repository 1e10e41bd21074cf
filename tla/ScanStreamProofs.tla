-------------------------- MODULE ScanStreamProofs --------------------------
(***************************************************************************)
(* Proofs about ScanStream, for every size of the event buffer and any     *)
(* number of events, and that it keeps ScanContract.                       *)
(***************************************************************************)
EXTENDS ScanStream, SequenceTheorems, TLAPS

-----------------------------------------------------------------------------
(* The inductive invariant *)

\* The scanner has room in its bound for a last event, and every event has a kind.
EventsCounted ==
  /\ scanner = "running" => emitted <= MaxEvents
  /\ Len(kinds) = emitted

\* The channel holds emitted events in the order of their emission.
ChannelInOrder ==
  /\ \A i \in 1..Len(channel) :
       /\ channel[i][1] \in 1..emitted
       /\ channel[i][2] = kinds[channel[i][1]]
  /\ \A i, j \in 1..Len(channel) : i < j => channel[i][1] < channel[j][1]

\* What was delivered are progress events, older than all that are in the channel.
DeliveredBefore ==
  \A i \in 1..Len(delivered) :
    /\ delivered[i] \in 1..emitted
    /\ kinds[delivered[i]] \in Shown
    /\ \A j \in 1..Len(channel) : delivered[i] < channel[j][1]

\* A progress event is delivered or on its way while the sink is open.
NothingLost ==
  sink_open /\ forwarder # "panicked" =>
    \A n \in 1..emitted : kinds[n] \in Shown =>
      \/ \E i \in 1..Len(delivered) : delivered[i] = n
      \/ \E j \in 1..Len(channel) : channel[j][1] = n

\* The stages of the stream: the scanner, then the forwarder, then the terminal event.
StagesInOrder ==
  /\ forwarder = "done" => scanner # "running" /\ channel = <<>>
  /\ scan # "running" => scanner # "running" /\ forwarder # "reading"
  /\ scan = "running" => ending = None
  /\ ending # None => sink_open
  /\ listening => sink_open

StreamInv ==
  /\ TypeOK
  /\ EventsCounted
  /\ ChannelInOrder
  /\ DeliveredBefore
  /\ NothingLost
  /\ StagesInOrder

-----------------------------------------------------------------------------
(* Sequences *)

\* An element appended is the last, and the others stay where they were.
LEMMA Appended ==
  ASSUME NEW S, NEW q \in Seq(S), NEW e \in S
  PROVE  /\ Append(q, e) \in Seq(S)
         /\ Len(Append(q, e)) = Len(q) + 1
         /\ Append(q, e)[Len(q) + 1] = e
         /\ \A i \in 1..Len(q) : Append(q, e)[i] = q[i]
         /\ SubSeq(Append(q, e), 1, Len(q)) = q
<1>1. /\ Append(q, e) \in Seq(S)
      /\ Len(Append(q, e)) = Len(q) + 1
      /\ Append(q, e)[Len(q) + 1] = e
      /\ \A i \in 1..Len(q) : Append(q, e)[i] = q[i]
  OBVIOUS
<1>2. Len(q) \in Nat
  OBVIOUS
<1>3. \A i \in 1..Len(q) : Append(q, e)[i] \in S
  BY <1>1, ElementOfSeq
<1>4. /\ SubSeq(Append(q, e), 1, Len(q)) \in Seq(S)
      /\ Len(SubSeq(Append(q, e), 1, Len(q))) = Len(q)
      /\ \A i \in 1..Len(q) : SubSeq(Append(q, e), 1, Len(q))[i] = q[i]
  BY <1>1, <1>2, <1>3, SubSeqProperties
<1>5. SubSeq(Append(q, e), 1, Len(q)) = q
  BY <1>4, SeqEqual
<1> QED BY <1>1, <1>5

\* What is left when the first element is taken.
LEMMA TailShifts ==
  ASSUME NEW S, NEW q \in Seq(S), q # <<>>
  PROVE  /\ Len(q) \in Nat \ {0}
         /\ Head(q) = q[1]
         /\ q[1] \in S
         /\ Tail(q) \in Seq(S)
         /\ Len(Tail(q)) = Len(q) - 1
         /\ \A i \in 1..Len(Tail(q)) : Tail(q)[i] = q[i + 1] /\ i + 1 \in 1..Len(q)
<1>1. Len(q) \in Nat \ {0}
  BY EmptySeq
<1>2. Head(q) = q[1] /\ q[1] \in S
  BY <1>1, ElementOfSeq
<1>3. /\ Tail(q) \in Seq(S) /\ Len(Tail(q)) = Len(q) - 1
      /\ \A i \in 1..Len(Tail(q)) : Tail(q)[i] = q[i + 1]
  BY HeadTailProperties
<1> QED BY <1>1, <1>2, <1>3

-----------------------------------------------------------------------------
(* Every step keeps the invariant *)

LEMMA StreamInit == Init => StreamInv
<1> SUFFICES ASSUME Init PROVE StreamInv
  OBVIOUS
<1> USE ConstantsAssumption DEF Init
<1>1. \A S : <<>> \in Seq(S) /\ Len(<<>>) = 0
  BY EmptySeq
<1>2. TypeOK
  <2>1. kinds \in Seq(Kind) /\ channel \in Seq(Number \X Kind) /\ delivered \in Seq(Nat)
    BY <1>1
  <2>2. emitted \in 0..(MaxEvents + 1) /\ Len(channel) <= Buffer
    BY <1>1
  <2> QED BY <2>1, <2>2 DEF TypeOK
<1>3. EventsCounted /\ ChannelInOrder /\ DeliveredBefore
  BY <1>1 DEF EventsCounted, ChannelInOrder, DeliveredBefore
<1>4. NothingLost /\ StagesInOrder
  BY DEF NothingLost, StagesInOrder
<1> QED BY <1>2, <1>3, <1>4 DEF StreamInv

\* An event that the scanner emits gets the next number.
LEMMA EmitStep ==
  ASSUME StreamInv, NEW kind \in Kind, Emit(kind), scanner = "running",
         scanner' \in {"running", "ok"}, scanner' = "running" => emitted < MaxEvents,
         UNCHANGED <<reader, token, scan, delivered, ending, listening>>
  PROVE  StreamInv'
<1> DEFINE E == Number \X Kind
<1>1. /\ emitted \in Nat /\ emitted + 1 \in Number /\ MaxEvents \in Nat
      /\ kinds \in Seq(Kind) /\ Len(kinds) = emitted
      /\ channel \in Seq(E)
      /\ delivered \in Seq(Nat)
  BY ConstantsAssumption DEF StreamInv, TypeOK, EventsCounted, Number
<1>2. /\ kinds' \in Seq(Kind) /\ Len(kinds') = emitted + 1
      /\ kinds'[emitted + 1] = kind
      /\ \A n \in 1..emitted : kinds'[n] = kinds[n]
      /\ emitted' = emitted + 1
  BY <1>1, Appended DEF Emit
<1>3. CASE forwarder = "reading"
  <2>1. <<emitted + 1, kind>> \in E
    BY <1>1
  <2>2. /\ channel' \in Seq(E) /\ Len(channel') = Len(channel) + 1
        /\ channel'[Len(channel) + 1] = <<emitted + 1, kind>>
        /\ \A i \in 1..Len(channel) : channel'[i] = channel[i]
        /\ Len(channel') <= Buffer
        /\ Len(channel) \in Nat
    BY <1>1, <1>3, <2>1, Appended, ConstantsAssumption DEF Emit, Room
  <2>3. TypeOK'
    <3>1. emitted' \in 0..(MaxEvents + 1)
      BY <1>1, <1>2 DEF Number
    <3> QED BY <1>2, <2>2, <3>1 DEF StreamInv, TypeOK, reader, token
  <2>4. ChannelInOrder'
    <3>1. \A i \in 1..Len(channel') :
            /\ channel'[i][1] \in 1..emitted'
            /\ channel'[i][2] = kinds'[channel'[i][1]]
      <4> SUFFICES ASSUME NEW i \in 1..Len(channel')
                   PROVE  /\ channel'[i][1] \in 1..(emitted + 1)
                          /\ channel'[i][2] = kinds'[channel'[i][1]]
        BY <1>2
      <4>1. CASE i \in 1..Len(channel)
        <5>1. channel[i][1] \in 1..emitted /\ channel[i][2] = kinds[channel[i][1]]
          BY <4>1 DEF StreamInv, ChannelInOrder
        <5>2. kinds'[channel[i][1]] = kinds[channel[i][1]] /\ channel'[i] = channel[i]
          BY <1>2, <2>2, <4>1, <5>1
        <5>3. channel[i][1] \in 1..(emitted + 1)
          BY <1>1, <5>1
        <5> QED BY <5>1, <5>2, <5>3
      <4>2. CASE i = Len(channel) + 1
        BY <1>1, <1>2, <2>2, <4>2
      <4> QED BY <2>2, <4>1, <4>2
    <3>2. ASSUME NEW i \in 1..Len(channel'), NEW j \in 1..Len(channel'), i < j
          PROVE  channel'[i][1] < channel'[j][1]
      <4>1. i \in 1..Len(channel) /\ channel'[i] = channel[i] /\ channel[i][1] \in 1..emitted
        BY <2>2, <3>2 DEF StreamInv, ChannelInOrder
      <4>2. CASE j \in 1..Len(channel)
        BY <2>2, <3>2, <4>1, <4>2 DEF StreamInv, ChannelInOrder
      <4>3. CASE j = Len(channel) + 1
        BY <1>1, <2>2, <4>1, <4>3
      <4> QED BY <2>2, <4>2, <4>3
    <3> QED BY <3>1, <3>2 DEF ChannelInOrder
  <2>5. DeliveredBefore'
    <3> SUFFICES ASSUME NEW i \in 1..Len(delivered)
                 PROVE  /\ delivered[i] \in 1..(emitted + 1)
                        /\ kinds'[delivered[i]] \in Shown
                        /\ \A j \in 1..Len(channel') : delivered[i] < channel'[j][1]
      BY <1>2 DEF DeliveredBefore
    <3>1. /\ delivered[i] \in 1..emitted /\ kinds[delivered[i]] \in Shown
          /\ \A j \in 1..Len(channel) : delivered[i] < channel[j][1]
      BY DEF StreamInv, DeliveredBefore
    <3>2. kinds'[delivered[i]] = kinds[delivered[i]] /\ delivered[i] \in 1..(emitted + 1)
      BY <1>1, <1>2, <3>1
    <3>3. ASSUME NEW j \in 1..Len(channel') PROVE delivered[i] < channel'[j][1]
      <4>1. CASE j \in 1..Len(channel) BY <2>2, <3>1, <4>1
      <4>2. CASE j = Len(channel) + 1 BY <1>1, <2>2, <3>1, <4>2
      <4> QED BY <2>2, <4>1, <4>2
    <3> QED BY <3>1, <3>2, <3>3
  <2>6. NothingLost'
    <3> SUFFICES ASSUME sink_open, NEW n \in 1..(emitted + 1), kinds'[n] \in Shown
                 PROVE  \/ \E i \in 1..Len(delivered) : delivered[i] = n
                        \/ \E j \in 1..Len(channel') : channel'[j][1] = n
      BY <1>2 DEF NothingLost, reader
    <3>1. CASE n = emitted + 1
      BY <2>2, <3>1
    <3>2. CASE n \in 1..emitted
      <4>1. \/ \E i \in 1..Len(delivered) : delivered[i] = n
            \/ \E j \in 1..Len(channel) : channel[j][1] = n
        BY <1>2, <1>3, <3>2 DEF StreamInv, NothingLost
      <4>2. \A j \in 1..Len(channel) : channel'[j][1] = channel[j][1] /\ j \in 1..Len(channel')
        BY <2>2
      <4> QED BY <4>1, <4>2
    <3>3. emitted \in Nat
      BY <1>1
    <3> QED BY <3>1, <3>2, <3>3
  <2> QED BY <1>1, <1>2, <1>3, <2>3, <2>4, <2>5, <2>6
          DEF StreamInv, EventsCounted, StagesInOrder, reader, token
<1>4. CASE forwarder # "reading"
  <2>1. (forwarder = "panicked" /\ channel' = <<>> /\ scan = "running") \/ scan # "running"
    BY <1>4 DEF StreamInv, TypeOK, StagesInOrder, Emit
  <2>2. scan = "running"
    BY DEF StreamInv, StagesInOrder, TypeOK
  <2>3. TypeOK'
    BY <1>1, <1>2, <2>1, <2>2, ConstantsAssumption
       DEF StreamInv, TypeOK, Number, reader, token
  <2> QED BY <1>1, <1>2, <2>1, <2>2, <2>3
          DEF StreamInv, EventsCounted, ChannelInOrder, DeliveredBefore, NothingLost,
              StagesInOrder, reader, token
<1> QED BY <1>3, <1>4

\* The forwarder takes the oldest event, and what it delivers is newer than all before.
LEMMA ReceiveStep ==
  ASSUME StreamInv, Receive
  PROVE  /\ StreamInv'
         /\ \/ delivered' = delivered
            \/ /\ delivered' = Append(delivered, channel[1][1])
               /\ channel[1][1] \in Nat
               /\ \A i \in 1..Len(delivered) : delivered[i] < channel[1][1]
<1> DEFINE E == Number \X Kind
           n == channel[1][1]
           kind == channel[1][2]
<1>1. channel \in Seq(E) /\ channel # <<>> /\ delivered \in Seq(Nat)
  BY DEF Receive, StreamInv, TypeOK
<1>2. /\ Len(channel) \in Nat \ {0}
      /\ Head(channel) = channel[1] /\ channel[1] \in E
      /\ channel' \in Seq(E) /\ Len(channel') = Len(channel) - 1
      /\ \A i \in 1..Len(channel') : channel'[i] = channel[i + 1] /\ i + 1 \in 1..Len(channel)
  BY <1>1, TailShifts DEF Receive
<1>3. /\ n \in Nat /\ n \in 1..emitted /\ kind = kinds[n] /\ kind \in Kind
      /\ \A i \in 1..Len(delivered) : delivered[i] < n
      /\ \A j \in 1..Len(channel') : n < channel'[j][1]
  <2>1. 1 \in 1..Len(channel) /\ kind \in Kind
    BY <1>2
  <2>2. n \in 1..emitted /\ kind = kinds[n] /\ emitted \in Nat
    BY <2>1 DEF StreamInv, ChannelInOrder, TypeOK
  <2>3. \A i \in 1..Len(delivered) : delivered[i] < n
    BY <2>1 DEF StreamInv, DeliveredBefore
  <2>4. \A j \in 2..Len(channel) : n < channel[j][1]
    BY <2>1 DEF StreamInv, ChannelInOrder
  <2>5. \A j \in 1..Len(channel') : n < channel'[j][1]
    BY <1>2, <2>4
  <2> QED BY <2>1, <2>2, <2>3, <2>5
<1>4. /\ Handle(n, kind)
      /\ UNCHANGED <<scanner, emitted, kinds, forwarder, superseded, scan, listening>>
  BY <1>2 DEF Receive
<1>5. ChannelInOrder'
  <2>1. emitted' = emitted /\ kinds' = kinds
    BY <1>4
  <2>2. \A i, j \in 1..Len(channel') : i < j => i + 1 < j + 1
    OBVIOUS
  <2>3. \A i, j \in 1..Len(channel') : i < j => channel'[i][1] < channel'[j][1]
    BY <1>2, <2>2 DEF StreamInv, ChannelInOrder
  <2>4. \A i \in 1..Len(channel') :
          channel'[i][1] \in 1..emitted /\ channel'[i][2] = kinds[channel'[i][1]]
    BY <1>2 DEF StreamInv, ChannelInOrder
  <2> QED BY <2>1, <2>3, <2>4 DEF ChannelInOrder
<1>6. ASSUME delivered' = delivered, ending' = ending, terminal' \in Last \cup {None},
             cancelled' \in BOOLEAN, sink_open' \in BOOLEAN,
             kind \in Shown => ~sink_open',
             sink_open' => sink_open,
             listening => sink_open',
             ending # None => sink_open'
      PROVE  StreamInv'
  <2>1. TypeOK'
    <3>1. Len(channel') <= Buffer
      BY <1>2, ConstantsAssumption DEF StreamInv, TypeOK
    <3> QED BY <1>2, <1>4, <1>6, <3>1 DEF StreamInv, TypeOK
  <2>2. DeliveredBefore'
    BY <1>2, <1>4, <1>6 DEF StreamInv, DeliveredBefore
  <2>3. NothingLost'
    <3> SUFFICES ASSUME sink_open', forwarder # "panicked", NEW m \in 1..emitted,
                        kinds[m] \in Shown
                 PROVE  \/ \E i \in 1..Len(delivered) : delivered[i] = m
                        \/ \E j \in 1..Len(channel') : channel'[j][1] = m
      BY <1>4, <1>6 DEF NothingLost
    <3>1. m # n
      BY <1>3, <1>6
    <3>2. \/ \E i \in 1..Len(delivered) : delivered[i] = m
          \/ \E j \in 1..Len(channel) : channel[j][1] = m
      BY <1>6 DEF StreamInv, NothingLost
    <3>3. ASSUME NEW j \in 1..Len(channel), channel[j][1] = m
          PROVE  j - 1 \in 1..Len(channel') /\ channel'[j - 1][1] = m
      <4>1. j # 1
        BY <3>1, <3>3
      <4>2. j - 1 \in 1..Len(channel') /\ (j - 1) + 1 = j
        BY <1>2, <4>1
      <4> QED BY <1>2, <3>3, <4>2
    <3> QED BY <3>2, <3>3
  <2> QED BY <1>4, <1>5, <1>6, <2>1, <2>2, <2>3
          DEF StreamInv, EventsCounted, StagesInOrder, Receive
<1>7. ASSUME delivered' = Append(delivered, n), kind \in Shown,
             UNCHANGED <<terminal, ending, sink_open, cancelled>>
      PROVE  StreamInv'
  <2>1. /\ delivered' \in Seq(Nat) /\ Len(delivered') = Len(delivered) + 1
        /\ delivered'[Len(delivered) + 1] = n
        /\ \A i \in 1..Len(delivered) : delivered'[i] = delivered[i]
        /\ Len(delivered) \in Nat
    BY <1>1, <1>3, <1>7, Appended
  <2>2. TypeOK'
    <3>1. Len(channel') <= Buffer
      BY <1>2, ConstantsAssumption DEF StreamInv, TypeOK
    <3> QED BY <1>2, <1>4, <1>7, <2>1, <3>1 DEF StreamInv, TypeOK
  <2>3. DeliveredBefore'
    <3> SUFFICES ASSUME NEW i \in 1..Len(delivered')
                 PROVE  /\ delivered'[i] \in 1..emitted
                        /\ kinds[delivered'[i]] \in Shown
                        /\ \A j \in 1..Len(channel') : delivered'[i] < channel'[j][1]
      BY <1>4 DEF DeliveredBefore
    <3>1. CASE i = Len(delivered) + 1
      BY <1>3, <1>7, <2>1, <3>1
    <3>2. CASE i \in 1..Len(delivered)
      BY <1>2, <2>1, <3>2 DEF StreamInv, DeliveredBefore
    <3> QED BY <2>1, <3>1, <3>2
  <2>4. NothingLost'
    <3> SUFFICES ASSUME sink_open, forwarder # "panicked", NEW m \in 1..emitted,
                        kinds[m] \in Shown
                 PROVE  \/ \E i \in 1..Len(delivered') : delivered'[i] = m
                        \/ \E j \in 1..Len(channel') : channel'[j][1] = m
      BY <1>4, <1>7 DEF NothingLost
    <3>1. CASE m = n
      BY <2>1, <3>1
    <3>2. CASE m # n
      <4>1. \/ \E i \in 1..Len(delivered) : delivered[i] = m
            \/ \E j \in 1..Len(channel) : channel[j][1] = m
        BY DEF StreamInv, NothingLost
      <4>2. ASSUME NEW j \in 1..Len(channel), channel[j][1] = m
            PROVE  j - 1 \in 1..Len(channel') /\ channel'[j - 1][1] = m
        <5>1. j # 1
          BY <3>2, <4>2
        <5>2. j - 1 \in 1..Len(channel') /\ (j - 1) + 1 = j
          BY <1>2, <5>1
        <5>3. channel'[j - 1] = channel[(j - 1) + 1]
          BY <1>2, <5>2
        <5> QED BY <4>2, <5>2, <5>3
      <4>3. ASSUME NEW i \in 1..Len(delivered), delivered[i] = m
            PROVE  i \in 1..Len(delivered') /\ delivered'[i] = m
        BY <2>1, <4>3
      <4> QED BY <4>1, <4>2, <4>3
    <3> QED BY <3>1, <3>2
  <2>5. EventsCounted' /\ StagesInOrder'
    BY <1>4, <1>7 DEF StreamInv, EventsCounted, StagesInOrder, Receive
  <2> QED BY <1>5, <2>2, <2>3, <2>4, <2>5 DEF StreamInv
<1>8. \/ delivered' = Append(delivered, n) /\ kind \in Shown
         /\ UNCHANGED <<terminal, ending, sink_open, cancelled>>
      \/ /\ delivered' = delivered /\ ending' = ending /\ terminal' \in Last \cup {None}
         /\ cancelled' \in BOOLEAN /\ sink_open' \in BOOLEAN
         /\ kind \in Shown => ~sink_open'
         /\ sink_open' => sink_open
         /\ listening => sink_open'
         /\ ending # None => sink_open'
  <2>1. ending = None
    BY DEF StreamInv, StagesInOrder, Receive, TypeOK
  <2> QED BY <1>4, <2>1
          DEF Handle, Callback, StreamInv, TypeOK, StagesInOrder, Shown, Hidden, Last
<1> QED BY <1>3, <1>6, <1>7, <1>8

LEMMA StreamStep == StreamInv /\ [Next]_vars => StreamInv'
<1> SUFFICES ASSUME StreamInv, [Next]_vars PROVE StreamInv'
  OBVIOUS
<1> USE DEF StreamInv, TypeOK, EventsCounted, ChannelInOrder, DeliveredBefore, NothingLost,
            StagesInOrder, reader, token
<1>1. CASE UNCHANGED vars BY <1>1 DEF vars
<1>2. CASE Progress
  <2>1. PICK kind \in Shown \cup Hidden \cup {"Completed"} : Emit(kind)
    BY <1>2 DEF Progress
  <2> HIDE DEF StreamInv, TypeOK
  <2> QED BY <1>2, <2>1, EmitStep DEF Progress, Kind, Last
<1>3. CASE ScannerReturns
  <2>1. PICK kind \in Last : Emit(kind)
    BY <1>3 DEF ScannerReturns
  <2> HIDE DEF StreamInv, TypeOK
  <2> QED BY <1>3, <2>1, EmitStep DEF ScannerReturns, Kind
<1>4. CASE ScannerFails BY <1>4 DEF ScannerFails
<1>5. CASE Receive BY <1>5, ReceiveStep
<1>6. CASE ForwarderEnds
  <2>1. TypeOK' /\ EventsCounted'
    BY <1>6 DEF ForwarderEnds
  <2>2. ChannelInOrder' /\ DeliveredBefore'
    BY <1>6 DEF ForwarderEnds
  <2>3. NothingLost'
    BY <1>6 DEF ForwarderEnds
  <2>4. StagesInOrder'
    BY <1>6 DEF ForwarderEnds
  <2> QED BY <2>1, <2>2, <2>3, <2>4
<1>7. CASE ForwarderPanics
  <2>1. TypeOK' /\ EventsCounted'
    BY <1>7, ConstantsAssumption DEF ForwarderPanics
  <2>2. ChannelInOrder' /\ DeliveredBefore'
    BY <1>7 DEF ForwarderPanics
  <2>3. NothingLost'
    BY <1>7 DEF ForwarderPanics
  <2>4. StagesInOrder'
    BY <1>7 DEF ForwarderPanics
  <2> QED BY <2>1, <2>2, <2>3, <2>4
<1>8. CASE EndStream
  <2>1. TypeOK' /\ EventsCounted'
    BY <1>8 DEF EndStream, TerminalEvent, Terminal, Last
  <2>2. ChannelInOrder' /\ DeliveredBefore'
    BY <1>8 DEF EndStream
  <2>3. NothingLost'
    BY <1>8 DEF EndStream
  <2>4. StagesInOrder'
    BY <1>8 DEF EndStream, TerminalEvent, Terminal, Last
  <2> QED BY <2>1, <2>2, <2>3, <2>4
<1>9. CASE Return
  <2>1. TypeOK' /\ EventsCounted'
    BY <1>9 DEF Return
  <2>2. ChannelInOrder' /\ DeliveredBefore'
    BY <1>9 DEF Return
  <2>3. NothingLost'
    BY <1>9 DEF Return
  <2>4. StagesInOrder'
    BY <1>9 DEF Return
  <2> QED BY <2>1, <2>2, <2>3, <2>4
<1>10. CASE Cancel
  <2>1. TypeOK' /\ EventsCounted'
    BY <1>10 DEF Cancel
  <2>2. ChannelInOrder' /\ DeliveredBefore'
    BY <1>10 DEF Cancel
  <2>3. NothingLost'
    BY <1>10 DEF Cancel
  <2>4. StagesInOrder'
    BY <1>10 DEF Cancel
  <2> QED BY <2>1, <2>2, <2>3, <2>4
<1>11. CASE StopListening
  <2>1. TypeOK' /\ EventsCounted'
    BY <1>11 DEF StopListening
  <2>2. ChannelInOrder' /\ DeliveredBefore'
    BY <1>11 DEF StopListening
  <2>3. NothingLost'
    BY <1>11 DEF StopListening
  <2>4. StagesInOrder'
    BY <1>11 DEF StopListening
  <2> QED BY <2>1, <2>2, <2>3, <2>4
<1> QED BY <1>1, <1>2, <1>3, <1>4, <1>5, <1>6, <1>7, <1>8, <1>9, <1>10, <1>11
        DEF Next, Scanner, Bridge

LEMMA StreamInvariant == Spec => []StreamInv
  BY StreamInit, StreamStep, PTL DEF Spec

\* Every variable keeps its type, and the channel never holds more than event_buffer
\* events: build_scanner's bound is the scanner's backpressure.
THEOREM StreamTypeCorrect == Spec => []TypeOK
<1>1. StreamInv => TypeOK
  BY DEF StreamInv
<1> QED BY <1>1, StreamInvariant, PTL

\* A stream that got its terminal event got every progress event first, unless the
\* forwarder failed: what was on its way when the scan was cancelled is not lost.
THEOREM NoEventIsLost == Spec => []EverythingIsDelivered
<1>1. ASSUME StreamInv PROVE EverythingIsDelivered
  <2> SUFFICES ASSUME scan # "running", ending # None, forwarder # "panicked"
               PROVE  {delivered[i] : i \in DOMAIN delivered} = ShownNumbers
    BY DEF EverythingIsDelivered
  <2>1. channel = <<>> /\ sink_open
    BY <1>1 DEF StreamInv, StagesInOrder, TypeOK
  <2>2. DOMAIN delivered = 1..Len(delivered) /\ Len(channel) = 0
    BY <1>1, <2>1 DEF StreamInv, TypeOK
  <2>3. \A n \in ShownNumbers : \E i \in 1..Len(delivered) : delivered[i] = n
    BY <1>1, <2>1, <2>2 DEF StreamInv, NothingLost, ShownNumbers
  <2>4. \A i \in 1..Len(delivered) : delivered[i] \in ShownNumbers
    BY <1>1 DEF StreamInv, DeliveredBefore, ShownNumbers
  <2> QED BY <2>2, <2>3, <2>4
<1> QED BY <1>1, StreamInvariant, PTL

-----------------------------------------------------------------------------
(* The stream keeps its contract *)

LEMMA ContractInit == Init => Contract!Init
  BY DEF Init, Contract!Init

\* Handing an event to Dart is the contract's Deliver, the terminal event its Finish, and
\* the scan's return its Return; every other step is invisible to the listener.
LEMMA ContractStep == StreamInv /\ [Next]_vars => [Contract!Next]_(Contract!vars)
<1> SUFFICES ASSUME StreamInv, [Next]_vars PROVE [Contract!Next]_(Contract!vars)
  OBVIOUS
<1> USE DEF Contract!vars, reader, token
<1>1. CASE UNCHANGED vars BY <1>1 DEF vars
<1>2. CASE Scanner BY <1>2 DEF Scanner, Progress, ScannerReturns, ScannerFails
<1>3. CASE Receive
  <2>1. scan = "running" /\ scan' = scan /\ ending = None /\ ending' = ending
    BY <1>3 DEF Receive, Handle, StreamInv, StagesInOrder, TypeOK
  <2>2. CASE delivered' = delivered
    BY <2>1, <2>2
  <2>3. CASE /\ delivered' = Append(delivered, channel[1][1])
             /\ channel[1][1] \in Nat
             /\ \A i \in 1..Len(delivered) : delivered[i] < channel[1][1]
    <3>1. delivered \in Seq(Nat)
      BY DEF StreamInv, TypeOK
    <3>2. /\ Len(delivered') = Len(delivered) + 1
          /\ delivered = SubSeq(delivered', 1, Len(delivered))
          /\ delivered'[Len(delivered')] = channel[1][1]
          /\ DOMAIN delivered = 1..Len(delivered)
      BY <2>3, <3>1, Appended
    <3>3. \A i \in DOMAIN delivered : delivered[i] < delivered'[Len(delivered')]
      BY <2>3, <3>2
    <3>4. Contract!Deliver
      BY <2>1, <3>2, <3>3 DEF Contract!Deliver
    <3> QED BY <3>4 DEF Contract!Next
  <2> QED BY <1>3, <2>2, <2>3, ReceiveStep
<1>4. CASE EndStream
  <2>1. scan = "running" /\ scan' = "ending" /\ ending = None /\ delivered' = delivered
    BY <1>4 DEF EndStream, StreamInv, StagesInOrder
  <2>2. CASE listening
    <3>1. TerminalEvent \in Terminal
      BY DEF TerminalEvent, StreamInv, TypeOK, Terminal, Last
    <3>2. Contract!Finish
      BY <1>4, <2>1, <2>2, <3>1 DEF EndStream, Contract!Finish
    <3> QED BY <3>2 DEF Contract!Next
  <2>3. CASE ~listening BY <1>4, <2>1, <2>3 DEF EndStream
  <2> QED BY <2>2, <2>3
<1>5. CASE Return
  <2>1. Contract!Return
    BY <1>5 DEF Return, Contract!Return
  <2> QED BY <2>1 DEF Contract!Next
<1>6. CASE ForwarderEnds \/ ForwarderPanics \/ Cancel \/ StopListening
  BY <1>6 DEF ForwarderEnds, ForwarderPanics, Cancel, StopListening
<1> QED BY <1>1, <1>2, <1>3, <1>4, <1>5, <1>6 DEF Next, Bridge

\* The stream implements its contract: progress events in the order of their emission,
\* then at most one terminal event, and nothing once the scan has returned.
THEOREM StreamKeepsItsContract == Spec => KeepsContract
<1>1. Spec => Contract!Spec
  BY ContractInit, ContractStep, StreamInvariant, PTL DEF Spec, Contract!Spec
<1> QED BY <1>1 DEF KeepsContract
=============================================================================
