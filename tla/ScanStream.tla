----------------------------- MODULE ScanStream -----------------------------
(***************************************************************************)
(* The event stream of one scan that runs in its slot: run_forwarder, the  *)
(* end of scan_in_slot and run_scan of src/src/api/scanner.rs.             *)
(*                                                                         *)
(* minotari's scanner emits events into a channel, bounded by              *)
(* event_buffer.  A forwarder task reads them and hands them to Dart; when *)
(* the scanner has returned and the channel is drained, the scan sends one *)
(* terminal event.  The scanner and Dart's listener are external.          *)
(***************************************************************************)
EXTENDS Naturals, Sequences

CONSTANTS
  Buffer,     \* ScanConfiguration.event_buffer
  MaxEvents,  \* bound: how many events the scanner emits before its last one
  None

Terminal == {"Completed", "Cancelled", "Superseded", "BudgetExhausted", "Error"}

ASSUME ConstantsAssumption ==
  /\ Buffer \in Nat \ {0}
  /\ MaxEvents \in Nat
  /\ None \notin Terminal

VARIABLES
  scanner,    \* the scanner: running, or returned "ok" or "err"
  emitted,    \* how many events it emitted
  kinds,      \* history: what kind each of them was
  channel,    \* events on their way: <<number, kind>>
  forwarder,  \* the forwarder task: reading, done or panicked
  terminal,   \* run_forwarder's `terminal`
  sink_open,  \* run_forwarder's `sink_open`
  listening,  \* whether Dart still listens to the stream
  cancelled,  \* the scan's token
  superseded, \* the scan's flag
  scan,       \* the scan's task: running, then sending its terminal event, then returned
  delivered,  \* the progress events that reached Dart, by their number
  ending      \* the terminal event that reached Dart

reader == <<forwarder, terminal, sink_open>>
token  == <<cancelled, superseded>>
vars   == <<scanner, emitted, kinds, channel, reader, token, scan, delivered, ending, listening>>

\* What the scanner emits: a progress event, one that Dart is never shown, or
\* one that ends a scan.
Shown  == {"progress"}
Hidden == {"block"}
Last   == {"Completed", "Cancelled", "BudgetExhausted"}
Kind   == Shown \cup Hidden \cup Last

\* Events are numbered in the order in which they are emitted.
Number == 1..(MaxEvents + 1)

TypeOK ==
  /\ scanner \in {"running", "ok", "err"}
  /\ emitted \in 0..(MaxEvents + 1)
  /\ kinds \in Seq(Kind)
  /\ channel \in Seq(Number \X Kind)
  /\ Len(channel) <= Buffer
  /\ forwarder \in {"reading", "done", "panicked"}
  /\ terminal \in Last \cup {None}
  /\ sink_open \in BOOLEAN /\ listening \in BOOLEAN
  /\ cancelled \in BOOLEAN /\ superseded \in BOOLEAN
  /\ scan \in {"running", "ending", "returned"}
  /\ delivered \in Seq(Nat)
  /\ ending \in Terminal \cup {None}

Init ==
  /\ scanner = "running" /\ emitted = 0 /\ kinds = <<>> /\ channel = <<>>
  /\ forwarder = "reading" /\ terminal = None /\ sink_open = TRUE
  /\ cancelled = FALSE /\ superseded = FALSE
  /\ scan = "running"
  /\ delivered = <<>> /\ ending = None
  /\ listening = TRUE

-----------------------------------------------------------------------------
(* minotari's scanner *)

\* build_scanner hands event_buffer to minotari, which bounds the channel by it; a
\* channel nobody reads takes everything.  build_scanner does not check the number:
\* that it is not zero is an assumption (Buffer), and what zero does is minotari's.
Room == Len(channel) < Buffer \/ forwarder # "reading"

Emit(kind) ==
  /\ Room
  /\ emitted' = emitted + 1
  /\ kinds' = Append(kinds, kind)
  /\ channel' = IF forwarder = "reading" THEN Append(channel, <<emitted + 1, kind>>) ELSE <<>>

\* The scanner goes on.  It may end a pass with an event of the last kind
\* and scan on, as in continuous mode.
Progress ==
  /\ scanner = "running"
  /\ emitted < MaxEvents
  /\ \E kind \in Shown \cup Hidden \cup {"Completed"} : Emit(kind)
  /\ UNCHANGED <<scanner, reader, token, scan, delivered, ending, listening>>

\* It ends by itself or because its token is cancelled, with its last event.
ScannerReturns ==
  /\ scanner = "running"
  /\ scanner' = "ok"
  /\ \E kind \in Last : (kind = "Cancelled" => cancelled) /\ Emit(kind)
  /\ UNCHANGED <<reader, token, scan, delivered, ending, listening>>

\* It fails, and emits nothing more.
ScannerFails ==
  /\ scanner = "running"
  /\ scanner' = "err"
  /\ UNCHANGED <<emitted, kinds, channel, reader, token, scan, delivered, ending, listening>>

-----------------------------------------------------------------------------
(* run_forwarder *)

\* callback(dto) for the progress event n: an error closes the sink and
\* cancels the scan.
Callback(n) ==
  IF listening
    THEN delivered' = Append(delivered, n) /\ UNCHANGED <<sink_open, cancelled>>
    ELSE sink_open' = FALSE /\ cancelled' = TRUE /\ UNCHANGED delivered

\* Mutant of Handle: hands a terminal event on at once.
HandleAtOnce(n, kind) ==
  \/ kind \in Hidden /\ UNCHANGED <<terminal, sink_open, cancelled, delivered, ending>>
  \/ /\ kind \in Last
     /\ terminal' = kind
     /\ ending' = IF listening THEN kind ELSE ending
     /\ UNCHANGED <<sink_open, cancelled, delivered>>
  \/ kind \in Shown /\ Callback(n) /\ UNCHANGED <<terminal, ending>>

\* Mutant of Handle: the events of a cancelled scan are dropped.
HandleUnlessCancelled(n, kind) ==
  \/ kind \in Hidden /\ UNCHANGED <<terminal, sink_open, cancelled, delivered, ending>>
  \/ kind \in Last /\ terminal' = kind /\ UNCHANGED <<sink_open, cancelled, delivered, ending>>
  \/ /\ kind \in Shown
     /\ IF cancelled THEN UNCHANGED <<sink_open, cancelled, delivered>> ELSE Callback(n)
     /\ UNCHANGED <<terminal, ending>>

\* One event: not shown, held back, or handed to Dart while its sink is open.
Handle(n, kind) ==
  \/ kind \in Hidden /\ UNCHANGED <<terminal, sink_open, cancelled, delivered, ending>>
  \/ kind \in Last /\ terminal' = kind /\ UNCHANGED <<sink_open, cancelled, delivered, ending>>
  \/ /\ kind \in Shown
     /\ IF sink_open THEN Callback(n) ELSE UNCHANGED <<sink_open, cancelled, delivered>>
     /\ UNCHANGED <<terminal, ending>>

\* Mutant of Receive: stops reading once nobody listens.
ReceiveWhileOpen ==
  /\ forwarder = "reading"
  /\ channel # <<>> /\ sink_open
  /\ channel' = Tail(channel)
  /\ Handle(Head(channel)[1], Head(channel)[2])
  /\ UNCHANGED <<scanner, emitted, kinds, forwarder, superseded, scan, listening>>

\* The next event of the channel.
Receive ==
  /\ forwarder = "reading"
  /\ channel # <<>>
  /\ channel' = Tail(channel)
  /\ Handle(Head(channel)[1], Head(channel)[2])
  /\ UNCHANGED <<scanner, emitted, kinds, forwarder, superseded, scan, listening>>

\* The scanner dropped its sender and the channel is drained.
ForwarderEnds ==
  /\ forwarder = "reading" /\ channel = <<>> /\ scanner # "running"
  /\ forwarder' = "done"
  /\ UNCHANGED <<scanner, emitted, kinds, channel, terminal, sink_open, token, scan, delivered,
                 ending, listening>>

\* The forwarder task fails: its terminal event and its channel are lost.
ForwarderPanics ==
  /\ forwarder = "reading"
  /\ forwarder' = "panicked"
  /\ terminal' = None
  /\ channel' = <<>>
  /\ UNCHANGED <<scanner, emitted, kinds, sink_open, token, scan, delivered, ending, listening>>

-----------------------------------------------------------------------------
(* The scan's task *)

\* The terminal event: an error, superseded, or the one held back.
TerminalEvent ==
  IF scanner = "err" THEN "Error"
  ELSE IF superseded THEN "Superseded"
  ELSE IF terminal # None THEN terminal ELSE "Cancelled"

\* scan_future and then the forwarder are awaited; run_scan sends the terminal event.
EndStream ==
  /\ scan = "running"
  /\ scanner # "running" /\ forwarder # "reading"
  /\ scan' = "ending"
  /\ ending' = IF listening THEN TerminalEvent ELSE ending
  /\ UNCHANGED <<scanner, emitted, kinds, channel, reader, token, delivered, listening>>

\* run_scan returns and `stopped` fires.
Return ==
  /\ scan = "ending"
  /\ scan' = "returned"
  /\ UNCHANGED <<scanner, emitted, kinds, channel, reader, token, delivered, ending, listening>>

-----------------------------------------------------------------------------
(* Stops, newer scans and the listener *)

\* stop_scan, a lock or a maintenance operation cancels the scan; a newer scan
\* also takes its slot.
Cancel ==
  /\ scan = "running"
  /\ ~superseded
  /\ cancelled' = TRUE
  /\ superseded' \in {superseded, ~cancelled}
  /\ <<cancelled', superseded'>> # token
  /\ UNCHANGED <<scanner, emitted, kinds, channel, reader, scan, delivered, ending, listening>>

\* Dart closes the stream.
StopListening ==
  /\ listening
  /\ listening' = FALSE
  /\ UNCHANGED <<scanner, emitted, kinds, channel, reader, token, scan, delivered, ending>>

Scanner == Progress \/ ScannerReturns \/ ScannerFails
Bridge  == Receive \/ ForwarderEnds \/ EndStream \/ Return

Next == Scanner \/ Bridge \/ ForwarderPanics \/ Cancel \/ StopListening

Spec == Init /\ [][Next]_vars

(***************************************************************************)
(* The runtime runs the bridge's tasks, and a cancelled scanner that has   *)
(* room for its last event emits it and returns.                           *)
(***************************************************************************)
FairSpec ==
  /\ Spec
  /\ WF_vars(Receive) /\ WF_vars(ForwarderEnds) /\ WF_vars(EndStream) /\ WF_vars(Return)
  /\ WF_vars(cancelled /\ ScannerReturns)

-----------------------------------------------------------------------------
(* Properties *)

\* The numbers of the progress events that were emitted.
ShownNumbers == {n \in 1..emitted : kinds[n] \in Shown}

\* A scan that is over has delivered every progress event, also those that were
\* on their way when it was cancelled, unless Dart left or the forwarder failed.
\* So a listener that is told Cancelled has heard of every transaction written.
EverythingIsDelivered ==
  scan # "running" /\ ending # None /\ forwarder # "panicked" =>
    {delivered[i] : i \in DOMAIN delivered} = ShownNumbers

\* A cancelled scan ends its stream, also when the event buffer is full and
\* nobody listens any more: the forwarder goes on reading.
CancelledStreamEnds == cancelled ~> scan = "returned"

Contract == INSTANCE ScanContract WITH seen <- delivered, over <- (scan = "returned")

\* The stream keeps its contract: events in order, one terminal event, last.
KeepsContract == Contract!Spec
=============================================================================
