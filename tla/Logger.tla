------------------------------- MODULE Logger -------------------------------
(***************************************************************************)
(* The process's file logger (api/logger.rs): init_logger, set_log_level,  *)
(* the level filter, the log line and the panic hook, as used by the       *)
(* threads of the bridge.                                                  *)
(*                                                                         *)
(* Two Flutter engines call the bridge from threads of their own, and any  *)
(* thread can log or panic.  The log crate keeps one global maximum level, *)
(* which its macros compare before they ask the logger; the logger filters *)
(* each record by its target, builds the line, takes the lock of fern's    *)
(* output and writes it.  A target is the sequence of its path segments,   *)
(* a level a number from Off = 0 to Trace = 5, a text a sequence of        *)
(* tokens: one character, or "://".                                        *)
(***************************************************************************)
EXTENDS Integers, FiniteSets, SequencesExt

CONSTANTS
    Thread,     \* the threads that log, panic and call init_logger or set_log_level
    None,       \* no thread, no levels, no runtime level
    Configs,    \* the LoggerConfigs: [default |-> level, modules |-> Seq([target, level])]
    Toggles,    \* the levels set_log_level is called with
    Records,    \* what the code logs: [target, level, message, value]
    FieldCap,   \* LOG_FIELD_MAX_BYTES, in tokens
    Release     \* a release build: the panic hook is installed first and does not chain

Off == 0
ErrorLevel == 1
Warn == 2
Info == 3
Level == 0..5

HttpTargets == {<<"minotari_wallet_core", "http">>, <<"minotari", "http">>}
PayloadTarget == <<"c", "tx", "offline_signing">>
PanicTarget == <<"cw_tari", "panic">>
OwnTarget == <<"rust_lib_flutter_rust_wallet", "api", "logger">>

Target == Seq(STRING)

\* Configs, toggles and records are of the types the bridge passes.
ASSUME LoggerAssumption ==
    /\ Configs \subseteq [default : Level, modules : Seq([target : Target, level : Level])]
    /\ Toggles \subseteq Level
    /\ \A r \in Records : r.target \in Target /\ r.level \in Level \ {Off}
    /\ None \notin Level /\ None \notin Thread
    /\ HttpTargets \union {PayloadTarget, PanicTarget, OwnTarget} \subseteq Target

VARIABLES
    levels,     \* LOG_LEVELS: None, or the config and the runtime level
    max,        \* the log crate's maximum level
    logger,     \* the log crate's logger: "none", "ours" or "foreign"
    installed,  \* LOGGER_INSTALLED
    initialising, \* the thread that holds LOGGER_INSTALLED's lock
    hook,       \* PANIC_HOOK has run
    broken,     \* LOG_WRITER_BROKEN
    output,     \* the thread that holds fern's output lock
    in_write,   \* IN_LOG_WRITE of each thread
    pc, call, record, want, \* what each thread does, its record, the maximum it will set
    raced       \* history: the last two changes of the levels overlapped

globals == <<levels, max, logger, installed, initialising, hook, broken, raced>>
vars == <<globals, output, in_write, pc, call, record, want>>

-----------------------------------------------------------------------------
(* Levels.                                                                 *)

LowerOf(a, b) == IF a <= b THEN a ELSE b

\* with_payload_summary_cap
Modules(config) ==
    IF \E i \in DOMAIN config.modules : config.modules[i].target = PayloadTarget
    THEN config.modules
    ELSE Append(config.modules, [target |-> PayloadTarget, level |-> Warn])

\* target_matches: the module itself or a path below it.
Matches(target, module) == IsPrefix(module, target)

\* Mutant of Ceiling: one that a config lifts.
CeilingConfigured(target, level) == level

Ceiling(target, level) ==
    IF \E http \in HttpTargets : Matches(target, http) THEN LowerOf(level, Info) ELSE level

Matching(modules, target) == {i \in DOMAIN modules : Matches(target, modules[i].target)}

Longest(modules, target) ==
    {i \in Matching(modules, target) : \A j \in Matching(modules, target) :
        Len(modules[j].target) <= Len(modules[i].target)}

\* The last of the longest overrides that match.
Override(modules, target) ==
    IF Matching(modules, target) = {} THEN None
    ELSE modules[CHOOSE i \in Longest(modules, target) :
                    \A j \in Longest(modules, target) : j <= i].level

\* A runtime level replaces the configured ones, but for overrides stricter than the default.
Chosen(default, module, runtime) ==
    CASE runtime = None /\ module = None -> default
      [] runtime = None /\ module # None -> module
      [] runtime # None /\ module = None -> runtime
      [] runtime # None /\ module # None ->
            IF module < default THEN LowerOf(module, runtime) ELSE runtime

LevelFor(l, target) ==
    Ceiling(target, Chosen(l.config.default, Override(Modules(l.config), target), l.runtime))

\* Mutant of MaxLevel: the overrides forgotten.
MaxLevelDefault(l) == IF l.runtime = None THEN l.config.default ELSE l.runtime

\* The most verbose level of any target.
MaxLevel(l) ==
    LET modules == Modules(l.config)
        base == IF l.runtime = None THEN l.config.default ELSE l.runtime
        all == {base} \union {LevelFor(l, modules[i].target) : i \in DOMAIN modules}
    IN  CHOOSE m \in all : \A n \in all : n <= m


-----------------------------------------------------------------------------
(* The text of a line.                                                     *)

Stops == {"/", "://", "@", " "}     \* where a userinfo ends

\* Token i of text lies in `<scheme>://<userinfo>@`.
InUserinfo(text, i) ==
    \E s \in 2..(i - 1), at \in (i + 1)..Len(text) :
        /\ text[s] = "://" /\ text[s - 1] = "a"
        /\ text[at] = "@"
        /\ \A k \in (s + 1)..(at - 1) : text[k] \notin Stops

\* A record's texts are sequences of tokens; "p" stands for a password's letter, so it occurs
\* in a userinfo only.  A target is a module path or a literal of the source: no URL and no
\* line break is in it.
ASSUME TextsAssumption ==
    /\ FieldCap \in Nat
    /\ \A r \in Records : \A i \in DOMAIN r.target : r.target[i] \notin {"p", "\n"}
    /\ \A r \in Records : \A text \in {r.message, r.value} :
          text \in Seq(STRING) /\ \A i \in DOMAIN text : text[i] = "p" => InUserinfo(text, i)

\* redact_url_userinfo: `***` for each userinfo.
Redact(text) ==
    FlattenSeq([i \in DOMAIN text |->
        CASE ~InUserinfo(text, i) -> <<text[i]>>
          [] InUserinfo(text, i) /\ ~InUserinfo(text, i - 1) -> <<"***">>
          [] OTHER -> <<>>])

Truncate(text, cap) ==
    IF Len(text) <= cap THEN text ELSE Append(SubSeq(text, 1, cap), "[truncated]")

\* escape_control
Escape(text) == [i \in DOMAIN text |-> IF text[i] = "\n" THEN "\\n" ELSE text[i]]

\* Mutant of Sanitize: cut before it is redacted.
SanitizeTruncated(text, cap) == Escape(Redact(Truncate(text, cap)))

\* sanitize_log_text
Sanitize(text, cap) == Escape(Truncate(Redact(text), cap))

\* The target as it is, then the message and the values, cleaned.  The hook's record is
\* exempt from the cap on its message.
Line(r) ==
    LET cap == IF r.target = PanicTarget THEN Len(r.message) ELSE FieldCap
    IN  r.target \o Sanitize(r.message, cap) \o Sanitize(r.value, FieldCap)

-----------------------------------------------------------------------------
(* Steps.                                                                  *)

Notice == [target |-> OwnTarget, level |-> Info, message |-> <<>>, value |-> <<>>]
PanicRecord == [target |-> PanicTarget, level |-> ErrorLevel,
                message |-> <<"a", "://", "p", "p", "@", "\n">>, value |-> <<>>]

Go(t, at) == pc' = [pc EXCEPT ![t] = at]

\* A call returns; init_logger gives its lock back.
Finish(t) ==
    /\ Go(t, "idle")
    /\ call' = [call EXCEPT ![t] = "none"]
    /\ record' = [record EXCEPT ![t] = Notice]
    /\ want' = [want EXCEPT ![t] = Off]
    /\ initialising' = IF initialising = t THEN None ELSE initialising

\* A log macro: the maximum level and the installed logger decide if the record is offered.
Offer(t, for, r, maximum) ==
    IF logger = "ours" /\ r.level <= maximum
    THEN /\ Go(t, "filter")
         /\ call' = [call EXCEPT ![t] = for]
         /\ record' = [record EXCEPT ![t] = r]
         /\ want' = [want EXCEPT ![t] = Off]
         /\ UNCHANGED initialising
    ELSE Finish(t)

Init ==
    /\ levels = None
    /\ max = Off
    /\ logger \in {"none", "foreign"}
    /\ installed = FALSE
    /\ initialising = None
    /\ hook = FALSE
    /\ broken = FALSE
    /\ output = None
    /\ in_write = [t \in Thread |-> FALSE]
    /\ pc = [t \in Thread |-> "idle"]
    /\ call = [t \in Thread |-> "none"]
    /\ record = [t \in Thread |-> Notice]
    /\ want = [t \in Thread |-> Off]
    /\ raced = FALSE

\* A thread has changed the levels and not yet the maximum.
Changing(t) == pc[t] \in {"apply", "install", "raise"}
Overlaps(t) == \E u \in Thread \ {t} : Changing(u)

\* init_logger is called and waits for LOGGER_INSTALLED.
CallInit(t) ==
    /\ pc[t] = "idle"
    /\ Go(t, "lock")
    /\ call' = [call EXCEPT ![t] = "init"]
    /\ UNCHANGED <<globals, output, in_write, record, want>>

\* A logger installed before makes the call a no-op.
InitAgain(t) ==
    /\ pc[t] = "lock" /\ initialising = None /\ installed
    /\ Finish(t)
    /\ UNCHANGED <<levels, max, logger, installed, hook, broken, raced, output, in_write>>

BeginInit(t) ==
    /\ pc[t] = "lock" /\ initialising = None /\ ~installed
    /\ initialising' = t
    /\ hook' = (hook \/ Release)
    /\ Go(t, "prepare")
    /\ UNCHANGED <<levels, max, logger, installed, broken, raced, output, in_write, call, record, want>>

\* A zero size, or a directory that cannot be made.
InitFails(t) ==
    /\ pc[t] = "prepare"
    /\ Finish(t)
    /\ UNCHANGED <<levels, max, logger, installed, hook, broken, raced, output, in_write>>

\* The levels are published before the logger is applied.
PublishLevels(t) ==
    /\ pc[t] = "prepare"
    /\ \E c \in Configs :
        LET l == [config |-> c, runtime |-> None]
        IN  /\ levels' = l
            /\ want' = [want EXCEPT ![t] = MaxLevel(l)]
    /\ raced' = Overlaps(t)
    /\ Go(t, "apply")
    /\ UNCHANGED <<max, logger, installed, initialising, hook, broken, output, in_write, call, record>>

ApplyFails(t) ==
    /\ pc[t] = "apply" /\ logger # "none"
    /\ levels' = None
    /\ Finish(t)
    /\ UNCHANGED <<max, logger, installed, hook, broken, raced, output, in_write>>

\* fern's apply sets the logger and its own filter's maximum, which this dispatch leaves at Trace.
Apply(t) ==
    /\ pc[t] = "apply" /\ logger = "none"
    /\ logger' = "ours"
    /\ max' = 5
    /\ Go(t, "install")
    /\ UNCHANGED <<levels, installed, initialising, hook, broken, raced, output, in_write, call, record, want>>

\* The maximum level, the flag and the first record, still under LOGGER_INSTALLED.
Install(t) ==
    /\ pc[t] = "install"
    /\ max' = want[t]
    /\ installed' = TRUE
    /\ hook' = TRUE
    /\ Offer(t, "init", Notice, want[t])
    /\ UNCHANGED <<levels, logger, broken, raced, output, in_write>>

\* set_log_level under the write lock of LOG_LEVELS.
SetLogLevel(t, level) ==
    /\ pc[t] = "idle" /\ levels # None
    /\ LET l == [levels EXCEPT !.runtime = level]
       IN  /\ levels' = l
           /\ want' = [want EXCEPT ![t] = MaxLevel(l)]
    /\ raced' = Overlaps(t)
    /\ call' = [call EXCEPT ![t] = "toggle"]
    /\ Go(t, "raise")
    /\ UNCHANGED <<max, logger, installed, initialising, hook, broken, output, in_write, record>>

\* set_log_level after the lock was released.
RaiseMaximum(t) ==
    /\ pc[t] = "raise"
    /\ max' = want[t]
    /\ Offer(t, "toggle", Notice, want[t])
    /\ UNCHANGED <<levels, logger, installed, hook, broken, raced, output, in_write>>

\* A log macro somewhere in the process.
Log(t, r) ==
    /\ pc[t] = "idle"
    /\ Offer(t, "log", r, max)
    /\ UNCHANGED <<levels, max, logger, installed, hook, broken, raced, output, in_write>>

\* record_enabled
Enabled(r) == levels # None /\ r.level <= LevelFor(levels, r.target)

Filter(t) ==
    /\ pc[t] = "filter"
    /\ IF Enabled(record[t])
       THEN Go(t, "format") /\ UNCHANGED <<call, record, want, initialising>>
       ELSE Finish(t)
    /\ UNCHANGED <<levels, max, logger, installed, hook, broken, raced, output, in_write>>

\* The line is built; fern takes the lock of its output.
TakeOutput(t) ==
    /\ pc[t] = "format" /\ output = None
    /\ output' = t
    /\ Go(t, "write")
    /\ UNCHANGED <<globals, in_write, call, record, want>>

\* LogWriteFlagged::write and flush: nothing is written once the writer is broken.
EnterWrite(t) ==
    /\ pc[t] = "write" /\ ~in_write[t] /\ ~broken
    /\ in_write' = [in_write EXCEPT ![t] = TRUE]
    /\ UNCHANGED <<globals, output, pc, call, record, want>>

\* The write ended, well or with an error, which is dropped; fern releases its lock.
WriteEnds(t) ==
    /\ pc[t] = "write" /\ (in_write[t] \/ broken)
    /\ in_write' = [in_write EXCEPT ![t] = FALSE]
    /\ output' = None
    /\ Finish(t)
    /\ UNCHANGED <<levels, max, logger, installed, hook, broken, raced>>

\* Mutant of HookLogs: logs from inside a log write.
HookLogsInWrite(t) == hook /\ ~broken

\* The hook logs unless this thread is in a log write or the writer is broken.
HookLogs(t) == hook /\ ~in_write[t] /\ ~broken

\* A message's Display, or any other code outside the logger, panics.
Panics(t) ==
    /\ pc[t] = "idle" \/ (pc[t] = "format" /\ call[t] = "log")
    /\ IF HookLogs(t) THEN Offer(t, "panic", PanicRecord, max) ELSE Finish(t)
    /\ UNCHANGED <<levels, max, logger, installed, hook, broken, raced, output, in_write>>

\* The file writer panics: the hook stays silent, the panic is caught, the sink disabled.
WriterPanics(t) ==
    /\ pc[t] = "write" /\ in_write[t] /\ call[t] # "panic"
    /\ IF HookLogs(t)
       THEN Offer(t, "panic", PanicRecord, max) /\ UNCHANGED <<output, in_write, broken>>
       ELSE /\ broken' = TRUE
            /\ in_write' = [in_write EXCEPT ![t] = FALSE]
            /\ output' = None
            /\ Finish(t)
    /\ UNCHANGED <<levels, max, logger, installed, hook, raced>>

\* A panic while the hook writes aborts the process; the app starts again.
Abort(t) ==
    /\ pc[t] = "write" /\ in_write[t] /\ call[t] = "panic"
    /\ levels' = None /\ max' = Off /\ logger' = "none" /\ installed' = FALSE
    /\ initialising' = None /\ hook' = FALSE /\ broken' = FALSE /\ output' = None
    /\ in_write' = [u \in Thread |-> FALSE]
    /\ pc' = [u \in Thread |-> "idle"]
    /\ call' = [u \in Thread |-> "none"]
    /\ record' = [u \in Thread |-> Notice]
    /\ want' = [u \in Thread |-> Off]
    /\ raced' = FALSE

\* What a thread that has begun goes on to do.
Step(t) ==
    \/ InitAgain(t) \/ BeginInit(t) \/ InitFails(t) \/ PublishLevels(t)
    \/ ApplyFails(t) \/ Apply(t) \/ Install(t) \/ RaiseMaximum(t)
    \/ Filter(t) \/ TakeOutput(t) \/ EnterWrite(t) \/ WriteEnds(t)
    \/ WriterPanics(t) \/ Abort(t)

Next ==
    \E t \in Thread :
        \/ Step(t)
        \/ CallInit(t) \/ Panics(t)
        \/ \E level \in Toggles : SetLogLevel(t, level)
        \/ \E r \in Records : Log(t, r)

Spec == Init /\ [][Next]_vars

\* A thread runs on, and gets a lock that is freed again and again.
FairSpec == Spec /\ \A t \in Thread :
    /\ WF_vars(Step(t))
    /\ SF_vars(TakeOutput(t))
    /\ SF_vars(InitAgain(t) \/ BeginInit(t))

-----------------------------------------------------------------------------
(* Properties.                                                             *)

Levels == [config : Configs, runtime : Toggles \union {None}]
PC == {"idle", "lock", "prepare", "apply", "install", "raise", "filter", "format", "write"}
OwnRecords == {Notice, PanicRecord}

\* Every variable keeps its type, and the locks are held by a thread that is past taking them.
TypeOK ==
    /\ levels \in Levels \union {None}
    /\ max \in Level /\ logger \in {"none", "ours", "foreign"}
    /\ {installed, hook, broken, raced} \subseteq BOOLEAN
    /\ initialising \in Thread \union {None} /\ output \in Thread \union {None}
    /\ in_write \in [Thread -> BOOLEAN]
    /\ pc \in [Thread -> PC]
    /\ call \in [Thread -> {"none", "init", "toggle", "log", "panic"}]
    /\ record \in [Thread -> Records \union OwnRecords]
    /\ want \in [Thread -> Level]
    /\ \A t \in Thread : pc[t] = "write" <=> output = t

\* A record past the filter, on its way to the file.
Written(t) == pc[t] \in {"format", "write"}

\* minotari's HTTP client logs full base-node URLs above Info: whatever the config and
\* set_log_level ask for (LEVEL_CEILINGS), no such record gets past the filter.
EndpointsStayHidden ==
    \A t \in Thread : Written(t) =>
        ~\E http \in HttpTargets : Matches(record[t].target, http) /\ record[t].level > Info

\* A line, its target included, holds no credentials of a URL, wherever the cap cuts it, and no line
\* break that would forge a line (sanitize_log_text): "p" stands for a password's letter.
LinesAreClean ==
    \A t \in Thread : Written(t) =>
        {Line(record[t])[i] : i \in DOMAIN Line(record[t])} \intersect {"p", "\n"} = {}

\* When no init_logger or set_log_level is under way and the last two did not overlap, the
\* log crate's maximum hides no record that the levels let through (max_level).
MaximumCoversTargets ==
    (levels # None /\ ~raced /\ \A t \in Thread : ~Changing(t)) =>
        \A r \in Records : Enabled(r) => r.level <= max

\* Every call that logs returns: the panic hook never waits for an output lock its own
\* thread holds (IN_LOG_WRITE), and no panic leaves the lock or the init lock taken.
EveryLogReturns == \A t \in Thread : (pc[t] # "idle") ~> (pc[t] = "idle")

\* "Capped at Warn unless the caller sets a level for it explicitly" (logger.rs:46-47): no
\* payload summary above Warn is written under a config that does not name the target.
PayloadSummaryIsCapped ==
    \A t \in Thread :
        (Written(t) /\ levels # None
            /\ ~\E i \in DOMAIN levels.config.modules : levels.config.modules[i].target = PayloadTarget)
        => ~(Matches(record[t].target, PayloadTarget) /\ record[t].level > Warn)
=============================================================================
