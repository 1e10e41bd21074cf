---------------------------- MODULE LoggerProofs ----------------------------
(***************************************************************************)
(* Proofs about Logger, for every config, toggle, record and number of     *)
(* threads: what the level filter lets through, and that the log crate's   *)
(* maximum level hides nothing of it.                                      *)
(***************************************************************************)
EXTENDS Logger, SequenceTheorems, WellFoundedInduction, TLAPS

-----------------------------------------------------------------------------
(* Least and greatest numbers *)

\* A set of numbers has a least one, by the well-foundedness of < on Nat.
LEMMA HasLeast ==
  ASSUME NEW T \in SUBSET Nat, T # {}
  PROVE  \E x \in T : \A y \in T : x <= y
<1> DEFINE R == {ss \in Nat \X Nat : ss[1] < ss[2]}
<1>1. IsWellFoundedOn(R, Nat)
  BY NatLessThanWellFounded DEF OpToRel
<1>2. PICK x \in T : \A y \in T : ~ (<<y, x>> \in R)
  <2> HIDE DEF R
  <2> QED BY <1>1, WFMin
<1>3. ASSUME NEW y \in T PROVE x <= y
  <2>1. <<y, x>> \in Nat \X Nat /\ <<y, x>>[1] = y /\ <<y, x>>[2] = x
    OBVIOUS
  <2>2. ~ (y < x)
    BY <1>2, <2>1
  <2> QED BY <2>2
<1> QED BY <1>3

\* A bounded one has a greatest: the least distance from the bound.
LEMMA HasGreatest ==
  ASSUME NEW n \in Nat, NEW T \in SUBSET (0..n), T # {}
  PROVE  \E x \in T : \A y \in T : y <= x
<1> DEFINE D == {d \in Nat : n - d \in T}
<1>1. D \in SUBSET Nat /\ D # {}
  <2>1. PICK y \in T : TRUE
    OBVIOUS
  <2>2. n - y \in D
    BY <2>1
  <2> QED BY <2>2
<1>2. PICK d \in D : \A e \in D : d <= e
  BY <1>1, HasLeast
<1>3. ASSUME NEW y \in T PROVE y <= n - d
  <2>1. n - y \in D
    OBVIOUS
  <2> QED BY <1>2, <2>1
<1> QED BY <1>3

-----------------------------------------------------------------------------
(* Targets and overrides *)

\* A prefix, element by element.
LEMMA PrefixElements ==
  ASSUME NEW s \in Target, NEW t \in Target
  PROVE  IsPrefix(s, t) <=> Len(s) <= Len(t) /\ \A k \in 1..Len(s) : s[k] = t[k]
<1>1. ASSUME Len(s) <= Len(t)
      PROVE  /\ SubSeq(s, 1, Len(s)) \in Seq(STRING) /\ SubSeq(t, 1, Len(s)) \in Seq(STRING)
             /\ Len(SubSeq(s, 1, Len(s))) = Len(s) /\ Len(SubSeq(t, 1, Len(s))) = Len(s)
             /\ \A k \in 1..Len(s) : SubSeq(s, 1, Len(s))[k] = s[k]
             /\ \A k \in 1..Len(s) : SubSeq(t, 1, Len(s))[k] = t[k]
  BY <1>1 DEF Target
<1>2. ASSUME Len(s) <= Len(t)
      PROVE  SubSeq(s, 1, Len(s)) = SubSeq(t, 1, Len(s)) <=> \A k \in 1..Len(s) : s[k] = t[k]
  BY <1>1, <1>2, SeqEqual
<1> QED BY <1>2 DEF IsPrefix, Target

\* An override of a config.
LEMMA EntryTyped ==
  ASSUME NEW modules \in Seq([target : Target, level : Level]), NEW i \in DOMAIN modules
  PROVE  /\ modules[i].target \in Target /\ modules[i].level \in Level
         /\ i \in 1..Len(modules)
<1> DEFINE Entry == [target : Target, level : Level]
<1>1. modules[i] \in Entry /\ i \in 1..Len(modules)
  <2> HIDE DEF Entry
  <2>1. modules \in Seq(Entry)
    BY DEF Entry
  <2> QED BY <2>1
<1> QED BY <1>1

\* The overrides of a config, with the cap of the payload summaries.
LEMMA ModulesTyped ==
  ASSUME NEW c \in Configs
  PROVE  /\ Modules(c) \in Seq([target : Target, level : Level])
         /\ Modules(c) # <<>>
<1> DEFINE Entry == [target : Target, level : Level]
           cap == [target |-> PayloadTarget, level |-> Warn]
<1>1. c.modules \in Seq(Entry)
  BY LoggerAssumption
<1>2. cap \in Entry
  <2>1. PayloadTarget \in Target
    BY LoggerAssumption
  <2>2. Warn \in Level
    BY DEF Warn, Level
  <2> QED BY <2>1, <2>2
<1>3. CASE \E i \in DOMAIN c.modules : c.modules[i].target = PayloadTarget
  BY <1>1, <1>3 DEF Modules
<1>4. CASE ~\E i \in DOMAIN c.modules : c.modules[i].target = PayloadTarget
  <2> HIDE DEF Entry, cap
  <2>1. Append(c.modules, cap) \in Seq(Entry) /\ Append(c.modules, cap) # <<>>
    BY <1>1, <1>2, AppendProperties
  <2> QED BY <1>4, <2>1 DEF Modules, cap, Entry
<1> QED BY <1>3, <1>4

\* A target that an override matches has a longest one, and it is the last of them.
LEMMA LongestLast ==
  ASSUME NEW modules \in Seq([target : Target, level : Level]), NEW target \in Target,
         Matching(modules, target) # {}
  PROVE  \E i \in Longest(modules, target) : \A j \in Longest(modules, target) : j <= i
<1> DEFINE M == Matching(modules, target)
           L == {Len(modules[i].target) : i \in M}
<1>1. M \in SUBSET (1..Len(modules)) /\ L \in SUBSET (0..Len(target)) /\ L # {}
  <2>1. M \in SUBSET (1..Len(modules))
    <3>1. DOMAIN modules = 1..Len(modules)
      OBVIOUS
    <3> QED BY <3>1 DEF Matching
  <2>2. ASSUME NEW i \in M PROVE Len(modules[i].target) \in 0..Len(target)
    <3>1. modules[i].target \in Target
      BY EntryTyped DEF Matching
    <3> QED BY <3>1, PrefixElements DEF Matching, Matches, Target
  <2> QED BY <2>1, <2>2
<1>2. Len(target) \in Nat
  BY DEF Target
<1>3. PICK n \in L : \A m \in L : m <= n
  BY <1>1, <1>2, HasGreatest
<1>4. PICK i \in M : Len(modules[i].target) = n
  OBVIOUS
<1>5. i \in Longest(modules, target)
  BY <1>3, <1>4 DEF Longest
<1>6. Longest(modules, target) \in SUBSET (0..Len(modules)) /\ Longest(modules, target) # {}
  <2>1. Longest(modules, target) \subseteq M
    BY DEF Longest
  <2>2. 1..Len(modules) \subseteq 0..Len(modules)
    OBVIOUS
  <2> QED BY <1>1, <1>5, <2>1, <2>2
<1>7. Len(modules) \in Nat
  OBVIOUS
<1> QED BY <1>6, <1>7, HasGreatest

\* The override of a target is a level or absent.
LEMMA OverrideTyped ==
  ASSUME NEW modules \in Seq([target : Target, level : Level]), NEW target \in Target
  PROVE  /\ Override(modules, target) \in Level \cup {None}
         /\ Override(modules, target) = None <=> Matching(modules, target) = {}
<1>1. ASSUME Matching(modules, target) # {}
      PROVE  Override(modules, target) \in Level
  <2> DEFINE best == CHOOSE i \in Longest(modules, target) :
                        \A j \in Longest(modules, target) : j <= i
  <2>1. best \in Longest(modules, target)
    <3>1. \E i \in Longest(modules, target) : \A j \in Longest(modules, target) : j <= i
      BY <1>1, LongestLast
    <3> QED BY <3>1
  <2>2. best \in DOMAIN modules
    BY <2>1 DEF Longest, Matching
  <2>3. modules[best].level \in Level
    BY <2>2, EntryTyped
  <2> QED BY <1>1, <2>3 DEF Override
<1> QED BY <1>1, LoggerAssumption DEF Override

\* LevelFor is a level, and at most Info for a target of the HTTP client.
LEMMA LevelForTyped ==
  ASSUME NEW l \in Levels, NEW target \in Target
  PROVE  /\ LevelFor(l, target) \in Level
         /\ (\E http \in HttpTargets : Matches(target, http)) => LevelFor(l, target) <= Info
<1>1. Override(Modules(l.config), target) \in Level \cup {None}
  BY ModulesTyped, OverrideTyped DEF Levels
<1>2. l.config.default \in Level /\ l.runtime \in Level \cup {None}
  BY LoggerAssumption DEF Levels
<1>3. Chosen(l.config.default, Override(Modules(l.config), target), l.runtime) \in Level
  BY <1>1, <1>2, LoggerAssumption DEF Chosen, LowerOf
<1> QED BY <1>3 DEF LevelFor, Ceiling, LowerOf, Info, Level

\* An override's own target is matched by it, and by nothing longer than a target below it.
LEMMA OverrideOfModule ==
  ASSUME NEW modules \in Seq([target : Target, level : Level]), NEW target \in Target,
         Matching(modules, target) # {}
  PROVE  \E i \in DOMAIN modules :
            /\ Matches(target, modules[i].target)
            /\ Override(modules, modules[i].target) = Override(modules, target)
<1>1. PICK i \in Longest(modules, target) : \A j \in Longest(modules, target) : j <= i
  BY LongestLast
<1> DEFINE m == modules[i].target
<1>2. i \in DOMAIN modules /\ IsPrefix(m, target) /\ m \in Target
  BY <1>1, EntryTyped DEF Longest, Matching, Matches
<1>3. Len(m) <= Len(target) /\ \A k \in 1..Len(m) : m[k] = target[k]
  BY <1>2, PrefixElements
<1>4. ASSUME NEW j \in DOMAIN modules
      PROVE  j \in Matching(modules, m) <=>
                j \in Matching(modules, target) /\ Len(modules[j].target) <= Len(m)
  <2> DEFINE n == modules[j].target
  <2>1. n \in Target /\ Len(n) \in Nat /\ Len(m) \in Nat /\ Len(target) \in Nat
    <3>1. n \in Target
      BY EntryTyped
    <3> HIDE DEF n, m
    <3> QED BY <1>2, <3>1 DEF Target
  <2>2. IsPrefix(n, m) <=> Len(n) <= Len(m) /\ \A k \in 1..Len(n) : n[k] = m[k]
    BY <1>2, <2>1, PrefixElements
  <2>3. IsPrefix(n, target) <=> Len(n) <= Len(target) /\ \A k \in 1..Len(n) : n[k] = target[k]
    BY <2>1, PrefixElements
  <2>4. Len(n) <= Len(m) => \A k \in 1..Len(n) : m[k] = target[k]
    BY <1>3, <2>1
  <2>5. IsPrefix(n, m) <=> IsPrefix(n, target) /\ Len(n) <= Len(m)
    <3> HIDE DEF n, m
    <3> QED BY <1>3, <2>1, <2>2, <2>3, <2>4
  <2> QED BY <2>5 DEF Matching, Matches
<1>5. \A j \in Matching(modules, target) : Len(modules[j].target) <= Len(m)
  BY <1>1 DEF Longest
<1>6. Matching(modules, m) = Matching(modules, target)
  BY <1>4, <1>5 DEF Matching
<1>7. Longest(modules, m) = Longest(modules, target)
  BY <1>6 DEF Longest
<1>8. Override(modules, m) = Override(modules, target)
  <2> HIDE DEF m
  <2> QED BY <1>6, <1>7 DEF Override
<1>9. i \in DOMAIN modules /\ Matches(target, modules[i].target)
  BY <1>2 DEF Matches
<1> QED BY <1>8, <1>9

\* The lower of two levels is one of them and at most each.
LEMMA CeilingTyped ==
  ASSUME NEW target, NEW level \in Level
  PROVE  Ceiling(target, level) \in Level /\ Ceiling(target, level) <= level
  BY DEF Ceiling, LowerOf, Info, Level

\* A target below a module has at least the module's ceiling.
LEMMA CeilingBelow ==
  ASSUME NEW module \in Target, NEW target \in Target, Matches(target, module), NEW level \in Level
  PROVE  Ceiling(target, level) <= Ceiling(module, level)
<1>1. ASSUME NEW http \in HttpTargets, Matches(module, http)
      PROVE  Matches(target, http)
  <2>1. http \in Target
    BY LoggerAssumption
  <2>2. Len(http) \in Nat /\ Len(module) \in Nat /\ Len(target) \in Nat
    BY <2>1 DEF Target
  <2>3. Len(http) <= Len(module) /\ \A k \in 1..Len(http) : http[k] = module[k]
    BY <1>1, <2>1, PrefixElements DEF Matches
  <2>4. Len(module) <= Len(target) /\ \A k \in 1..Len(module) : module[k] = target[k]
    BY PrefixElements DEF Matches
  <2>5. Len(http) <= Len(target) /\ \A k \in 1..Len(http) : http[k] = target[k]
    BY <2>2, <2>3, <2>4
  <2> QED BY <2>1, <2>5, PrefixElements DEF Matches
<1> QED BY <1>1 DEF Ceiling, LowerOf, Info, Level

\* max_level bounds the level of every target there is, not only of the overrides it visits.
LEMMA MaximumBounds ==
  ASSUME NEW l \in Levels, NEW target \in Target
  PROVE  MaxLevel(l) \in Level /\ LevelFor(l, target) <= MaxLevel(l)
<1> DEFINE modules == Modules(l.config)
           base == IF l.runtime = None THEN l.config.default ELSE l.runtime
           all == {base} \cup {LevelFor(l, modules[i].target) : i \in DOMAIN modules}
<1>1. modules \in Seq([target : Target, level : Level])
  BY ModulesTyped DEF Levels
<1>2. base \in Level
  BY LoggerAssumption DEF Levels
<1>3. ASSUME NEW i \in DOMAIN modules PROVE LevelFor(l, modules[i].target) \in Level
  BY <1>1, EntryTyped, LevelForTyped
<1>4. all \in SUBSET (0..5) /\ all # {}
  BY <1>2, <1>3 DEF Level
<1>5. \E m \in all : \A n \in all : n <= m
  <2> HIDE DEF all
  <2> QED BY <1>4, HasGreatest
<1>6. MaxLevel(l) \in all /\ \A n \in all : n <= MaxLevel(l)
  BY <1>5 DEF MaxLevel
<1>7. CASE Matching(modules, target) = {}
  <2>1. Override(modules, target) = None
    BY <1>7 DEF Override
  <2>2. LevelFor(l, target) = Ceiling(target, base)
    BY <2>1 DEF LevelFor, Chosen
  <2>3. LevelFor(l, target) <= base
    BY <1>2, <2>2, CeilingTyped
  <2>4. base <= MaxLevel(l) /\ MaxLevel(l) \in Level /\ LevelFor(l, target) \in Level
    BY <1>4, <1>6, LevelForTyped DEF Level
  <2> QED BY <1>2, <2>3, <2>4 DEF Level
<1>8. CASE Matching(modules, target) # {}
  <2>1. PICK i \in DOMAIN modules :
            /\ Matches(target, modules[i].target)
            /\ Override(modules, modules[i].target) = Override(modules, target)
    BY <1>1, <1>8, OverrideOfModule
  <2> DEFINE m == modules[i].target
             level == Chosen(l.config.default, Override(modules, target), l.runtime)
  <2>2. m \in Target
    BY <1>1, EntryTyped
  <2>3. level \in Level
    <3>1. Override(modules, target) \in Level \cup {None}
      BY <1>1, OverrideTyped
    <3>2. l.config.default \in Level /\ l.runtime \in Level \cup {None}
      BY LoggerAssumption DEF Levels
    <3> QED BY <3>1, <3>2, LoggerAssumption DEF Chosen, LowerOf
  <2>4. LevelFor(l, target) = Ceiling(target, level) /\ LevelFor(l, m) = Ceiling(m, level)
    BY <2>1 DEF LevelFor
  <2>5. LevelFor(l, target) <= LevelFor(l, m)
    <3> HIDE DEF m, level
    <3> QED BY <2>1, <2>2, <2>3, <2>4, CeilingBelow DEF m
  <2>6. LevelFor(l, m) <= MaxLevel(l) /\ MaxLevel(l) \in Level
    BY <1>4, <1>6 DEF Level
  <2>7. LevelFor(l, target) \in Level /\ LevelFor(l, m) \in Level
    BY <2>2, LevelForTyped
  <2> QED BY <2>5, <2>6, <2>7 DEF Level
<1> QED BY <1>7, <1>8

-----------------------------------------------------------------------------
(* Type correctness *)

\* The parts of TypeOK that the end of a call and a log macro change.
CallsTyped ==
    /\ pc \in [Thread -> PC]
    /\ call \in [Thread -> {"none", "init", "toggle", "log", "panic"}]
    /\ record \in [Thread -> Records \union OwnRecords]
    /\ want \in [Thread -> Level]
    /\ initialising \in Thread \union {None}

\* What Finish and Offer do to the thread, and that they keep the others as they are.
LEMMA FinishTyped ==
  ASSUME CallsTyped, NEW t \in Thread, Finish(t)
  PROVE  CallsTyped' /\ pc' = [pc EXCEPT ![t] = "idle"]
         /\ record' = [record EXCEPT ![t] = Notice] /\ want' = [want EXCEPT ![t] = Off]
  BY DEF CallsTyped, Finish, Go, PC, OwnRecords, Off, Level

LEMMA OfferTyped ==
  ASSUME CallsTyped, NEW t \in Thread, NEW r \in Records \union OwnRecords, NEW maximum,
         NEW for \in {"init", "toggle", "log", "panic"}, Offer(t, for, r, maximum)
  PROVE  CallsTyped' /\ pc' \in {[pc EXCEPT ![t] = "idle"], [pc EXCEPT ![t] = "filter"]}
         /\ \A u \in Thread \ {t} : record'[u] = record[u] /\ want'[u] = want[u]
<1>1. CASE logger = "ours" /\ r.level <= maximum
  BY <1>1 DEF CallsTyped, Offer, Go, PC, Off, Level
<1>2. CASE ~(logger = "ours" /\ r.level <= maximum)
  BY <1>2, FinishTyped DEF Offer, CallsTyped
<1> QED BY <1>1, <1>2

\* A maximum level is a level.
LEMMA MaximumTyped ==
  ASSUME NEW l \in Levels
  PROVE  MaxLevel(l) \in Level
  BY MaximumBounds, LoggerAssumption

\* The process as it starts.
Fresh ==
    /\ levels = None /\ max = Off /\ installed = FALSE /\ initialising = None
    /\ hook = FALSE /\ broken = FALSE /\ output = None /\ raced = FALSE
    /\ logger \in {"none", "foreign"}
    /\ in_write = [t \in Thread |-> FALSE]
    /\ pc = [t \in Thread |-> "idle"]
    /\ call = [t \in Thread |-> "none"]
    /\ record = [t \in Thread |-> Notice]
    /\ want = [t \in Thread |-> Off]

LEMMA FreshTyped == Fresh => TypeOK
<1> SUFFICES ASSUME Fresh PROVE TypeOK
  OBVIOUS
<1>1. \A t \in Thread : pc[t] = "write" <=> output = t
  BY LoggerAssumption DEF Fresh
<1>2. pc \in [Thread -> PC] /\ want \in [Thread -> Level] /\ max \in Level
  BY DEF Fresh, PC, Off, Level
<1>3. call \in [Thread -> {"none", "init", "toggle", "log", "panic"}]
  BY DEF Fresh
<1>4. record \in [Thread -> Records \union OwnRecords] /\ in_write \in [Thread -> BOOLEAN]
  BY DEF Fresh, OwnRecords
<1> QED BY <1>1, <1>2, <1>3, <1>4 DEF Fresh, TypeOK

LEMMA TypeInit == Init => TypeOK
  BY FreshTyped DEF Init, Fresh

LEMMA TypeNext == TypeOK /\ [Next]_vars => TypeOK'
<1> SUFFICES ASSUME TypeOK, [Next]_vars PROVE TypeOK'
  OBVIOUS
<1>0. CallsTyped
  BY DEF TypeOK, CallsTyped
<1>1. ASSUME NEW t \in Thread, CallInit(t) PROVE TypeOK'
  BY <1>1 DEF CallInit, Go, TypeOK, PC, globals
<1>2. ASSUME NEW t \in Thread, InitAgain(t) PROVE TypeOK'
  BY <1>0, <1>2, FinishTyped DEF InitAgain, TypeOK, CallsTyped
<1>3. ASSUME NEW t \in Thread, BeginInit(t) PROVE TypeOK'
  BY <1>3 DEF BeginInit, Go, TypeOK, PC
<1>4. ASSUME NEW t \in Thread, InitFails(t) PROVE TypeOK'
  BY <1>0, <1>4, FinishTyped DEF InitFails, TypeOK, CallsTyped
<1>5. ASSUME NEW t \in Thread, PublishLevels(t) PROVE TypeOK'
  <2>1. PICK c \in Configs : levels' = [config |-> c, runtime |-> None]
            /\ want' = [want EXCEPT ![t] = MaxLevel([config |-> c, runtime |-> None])]
    BY <1>5 DEF PublishLevels
  <2>2. levels' \in Levels /\ want' \in [Thread -> Level]
    BY <2>1, MaximumTyped DEF Levels, TypeOK
  <2> QED BY <1>5, <2>2 DEF PublishLevels, Overlaps, Go, TypeOK, PC
<1>6. ASSUME NEW t \in Thread, ApplyFails(t) PROVE TypeOK'
  BY <1>0, <1>6, FinishTyped DEF ApplyFails, TypeOK, CallsTyped
<1>7. ASSUME NEW t \in Thread, Apply(t) PROVE TypeOK'
  BY <1>7 DEF Apply, Go, TypeOK, PC, Level
<1>8. ASSUME NEW t \in Thread, Install(t) PROVE TypeOK'
  <2>1. CallsTyped' /\ pc' \in {[pc EXCEPT ![t] = "idle"], [pc EXCEPT ![t] = "filter"]}
    BY <1>0, <1>8, OfferTyped DEF Install, OwnRecords
  <2> QED BY <1>8, <2>1 DEF Install, TypeOK, CallsTyped
<1>9. ASSUME NEW t \in Thread, NEW level \in Toggles, SetLogLevel(t, level) PROVE TypeOK'
  <2> DEFINE l == [levels EXCEPT !.runtime = level]
  <2>1. l \in Levels
    BY <1>9 DEF SetLogLevel, TypeOK, Levels
  <2>2. levels' = l /\ want' = [want EXCEPT ![t] = MaxLevel(l)]
    BY <1>9 DEF SetLogLevel
  <2>3. levels' \in Levels /\ want' \in [Thread -> Level]
    <3> HIDE DEF l
    <3> QED BY <2>1, <2>2, MaximumTyped DEF TypeOK
  <2> QED BY <1>9, <2>3 DEF SetLogLevel, Overlaps, Go, TypeOK, PC
<1>10. ASSUME NEW t \in Thread, RaiseMaximum(t) PROVE TypeOK'
  <2>1. CallsTyped' /\ pc' \in {[pc EXCEPT ![t] = "idle"], [pc EXCEPT ![t] = "filter"]}
    BY <1>0, <1>10, OfferTyped DEF RaiseMaximum, OwnRecords
  <2> QED BY <1>10, <2>1 DEF RaiseMaximum, TypeOK, CallsTyped
<1>11. ASSUME NEW t \in Thread, NEW r \in Records, Log(t, r) PROVE TypeOK'
  <2>1. CallsTyped' /\ pc' \in {[pc EXCEPT ![t] = "idle"], [pc EXCEPT ![t] = "filter"]}
    BY <1>0, <1>11, OfferTyped DEF Log
  <2> QED BY <1>11, <2>1 DEF Log, TypeOK, CallsTyped
<1>12. ASSUME NEW t \in Thread, Filter(t) PROVE TypeOK'
  <2>1. CASE Enabled(record[t])
    BY <1>12, <2>1 DEF Filter, Go, TypeOK, PC
  <2>2. CASE ~Enabled(record[t])
    BY <1>0, <1>12, <2>2, FinishTyped DEF Filter, TypeOK, CallsTyped
  <2> QED BY <2>1, <2>2
<1>13. ASSUME NEW t \in Thread, TakeOutput(t) PROVE TypeOK'
  BY <1>13, LoggerAssumption DEF TakeOutput, Go, TypeOK, PC, globals
<1>14. ASSUME NEW t \in Thread, EnterWrite(t) PROVE TypeOK'
  BY <1>14 DEF EnterWrite, TypeOK, globals
<1>15. ASSUME NEW t \in Thread, WriteEnds(t) PROVE TypeOK'
  BY <1>0, <1>15, FinishTyped, LoggerAssumption DEF WriteEnds, TypeOK, CallsTyped
<1>16. ASSUME NEW t \in Thread, Panics(t) PROVE TypeOK'
  <2>1. CallsTyped' /\ pc' \in {[pc EXCEPT ![t] = "idle"], [pc EXCEPT ![t] = "filter"]}
    BY <1>0, <1>16, OfferTyped, FinishTyped DEF Panics, OwnRecords
  <2> QED BY <1>16, <2>1 DEF Panics, TypeOK, CallsTyped
<1>17. ASSUME NEW t \in Thread, WriterPanics(t) PROVE TypeOK'
  <2>1. ~HookLogs(t)
    BY <1>17 DEF WriterPanics, HookLogs
  <2>2. CallsTyped' /\ pc' = [pc EXCEPT ![t] = "idle"]
    BY <1>0, <1>17, <2>1, FinishTyped DEF WriterPanics
  <2>3. pc[t] = "write" /\ output' = None /\ broken' = TRUE
        /\ in_write' = [in_write EXCEPT ![t] = FALSE]
        /\ UNCHANGED <<levels, max, logger, installed, hook, raced>>
    BY <1>17, <2>1 DEF WriterPanics
  <2>4. \A u \in Thread : pc'[u] = "write" <=> output' = u
    BY <2>2, <2>3, LoggerAssumption DEF TypeOK
  <2>5. in_write' \in [Thread -> BOOLEAN]
    BY <2>3 DEF TypeOK
  <2> QED BY <2>2, <2>3, <2>4, <2>5 DEF TypeOK, CallsTyped
<1>18. ASSUME NEW t \in Thread, Abort(t) PROVE TypeOK'
  <2>1. Fresh'
    BY <1>18 DEF Abort, Fresh
  <2>2. Fresh' => TypeOK'
    BY FreshTyped, PTL
  <2> QED BY <2>1, <2>2
<1>19. CASE UNCHANGED vars
  BY <1>19 DEF vars, globals, TypeOK
<1> QED BY <1>1, <1>2, <1>3, <1>4, <1>5, <1>6, <1>7, <1>8, <1>9, <1>10, <1>11, <1>12, <1>13,
           <1>14, <1>15, <1>16, <1>17, <1>18, <1>19 DEF Next, Step

\* Type correctness, for init_logger, set_log_level, log macros and panics of any threads.
THEOREM LoggerTypeCorrect == Spec => []TypeOK
<1> QED BY TypeInit, TypeNext, PTL DEF Spec

-----------------------------------------------------------------------------
(* What reaches the file *)

\* The target and the level of a record.
LEMMA RecordTyped ==
  ASSUME NEW r \in Records \union OwnRecords
  PROVE  r.target \in Target /\ r.level \in Level
  BY LoggerAssumption DEF OwnRecords, Notice, PanicRecord, Info, ErrorLevel, Level

\* The filter lets no record of the HTTP client through above Info.
LEMMA EnabledHidesEndpoints ==
  ASSUME TypeOK, NEW t \in Thread, Enabled(record[t])
  PROVE  ~\E http \in HttpTargets : Matches(record[t].target, http) /\ record[t].level > Info
<1>1. levels \in Levels /\ record[t] \in Records \union OwnRecords
  BY DEF Enabled, TypeOK
<1>2. record[t].target \in Target /\ record[t].level \in Level
  BY <1>1, RecordTyped
<1>3. record[t].level <= LevelFor(levels, record[t].target)
  BY DEF Enabled
<1>4. LevelFor(levels, record[t].target) \in Level
      /\ ((\E http \in HttpTargets : Matches(record[t].target, http)) =>
            LevelFor(levels, record[t].target) <= Info)
  BY <1>1, <1>2, LevelForTyped
<1> QED BY <1>2, <1>3, <1>4 DEF Info, Level

\* A record is past the filter because it was, or because the filter let it through.
LEMMA PastTheFilter ==
  ASSUME TypeOK, [Next]_vars, NEW u \in Thread, Written(u)'
  PROVE  record'[u] = record[u] /\ (Written(u) \/ Enabled(record[u]))
<1> DEFINE Goal == record'[u] = record[u] /\ (Written(u) \/ Enabled(record[u]))
<1>0. CallsTyped
  BY DEF TypeOK, CallsTyped
<1>1. ASSUME NEW t \in Thread, Finish(t) PROVE Goal
  BY <1>0, <1>1, FinishTyped DEF Written, CallsTyped
<1>2. ASSUME NEW t \in Thread, NEW for \in {"init", "toggle", "log", "panic"},
             NEW r \in Records \union OwnRecords, NEW maximum, Offer(t, for, r, maximum)
      PROVE  Goal
  BY <1>0, <1>2, OfferTyped DEF Written, CallsTyped
<1>3. ASSUME NEW t \in Thread,
             \/ CallInit(t) \/ BeginInit(t) \/ PublishLevels(t) \/ Apply(t)
             \/ \E level \in Toggles : SetLogLevel(t, level)
      PROVE  Goal
  BY <1>0, <1>3 DEF CallInit, BeginInit, PublishLevels, Apply, SetLogLevel, Go, Written, CallsTyped
<1>4. ASSUME NEW t \in Thread, InitAgain(t) \/ InitFails(t) \/ ApplyFails(t) \/ WriteEnds(t)
      PROVE  Goal
  BY <1>1, <1>4 DEF InitAgain, InitFails, ApplyFails, WriteEnds
<1>5. ASSUME NEW t \in Thread, Install(t) \/ RaiseMaximum(t) \/ \E r \in Records : Log(t, r)
      PROVE  Goal
  BY <1>2, <1>5 DEF Install, RaiseMaximum, Log, OwnRecords
<1>6. ASSUME NEW t \in Thread, Panics(t) \/ WriterPanics(t) PROVE Goal
  BY <1>1, <1>2, <1>6 DEF Panics, WriterPanics, OwnRecords
<1>7. ASSUME NEW t \in Thread, Filter(t) PROVE Goal
  <2>1. CASE Enabled(record[t])
    BY <1>0, <1>7, <2>1 DEF Filter, Go, Written, CallsTyped
  <2>2. CASE ~Enabled(record[t])
    BY <1>1, <1>7, <2>2 DEF Filter
  <2> QED BY <2>1, <2>2
<1>8. ASSUME NEW t \in Thread, TakeOutput(t) \/ EnterWrite(t) PROVE Goal
  BY <1>0, <1>8 DEF TakeOutput, EnterWrite, Go, Written, CallsTyped
<1>9. ASSUME NEW t \in Thread, Abort(t) PROVE Goal
  BY <1>9 DEF Abort, Written
<1>10. CASE UNCHANGED vars
  BY <1>10 DEF vars, Written
<1> QED BY <1>3, <1>4, <1>5, <1>6, <1>7, <1>8, <1>9, <1>10 DEF Next, Step

\* Whatever config init_logger is given, and whatever level set_log_level asks for, no record
\* of the HTTP client above Info, which could hold a node's URL, gets past the filter.
THEOREM EndpointsAreHidden == Spec => []EndpointsStayHidden
<1>1. Init => EndpointsStayHidden
  BY DEF Init, EndpointsStayHidden, Written
<1>2. TypeOK /\ EndpointsStayHidden /\ [Next]_vars => EndpointsStayHidden'
  <2> SUFFICES ASSUME TypeOK, EndpointsStayHidden, [Next]_vars, NEW u \in Thread, Written(u)'
               PROVE  ~\E http \in HttpTargets :
                        Matches(record'[u].target, http) /\ record'[u].level > Info
    BY DEF EndpointsStayHidden
  <2>1. record'[u] = record[u] /\ (Written(u) \/ Enabled(record[u]))
    BY PastTheFilter
  <2>2. CASE Written(u)
    BY <2>1, <2>2 DEF EndpointsStayHidden
  <2>3. CASE Enabled(record[u])
    BY <2>1, <2>3, EnabledHidesEndpoints
  <2> QED BY <2>1, <2>2, <2>3
<1> QED BY <1>1, <1>2, LoggerTypeCorrect, PTL DEF Spec

-----------------------------------------------------------------------------
(* The log crate's maximum level *)

\* Unless two changes of the levels overlapped, the one under way is alone and will set the
\* maximum of the levels in force, and with none under way it is set.
MaximumInForce ==
    (levels # None /\ ~raced) =>
        /\ \A t \in Thread : Changing(t) => want[t] = MaxLevel(levels) /\ ~Overlaps(t)
        /\ (\A t \in Thread : ~Changing(t)) => max = MaxLevel(levels)

\* A thread that is not between its two steps moves on outside them.
LEMMA OthersKeepMaximum ==
  ASSUME TypeOK, MaximumInForce, NEW t \in Thread, ~Changing(t),
         UNCHANGED <<levels, max, raced>>, ~Changing(t)',
         \A u \in Thread \ {t} : pc'[u] = pc[u] /\ want'[u] = want[u]
  PROVE  MaximumInForce'
  BY DEF MaximumInForce, Changing, Overlaps

\* A thread that sets the maximum of its levels ends its change.
LEMMA SetsMaximum ==
  ASSUME TypeOK, MaximumInForce, NEW t \in Thread, Changing(t),
         UNCHANGED <<levels, raced>>, max' = want[t], ~Changing(t)',
         \A u \in Thread \ {t} : pc'[u] = pc[u] /\ want'[u] = want[u]
  PROVE  MaximumInForce'
<1> SUFFICES ASSUME levels # None, ~raced
             PROVE  /\ \A u \in Thread : ~Changing(u)'
                    /\ max' = MaxLevel(levels)
  BY DEF MaximumInForce
<1>1. want[t] = MaxLevel(levels) /\ ~Overlaps(t)
  BY DEF MaximumInForce
<1> QED BY <1>1 DEF Changing, Overlaps

\* A thread that publishes levels is alone, or the changes overlap.
LEMMA PublishesLevels ==
  ASSUME TypeOK, NEW t \in Thread, raced' = Overlaps(t), Changing(t)',
         want'[t] = MaxLevel(levels'),
         \A u \in Thread \ {t} : pc'[u] = pc[u] /\ want'[u] = want[u]
  PROVE  MaximumInForce'
<1> SUFFICES ASSUME ~Overlaps(t)
             PROVE  \A u \in Thread : Changing(u)' => u = t
  BY DEF MaximumInForce, Overlaps
<1> QED BY DEF Changing, Overlaps

LEMMA MaximumNext == TypeOK /\ MaximumInForce /\ [Next]_vars => MaximumInForce'
<1> SUFFICES ASSUME TypeOK, MaximumInForce, [Next]_vars PROVE MaximumInForce'
  OBVIOUS
<1>0. CallsTyped
  BY DEF TypeOK, CallsTyped
<1>1. ASSUME NEW t \in Thread, ~Changing(t), Finish(t), UNCHANGED <<levels, max, raced>>
      PROVE  MaximumInForce'
  <2>1. ~Changing(t)' /\ \A u \in Thread \ {t} : pc'[u] = pc[u] /\ want'[u] = want[u]
    BY <1>0, <1>1, FinishTyped DEF Changing, CallsTyped
  <2> QED BY <1>1, <2>1, OthersKeepMaximum
<1>2. ASSUME NEW t \in Thread, ~Changing(t), UNCHANGED <<levels, max, raced>>,
             NEW for \in {"init", "toggle", "log", "panic"}, NEW r \in Records \union OwnRecords,
             NEW maximum, Offer(t, for, r, maximum)
      PROVE  MaximumInForce'
  <2>1. ~Changing(t)' /\ \A u \in Thread \ {t} : pc'[u] = pc[u] /\ want'[u] = want[u]
    BY <1>0, <1>2, OfferTyped DEF Changing, CallsTyped
  <2> QED BY <1>2, <2>1, OthersKeepMaximum
<1>3. ASSUME NEW t \in Thread,
             \/ CallInit(t) \/ BeginInit(t) \/ (Filter(t) /\ Enabled(record[t]))
             \/ TakeOutput(t) \/ EnterWrite(t)
      PROVE  MaximumInForce'
  <2>1. /\ ~Changing(t) /\ ~Changing(t)' /\ UNCHANGED <<levels, max, raced>>
        /\ \A u \in Thread \ {t} : pc'[u] = pc[u] /\ want'[u] = want[u]
    BY <1>0, <1>3 DEF CallInit, BeginInit, Filter, TakeOutput, EnterWrite, Go, Changing, CallsTyped, globals
  <2> QED BY <2>1, OthersKeepMaximum
<1>4. ASSUME NEW t \in Thread,
             \/ InitAgain(t) \/ InitFails(t) \/ WriteEnds(t)
             \/ (Filter(t) /\ ~Enabled(record[t]))
      PROVE  MaximumInForce'
  <2>1. ~Changing(t) /\ Finish(t) /\ UNCHANGED <<levels, max, raced>>
    BY <1>4 DEF InitAgain, InitFails, WriteEnds, Filter, Changing
  <2> QED BY <1>1, <2>1
<1>5. ASSUME NEW t \in Thread, Panics(t) \/ WriterPanics(t) \/ \E r \in Records : Log(t, r)
      PROVE  MaximumInForce'
  <2>1. ~Changing(t) /\ UNCHANGED <<levels, max, raced>>
    BY <1>5 DEF Panics, WriterPanics, Log, Changing
  <2>2. Finish(t) \/ \E for \in {"log", "panic"}, r \in Records \union OwnRecords : Offer(t, for, r, max)
    BY <1>5 DEF Panics, WriterPanics, Log, OwnRecords
  <2> QED BY <1>1, <1>2, <2>1, <2>2
<1>6. ASSUME NEW t \in Thread, PublishLevels(t) PROVE MaximumInForce'
  <2>1. /\ raced' = Overlaps(t) /\ Changing(t)' /\ want'[t] = MaxLevel(levels')
        /\ \A u \in Thread \ {t} : pc'[u] = pc[u] /\ want'[u] = want[u]
    BY <1>0, <1>6 DEF PublishLevels, Go, Changing, CallsTyped
  <2> QED BY <2>1, PublishesLevels
<1>7. ASSUME NEW t \in Thread, NEW level \in Toggles, SetLogLevel(t, level) PROVE MaximumInForce'
  <2>1. /\ raced' = Overlaps(t) /\ Changing(t)' /\ want'[t] = MaxLevel(levels')
        /\ \A u \in Thread \ {t} : pc'[u] = pc[u] /\ want'[u] = want[u]
    BY <1>0, <1>7 DEF SetLogLevel, Go, Changing, CallsTyped
  <2> QED BY <2>1, PublishesLevels
<1>8. ASSUME NEW t \in Thread, ApplyFails(t) \/ Abort(t) PROVE MaximumInForce'
  BY <1>8 DEF ApplyFails, Abort, MaximumInForce
<1>9. ASSUME NEW t \in Thread, Apply(t) PROVE MaximumInForce'
  <2>1. /\ UNCHANGED <<levels, raced, want>> /\ Changing(t) /\ Changing(t)'
        /\ \A u \in Thread \ {t} : pc'[u] = pc[u]
    BY <1>0, <1>9 DEF Apply, Go, Changing, CallsTyped
  <2> QED BY <2>1 DEF MaximumInForce, Changing, Overlaps
<1>10. ASSUME NEW t \in Thread, Install(t) \/ RaiseMaximum(t) PROVE MaximumInForce'
  <2>1. Changing(t) /\ UNCHANGED <<levels, raced>> /\ max' = want[t]
    BY <1>10 DEF Install, RaiseMaximum, Changing
  <2>2. \E for \in {"init", "toggle"} : Offer(t, for, Notice, want[t])
    BY <1>10 DEF Install, RaiseMaximum
  <2>3. ~Changing(t)' /\ \A u \in Thread \ {t} : pc'[u] = pc[u] /\ want'[u] = want[u]
    <3>1. PICK for \in {"init", "toggle"} : Offer(t, for, Notice, want[t])
      BY <2>2
    <3>2. Notice \in Records \union OwnRecords
      BY DEF OwnRecords
    <3>3. /\ pc' \in {[pc EXCEPT ![t] = "idle"], [pc EXCEPT ![t] = "filter"]}
          /\ \A u \in Thread \ {t} : record'[u] = record[u] /\ want'[u] = want[u]
      BY <1>0, <3>1, <3>2, OfferTyped
    <3> QED BY <1>0, <3>3 DEF Changing, CallsTyped
  <2> QED BY <2>1, <2>3, SetsMaximum
<1>11. CASE UNCHANGED vars
  BY <1>11 DEF vars, globals, MaximumInForce, Changing, Overlaps
<1> QED BY <1>3, <1>4, <1>5, <1>6, <1>7, <1>8, <1>9, <1>10, <1>11 DEF Next, Step

\* For every config, level and target: unless two changes of the levels overlapped, the maximum
\* that the log macros compare with first hides no record that the target's level lets through.
THEOREM MaximumHidesNothing == Spec => []MaximumCoversTargets
<1>1. Init => MaximumInForce
  BY DEF Init, MaximumInForce
<1>2. TypeOK /\ MaximumInForce => MaximumCoversTargets
  <2> SUFFICES ASSUME TypeOK, MaximumInForce, levels # None, ~raced, \A t \in Thread : ~Changing(t),
                      NEW r \in Records, Enabled(r)
               PROVE  r.level <= max
    BY DEF MaximumCoversTargets
  <2>1. max = MaxLevel(levels) /\ levels \in Levels
    BY DEF MaximumInForce, TypeOK
  <2>2. r.target \in Target /\ r.level \in Level
    BY RecordTyped
  <2>3. /\ LevelFor(levels, r.target) \in Level /\ MaxLevel(levels) \in Level
        /\ LevelFor(levels, r.target) <= MaxLevel(levels)
    BY <2>1, <2>2, LevelForTyped, MaximumBounds
  <2>4. r.level <= LevelFor(levels, r.target)
    BY DEF Enabled
  <2> QED BY <2>1, <2>2, <2>3, <2>4 DEF Level
<1> QED BY <1>1, <1>2, MaximumNext, LoggerTypeCorrect, PTL DEF Spec

-----------------------------------------------------------------------------
(* The text of a line *)

\* The recursion FlattenSeq is defined by, for the first n pieces of s.
Flattens(g, s, n) == g = [i \in 1..n |-> IF i = 1 THEN s[i] ELSE g[i - 1] \o s[i]]

LEMMA FlattensStep ==
  ASSUME NEW s, NEW n, NEW g, Flattens(g, s, n), NEW i \in 1..n
  PROVE  g[i] = IF i = 1 THEN s[i] ELSE g[i - 1] \o s[i]
<1>1. g = [k \in 1..n |-> IF k = 1 THEN s[k] ELSE g[k - 1] \o s[k]]
  BY DEF Flattens
<1> QED BY <1>1

\* It has a solution: the least length without one would extend that of the length before.
LEMMA FlattenExists ==
  ASSUME NEW s, NEW n \in Nat
  PROVE  \E g : Flattens(g, s, n)
<1> DEFINE Unsolved == {k \in Nat : ~\E g : Flattens(g, s, k)}
<1> SUFFICES ASSUME Unsolved # {} PROVE FALSE
  OBVIOUS
<1>1. PICK m \in Unsolved : \A k \in Unsolved : m <= k
  <2>1. Unsolved \in SUBSET Nat
    OBVIOUS
  <2> HIDE DEF Unsolved
  <2> QED BY <2>1, HasLeast
<1>2. \E g : Flattens(g, s, 0)
  <2> DEFINE e == [i \in 1..0 |-> s[i]]
  <2>1. e = [i \in 1..0 |-> IF i = 1 THEN s[i] ELSE e[i - 1] \o s[i]]
    OBVIOUS
  <2>2. Flattens(e, s, 0)
    BY <2>1 DEF Flattens
  <2> WITNESS e
  <2> QED BY <2>2
<1>3. m \in Nat /\ m # 0 /\ m - 1 \in Nat /\ ~\E g : Flattens(g, s, m)
  BY <1>2
<1>4. PICK g : Flattens(g, s, m - 1)
  BY <1>1, <1>3
<1> DEFINE last == IF m = 1 THEN s[m] ELSE g[m - 1] \o s[m]
           h == [i \in 1..m |-> IF i = m THEN last ELSE g[i]]
<1>5. ASSUME NEW i \in 1..m
      PROVE  h[i] = IF i = 1 THEN s[i] ELSE h[i - 1] \o s[i]
  <2>1. CASE i = m
    <3>1. h[i] = last
      BY <2>1
    <3>2. m # 1 => m - 1 \in 1..m /\ m - 1 # m
      BY <1>3
    <3>3. m # 1 => h[m - 1] = g[m - 1]
      BY <3>2
    <3> QED BY <2>1, <3>1, <3>3
  <2>2. CASE i # m
    <3>1. i \in 1..(m - 1)
      BY <1>3, <2>2
    <3>2. g[i] = IF i = 1 THEN s[i] ELSE g[i - 1] \o s[i]
      BY <1>4, <3>1, FlattensStep
    <3>3. h[i] = g[i]
      BY <2>2
    <3>4. i # 1 => i - 1 \in 1..m /\ i - 1 # m
      BY <1>3
    <3>5. i # 1 => h[i - 1] = g[i - 1]
      BY <3>4
    <3> QED BY <3>2, <3>3, <3>5
  <2> QED BY <2>1, <2>2
<1>6. h = [i \in 1..m |-> IF i = 1 THEN s[i] ELSE h[i - 1] \o s[i]]
  <2> HIDE DEF last
  <2> QED BY <1>5
<1>7. Flattens(h, s, m)
  <2> HIDE DEF h
  <2> QED BY <1>6 DEF Flattens
<1> HIDE DEF h
<1> QED BY <1>3, <1>7

\* The pieces of a text put together hold what the pieces hold.
LEMMA FlattenTyped ==
  ASSUME NEW T, NEW s \in Seq(Seq(T))
  PROVE  FlattenSeq(s) \in Seq(T)
<1> DEFINE n == Len(s)
           flatten == CHOOSE g : Flattens(g, s, n)
<1>1. n \in Nat /\ \A i \in 1..n : s[i] \in Seq(T)
  <2> DEFINE P == Seq(T)
  <2>1. s \in Seq(P)
    OBVIOUS
  <2> HIDE DEF P
  <2>2. n \in Nat /\ \A i \in 1..n : s[i] \in P
    BY <2>1
  <2> QED BY <2>2 DEF P
<1>2. Flattens(flatten, s, n)
  BY <1>1, FlattenExists
<1>3. CASE n = 0
  <2>1. FlattenSeq(s) = s /\ s = <<>>
    BY <1>3 DEF FlattenSeq
  <2> QED BY <2>1
<1>4. CASE n # 0
  <2>1. FlattenSeq(s) = flatten[n]
    BY <1>4 DEF FlattenSeq, Flattens
  <2>2. n \in 1..n
    BY <1>1, <1>4
  <2> HIDE DEF flatten, n
  <2> DEFINE Bad == {k \in 1..n : flatten[k] \notin Seq(T)}
  <2> SUFFICES ASSUME Bad # {} PROVE FALSE
    <3>1. n \notin Bad => flatten[n] \in Seq(T)
      BY <2>2
    <3> HIDE DEF Bad
    <3> QED BY <2>1, <3>1
  <2>3. Bad \in SUBSET Nat
    BY <1>1
  <2>4. PICK m \in Bad : \A k \in Bad : m <= k
    <3> HIDE DEF Bad
    <3> QED BY <2>3, HasLeast
  <2>5. m \in 1..n /\ flatten[m] \notin Seq(T)
    OBVIOUS
  <2>6. flatten[m] = IF m = 1 THEN s[m] ELSE flatten[m - 1] \o s[m]
    BY <1>2, <2>5, FlattensStep
  <2>7. s[m] \in Seq(T)
    BY <1>1, <2>5
  <2>8. CASE m # 1
    <3>1. m - 1 \in 1..n /\ ~(m <= m - 1)
      BY <1>1, <2>5, <2>8
    <3>2. flatten[m - 1] \in Seq(T)
      BY <2>4, <3>1
    <3>3. flatten[m - 1] \o s[m] \in Seq(T)
      BY <2>7, <3>2, ConcatProperties
    <3> QED BY <2>5, <2>6, <2>8, <3>3
  <2> QED BY <2>5, <2>6, <2>7, <2>8
<1> QED BY <1>3, <1>4

\* The tokens of a text; the ones that this module names stand in the set by name, as the
\* provers take a literal for a string only where they are told.
Token == STRING \union {"***", "[truncated]", "\\n", "\n", "a", "://", "p", "@"}

LEMMA Literals ==
  /\ "***" \in Token \ {"p"} /\ "[truncated]" \in Token \ {"p"} /\ "\\n" \in Token \ {"p", "\n"}
  /\ "a" \in Token /\ "://" \in Token /\ "p" \in Token /\ "@" \in Token /\ "\n" \in Token
  BY DEF Token

\* A text whose passwords stand in userinfos.
Marked(text) ==
    text \in Seq(Token) /\ \A i \in DOMAIN text : text[i] = "p" => InUserinfo(text, i)

\* Redacted, it has no letter of a password left.
LEMMA RedactHides ==
  ASSUME NEW text, Marked(text)
  PROVE  Redact(text) \in Seq(Token \ {"p"})
<1> DEFINE T == Token \ {"p"}
           piece(i) == CASE ~InUserinfo(text, i) -> <<text[i]>>
                         [] InUserinfo(text, i) /\ ~InUserinfo(text, i - 1) -> <<"***">>
                         [] OTHER -> <<>>
           pieces == [i \in DOMAIN text |-> piece(i)]
<1>1. DOMAIN text = 1..Len(text) /\ Len(text) \in Nat /\ \A i \in DOMAIN text : text[i] \in Token
  BY DEF Marked
<1>2. ASSUME NEW i \in DOMAIN text PROVE piece(i) \in Seq(T)
  <2>1. CASE ~InUserinfo(text, i)
    <3>1. text[i] \in T
      BY <1>1, <2>1 DEF Marked
    <3>2. <<text[i]>> \in Seq(T)
      <4> HIDE DEF T
      <4> QED BY <3>1
    <3> QED BY <2>1, <3>2
  <2>2. CASE InUserinfo(text, i)
    <3>1. "***" \in T
      BY Literals
    <3>2. <<"***">> \in Seq(T) /\ <<>> \in Seq(T)
      <4> HIDE DEF T
      <4> QED BY <3>1
    <3>3. piece(i) \in {<<"***">>, <<>>}
      BY <2>2
    <3> HIDE DEF piece
    <3> QED BY <3>2, <3>3
  <2> QED BY <2>1, <2>2
<1>3. pieces \in Seq(Seq(T))
  <2> DEFINE P == Seq(T)
  <2> HIDE DEF piece, P
  <2>1. \A i \in 1..Len(text) : piece(i) \in P
    BY <1>1, <1>2 DEF P
  <2>2. [i \in 1..Len(text) |-> piece(i)] \in Seq(P)
    BY <1>1, <2>1
  <2> QED BY <1>1, <2>2 DEF P
<1>4. FlattenSeq(pieces) \in Seq(T)
  <2> HIDE DEF pieces, T
  <2> QED BY <1>3, FlattenTyped
<1> QED BY <1>4 DEF Redact

\* The cut takes the front of a text and marks it.
LEMMA TruncateTyped ==
  ASSUME NEW T, "[truncated]" \in T, NEW text \in Seq(T), NEW cap \in Nat
  PROVE  Truncate(text, cap) \in Seq(T)
<1>1. CASE Len(text) <= cap
  BY <1>1 DEF Truncate
<1>2. CASE ~(Len(text) <= cap)
  <2>1. SubSeq(text, 1, cap) \in Seq(T)
    BY <1>2
  <2>2. Append(SubSeq(text, 1, cap), "[truncated]") \in Seq(T)
    BY <2>1, AppendProperties
  <2> QED BY <1>2, <2>2 DEF Truncate
<1> QED BY <1>1, <1>2

\* A sanitized text has no letter of a password and no line break.
LEMMA SanitizeHides ==
  ASSUME NEW text, Marked(text), NEW cap \in Nat
  PROVE  Sanitize(text, cap) \in Seq(Token \ {"p", "\n"})
<1> DEFINE T == Token \ {"p"}
           C == Token \ {"p", "\n"}
           cut == Truncate(Redact(text), cap)
<1>1. cut \in Seq(T)
  <2>1. "[truncated]" \in T /\ Redact(text) \in Seq(T)
    BY Literals, RedactHides
  <2> HIDE DEF T
  <2> QED BY <2>1, TruncateTyped
<1>2. DOMAIN cut = 1..Len(cut) /\ Len(cut) \in Nat /\ \A i \in 1..Len(cut) : cut[i] \in T
  <2> HIDE DEF cut, T
  <2> QED BY <1>1
<1>3. ASSUME NEW i \in 1..Len(cut)
      PROVE  (IF cut[i] = "\n" THEN "\\n" ELSE cut[i]) \in C
  <2> HIDE DEF cut
  <2> QED BY <1>2, Literals
<1>4. Escape(cut) \in Seq(C)
  <2> HIDE DEF cut, C
  <2> QED BY <1>2, <1>3 DEF Escape
<1> QED BY <1>4 DEF Sanitize

\* The records the code logs, its own included, are marked: the hook's message names a URL
\* with a password before its "@".
LEMMA RecordMarked ==
  ASSUME NEW r \in Records \union OwnRecords
  PROVE  Marked(r.message) /\ Marked(r.value)
<1>1. CASE r \in Records
  <2>1. ASSUME NEW text \in Seq(STRING) PROVE text \in Seq(Token)
    BY DEF Token
  <2> QED BY <1>1, <2>1, TextsAssumption DEF Marked
<1>2. CASE r = Notice
  BY <1>2 DEF Notice, Marked
<1>3. CASE r = PanicRecord
  <2> DEFINE text == <<"a", "://", "p", "p", "@", "\n">>
  <2>1. r.message = text /\ r.value = <<>>
    BY <1>3 DEF PanicRecord
  <2>2. ASSUME NEW i \in 3..4 PROVE InUserinfo(text, i)
    <3>1. /\ 2 \in 2..(i - 1) /\ 5 \in (i + 1)..Len(text)
          /\ text[2] = "://" /\ text[2 - 1] = "a" /\ text[5] = "@"
          /\ \A k \in (2 + 1)..(5 - 1) : text[k] \notin Stops
      BY DEF Stops
    <3> QED BY <3>1 DEF InUserinfo
  <2>3. ASSUME NEW i \in DOMAIN text, text[i] = "p" PROVE i \in 3..4
    BY <2>3
  <2>4. text \in Seq(Token)
    BY Literals
  <2>5. Marked(text)
    <3> HIDE DEF text
    <3> QED BY <2>2, <2>3, <2>4 DEF Marked
  <2>6. Marked(<<>>)
    BY DEF Marked
  <2> HIDE DEF text
  <2> QED BY <2>1, <2>5, <2>6
<1> QED BY <1>1, <1>2, <1>3 DEF OwnRecords

\* A target is written as it is, and the code's targets hold neither.
LEMMA TargetIsClean ==
  ASSUME NEW r \in Records \union OwnRecords
  PROVE  r.target \in Seq(Token \ {"p", "\n"})
<1>1. r.target \in Seq(Token) /\ \A i \in DOMAIN r.target : r.target[i] \notin {"p", "\n"}
  <2>1. ASSUME NEW target \in Target PROVE target \in Seq(Token)
    BY DEF Target, Token
  <2>2. CASE r \in Records
    BY <2>2, <2>1, LoggerAssumption, TextsAssumption
  <2>3. CASE r = Notice
    <3>1. r.target = OwnTarget /\ OwnTarget \in Seq(Token)
      BY <2>3, <2>1, LoggerAssumption DEF Notice
    <3>2. \A i \in DOMAIN OwnTarget : OwnTarget[i] \notin {"p", "\n"}
      BY DEF OwnTarget
    <3> QED BY <3>1, <3>2
  <2>4. CASE r = PanicRecord
    <3>1. r.target = PanicTarget /\ PanicTarget \in Seq(Token)
      BY <2>4, <2>1, LoggerAssumption DEF PanicRecord
    <3>2. \A i \in DOMAIN PanicTarget : PanicTarget[i] \notin {"p", "\n"}
      BY DEF PanicTarget
    <3> QED BY <3>1, <3>2
  <2> QED BY <2>2, <2>3, <2>4 DEF OwnRecords
<1> HIDE DEF Token
<1>2. \A i \in 1..Len(r.target) : r.target[i] \in Token \ {"p", "\n"}
  BY <1>1
<1> QED BY <1>1, <1>2

\* Whatever is logged, wherever the cap cuts it and whoever panics, the text of a line in the
\* file holds no letter of a URL's password and no line break.
THEOREM LinesHideCredentials == Spec => []LinesAreClean
<1>1. TypeOK => LinesAreClean
  <2> SUFFICES ASSUME TypeOK, NEW t \in Thread
               PROVE  {Line(record[t])[i] : i \in DOMAIN Line(record[t])} \intersect {"p", "\n"} = {}
    BY DEF LinesAreClean
  <2> DEFINE r == record[t]
             C == Token \ {"p", "\n"}
             cap == IF r.target = PanicTarget THEN Len(r.message) ELSE FieldCap
  <2>1. Marked(r.message) /\ Marked(r.value)
    BY RecordMarked DEF TypeOK
  <2>2. cap \in Nat /\ FieldCap \in Nat
    <3> HIDE DEF r
    <3> QED BY <2>1, TextsAssumption DEF Marked
  <2>3. Sanitize(r.message, cap) \in Seq(C) /\ Sanitize(r.value, FieldCap) \in Seq(C)
    <3> HIDE DEF r, cap
    <3> QED BY <2>1, <2>2, SanitizeHides
  <2>4. Line(r) \in Seq(C)
    <3>1. r.target \in Seq(C)
      <4> HIDE DEF r
      <4> QED BY TargetIsClean DEF TypeOK, r
    <3>2. r.target \o Sanitize(r.message, cap) \in Seq(C)
      <4> HIDE DEF r, cap, C
      <4> QED BY <2>3, <3>1, ConcatProperties
    <3>3. (r.target \o Sanitize(r.message, cap)) \o Sanitize(r.value, FieldCap) \in Seq(C)
      <4> HIDE DEF r, cap, C
      <4> QED BY <2>3, <3>2, ConcatProperties
    <3> QED BY <3>3 DEF Line
  <2>5. \A i \in DOMAIN Line(r) : Line(r)[i] \in C
    <3> HIDE DEF r, C
    <3> QED BY <2>4
  <2> HIDE DEF r
  <2> QED BY <2>5 DEF r
<1> QED BY <1>1, LoggerTypeCorrect, PTL
=============================================================================
