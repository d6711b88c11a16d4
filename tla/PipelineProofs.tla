---------------------------- MODULE PipelineProofs ----------------------------
(***************************************************************************)
(* For every registry of names, every intelligence database and every item *)
(* a scanner may report: what ScanConsumers says of the pipeline and its   *)
(* readers.  The stages are lemmas about one item; the invariant says only *)
(* that what a scan carries and what the database holds is the pipeline's  *)
(* result so far, under the lists the scan read.                           *)
(***************************************************************************)
EXTENDS ScanConsumers, TLAPS

-----------------------------------------------------------------------------
(* The verdicts of each stage. *)

\* Every verdict of the rules is a bucket.
LEMMA RulesType ==
    ASSUME NEW r \in Raws, NEW l \in Lists PROVE RulesBucket(r, l) \in Buckets
  <1>1. TypeBucket(r) \in Buckets
    BY SMTT(30) DEF TypeBucket, FileBucket, Buckets, Raws, Types, ControlTypes
  <1> QED
    BY <1>1 DEF RulesBucket, Buckets

\* What is looked up is a row of the database, and only for what it describes.
LEMMA MatchType ==
    ASSUME NEW r \in Raws
    PROVE  /\ Match(r) \in Entry \cup {None}
           /\ Match(r) # None => r.type \in ControlTypes
  BY DEF Match, Raws

\* Intelligence leaves critical items critical and lets nothing into the
\* buckets a cleanup takes.
LEMMA IntelTightens ==
    ASSUME NEW r \in Raws, NEW b \in Buckets
    PROVE  /\ IntelBucket(r, b) \in Buckets
           /\ b = "risky_system_critical" => IntelBucket(r, b) = b
           /\ IntelBucket(r, b) \in {"safe_to_remove", "probably_safe"}
                => IntelBucket(r, b) = b
           /\ r.type \notin ControlTypes => IntelBucket(r, b) = b
  <1>1. Demand(Match(r)) # None =>
            Demand(Match(r)) \in {"risky_system_critical", "ask_user"}
    BY DEF Demand
  <1>2. r.type \notin ControlTypes => Match(r) = None
    BY DEF Match
  <1> QED
    BY <1>1, <1>2 DEF IntelBucket, Buckets

\* The snapshot is typed, and knows exactly what has a row.
LEMMA IntelType ==
    ASSUME NEW r \in Raws, NEW b
    PROVE  /\ Intel(r, b) \in [known : BOOLEAN, row : Entry \cup {None}, protect : BOOLEAN]
           /\ Intel(r, b).known <=> Match(r) # None
           /\ Intel(r, b).row = Match(r)
           /\ Intel(r, b).protect <=> /\ r.type \in ControlTypes /\ Match(r) = None
                                      /\ b = "risky_system_critical"
  BY MatchType DEF Intel

Controls == [category : {"essential", "important", "non_essential",
                 "gaming_fps_impact", "unknown", "not_applicable"},
             policy : {"blocked", "report_only", "preview_required",
                 "explicit_selection_required", "unsupported"},
             suspend : BOOLEAN]
Intels == [known : BOOLEAN, row : Entry \cup {None}, protect : BOOLEAN]

\* What a known process is given: suspension only on a row of low or medium
\* risk that says the process may be stopped.
LEMMA KnownVerdict ==
    ASSUME NEW e \in Entries
    PROVE  /\ KnownProcess(e) \in Controls
           /\ KnownProcess(e).policy # "blocked"
           /\ KnownProcess(e).suspend => e.stop = "yes" /\ e.risk # "high"
  BY DEF KnownProcess, Verdict, Report, Controls, Entries

\* Process control: the verdict is typed; blocked is the essential verdict and
\* nothing else; only a process none of whose names is protected, that is no
\* browser and that a row outside the essential stacks clears may be suspended.
LEMMA ControlVerdict ==
    ASSUME NEW r \in Raws, NEW b \in Buckets, NEW intel \in Intels,
           intel.known => intel.row \in Entry
    PROVE  /\ Control(r, b, intel) \in Controls
           /\ Control(r, b, intel).policy = "blocked"
                => Control(r, b, intel) = Essential
           /\ Control(r, b, intel).category = "essential"
                => Control(r, b, intel) = Essential
           /\ Control(r, b, intel).suspend =>
                /\ r.type = "process" /\ ~HardNamed(r) /\ ~Marked(r, "shell")
                /\ b # "risky_system_critical" /\ intel.known /\ ~EssentialRow(intel)
                /\ intel.row.risk \in {"low", "medium"} /\ intel.row.stop = "yes"
  <1> DEFINE C == Control(r, b, intel)
  <1>e. Essential \in Controls /\ Essential.policy = "blocked" /\ ~Essential.suspend
    BY DEF Essential, Verdict, Controls
  <1>r. \A k \in {"important", "non_essential", "unknown", "not_applicable"} :
            /\ Report(k) \in Controls /\ Report(k).policy # "blocked"
            /\ Report(k).category # "essential" /\ ~Report(k).suspend
    BY DEF Report, Verdict, Controls
  <1>1. CASE r.type = "process"
    <2>1. CASE C = Essential
      BY <1>e, <2>1
    <2>2. CASE C = Verdict("important", "explicit_selection_required", FALSE)
      BY <2>2 DEF Verdict, Controls
    <2>3. CASE C = Report("unknown")
      BY <1>r, <2>3
    <2>4. CASE /\ C = KnownProcess(intel.row) /\ intel.known
               /\ ~(HardNamed(r) \/ b = "risky_system_critical" \/ EssentialRow(intel))
               /\ ~Marked(r, "shell")
      <3>1. intel.row \in Entries
        BY <2>4, PipelineAssumption
      <3>2. intel.row.risk # "critical"
        BY <2>4 DEF EssentialRow
      <3>3. C.category # "essential"
        BY <2>4 DEF KnownProcess, Verdict, Report
      <3> QED
        BY <1>1, <2>4, <3>1, <3>2, <3>3, KnownVerdict DEF Entries
    <2> QED
      BY <1>1, <2>1, <2>2, <2>3, <2>4 DEF Control, ClassifyProcess, Critical
  <1>2. CASE r.type = "service"
    <2>1. C \in {Essential, Report("important"), Report("unknown")}
      BY <1>2 DEF Control, ClassifyService
    <2> QED BY <1>e, <1>r, <2>1
  <1>3. CASE r.type = "startup_entry"
    <2>1. C \in {Essential, Report("non_essential"), Report("unknown")}
      BY <1>3 DEF Control, ClassifyStartupEntry
    <2> QED BY <1>e, <1>r, <2>1
  <1>4. CASE r.type = "scheduled_task"
    <2>1. C \in {Essential, Report("important"), Report("unknown")}
      BY <1>4 DEF Control, ClassifyScheduledTask
    <2> QED BY <1>e, <1>r, <2>1
  <1>5. CASE r.type \notin ControlTypes
    <2>1. C = Verdict("not_applicable", "unsupported", FALSE)
      BY <1>5 DEF Control, ControlTypes
    <2> QED BY <2>1 DEF Verdict, Controls
  <1> QED
    BY <1>1, <1>2, <1>3, <1>4, <1>5 DEF ControlTypes

-----------------------------------------------------------------------------
(* The stages, on an item that has come this far. *)

\* Protection is a truth value.
LEMMA GuardedType ==
    ASSUME NEW r, NEW b, NEW intel \in Intels PROVE Guarded(r, b, intel) \in BOOLEAN
  BY DEF Guarded, Intels

\* An item starts unknown to everybody.
LEMMA NormalizedItem ==
    ASSUME NEW r \in Raws
    PROVE  /\ Normalized(r) \in Items
           /\ Normalized(r).bucket = "unknown" /\ Normalized(r).intel = NoIntel
           /\ Normalized(r).control.policy = "report_only"
           /\ ~Normalized(r).control.suspend
           /\ ~Normalized(r).protected /\ ~Normalized(r).cleanup
           /\ ~Normalized(r).performance
  <1>1. NoIntel \in Intels
    BY DEF NoIntel, Intels
  <1>2. /\ Unclassified(r) \in Controls /\ Unclassified(r).policy = "report_only"
        /\ ~Unclassified(r).suspend
    BY DEF Unclassified, Report, Verdict, Controls
  <1> QED
    BY <1>1, <1>2 DEF Normalized, Items, Buckets, Intels, Controls

\* The rules set the bucket and what it protects, nothing else.
LEMMA RulesItem ==
    ASSUME NEW r \in Raws, NEW l \in Lists, NEW i \in Items
    PROVE  LET j == ApplyRules(r, l, i) IN
           /\ j \in Items
           /\ j.bucket = RulesBucket(r, l)
           /\ j.protected <=> j.bucket = "risky_system_critical"
           /\ j.intel = i.intel /\ j.control = i.control
           /\ j.cleanup = i.cleanup /\ j.performance = i.performance
  BY RulesType DEF ApplyRules, Items

\* Intelligence sets the bucket and the snapshot.
LEMMA IntelItem ==
    ASSUME NEW r \in Raws, NEW i \in Items
    PROVE  LET j == ApplyIntel(r, i) IN
           /\ j \in Items
           /\ j.bucket = IntelBucket(r, i.bucket) /\ j.intel = Intel(r, i.bucket)
           /\ j.protected = i.protected /\ j.control = i.control
           /\ j.cleanup = i.cleanup /\ j.performance = i.performance
  <1>1. IntelBucket(r, i.bucket) \in Buckets /\ Intel(r, i.bucket) \in Intels
    BY IntelTightens, IntelType DEF Items, Intels
  <1> QED
    BY <1>1 DEF ApplyIntel, Items, Intels

\* Process control sets the verdict.
LEMMA ControlItem ==
    ASSUME NEW r \in Raws, NEW i \in Items, i.intel.known => i.intel.row \in Entry
    PROVE  LET j == ApplyControl(r, i) IN
           /\ j \in Items
           /\ j.control = Control(r, i.bucket, i.intel)
           /\ j.bucket = i.bucket /\ j.intel = i.intel /\ j.protected = i.protected
           /\ j.cleanup = i.cleanup /\ j.performance = i.performance
  <1>1. Control(r, i.bucket, i.intel) \in Controls
    BY ControlVerdict DEF Items, Intels
  <1> QED
    BY <1>1 DEF ApplyControl, Items, Controls

\* Gating sets the three flags and blocks what it protects.
LEMMA GateItem ==
    ASSUME NEW r \in Raws, NEW i \in Items
    PROVE  LET j == Gate(r, i) IN
           /\ j \in Items
           /\ j.bucket = i.bucket /\ j.intel = i.intel
           /\ j.protected <=> Guarded(r, i.bucket, i.intel)
           /\ j.cleanup <=> /\ r.type = "file_or_folder"
                            /\ ~Guarded(r, i.bucket, i.intel)
                            /\ i.bucket \in {"safe_to_remove", "probably_safe"}
           /\ j.performance <=> /\ r.type = "process"
                                /\ ~Guarded(r, i.bucket, i.intel)
                                /\ SuspendAllowed(r.name, {})
           /\ j.control = IF Guarded(r, i.bucket, i.intel) /\ r.type \in ControlTypes
                          THEN Essential ELSE i.control
  <1> DEFINE g == Guarded(r, i.bucket, i.intel)
             c == r.type = "file_or_folder" /\ ~g
                  /\ i.bucket \in {"safe_to_remove", "probably_safe"}
             p == r.type = "process" /\ ~g /\ SuspendAllowed(r.name, {})
             k == IF g /\ r.type \in ControlTypes THEN Essential ELSE i.control
  <1>1. g \in BOOLEAN
    BY GuardedType DEF Items, Intels
  <1>2. k \in Controls
    BY DEF Essential, Verdict, Controls, Items
  <1>3. c \in BOOLEAN /\ p \in BOOLEAN
    OBVIOUS
  <1> HIDE DEF g, c, p, k
  <1>4. Gate(r, i) = [i EXCEPT !.protected = g, !.cleanup = c, !.performance = p,
                               !.control = k]
    BY DEF Gate, g, c, p, k
  <1>5. Gate(r, i) \in Items
    BY <1>1, <1>2, <1>3, <1>4 DEF Items, Controls
  <1>6. Gate(r, i).bucket = i.bucket /\ Gate(r, i).intel = i.intel
    BY <1>4 DEF Items
  <1>7. /\ Gate(r, i).protected = g /\ Gate(r, i).cleanup = c
        /\ Gate(r, i).performance = p /\ Gate(r, i).control = k
    BY <1>4 DEF Items
  <1> QED
    BY <1>5, <1>6, <1>7 DEF g, c, p, k

-----------------------------------------------------------------------------
(* One item through the whole pipeline, and what its readers make of it. *)

\* After the rules: what they set, and what no stage before gating touches.
LEMMA RuledItem ==
    ASSUME NEW r \in Raws, NEW l \in Lists
    PROVE  LET j == Ruled(r, l) IN
           /\ j \in Items /\ j.bucket = RulesBucket(r, l)
           /\ j.protected <=> j.bucket = "risky_system_critical"
           /\ j.control.policy = "report_only"
  BY NormalizedItem, RulesItem DEF Ruled

\* After intelligence.
LEMMA InformedItem ==
    ASSUME NEW r \in Raws, NEW l \in Lists
    PROVE  LET j == Informed(r, l) IN
           /\ j \in Items /\ j.bucket = IntelBucket(r, RulesBucket(r, l))
           /\ j.intel = Intel(r, RulesBucket(r, l))
           /\ j.intel.known => j.intel.row \in Entry
           /\ j.protected => j.bucket = "risky_system_critical"
           /\ j.control.policy = "report_only"
  BY RuledItem, IntelItem, RulesType, IntelTightens, IntelType DEF Informed

\* After process control.
LEMMA ControlledItem ==
    ASSUME NEW r \in Raws, NEW l \in Lists
    PROVE  LET j == Controlled(r, l) IN
           /\ j \in Items /\ j.bucket = IntelBucket(r, RulesBucket(r, l))
           /\ j.intel = Intel(r, RulesBucket(r, l))
           /\ j.protected => j.bucket = "risky_system_critical"
           /\ j.control = Control(r, j.bucket, j.intel)
  BY InformedItem, ControlItem DEF Controlled

\* The result of the pipeline.
LEMMA Outcome ==
    ASSUME NEW r \in Raws, NEW l \in Lists
    PROVE  LET j == RunPipeline(r, l)  g == Guarded(r, j.bucket, j.intel) IN
           /\ j \in Items /\ j.bucket = IntelBucket(r, RulesBucket(r, l))
           /\ j.intel = Intel(r, RulesBucket(r, l))
           /\ j.protected <=> g
           /\ j.cleanup <=> /\ r.type = "file_or_folder" /\ ~g
                            /\ j.bucket \in {"safe_to_remove", "probably_safe"}
           /\ j.performance <=> /\ r.type = "process" /\ ~g
                                /\ SuspendAllowed(r.name, {})
           /\ j.control = IF g /\ r.type \in ControlTypes THEN Essential
                          ELSE Control(r, j.bucket, j.intel)
  BY ControlledItem, GateItem DEF RunPipeline

\* The verdict the readers see: blocked and essential go together and exclude
\* suspension, and the item of a control type that is protected has it.
LEMMA OutcomeControl ==
    ASSUME NEW r \in Raws, NEW l \in Lists
    PROVE  LET j == RunPipeline(r, l) IN
           /\ j.control \in Controls
           /\ j.control.policy = "blocked" => j.control = Essential
           /\ j.control.category = "essential" => j.control = Essential
           /\ j.protected /\ r.type \in ControlTypes => j.control = Essential
           /\ j.control.suspend =>
                /\ r.type = "process" /\ ~HardNamed(r) /\ ~Marked(r, "shell")
                /\ j.bucket # "risky_system_critical" /\ j.intel.known
                /\ ~EssentialRow(j.intel)
                /\ j.intel.row.risk \in {"low", "medium"}
                /\ j.intel.row.stop = "yes"
  <1> DEFINE j == RunPipeline(r, l)
             k == Control(r, j.bucket, j.intel)
  <1>1. j.bucket \in Buckets /\ j.intel \in Intels
    BY Outcome DEF Items, Intels
  <1>2. j.intel.known => j.intel.row \in Entry
    BY Outcome, IntelType, RulesType, MatchType
  <1>3. /\ k \in Controls
        /\ k.policy = "blocked" => k = Essential
        /\ k.category = "essential" => k = Essential
        /\ k.suspend =>
             /\ r.type = "process" /\ ~HardNamed(r) /\ ~Marked(r, "shell")
             /\ j.bucket # "risky_system_critical" /\ j.intel.known
             /\ ~EssentialRow(j.intel)
             /\ j.intel.row.risk \in {"low", "medium"} /\ j.intel.row.stop = "yes"
    BY <1>1, <1>2, ControlVerdict
  <1>4. Essential \in Controls /\ Essential.suspend = FALSE
    BY DEF Essential, Verdict, Controls
  <1>5. /\ j.control = Essential \/ j.control = k
        /\ j.protected /\ r.type \in ControlTypes => j.control = Essential
    BY Outcome
  <1> QED
    BY <1>3, <1>4, <1>5

\* What the preview would allow is suspendable and not blocked.
LEMMA AllowedItem ==
    ASSUME NEW r \in Raws, NEW l \in Lists, NEW c \in BOOLEAN,
           WouldAllow(r, RunPipeline(r, l), c)
    PROVE  LET j == RunPipeline(r, l) IN
           /\ ~Locked(j) /\ j.control.category # "unknown"
           /\ j.control.suspend /\ r.type = "process"
  <1>1. Essential.suspend = FALSE
    BY DEF Essential, Verdict
  <1> QED
    BY <1>1, OutcomeControl DEF WouldAllow, Locked, ControlTypes

\* A file that is protected is protected by its bucket.
LEMMA FileItem ==
    ASSUME NEW r \in Raws, NEW l \in Lists, r.type = "file_or_folder"
    PROVE  LET j == RunPipeline(r, l) IN
           /\ j.bucket = RulesBucket(r, l) /\ ~j.intel.protect
           /\ j.protected <=> j.bucket = "risky_system_critical"
           /\ j.cleanup <=> j.bucket \in {"safe_to_remove", "probably_safe"}
  <1>1. r.type \notin ControlTypes
    BY DEF ControlTypes
  <1>2. /\ RunPipeline(r, l).bucket = RulesBucket(r, l)
        /\ ~RunPipeline(r, l).intel.protect
    BY <1>1, Outcome, RulesType, IntelTightens, IntelType
  <1> QED
    BY <1>2, Outcome DEF Guarded

-----------------------------------------------------------------------------
(* The invariant. *)

\* What the stages up to at have made of the item.
Result(at, r, l) ==
    CASE at = "normalized" -> Normalized(r) [] at = "ruled" -> Ruled(r, l)
      [] at = "informed" -> Informed(r, l) [] at = "controlled" -> Controlled(r, l)
      [] at = "gated" -> RunPipeline(r, l)

ScanInv ==
    scan = Idle \/ /\ scan \in [at : Stages, lists : Lists, item : Items]
                   /\ scan.item = Result(scan.at, raw, scan.lists)
StoredInv ==
    stored = None \/ /\ stored \in [canonical : BOOLEAN, lists : Lists, item : Items]
                     /\ stored.canonical => stored.item = RunPipeline(raw, stored.lists)
IInv == /\ raw \in Raws /\ lists \in Lists /\ suspended \in BOOLEAN
        /\ ScanInv /\ StoredInv

\* Every stage result is an item.
LEMMA ResultType ==
    ASSUME NEW at \in Stages, NEW r \in Raws, NEW l \in Lists
    PROVE  Result(at, r, l) \in Items
  BY NormalizedItem, RuledItem, InformedItem, ControlledItem, Outcome
     DEF Result, Stages

LEMMA InitInv == Init => IInv
  <1> SUFFICES ASSUME Init PROVE IInv
    OBVIOUS
  <1>1. raw \in Raws /\ lists \in Lists /\ suspended \in BOOLEAN /\ scan = Idle
    BY PipelineAssumption DEF Init
  <1>2. CASE stored = None
    BY <1>1, <1>2 DEF IInv, ScanInv, StoredInv
  <1>3. CASE stored = [canonical |-> FALSE, lists |-> lists, item |-> Normalized(raw)]
    <2>1. Normalized(raw) \in Items
      BY <1>1, NormalizedItem
    <2> QED
      BY <1>1, <1>3, <2>1 DEF IInv, ScanInv, StoredInv
  <1> QED
    BY <1>2, <1>3 DEF Init

\* A stage that computes the next result from the last one keeps ScanInv.
LEMMA AdvanceInv ==
    ASSUME IInv, NEW from \in Stages, NEW to \in Stages, NEW item,
           Advance(from, to, item),
           scan.item = Result(from, raw, scan.lists) => item = Result(to, raw, scan.lists)
    PROVE  IInv' /\ scan.item = Result(from, raw, scan.lists) /\ scan' # Idle
           /\ scan'.item = Result(to, raw, scan.lists)
  <1>1. scan # Idle
    BY DEF Advance, Idle, Stages
  <1>2. /\ scan \in [at : Stages, lists : Lists, item : Items]
        /\ scan.item = Result(from, raw, scan.lists)
    BY <1>1 DEF IInv, ScanInv, Advance
  <1>3. /\ raw' = raw /\ lists' = lists /\ suspended' = suspended /\ stored' = stored
        /\ scan' = [scan EXCEPT !.at = to, !.item = item]
    BY DEF Advance
  <1>4. item = Result(to, raw, scan.lists) /\ item \in Items
    BY <1>2, ResultType DEF IInv
  <1>5. /\ scan' \in [at : Stages, lists : Lists, item : Items]
        /\ scan'.at = to /\ scan'.item = item /\ scan'.lists = scan.lists
    BY <1>2, <1>3, <1>4
  <1>6. scan' # Idle
    BY <1>5 DEF Idle, Stages
  <1>7. StoredInv'
    BY <1>3 DEF IInv, StoredInv
  <1>8. ScanInv'
    BY <1>3, <1>4, <1>5 DEF ScanInv
  <1> QED
    BY <1>2, <1>3, <1>4, <1>5, <1>6, <1>7, <1>8 DEF IInv

\* The four stages are the steps of RunPipeline.
LEMMA StagesCompute ==
    ASSUME NEW r, NEW l
    PROVE  /\ Result("ruled", r, l) = ApplyRules(r, l, Result("normalized", r, l))
           /\ Result("informed", r, l) = ApplyIntel(r, Result("ruled", r, l))
           /\ Result("controlled", r, l) = ApplyControl(r, Result("informed", r, l))
           /\ Result("gated", r, l) = Gate(r, Result("controlled", r, l))
  BY DEF Result, Ruled, Informed, Controlled, RunPipeline

LEMMA NextInv == IInv /\ [Next]_vars => IInv'
  <1> SUFFICES ASSUME IInv, [Next]_vars PROVE IInv'
    OBVIOUS
  <1>1. CASE ScanBegin
    <2>1. Normalized(raw) \in Items
      BY NormalizedItem DEF IInv
    <2>2. /\ scan' \in [at : Stages, lists : Lists, item : Items]
          /\ scan'.at = "normalized" /\ scan'.item = Normalized(raw)
      BY <1>1, <2>1 DEF ScanBegin, Stages, IInv
    <2> QED
      BY <1>1, <2>2 DEF ScanBegin, IInv, ScanInv, StoredInv, Result
  <1>2. CASE RulesStage
    BY <1>2, AdvanceInv, StagesCompute DEF RulesStage, Stages
  <1>3. CASE IntelligenceStage
    BY <1>3, AdvanceInv, StagesCompute DEF IntelligenceStage, Stages
  <1>4. CASE ControlStage
    BY <1>4, AdvanceInv, StagesCompute DEF ControlStage, Stages
  <1>5. CASE GatingStage
    BY <1>5, AdvanceInv, StagesCompute DEF GatingStage, Stages
  <1>6. CASE Persist
    <2>1. scan # Idle
      BY <1>6 DEF Persist, Idle
    <2>2. /\ scan \in [at : Stages, lists : Lists, item : Items]
          /\ scan.item = RunPipeline(raw, scan.lists)
      BY <1>6, <2>1 DEF Persist, IInv, ScanInv, Result
    <2>3. StoredInv'
      BY <1>6, <2>2 DEF Persist, StoredInv
    <2> QED
      BY <1>6, <2>3 DEF Persist, IInv, ScanInv
  <1>7. CASE ScanFails
    BY <1>7 DEF ScanFails, IInv, ScanInv, StoredInv
  <1>8. CASE Stop
    BY <1>8 DEF Stop, IInv, ScanInv, StoredInv
  <1>9. ASSUME NEW l \in Lists, ListsChange(l) PROVE IInv'
    BY <1>9 DEF ListsChange, IInv, ScanInv, StoredInv
  <1>10. ASSUME NEW targets \in SUBSET {raw.name}, Start(targets) PROVE IInv'
    <2>1. SuspendAllowed(raw.name, targets) \in BOOLEAN
      BY DEF SuspendAllowed
    <2> QED
      BY <1>10, <2>1 DEF Start, IInv, ScanInv, StoredInv
  <1>11. CASE UNCHANGED vars
    BY <1>11 DEF vars, IInv, ScanInv, StoredInv
  <1> QED
    BY <1>1, <1>2, <1>3, <1>4, <1>5, <1>6, <1>7, <1>8, <1>9, <1>10, <1>11 DEF Next

LEMMA SpecInv == Spec => []IInv
  BY InitInv, NextInv, PTL DEF Spec

\* What a reader loads is what the pipeline makes of the item, under the lists
\* of the scan or, for a legacy row, those of now.
LEMMA LoadedIs ==
    ASSUME IInv, stored # None
    PROVE  /\ raw \in Raws /\ LoadedLists \in Lists
           /\ Loaded = RunPipeline(raw, LoadedLists)
  BY DEF IInv, StoredInv, Loaded, LoadedLists

-----------------------------------------------------------------------------
(* The theorems. *)

\* Every state the pipeline, the store and the sessions reach is typed.
THEOREM TypeCorrect == Spec => []TypeOK
  <1>1. IInv => TypeOK
    BY DEF IInv, ScanInv, StoredInv, TypeOK
  <1> QED
    BY <1>1, SpecInv, PTL

\* What the chat declares locked or unidentified nobody offers, selects, takes
\* or flags, whatever the registry and the intelligence database say.
THEOREM LockedHolds == Spec => []LockedOffersNothing
  <1>1. ASSUME IInv PROVE LockedOffersNothing
    <2> SUFFICES ASSUME stored # None, NEW c \in BOOLEAN, NEW a \in BOOLEAN
                 PROVE  /\ (\E t \in Intents : ChatWithholds(raw, Loaded, t)) =>
                              /\ ~WouldAllow(raw, Loaded, c)
                              /\ \A t \in Intents : ~ChatOffers(raw, Loaded, t, c)
                        /\ Loaded.protected => /\ ~DefaultSelected(raw, Loaded, a)
                                               /\ ~Taken(raw, Loaded, c, a)
                                               /\ ~Loaded.performance
      BY DEF LockedOffersNothing
    <2> DEFINE i == Loaded
    <2>1. raw \in Raws /\ LoadedLists \in Lists /\ i = RunPipeline(raw, LoadedLists)
      BY <1>1, LoadedIs
    <2>2. ASSUME NEW t \in Intents, ChatWithholds(raw, i, t) PROVE ~WouldAllow(raw, i, c)
      BY <2>1, <2>2, AllowedItem DEF ChatWithholds
    <2>3. ASSUME i.protected
          PROVE  ~DefaultSelected(raw, i, a) /\ ~Taken(raw, i, c, a) /\ ~i.performance
      <3>1. ~DefaultSelected(raw, i, a)
        BY <2>3 DEF DefaultSelected, CanSelect
      <3>2. ~i.performance
        BY <2>1, <2>3, Outcome
      <3>3. ~Taken(raw, i, c, a)
        <4>1. CASE raw.type # "file_or_folder"
          BY <4>1 DEF Taken, ExecuteSkips, CleanupFacts
        <4>2. CASE raw.type = "file_or_folder"
          <5>1. i.bucket = "risky_system_critical"
            BY <2>1, <2>3, <4>2, FileItem
          <5> QED
            BY <5>1 DEF Taken, ExecuteSkips, CleanupFacts, Protected
        <4> QED BY <4>1, <4>2
      <3> QED BY <3>1, <3>2, <3>3
    <2> QED
      BY <2>2, <2>3 DEF ChatOffers
  <1> QED
    BY <1>1, SpecInv, PTL

\* An offer to suspend rests on a name nobody protects and on a row that clears
\* the process, and performance mode takes it.
THEOREM OfferHolds == Spec => []OfferKept
  <1>1. ASSUME IInv PROVE OfferKept
    <2> SUFFICES ASSUME stored # None, NEW c \in BOOLEAN, NEW t \in Intents,
                        WouldAllow(raw, Loaded, c) \/ ChatOffers(raw, Loaded, t, c)
                 PROVE  /\ SuspendAllowed(raw.name, {raw.name}) /\ ~HardNamed(raw)
                        /\ ~Marked(raw, "shell")
                        /\ Loaded.bucket # "risky_system_critical"
                        /\ Loaded.intel.known /\ ~EssentialRow(Loaded.intel)
                        /\ Loaded.intel.row.risk \in {"low", "medium"}
                        /\ Loaded.intel.row.stop = "yes"
      BY DEF OfferKept
    <2>1. raw \in Raws /\ LoadedLists \in Lists
          /\ Loaded = RunPipeline(raw, LoadedLists)
      BY <1>1, LoadedIs
    <2>2. Loaded.control.suspend
      BY DEF WouldAllow, ChatOffers
    <2>3. /\ ~HardNamed(raw) /\ ~Marked(raw, "shell")
          /\ Loaded.bucket # "risky_system_critical"
          /\ Loaded.intel.known /\ ~EssentialRow(Loaded.intel)
          /\ Loaded.intel.row.risk \in {"low", "medium"}
          /\ Loaded.intel.row.stop = "yes"
      BY <2>1, <2>2, OutcomeControl
    <2>4. SuspendAllowed(raw.name, {raw.name})
      BY <2>3 DEF SuspendAllowed, HardNamed
    <2> QED
      BY <2>3, <2>4
  <1> QED
    BY <1>1, SpecInv, PTL

\* The selection by default, the preview and the execution agree.
THEOREM SelectionHolds == Spec => []SelectedIsTaken
  <1>1. ASSUME IInv PROVE SelectedIsTaken
    <2> SUFFICES ASSUME stored # None, NEW a \in BOOLEAN, NEW b \in BOOLEAN,
                        DefaultSelected(raw, Loaded, a)
                 PROVE  /\ PreviewStatus(CleanupFacts(raw, Loaded), FALSE, b) # "blocked"
                        /\ raw.path # "none" => Taken(raw, Loaded, FALSE, b)
      BY DEF SelectedIsTaken
    <2> DEFINE f == CleanupFacts(raw, Loaded)
    <2>1. raw \in Raws /\ LoadedLists \in Lists
          /\ Loaded = RunPipeline(raw, LoadedLists)
      BY <1>1, LoadedIs
    <2>2. raw.type = "file_or_folder" /\ Loaded.bucket = "safe_to_remove"
      BY DEF DefaultSelected, CanSelect
    <2>3. ~Loaded.intel.protect /\ RulesBucket(raw, LoadedLists) = "safe_to_remove"
      BY <2>1, <2>2, FileItem
    <2>4. raw.path # "critical"
      BY <2>2, <2>3 DEF RulesBucket, SystemCritical
    <2>5. f.type = "file_or_folder" /\ f.bucket = "safe_to_remove"
          /\ ~f.rulesProtect /\ f.path = raw.path
      BY <2>2, <2>3 DEF CleanupFacts
    <2> HIDE DEF f
    <2>6. CleanupEligible(f) /\ ~Protected(f) /\ BucketAdmitted(f, FALSE)
      BY <2>5 DEF CleanupEligible, Protected, BucketAdmitted
    <2>7. PreviewStatus(f, FALSE, b) # "blocked"
      BY <2>4, <2>5, <2>6 DEF PreviewStatus
    <2>8. raw.path # "none" => ~ExecuteSkips(f, FALSE, b)
      BY <2>4, <2>5, <2>6 DEF ExecuteSkips
    <2> QED
      BY <2>7, <2>8 DEF Taken, f
  <1> QED
    BY <1>1, SpecInv, PTL

\* The user's lists bind the cleanup, whatever the rest of the pipeline says.
THEOREM ListsHold == Spec => []ListsReachCleanup
  <1>1. ASSUME IInv PROVE ListsReachCleanup
    <2> SUFFICES ASSUME stored # None, NEW c \in BOOLEAN, NEW a \in BOOLEAN
                 PROVE  /\ LoadedLists.allow /\ Taken(raw, Loaded, c, a) => c /\ a
                        /\ LoadedLists.block => /\ ~Taken(raw, Loaded, c, a)
                                                /\ ~WouldAllow(raw, Loaded, c)
      BY DEF ListsReachCleanup
    <2>1. raw \in Raws /\ LoadedLists \in Lists
          /\ Loaded = RunPipeline(raw, LoadedLists)
      BY <1>1, LoadedIs
    <2>2. ASSUME Taken(raw, Loaded, c, a)
          PROVE  raw.type = "file_or_folder" /\ Loaded.bucket = RulesBucket(raw, LoadedLists)
      <3>1. raw.type = "file_or_folder"
        BY <2>2 DEF Taken, ExecuteSkips, CleanupFacts
      <3> QED
        BY <2>1, <3>1, FileItem
    <2>3. ASSUME LoadedLists.allow, Taken(raw, Loaded, c, a) PROVE c /\ a
      <3>1. Loaded.bucket \in {"risky_system_critical", "ask_user"}
        BY <2>2, <2>3 DEF RulesBucket
      <3> QED
        BY <2>3, <3>1 DEF Taken, ExecuteSkips, CleanupFacts, Protected
    <2>4. ASSUME LoadedLists.block
          PROVE  ~Taken(raw, Loaded, c, a) /\ ~WouldAllow(raw, Loaded, c)
      <3>1. RulesBucket(raw, LoadedLists) = "risky_system_critical"
        BY <2>4 DEF RulesBucket
      <3>2. Loaded.bucket = "risky_system_critical"
        BY <2>1, <3>1, Outcome, RulesType, IntelTightens
      <3>3. ~Taken(raw, Loaded, c, a)
        BY <3>2 DEF Taken, ExecuteSkips, CleanupFacts, Protected
      <3>4. ~WouldAllow(raw, Loaded, c)
        BY <2>1, <3>2, OutcomeControl DEF WouldAllow
      <3> QED BY <3>3, <3>4
    <2> QED
      BY <2>3, <2>4
  <1> QED
    BY <1>1, SpecInv, PTL

\* The cleanup's model of an item is what the pipeline makes of one.
THEOREM FactsHold == Spec => []FactsAgree
  <1>1. ASSUME IInv PROVE FactsAgree
    <2> SUFFICES ASSUME stored # None, raw.type = "file_or_folder", stored.canonical
                 PROVE  LET f == CleanupFacts(raw, stored.item) IN
                        /\ f \in Facts /\ stored.item.protected = Protected(f)
                        /\ stored.item.cleanup = CleanupEligible(f)
      BY DEF FactsAgree
    <2> DEFINE i == stored.item
    <2>1. raw \in Raws /\ LoadedLists \in Lists /\ i = RunPipeline(raw, LoadedLists)
      BY <1>1, LoadedIs DEF Loaded
    <2>2. /\ i \in Items /\ ~i.intel.protect
          /\ i.protected <=> i.bucket = "risky_system_critical"
          /\ i.cleanup <=> i.bucket \in {"safe_to_remove", "probably_safe"}
      BY <2>1, FileItem, Outcome
    <2>3. i.bucket \in Buckets /\ i.intel.protect = FALSE
          /\ i.protected \in BOOLEAN /\ i.cleanup \in BOOLEAN
      BY <2>2 DEF Items
    <2> DEFINE f == CleanupFacts(raw, i)
    <2>4. /\ f.type = "file_or_folder" /\ f.bucket = i.bucket /\ f.rulesProtect = FALSE
          /\ f \in Facts
      BY <2>1, <2>3 DEF CleanupFacts, Facts, Raws
    <2> HIDE DEF i, f
    <2>5. Protected(f) <=> i.protected
      BY <2>2, <2>4 DEF Protected
    <2>6. CleanupEligible(f) <=> i.cleanup
      BY <2>2, <2>4 DEF Protected, CleanupEligible
    <2> QED
      BY <2>3, <2>4, <2>5, <2>6 DEF i, f, Protected, CleanupEligible
  <1> QED
    BY <1>1, SpecInv, PTL

\* What a step between two stages may not do to the item.
Tighter(i, j) ==
    /\ i.bucket = "risky_system_critical" => j.bucket = i.bucket
    /\ j.bucket \in {"safe_to_remove", "probably_safe"} => i.bucket = j.bucket
    /\ i.protected => j.protected
    /\ i.control.policy = "blocked" => j.control = i.control

\* Each stage after the rules tightens: intelligence by its order of caution,
\* process control because nothing is blocked before it, gating because what
\* it blocks replaces a verdict that is blocked already, if any is.
LEMMA StagesTighten ==
    ASSUME NEW r \in Raws, NEW l \in Lists
    PROVE  /\ Tighter(Ruled(r, l), Informed(r, l))
           /\ Tighter(Informed(r, l), Controlled(r, l))
           /\ Tighter(Controlled(r, l), RunPipeline(r, l))
  <1>1. Tighter(Ruled(r, l), Informed(r, l))
    <2>1. IntelBucket(r, Ruled(r, l).bucket) = Informed(r, l).bucket
          /\ Informed(r, l).protected = Ruled(r, l).protected
      BY RuledItem, IntelItem DEF Informed
    <2>2. Ruled(r, l).bucket \in Buckets /\ Ruled(r, l).control.policy = "report_only"
      BY RuledItem, RulesType
    <2> QED
      BY <2>1, <2>2, IntelTightens DEF Tighter
  <1>2. Tighter(Informed(r, l), Controlled(r, l))
    BY InformedItem, ControlItem DEF Tighter, Controlled
  <1>3. Tighter(Controlled(r, l), RunPipeline(r, l))
    <2> DEFINE i == Controlled(r, l)
               j == RunPipeline(r, l)
    <2>1. /\ j.bucket = i.bucket /\ j.intel = i.intel
          /\ j.protected <=> Guarded(r, i.bucket, i.intel)
          /\ j.control = Essential \/ j.control = i.control
      BY ControlledItem, GateItem DEF RunPipeline
    <2>2. i.protected => j.protected
      BY <2>1, ControlledItem DEF Guarded
    <2>3. i.control.policy = "blocked" => i.control = Essential
      <3>1. i.bucket \in Buckets /\ i.intel \in Intels
        BY ControlledItem DEF Items, Intels
      <3>2. i.intel.known => i.intel.row \in Entry
        BY ControlledItem, IntelType, RulesType, MatchType
      <3>3. i.control = Control(r, i.bucket, i.intel)
        BY ControlledItem
      <3> QED
        BY <3>1, <3>2, <3>3, ControlVerdict
    <2> QED
      BY <2>1, <2>2, <2>3 DEF Tighter
  <1> QED
    BY <1>1, <1>2, <1>3

\* No step of a scan loosens what an earlier stage decided.
THEOREM NeverFreedHolds == Spec => NeverFreed
  <1>1. ASSUME IInv, [Next]_vars, scan # Idle, scan' # Idle, scan.at # "normalized",
               scan' # scan
        PROVE  Tighter(scan.item, scan'.item)
    <2>0. raw \in Raws /\ scan.lists \in Lists
      BY <1>1 DEF IInv, ScanInv
    <2>1. CASE IntelligenceStage
      <3>1. /\ scan.item = Result("ruled", raw, scan.lists)
            /\ scan'.item = Result("informed", raw, scan.lists)
        BY <1>1, <2>1, AdvanceInv, StagesCompute DEF IntelligenceStage, Stages
      <3> QED
        BY <2>0, <3>1, StagesTighten DEF Result
    <2>2. CASE ControlStage
      <3>1. /\ scan.item = Result("informed", raw, scan.lists)
            /\ scan'.item = Result("controlled", raw, scan.lists)
        BY <1>1, <2>2, AdvanceInv, StagesCompute DEF ControlStage, Stages
      <3> QED
        BY <2>0, <3>1, StagesTighten DEF Result
    <2>3. CASE GatingStage
      <3>1. /\ scan.item = Result("controlled", raw, scan.lists)
            /\ scan'.item = Result("gated", raw, scan.lists)
        BY <1>1, <2>3, AdvanceInv, StagesCompute DEF GatingStage, Stages
      <3> QED
        BY <2>0, <3>1, StagesTighten DEF Result
    <2> QED
      BY <1>1, <2>1, <2>2, <2>3 DEF Next, vars, ScanBegin, RulesStage, Advance,
         Persist, ScanFails, Stop, ListsChange, Start
  <1>2. IInv /\ [Next]_vars =>
          [scan # Idle /\ scan' # Idle /\ scan.at # "normalized" =>
             LET i == scan.item  j == scan'.item IN
             /\ i.bucket = "risky_system_critical" => j.bucket = i.bucket
             /\ j.bucket \in {"safe_to_remove", "probably_safe"} => i.bucket = j.bucket
             /\ i.protected => j.protected
             /\ i.control.policy = "blocked" => j.control = i.control]_vars
    BY <1>1 DEF Tighter
  <1> QED
    BY <1>2, SpecInv, PTL DEF Spec, NeverFreed
=============================================================================
