------------------------------- MODULE Pipeline -------------------------------
(***************************************************************************)
(* The reasoning pipeline for one scanned item (rules, intelligence, ML,   *)
(* process control, gating), what is stored of it, and what the consumers  *)
(* of the latest scan do with it: preview of ending a process, chat,       *)
(* default selection, cleanup and performance mode.  A name stands for     *)
(* what the registry and the keyword lists say of it (Marks), a row of the *)
(* intelligence database for what decides (Entry).  Scores, reasons and    *)
(* provenance are left out.                                                *)
(***************************************************************************)
EXTENDS CleanupPolicy, Naturals

CONSTANTS
    Name,    \* names of processes, services, start-up entries, tasks, files
    Marks,   \* what the name lists of the code say of each name
    Entry,   \* the rows of the intelligence database
    Raw,     \* the items a scanner may report
    None

ControlTypes == {"process", "service", "startup_entry", "scheduled_task"}
Types == ControlTypes \cup
    {"file_or_folder", "duplicate_group", "browser_profile", "orphan_app"}

\* guarded: _CRITICAL_INTEL_CATEGORIES; essential: the others whose loss
\* _ESSENTIAL_INTEL_CATEGORIES forbids.
Entries == [risk : {"low", "medium", "high", "critical"},
            category : {"guarded", "essential", "other"},
            stop : {"yes", "no", "unsaid"}, gaming : BOOLEAN, sure : BOOLEAN]

\* aliases: the display name and the file name of the path.  hit: the row with
\* one of its keys; near: the row with the closest key, if close enough.
Raws == [type : Types, name : Name, aliases : SUBSET Name,
         path : {"none", "user", "critical"},
         hint : {"temp_cache", "installer_residual", "low", "startmenu", "other"},
         locked : BOOLEAN, hit : Entry \cup {None}, near : Entry \cup {None}]

\* Does a pattern of the user's lists match the item?
Lists == [allow : BOOLEAN, block : BOOLEAN]

ASSUME PipelineAssumption ==
    /\ Marks \in [Name -> SUBSET {"hard", "shell", "soft", "critical_service",
           "core_service", "os_task", "guarded_task", "known_startup"}]
    /\ Entry \subseteq Entries /\ Raw \subseteq Raws
    /\ None \notin Entries \cup {"risky_system_critical", "ask_user"}

Marked(r, mark) == mark \in Marks[r.name]

-----------------------------------------------------------------------------
(* Rules: classify_item. *)

\* Mutant: only names are held against the rules, not the path.
NamesOnly(r) ==
    \/ r.type = "process" /\ Marked(r, "hard")
    \/ r.type = "service" /\ Marked(r, "critical_service")

SystemCritical(r) ==
    \/ r.type = "process" /\ Marked(r, "hard")
    \/ r.type = "service" /\ Marked(r, "critical_service")
    \/ r.type = "file_or_folder" /\ r.path = "critical"

\* Mutant: the scanner's hint is taken for a bucket.
HintAsBucket(r) == IF r.locked THEN "ask_user" ELSE r.hint

FileBucket(r) ==
    IF r.hint = "temp_cache" THEN IF r.locked THEN "ask_user" ELSE "safe_to_remove"
    ELSE IF r.hint = "installer_residual" THEN "probably_safe" ELSE "unknown"

TypeBucket(r) ==
    CASE r.type = "file_or_folder" -> FileBucket(r)
      [] r.type = "duplicate_group" -> "probably_safe"
      [] r.type \in {"browser_profile", "orphan_app"} -> "ask_user"
      [] r.type = "startup_entry" ->
           IF Marked(r, "known_startup") THEN "ask_user" ELSE "unknown"
      [] r.type = "scheduled_task" ->
           IF Marked(r, "os_task") THEN "risky_system_critical" ELSE "unknown"
      [] r.type \in {"process", "service"} -> "unknown"

\* Mutant: the allowlist is consulted after the rules by type.
AllowLast(r, l) ==
    IF l.block \/ SystemCritical(r) THEN "risky_system_critical"
    ELSE IF l.allow /\ TypeBucket(r) = "unknown" THEN "ask_user" ELSE TypeBucket(r)

RulesBucket(r, l) ==
    IF l.block \/ SystemCritical(r) THEN "risky_system_critical"
    ELSE IF l.allow THEN "ask_user" ELSE TypeBucket(r)

-----------------------------------------------------------------------------
(* Intelligence: lookup_intelligence_row and apply_intelligence. *)

\* A near match counts only for a row of low risk that is sure of itself.
Match(r) ==
    IF r.type \notin ControlTypes THEN None
    ELSE IF r.hit # None THEN r.hit
    ELSE IF r.near # None /\ r.near.risk = "low" /\ r.near.sure THEN r.near ELSE None

Caution == [b \in Buckets |->
    CASE b = "safe_to_remove" -> 0 [] b = "probably_safe" -> 1 [] b = "ask_user" -> 2
      [] b = "unknown" -> 3 [] b = "risky_system_critical" -> 4]

\* _elevate_from_entry: the bucket the row demands.
Demand(e) ==
    IF e.category = "guarded" /\ e.risk \in {"high", "critical"}
    THEN "risky_system_critical"
    ELSE IF e.risk = "critical" THEN "ask_user" ELSE None

\* Mutant: the demand of the row replaces the verdict of the rules.
DemandWins(r, b) ==
    LET e == Match(r) IN
    IF e = None THEN b ELSE IF Demand(e) # None THEN Demand(e)
    ELSE IF r.hit # None THEN "ask_user" ELSE b

\* The bucket after intelligence, b being the rules' verdict.
IntelBucket(r, b) ==
    LET e == Match(r)
        raised == IF Demand(e) # None /\ Caution[Demand(e)] > Caution[b]
                  THEN Demand(e) ELSE b
        clear == IF r.hit # None /\ raised = "unknown" THEN "ask_user" ELSE raised
    IN  IF b = "risky_system_critical" \/ e = None THEN b
        ELSE IF clear \in {"safe_to_remove", "probably_safe"} THEN b ELSE clear

\* The snapshot: a row of the database, or a stub that either knows nothing or
\* protects what the rules found critical.
Intel(r, b) ==
    [known |-> Match(r) # None, row |-> Match(r),
     protect |-> r.type \in ControlTypes /\ Match(r) = None
                 /\ b = "risky_system_critical"]

-----------------------------------------------------------------------------
(* Process control: classify_process_control. *)

Verdict(category, policy, suspend) ==
    [category |-> category, policy |-> policy, suspend |-> suspend]
Essential == Verdict("essential", "blocked", FALSE)
Report(category) == Verdict(category, "report_only", FALSE)
\* What the validator of ScanItem gives an item before the classifier runs.
Unclassified(r) == Report(IF r.type \in ControlTypes THEN "unknown" ELSE "not_applicable")

HardNamed(r) == \E n \in {r.name} \cup r.aliases : "hard" \in Marks[n]
EssentialRow(intel) ==
    intel.known /\ (intel.row.category # "other" \/ intel.row.risk = "critical")

\* A process none of the blocking tests stopped and intelligence knows.
KnownProcess(e) ==
    LET kind(plain) == IF e.gaming THEN "gaming_fps_impact" ELSE plain
    IN  IF e.risk = "high" THEN Report("important")
        ELSE IF e.stop = "no"
             THEN Verdict(kind("important"), "explicit_selection_required", FALSE)
        ELSE IF e.stop = "yes"
             THEN Verdict(kind("non_essential"),
                          IF e.gaming /\ e.risk = "medium"
                          THEN "explicit_selection_required" ELSE "preview_required",
                          TRUE)
        ELSE Report("unknown")

Critical(b, intel) == b = "risky_system_critical" \/ EssentialRow(intel)

ClassifyProcess(r, b, intel) ==
    IF HardNamed(r) \/ Critical(b, intel) \/ intel.protect THEN Essential
    ELSE IF Marked(r, "shell")
         THEN Verdict("important", "explicit_selection_required", FALSE)
    ELSE IF intel.known THEN KnownProcess(intel.row) ELSE Report("unknown")

ClassifyService(r, b, intel) ==
    IF Marked(r, "core_service") \/ Critical(b, intel) THEN Essential
    ELSE Report(IF intel.known THEN "important" ELSE "unknown")

ClassifyStartupEntry(r, b, intel) ==
    IF HardNamed(r) \/ Critical(b, intel) THEN Essential
    ELSE Report(IF intel.known /\ intel.row.risk = "low"
                THEN "non_essential" ELSE "unknown")

ClassifyScheduledTask(r, b, intel) ==
    IF Marked(r, "guarded_task") \/ Critical(b, intel) THEN Essential
    ELSE Report(IF intel.known THEN "important" ELSE "unknown")

\* Mutant: only the raw name is held against the registry and the bucket is not
\* looked at, nor are essential rows.
TrustsRow(r, b, intel) ==
    IF r.type # "process" THEN Unclassified(r)
    ELSE IF Marked(r, "hard") THEN Essential
    ELSE IF intel.known THEN KnownProcess(intel.row) ELSE Report("unknown")

Control(r, b, intel) ==
    CASE r.type = "process" -> ClassifyProcess(r, b, intel)
      [] r.type = "service" -> ClassifyService(r, b, intel)
      [] r.type = "startup_entry" -> ClassifyStartupEntry(r, b, intel)
      [] r.type = "scheduled_task" -> ClassifyScheduledTask(r, b, intel)
      [] OTHER -> Verdict("not_applicable", "unsupported", FALSE)

-----------------------------------------------------------------------------
(* Gating: apply_action_gating over the name policy of performance mode. *)

\* suspend_allowed_by_policy
SuspendAllowed(n, targets) ==
    /\ "hard" \notin Marks[n]
    /\ IF targets # {} \/ "shell" \in Marks[n] THEN n \in targets
       ELSE "soft" \in Marks[n]

Guarded(r, b, intel) ==
    \/ b = "risky_system_critical"
    \/ r.type = "process" /\ Marked(r, "hard")
    \/ r.type = "service" /\ Marked(r, "core_service")
    \/ intel.protect

\* Mutant: what the user is to be asked about is eligible too.
LooseGate(r, i) ==
    [i EXCEPT !.protected = Guarded(r, i.bucket, i.intel),
              !.cleanup = r.type = "file_or_folder" /\ ~Guarded(r, i.bucket, i.intel)
                          /\ i.bucket # "unknown"]

Gate(r, i) ==
    LET protected == Guarded(r, i.bucket, i.intel) IN
    [i EXCEPT
        !.protected = protected,
        !.cleanup = /\ r.type = "file_or_folder" /\ ~protected
                    /\ i.bucket \in {"safe_to_remove", "probably_safe"},
        !.performance = /\ r.type = "process" /\ ~protected
                        /\ SuspendAllowed(r.name, {}),
        !.control = IF protected /\ r.type \in ControlTypes THEN Essential ELSE @]

-----------------------------------------------------------------------------
(* One item through the stages, and the row of it that is kept. *)

NoIntel == [known |-> FALSE, row |-> None, protect |-> FALSE]
Normalized(r) ==
    [bucket |-> "unknown", intel |-> NoIntel, control |-> Unclassified(r),
     protected |-> FALSE, cleanup |-> FALSE, performance |-> FALSE]
ApplyRules(r, l, i) ==
    [i EXCEPT !.bucket = RulesBucket(r, l),
              !.protected = RulesBucket(r, l) = "risky_system_critical"]
ApplyIntel(r, i) ==
    [i EXCEPT !.bucket = IntelBucket(r, i.bucket), !.intel = Intel(r, i.bucket)]
ApplyControl(r, i) == [i EXCEPT !.control = Control(r, i.bucket, i.intel)]

Ruled(r, l) == ApplyRules(r, l, Normalized(r))
Informed(r, l) == ApplyIntel(r, Ruled(r, l))
Controlled(r, l) == ApplyControl(r, Informed(r, l))
RunPipeline(r, l) == Gate(r, Controlled(r, l))

VARIABLES
    raw,        \* what the scanners report of the item
    lists,      \* what the allowlist and blocklist tables say of it now
    scan,       \* the scan in flight: stage reached, lists read, item so far
    stored,     \* the item in the latest scan of the database
    suspended   \* the process is suspended by a performance session
vars == <<raw, lists, scan, stored, suspended>>

Idle == [at |-> "idle"]
Stages == {"normalized", "ruled", "informed", "controlled", "gated"}
Items == [bucket : Buckets,
          intel : [known : BOOLEAN, row : Entry \cup {None}, protect : BOOLEAN],
          control : [category : {"essential", "important", "non_essential",
                         "gaming_fps_impact", "unknown", "not_applicable"},
                     policy : {"blocked", "report_only", "preview_required",
                         "explicit_selection_required", "unsupported"},
                     suspend : BOOLEAN],
          protected : BOOLEAN, cleanup : BOOLEAN, performance : BOOLEAN]

TypeOK ==
    /\ raw \in Raws /\ lists \in Lists /\ suspended \in BOOLEAN
    /\ scan \in {Idle} \cup [at : Stages, lists : Lists, item : Items]
    /\ stored \in {None} \cup [canonical : BOOLEAN, lists : Lists, item : Items]

\* A database without a scan, or with a row from before the canonical schema.
Init ==
    /\ raw \in Raw /\ lists \in Lists /\ scan = Idle /\ suspended = FALSE
    /\ stored \in {None} \cup
         {[canonical |-> FALSE, lists |-> lists, item |-> Normalized(raw)]}

ScanBegin ==
    /\ scan = Idle
    /\ scan' = [at |-> "normalized", lists |-> lists, item |-> Normalized(raw)]
    /\ UNCHANGED <<raw, lists, stored, suspended>>

Advance(from, to, item) ==
    /\ scan.at = from
    /\ scan' = [scan EXCEPT !.at = to, !.item = item]
    /\ UNCHANGED <<raw, lists, stored, suspended>>

RulesStage == Advance("normalized", "ruled", ApplyRules(raw, scan.lists, scan.item))
IntelligenceStage == Advance("ruled", "informed", ApplyIntel(raw, scan.item))
ControlStage == Advance("informed", "controlled", ApplyControl(raw, scan.item))
GatingStage == Advance("controlled", "gated", Gate(raw, scan.item))

Persist ==
    /\ scan.at = "gated"
    /\ stored' = [canonical |-> TRUE, lists |-> scan.lists, item |-> scan.item]
    /\ scan' = Idle
    /\ UNCHANGED <<raw, lists, suspended>>

\* Another item, the disk or the database fails the scan.
ScanFails ==
    /\ scan # Idle /\ scan' = Idle
    /\ UNCHANGED <<raw, lists, stored, suspended>>

\* The tables are edited; nothing in the program writes them.
ListsChange(l) ==
    /\ lists' = l /\ UNCHANGED <<raw, scan, stored, suspended>>

\* scan_item_from_stored_payload: a canonical row as it was stored, a legacy
\* row through the pipeline again with the lists of now.
Loaded == IF stored.canonical THEN stored.item ELSE RunPipeline(raw, lists)
LoadedLists == IF stored.canonical THEN stored.lists ELSE lists

\* Performance mode goes by the name alone.
Start(targets) ==
    /\ raw.type = "process" /\ ~suspended
    /\ suspended' = SuspendAllowed(raw.name, targets)
    /\ UNCHANGED <<raw, lists, scan, stored>>

Stop == suspended /\ suspended' = FALSE /\ UNCHANGED <<raw, lists, scan, stored>>

Next ==
    \/ ScanBegin \/ RulesStage \/ IntelligenceStage \/ ControlStage
    \/ GatingStage \/ Persist \/ ScanFails \/ Stop
    \/ \E l \in Lists : ListsChange(l)
    \/ \E targets \in SUBSET {raw.name} : Start(targets)

Spec == Init /\ [][Next]_vars
=============================================================================
