------------------------------ MODULE ScanStore ------------------------------
(***************************************************************************)
(* The scans and scan_items tables: their migration when the backend       *)
(* starts, the scan that fills them, the retention that prunes them and    *)
(* the read of the latest scan, by clients whose handlers interleave at    *)
(* every await, with a backend that may be killed between any two          *)
(* transactions and a wall clock that may be set back.  A transaction is   *)
(* one step; what the scanners do before it is ScanCollected.              *)
(***************************************************************************)
EXTENDS Integers, Sequences, FiniteSets

CONSTANTS
    Client,      \* concurrent requests
    Item,        \* item ids
    Found,       \* what the scanners may find: how many items have each id
    Keep,        \* scans kept by retention
    Foreign,     \* the scan id of a legacy row that belongs to no scan
    NoTable, None,
    MaxScans, MaxTime, MaxCrashes     \* bounds

ASSUME StoreAssumption ==
    /\ Keep \in Nat \ {0} /\ MaxScans \in Nat /\ MaxTime \in Nat /\ MaxCrashes \in Nat
    /\ Found \subseteq [Item -> Nat] /\ Foreign \notin Nat /\ None \notin [id : Nat, at : Nat]

VARIABLES
    server,      \* how far init_db has come, or "down"
    shape,       \* the key of scan_items: "legacy", "absent" or "composite"
    scans,       \* rows of scans: id, finished_at, rowid
    rows,        \* rows of scan_items: <<scan, item>>
    parked,      \* rows of scan_items_legacy, or NoTable
    clock, inProgress,
    op,          \* what each client's request has done
    persisted,   \* history: what each committed scan had found and when, by scan id
    crashes
vars == <<server, shape, scans, rows, parked, clock, inProgress, op, persisted, crashes>>

Idle == [pc |-> "idle"]
Ids == {s.id : s \in scans}

\* ORDER BY finished_at DESC, rowid DESC
\* Mutant: ties on the second are left to the order of insertion.
OldestOfSecond(s, t) == s.at > t.at \/ (s.at = t.at /\ s.row < t.row)
Newer(s, t) == s.at > t.at \/ (s.at = t.at /\ s.row > t.row)
Newest == CHOOSE s \in scans : \A t \in scans : ~Newer(t, s)
Latest == IF scans = {} THEN None ELSE [id |-> Newest.id, at |-> Newest.at]

\* Mutant: the oldest scans are kept.
KeepOldest(s) == Cardinality({t \in scans : Newer(s, t)}) < Keep
\* Mutant: one scan fewer is kept.
KeepFewer(s) == Cardinality({t \in scans : Newer(t, s)}) < Keep - 1
Kept(s) == Cardinality({t \in scans : Newer(t, s)}) < Keep

\* assert_unique_scan_item_ids.  Mutant: a clash is let through.
AnyIds(found) == \E i \in Item : found[i] > 0
UniqueIds(found) == \A i \in Item : found[i] <= 1
ItemsOf(found) == {i \in Item : found[i] > 0}

TypeOK ==
    /\ server \in {"down", "fresh", "renamed", "recreated", "up"}
    /\ shape \in {"legacy", "absent", "composite"}
    /\ scans \subseteq [id : 0..MaxScans, at : 0..MaxTime, row : 0..MaxScans]
    /\ rows \subseteq ((0..MaxScans) \cup {Foreign}) \X Item
    /\ parked = NoTable \/ parked \subseteq {0, Foreign} \X Item
    /\ clock \in 0..MaxTime /\ inProgress \in BOOLEAN /\ crashes \in 0..MaxCrashes
    /\ op \in [Client -> {Idle} \cup [pc : {"asked", "begun"}]
                 \cup [pc : {"collected"}, found : Found]
                 \cup [pc : {"persisted", "pruned"}, id : 1..MaxScans]
                 \cup [pc : {"reading"}, id : 0..MaxScans, since : 0..MaxScans]]
    /\ persisted \in Seq([found : Found, at : 0..MaxTime]) /\ Len(persisted) <= MaxScans

\* No database yet, or one from before the composite key: scan 0 and its items,
\* and perhaps a row that belongs to no scan.
Init ==
    /\ server = "down" /\ parked = NoTable /\ clock \in 0..MaxTime
    /\ inProgress = FALSE /\ op = [c \in Client |-> Idle]
    /\ persisted = <<>> /\ crashes = 0
    /\ \/ shape = "absent" /\ scans = {} /\ rows = {}
       \/ /\ shape = "legacy" /\ scans = {[id |-> 0, at |-> clock, row |-> 0]}
          /\ \E lost \in {{}, {Foreign}} : rows = ({0} \cup lost) \X Item

-----------------------------------------------------------------------------
(* init_db *)

\* _rename_legacy_scan_items: committed before the table is created anew.
Rename ==
    /\ server = "down"
    /\ IF shape = "legacy"
       THEN server' = "renamed" /\ shape' = "absent" /\ parked' = rows /\ rows' = {}
       ELSE server' = "fresh" /\ UNCHANGED <<shape, parked, rows>>
    /\ UNCHANGED <<scans, clock, inProgress, op, persisted, crashes>>

CreateSchema ==
    /\ server \in {"fresh", "renamed"}
    /\ shape' = "composite"
    /\ server' = IF server = "renamed" THEN "recreated" ELSE "up"
    /\ UNCHANGED <<scans, rows, parked, clock, inProgress, op, persisted, crashes>>

\* _restore_legacy_scan_items: foreign keys are on, so a row of no scan fails
\* the statement, and the start with it.
Restore ==
    /\ server = "recreated"
    /\ IF \A r \in parked : r[1] \in Ids
       THEN server' = "up" /\ rows' = rows \cup parked /\ parked' = NoTable
       ELSE server' = "down" /\ UNCHANGED <<rows, parked>>
    /\ UNCHANGED <<shape, scans, clock, inProgress, op, persisted, crashes>>

\* The process is killed; what is in memory goes with it.
Crash ==
    /\ server # "down" /\ crashes < MaxCrashes
    /\ server' = "down" /\ crashes' = crashes + 1
    /\ inProgress' = FALSE /\ op' = [c \in Client |-> Idle]
    /\ UNCHANGED <<shape, scans, rows, parked, clock, persisted>>

-----------------------------------------------------------------------------
(* POST /api/scan *)

Go(c, from, to) == server = "up" /\ op[c].pc = from /\ op' = [op EXCEPT ![c] = to]

\* The first check of the flag, before the mode is awaited.
Ask(c) ==
    /\ Go(c, "idle", [pc |-> "asked"]) /\ ~inProgress
    /\ UNCHANGED <<server, shape, scans, rows, parked, clock, inProgress, persisted, crashes>>

\* run_full_scan checks again and sets the flag, or answers 409.
Begin(c) ==
    /\ Go(c, "asked", IF inProgress THEN Idle ELSE [pc |-> "begun"])
    /\ inProgress' = TRUE
    /\ UNCHANGED <<server, shape, scans, rows, parked, clock, persisted, crashes>>

\* Settings, retention, lists, scanners, pipeline.
ScanCollected(c, found) ==
    /\ Go(c, "begun", [pc |-> "collected", found |-> found])
    /\ UNCHANGED <<server, shape, scans, rows, parked, clock, inProgress, persisted, crashes>>

\* The transaction of _persist_scan.
Persist(c) ==
    /\ op[c].pc = "collected" /\ UniqueIds(op[c].found) /\ Len(persisted) < MaxScans
    /\ LET id == Len(persisted) + 1
           row == Cardinality({n \in 0..MaxScans : \E s \in scans : n <= s.row})
       IN  /\ Go(c, "collected", [pc |-> "persisted", id |-> id])
           /\ scans' = scans \cup {[id |-> id, at |-> clock, row |-> row]}
           /\ rows' = rows \cup {id} \X ItemsOf(op[c].found)
           /\ persisted' = Append(persisted, [found |-> op[c].found, at |-> clock])
    /\ UNCHANGED <<server, shape, parked, clock, inProgress, crashes>>

\* Mutant: the rows of a dropped scan lose their scan instead of going with it.
PruneSetNull(c) ==
    /\ op[c].pc = "persisted" /\ Go(c, "persisted", [op[c] EXCEPT !.pc = "pruned"])
    /\ scans' = {s \in scans : Kept(s)}
    /\ rows' = {IF \E s \in scans' : s.id = r[1] THEN r ELSE <<None, r[2]>> : r \in rows}
    /\ UNCHANGED <<server, shape, parked, clock, inProgress, persisted, crashes>>

\* prune_old_scans; the items go with their scan.
Prune(c) ==
    /\ op[c].pc = "persisted" /\ Go(c, "persisted", [op[c] EXCEPT !.pc = "pruned"])
    /\ scans' = {s \in scans : Kept(s)}
    /\ rows' = {r \in rows : \E s \in scans' : s.id = r[1]}
    /\ UNCHANGED <<server, shape, parked, clock, inProgress, persisted, crashes>>

\* The audit entry, the flag and the answer.
ScanDone(c) ==
    /\ Go(c, "pruned", Idle) /\ inProgress' = FALSE
    /\ UNCHANGED <<server, shape, scans, rows, parked, clock, persisted, crashes>>

\* Mutant: the flag is cleared on success only.
FailKeepsFlag(c) ==
    /\ \E pc \in {"begun", "collected", "persisted", "pruned"} : Go(c, pc, Idle)
    /\ UNCHANGED <<server, shape, scans, rows, parked, clock, inProgress, persisted, crashes>>

\* Any exception on the way: a clash of ids, a locked database.  What is
\* committed by then stays.
ScanFails(c) ==
    /\ \E pc \in {"begun", "collected", "persisted", "pruned"} : Go(c, pc, Idle)
    /\ inProgress' = FALSE
    /\ UNCHANGED <<server, shape, scans, rows, parked, clock, persisted, crashes>>

-----------------------------------------------------------------------------
(* latest_scan_from_db: the scan, then its items. *)

ReadScan(c) ==
    /\ scans # {}
    /\ Go(c, "idle", [pc |-> "reading", id |-> Latest.id, since |-> Len(persisted)])
    /\ UNCHANGED <<server, shape, scans, rows, parked, clock, inProgress, persisted, crashes>>

ReadItems(c) ==
    /\ Go(c, "reading", Idle)
    /\ UNCHANGED <<server, shape, scans, rows, parked, clock, inProgress, persisted, crashes>>

\* The wall clock, in seconds, goes on or is set back.
ClockSet(t) ==
    /\ t # clock /\ clock' = t
    /\ UNCHANGED <<server, shape, scans, rows, parked, inProgress, op, persisted, crashes>>

ScanStep(c) == \/ Begin(c) \/ \E f \in Found : ScanCollected(c, f)
               \/ Persist(c) \/ Prune(c) \/ ScanDone(c) \/ ScanFails(c)
Next ==
    \/ Rename \/ CreateSchema \/ Restore \/ Crash
    \/ \E c \in Client : Ask(c) \/ ScanStep(c) \/ ReadScan(c) \/ ReadItems(c)
    \/ \E t \in 0..MaxTime : ClockSet(t)

\* The event loop goes on with a scan it has begun.
Spec == Init /\ [][Next]_vars /\ \A c \in Client : WF_vars(ScanStep(c))

-----------------------------------------------------------------------------
(* Properties. *)

\* A scan in the table has the rows it found, one for each item: no crash,
\* failure or clash of ids leaves a part of a scan, and retention leaves no
\* rows of a scan it dropped.
WholeScans ==
    /\ \A s \in scans : s.id > 0 => \A i \in Item :
          Cardinality({r \in rows : r = <<s.id, i>>}) = persisted[s.id].found[i]
    /\ shape = "composite" => \A r \in rows : r[1] \in Ids

\* A read that finds its scan gone half-way was overtaken by Keep scans.
WholeRead ==
    \A c \in Client : op[c].pc = "reading" =>
        op[c].id \in Ids \/ Len(persisted) - op[c].since >= Keep

\* When a scan answers, retention has been applied and only stored scans with a
\* later time stand before it: Keep of them when it is itself no longer stored,
\* and none when readers get it, as they do unless the clock was set back.
LaterThan(id) == {s \in scans : s.at > persisted[id].at}
AnsweredIsKept ==
    \A c \in Client : op[c].pc = "pruned" =>
        /\ op[c].id \in Ids \/ Cardinality(LaterThan(op[c].id)) = Keep
        /\ op[c].id = Latest.id <=> LaterThan(op[c].id) = {}
        /\ Cardinality(scans) <= Keep

\* prune_old_scans' docstring: the scan just persisted is always inside the kept
\* window, whatever the clock does.
JustPersistedKept ==
    \A c \in Client : op[c].pc = "pruned" => op[c].id \in Ids

\* The readers' view of the tables is the register.
Register == INSTANCE LatestScan WITH latest <- Latest
LatestRegister == Register!Spec

\* A scan that fails anywhere, or a backend that dies, does not block the next.
FlagClears == inProgress ~> ~inProgress

\* Rows of a database from before the composite key survive the migration.
MigrationKeepsRows ==
    server = "up" /\ 0 \in Ids => \A i \in Item : <<0, i>> \in rows
=============================================================================
