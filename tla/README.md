# OpenCleaner in TLA+

OpenCleaner is a local PC-cleanup assistant: a FastAPI backend (`backend/app`,
one asyncio process over one SQLite file), a React front end and a Tauri shell
that starts the backend.  It scans files, processes, services, start-up entries
and tasks, explains each, and can then do two things to the machine: move files
into a quarantine it can restore from, and suspend processes for a while.  These
modules model the parts that do so, and the protocol that is to keep them from
doing it without consent.

Paths below are relative to the repository (`src/` in `PROJECT.json`);
`main.py:240` and the like mean `backend/app/...`.

## 1. The system

| component | state it keeps | operations | modelled in |
|---|---|---|---|
| Quarantine store (`actions/quarantine.py`) | `quarantine_dir/<id>/` with the file and `meta.json`; rows of `quarantine_entries` | `quarantine_path`, `restore_quarantine`, `list_quarantine` | `Quarantine` |
| Retention (`actions/quarantine_retention.py`) | one open transaction while it runs | `apply_quarantine_retention` | `Quarantine` |
| Cleanup protocol (`main.py:191-305`, `actions/cleanup*.py`, `services/scan_state.py`) | `_previews` and `_scan_in_progress`, in memory | preview, execute, `assisted_cleanup` | `CleanupSession`, `CleanupPolicy` |
| Action gating (`pipeline/action_gating.py`) | none | which items may be cleaned | `CleanupPolicy` |
| Scan orchestration and store (`services/scan_service.py`) | `scans`, `scan_items`, the scan flag | collect, persist, prune, latest | `ScanStore`, `LatestScan`; the collection in `FileScan`; the flag and the newest scan also in `CleanupSession` |
| Settings and mode (`services/settings_service.py`, `models/user_settings.py`) | rows of `settings` | load, save, reset | `CleanupSession`, `Quarantine` (the fields that are read) |
| Performance sessions (`actions/performance.py`, `main.py:427-469`) | `_SESSION`, in memory | preview, start, stop | `PerformanceSession` |
| Protected registry (`engine/protected_registry.py`) | constants | `suspend_allowed_by_policy` | `PerformanceSession`, `Pipeline` |
| Database and migration (`db.py`, `sql/schema.sql`) | the SQLite file | `init_db`, `append_audit` | `init_db`: `ScanStore`; audit: `CleanupSession` |
| Reasoning pipeline (`pipeline/`, `engine/`, `services/intelligence_service.py`) | none; it rewrites an item | rules, intelligence, process control, gating | `Pipeline` |
| Readers of the latest scan (`services/process_inventory.py`, `chat_preview.py`, `selection_policy.py`) | none | previews that change nothing | `ScanConsumers` |
| Bounded walk and the scanners built on it (`utils/fs.py`, `scanners/files.py`) | a queue and limits | `bounded_walk`, items | `FileScan` |
| Other scanners (processes, services, tasks, registry, browsers, orphans) | none | one query each | no: input (what they may report is `Raw` of `Pipeline`) |
| ML ranker, explanations, reports, audit redaction | none | scores and words | no: floating point, wording |
| Desktop shell (`frontend/src-tauri/src/main.rs`) | `SidecarChild` | spawn, exit, signal | no (see 7) |
| User interface (`frontend/src/App.tsx`) | scan, selection, preview | scan, preview, execute | no (see 7) |

**How they interact.**  The UI calls the API; a request is a coroutine of one
event loop.  `POST /api/scan` runs retention, then the scanners and the
pipeline, and persists a scan.  `POST /api/cleanup/preview` reads the newest scan
and the settings and stores a preview under a token.  `POST /api/cleanup/execute`
consumes the token, reads mode, settings and scan again, and for each item calls
`quarantine_path`.  `POST /api/quarantine/restore` moves a file back.
`POST /api/performance/start` and `/stop` share `_SESSION`.  All of them share
the SQLite file, the file system, and two dictionaries in memory.

**What is hard.**

* *Awaits.*  Everything between two awaits is atomic for the other handlers, and
  nothing across an await is: a value read before it may be stale after.
* *Two stores without a transaction.*  A file move is not undone when the row is
  not written, nor an unlink when the DELETE of its row is rolled back.
* *Crashes* between any two file-system calls; the in-memory state is lost, the
  disk and the rows stay.
* *The outside world.*  Programs recreate the file that was quarantined,
  processes end and their pids are given to others, the user suspends and
  resumes by hand.
* *The same question decided again and again.*  What is critical, what is locked and
  what may be cleaned is decided by six stages and five readers, each in code of its own,
  from different names and fields of the item.
* *A file system that is not a tree*, and that changes while it is walked.
* *A wall clock* of one-second resolution decides which scan is the latest.

`PROJECT.json` lists each of these at the line where it bites ("hazards").

**What makes each component correct.**

* Quarantine: no file is lost by any interleaving, failure or crash, except in the ways
  `FileCustody` names; what a row offers to restore is what was taken; nothing leaves
  quarantine except to go home or because it expired.
* Cleanup protocol: a preview authorises one execution, of the items and flags it
  showed, on the scan it showed; nothing blocked is moved; at most one scan runs;
  the recycle bin is emptied only by consent.
* Performance: whatever the backend suspended, a stop can find; it wakes nothing
  the user put to sleep; a start suspends nothing its preview did not list.
* Pipeline and readers: no stage frees what an earlier one closed; what one reader calls
  locked no other offers; what is selected by default is taken without further
  questions; the user's lists bind the cleanup.
* Scan store: scans are whole or absent; the scan that answers is kept; the latest scan is a register that does not go
  back; a failed or killed scan does not block the next one.
* File scan: it ends, whatever the links; a walk that says it is complete is; a scan that lost a
  scanner, found nothing or shows sample data does not pass for a complete one.

## 2. The modules

| module | what it is |
|---|---|
| `FileCustody` | what the file half promises a user: where a file may be and which moves are legitimate, without handlers, rows or directories |
| `Quarantine` | the store, restore and retention, one file-system call or awaited statement per action |
| `QuarantineProofs` | theorems about `Quarantine` |
| `CustodyProofs` | the proof that `Quarantine` implements `FileCustody`; extends `QuarantineProofs` |
| `CleanupPolicy` | the two verdicts, of preview and of execute, on one item |
| `CleanupSession` | scan, preview and execute, the code between two awaits per action; extends `CleanupPolicy` |
| `CleanupProofs` | theorems about `CleanupPolicy` and `CleanupSession` |
| `PerformanceSession` | preview, start and stop of process suspension |
| `PerformanceProofs` | theorems about `PerformanceSession` |
| `Pipeline` | one item through rules, intelligence, process control and gating, its storage and its reload; extends `CleanupPolicy` |
| `ScanConsumers` | what preview, chat, selection, cleanup and performance mode make of that item; extends `Pipeline` |
| `PipelineProofs` | theorems about `Pipeline` and `ScanConsumers` |
| `LatestScan` | what a reader is promised of "the latest scan": one register |
| `ScanStore` | `init_db`, scans, retention and reads, one transaction per action |
| `ScanStoreProofs` | theorems about `ScanStore`, with its refinement of `LatestScan` |
| `FileScan` | the bounded walk, the scanners that use it and the collection, one loop iteration per action |
| `FileScanProofs` | theorems about `FileScan` |
| `MCQuarantine`, `MCCleanupSession`, `MCPerformanceSession`, `MCScanConsumers`, `MCScanStore`, `MCFileScan` | constants for TLC |

### Quarantine

A file is a *body*: the thing that must not be lost.  `HomeOf` says which path it
was written to, and two bodies may share a path, because a program recreates what
was cleaned.  `disk`, `qfile` and `meta` are the file system; `row` is the table;
`cl`, `rs` and `rt` are the program counters of the handlers.  A `shutil.move`
is a rename (`QuarantineRename`, `RestoreRename`) or, between volumes, a copy
and then an unlink with a torn file in between (`QuarantineCopy`,
`QuarantineCopied`, `QuarantineUnlink`, and likewise for restore).

`LoopFree` is asyncio: a synchronous stretch of one handler excludes the steps
of the others that need the loop, but neither the environment (`AppWrites`) nor a
`Crash`.  A statement that SQLite executes for a handler that awaits it (`QuarantineInsert`,
`RestoreUpdate`, `RetentionDelete`, `RetentionCommit`) needs no loop, but the
first two need the write lock, which the retention pass holds from its first
DELETE to its commit (`WriteLocked`).  `QuarantineFails`, `RestoreFails` and
`RetentionFails` are an error at any of these points, and undo nothing, as in
the code.

A cross-volume restore that fails or is killed leaves a fragment (`Torn`) at the path.
To a cleanup that is a file like any other, since `p.is_file()` (`cleanup.py:85`) is all it asks:
`Take` takes whatever is at the path, and a fragment gets an id, `meta.json` and a
row of its own.  Its restore goes over whatever is at the path by then.

`taken`, `born`, `purged`, `replaced`, `spoiled` and `rt.due` are history: no guard reads
them, except that an id is fresh (`taken[q] = Nil`), which is what a uuid4 is.
`purged`, `replaced` and `spoiled` are the bodies that are gone, by what destroyed them:
the purge of the last copy, the restore of another body of the same path over them, the restore of a
fragment over them.

`FileCustody` has a place for each body (unborn, home, held, purged, replaced, spoiled)
and the paths of which quarantine offers a fragment.  It offers one only where a body of the path
left home (`OfferFragment`), and only a path in that set can have its file spoiled (`Spoil`).

### CleanupPolicy and CleanupSession

`Facts` keeps of a scan item what the decisions tell apart: type, bucket, three
classes of detail, three classes of path, and the flag of the rules.
`PreviewStatus` follows `preview_cleanup_items` and `ExecuteSkips` follows
`assisted_cleanup`, each in the order of its own code.

In `CleanupSession` a request holds its program counter and what it has read so
far (`scan`, `prefs`): that it goes on with old values is the point.  A read of the
database and the code after it up to the next await are one action.  The preview
token is consumed *before* the request is compared with it, as at `main.py:254`.  `mode`, `prefs` and
`latest` are the database (`ScanStore` has the tables behind `latest`); `scanning` and `live` are memory, and
`Restart` clears them.  `present` is the file system as the item loop sees it;
`Quarantine` has the steps inside one move.

Not modelled there: ids that are not in the newest scan (the preview rejects
them at `main.py:209`; here every scan has every item), the wording of the
verdicts, byte counts, and the platform test in front of the recycle bin (only
Windows empties one).  The branch of `assisted_cleanup` that removes an empty
Start-menu folder is kept in `ExecuteMove`.

### PerformanceSession

A process is one incarnation; `holder` says who has each pid now, and `Spawn`
after `Exit` reuses it.  `_SESSION` is a list of pids: an entry remembers, for the
properties only, which process it was (`was`).  `start_session` and
`stop_session` have no await, so their loops exclude each other
(`LoopFree`), but not the operating system and not a `Restart`.  The protected
registry is abstracted to the class of a name; the presets `min_ram` and
`streaming` behave as `max_fps` does and are represented by it.  Priorities, power
plans and `prior_affinities` (never filled) are left out: no property reads them.

### Pipeline and ScanConsumers

The decisions of the pipeline are tests of names against lists.  A name is therefore
what the lists say of it (`Marks`), a row of the intelligence database what
decides about it (`Entry`), an item what a scanner reports (`Raws`).  Each stage is a
function of the item so far (`ApplyRules`, `ApplyIntel`, `ApplyControl`, `Gate`), in the
order of the tests in its own module, and an action each: `Advance` applies it to the
scan in flight.  `lists` are the allowlist and blocklist tables; a scan reads them
once.  `stored` is the row of the item: canonical rows are read back as they were stored,
older ones go through the pipeline again with the lists of now (`Loaded`).

`ScanConsumers` has no state.  `WouldAllow`, `ChatOffers`, `ChatWithholds`,
`DefaultSelected`, `Taken` and `SuspendAllowed` are the answers of six
functions of the backend to questions that overlap; the properties say how they must
fit together.  `CleanupFacts` is what joins this model to `CleanupSession`: `FactsAgree`
says that the facts assumed there are those the pipeline makes.

The ML stage is left out of the actions: it adds scores and writes no field that is
kept here.  Scores, reasons, provenance, confidence and the explanations are
left out.

### ScanStore and LatestScan

`shape`, `scans`, `rows` and `parked` are the tables (`parked` is `scan_items_legacy`),
`inProgress` the flag in memory, `op` what each request has done.  `init_db` is `Rename`,
`CreateSchema` and `Restore`, because it commits between them; a scan is `Ask` (the
route's test of the flag), `Begin` (the second test), `ScanCollected` (everything up to
the transaction; what the scanners found is chosen), `Persist`, `Prune`, `ScanDone`, and
`ScanFails` at any point; a read is `ReadScan` and `ReadItems`.  `Crash` stops the
process between any two transactions, `ClockSet` moves the wall clock either way.
A row's `row` is SQLite's rowid: one above the largest in the table, so the rowid of a pruned
newest scan is given again.

`LatestScan` is the abstract specification: `latest` is set by scans only, never to an
older one.  `LatestRegister` is the refinement, with `latest` mapped to what
`latest_scan_from_db` would select.

### FileScan

A file system gives each of `N` nodes its path, its kind and its size, each directory
the list of what is in it and each link its target; `IsTree` says what is so of every such
system, whatever its links (they may form any cycle).  `walk` is the local
state of `bounded_walk`: the queue with its depths, the directories seen, the counters, the
flag `truncated` and the calls of `on_file`.  One iteration is one action, named for the branch it
takes: `CapReached`, `TooDeep`, `Vanished`, `LoopSkipped`, `EnterDir`, `TakeFile`,
`FollowLink`.  The clock is looked at in every iteration, so a cut is possible in each.
Around it are the scanners (`WalkBegins` and `WalkEnds` per root, `ScannerReturns`,
`ScannerRaises`) and `Collect`, which falls back on the sample data and sets the status of the scan.  Whether there is
a sample to fall back on is chosen: `load_mock_scan` returns nothing where `sample_scan.json` is not
installed, as in the packaged backend (`scripts/bundle_backend.sh`).
An item is its scanner, the id it gets, a number that keeps two of one id apart, and the paths it
stands for.  `listed` and `lost` are history.

## 3. Runs

Twelve runs.  "States" are distinct states, with two workers.

| run | states | what it asks |
|---|---|---|
| `Quarantine_handlers` | 563k | `TypeOK`, `Custody`, `ListedIsBacked`, `LeavesHomeOrExpired`, and that `Quarantine` implements `FileCustody` (`KeepsPromise`) |
| `Quarantine_liveness` | 129k | `HandlersFinish`: no handler waits for ever |
| `CleanupSession_protocol` | 955k | `OneScan`, `SingleUse`, `MovesMatchPreview`, `BlockedStaysBlocked`, `EmptiedByConsent` |
| `PerformanceSession_sessions` | 1.6M | `Accounted`, `WakesOnlyItsOwn`, `SuspendsOnlyPlanned` |
| `ScanConsumers_pipeline` | 332k | `LockedOffersNothing`, `OfferKept`, `SelectedIsTaken`, `ListsReachCleanup`, `FactsAgree`, `NeverFreed` |
| `ScanStore_history` | 394k | `WholeScans`, `WholeRead`, `AnsweredIsKept`, `FlagClears`, and that `ScanStore` implements `LatestScan` (`LatestRegister`) |
| `FileScan_walk` | 106k | `ListedOnce`, `NothingMissed`, `CapsRespected`, `TwiceOnlyByLink`, `SampleIsAnnounced`, `Terminates` |
| `Quarantine_rollback`, `PerformanceSession_rollback`, `ScanConsumers_protected`, `ScanStore_migration`, `FileScan_ids` | – | one sentence of the documentation or the tests each, which the code does not keep (section 5) |

Four of these properties except what the code does not keep, and do not cover it: `BlockedStaysBlocked`
and `EmptiedByConsent` a change of the settings between preview and execution, `WakesOnlyItsOwn` a
process that took over a listed pid, `NothingMissed` what lies under the target of a link.

**Bounds and why they suffice.**

* `Quarantine_handlers`: two paths, one with two bodies and one with one; two ids;
  two cleanups, two restores and the retention pass.  Two bodies of one path are
  what it takes for a restore to land on a newer file; two ids, for two entries
  of one path and for a list of retention that is stale in one of them (and for a body and
  the fragment of its restore, held together); two handlers of a kind, for any pair to interleave.  Nothing in the code relates
  three ids.  `ListLimit` is 2, so the list is complete.
* `CleanupSession_protocol`: two requests of any kind, two items, two
  scans, one token, all four combinations of the flags, three settings, two
  modes.  The facts change between the two scans, so that an id from the first
  means something else in the second.  Two requests with one token are a
  double execute; `SingleUse` and `OneScan` are about pairs.
* `PerformanceSession_sessions`: two pids, two processes, two requests.  A process
  ends and the other takes its pid; both may be on the list; a start
  meets a session that another request left.
* `ScanConsumers_pipeline`: the code treats each item alone, so one item is enough, if
  it may be any: a name for each mark of the lists, a row of the database for each
  combination of fields a branch tests, near matches that count and that do not, every hint and path class.
* `ScanStore_history`: two clients, three scans of which two are kept (`Keep` is 2 where the
  code has 25, so that a prune drops one), a clock of two readings, so that two scans tie and
  a later one may be earlier, one crash; two items, found once, both, or one of them twice.
  A database starts empty, or as an old one with or without a row of no scan.
* `FileScan_walk`: every tree of four paths under one root, every choice of links and their
  targets, with inode numbers and without; four lists of scanners, of each kind, whose caps
  lie below, at and above what the trees hold.  Four paths are a root, a
  directory, a link and a file, hence a cycle with something on it; two directories that link to each
  other; two files with one content.
* A token is used up by the preview that issues it (`TokenLeft`), an id by the
  cleanup that takes it, a body by the program that writes it, a scan number by the scan
  (`MaxScans`, `MaxTime` and `MaxCrashes` in `ScanStore`): these are the bounds on the histories.

Symmetry is used over restores (`MCQuarantine`) and over requests (`MCCleanupSession`,
`MCPerformanceSession`), in runs of safety properties only.  Deadlock is checked in
every run; a scan of `FileScan` that has ended stutters (`Collected`).

**Fairness.**  asyncio's ready queue is first-in first-out, so a handler that is
ready gets its turn; SQLite answers or raises.  In `Quarantine`, a cleaner has
weak fairness: its failure is always possible (a locked database raises after
its busy timeout), so it is never disabled before it ends.  A restore and the
retention pass get strong fairness, because their next step is disabled and
enabled again whenever another handler enters and leaves a synchronous stretch
(`LoopFree`): first-in first-out is what makes them run
eventually.  In `ScanStore` each client has weak fairness of the steps of a scan it
has begun: one of them, failure at the least, stays possible until it ends.  In
`FileScan` the loop has weak fairness: it is synchronous code without an await and waits for nothing.  The
clock, other programs, the user and crashes have none, nor do requests that were
not yet made.

**Mutants.**  Each property of a passing run has a mutant of one mapped definition,
next to the original in its module, under which TLC finds the property violated.

## 4. Proofs

Seven modules of proofs, for any sets of constants that satisfy the assumption named.
Each proves that an invariant (`IInv`; `RInv` in `CustodyProofs`) is inductive, one lemma per
action or group of like actions, puts them together by the disjuncts of `Next`, and reads the
theorems off it.  TLC checked each of these invariants on the constants of a run before it was
proved.  Every safety property of a passing run is the subject of a theorem: invariants, action
properties and both refinements.

### QuarantineProofs, from `ConstantAssumption`

| theorem | statement |
|---|---|
| `Invariance` | `Spec => []IInv` |
| `TypeCorrect` | `Spec => []TypeOK` |
| `NoFileLost` | `Spec => []Custody` |
| `RowsAreBacked` | `Spec => []ListedIsBacked` |
| `OnlyHomeOrExpired` | `Spec => LeavesHomeOrExpired` |

`Custody` is not inductive: a cleaner that copies and then unlinks keeps it only
if the copy is of the file it unlinks, a restore only if the entry it empties is
the one it copied, retention only if the entry it unlinks is the one it
deleted.  `IInv` adds what each program counter implies:

* `DiskFaithful`, `TakenFaithful`, `MetaFaithful`: a complete file is at the path it
  was written to, an entry holds what its id was made for, and for a complete file `meta.json` names
  that file's path;
* `RowBacked`: a row exists only once the move and `meta.json` are complete;
* `Exclusive`: at most one handler is inside synchronous code;
* `CleanersOK`, `RestorersOK`, `RetentionOK`: what a handler at each point has already done
  and what it still relies on.

`OnlyHomeOrExpired` needs one more invariant, `RestoredEmpty`: an entry
whose row says restored is empty, so an id that was restored after
retention read its list has nothing left to unlink.

### CustodyProofs, from `ConstantAssumption`

| theorem | statement |
|---|---|
| `QuarantineKeepsPromise` | `Spec => KeepsPromise` |

`FileCustody` sees of each body where it is (`Where`), which bodies have an expired entry
(`Aged`), and of which paths an entry offers a fragment (`Fragments`).  A file
half-copied is still where it was, since the original is there; so one step of most handlers moves
nothing (`OthersMoveNothing`), and each other step moves one body (`QuarantineUnlinkMoves`,
`RestoreRenameMoves`, `RetentionUnlinkMoves` ...), replaces the body at a path (`ReplacesAllowed`), or
concerns a fragment: `meta.json` makes it one that is offered (`QuarantineMetaMoves`), its restore
spoils what is at the path (`RestoreFragmentMoves`, `SpoilAllowed`), and then, or at its purge, it is
withdrawn (`WithdrawAllowed`).  `MovesAllowed` says which of the moves of one body the promise allows.
`RInv` adds to `IInv` of `QuarantineProofs`:

* `ExpiredHadRow`: only an id with a row expires, so a file being taken does not enter quarantine
  already expired;
* `DestroyedGone`: what was purged, replaced or spoiled is nowhere, so it does not come back home
  and is not destroyed a second time;
* `BrokenOff`: a fragment is only where a body was written and has left: what makes
  `OfferFragment` the only way to come by one.

### CleanupProofs, from `SessionAssumption`

| theorem | statement |
|---|---|
| `BlockedIsSkipped` | for all facts: `PreviewStatus = "blocked"` implies `ExecuteSkips` under the same flags |
| `Invariance` | `Spec => []IInv` |
| `TypeCorrect` | `Spec => []TypeOK` |
| `ScansExclude` | `Spec => []OneScan` |
| `TokensAreSingleUse` | `Spec => []SingleUse` |
| `MovesWereSelected` | `Spec => []MovesMatchPreview` |
| `BlockedNotMoved` | `Spec => []BlockedStaysBlocked` |
| `EmptyingNeedsConsent` | `Spec => []EmptiedByConsent` |

The properties speak of histories, and follow from what a request has compared
with its preview by the time it is at an await.  `Executions` says that: from
`ex_prefs` on its body is the preview's, from `ex_latest` on permission to empty the bin
was given, from `ex_item` on its scan is the previewed one.
`Tokens` ties a use to a consumed token, `Verdicts` ties a stored "blocked" to the
flags and settings it was decided under; with them, `BlockedStaysBlocked` is
`BlockedIsSkipped` at the moment of a move.

### PerformanceProofs, from `PerformanceAssumption`

| theorem | statement |
|---|---|
| `Invariance` | `Spec => []IInv` |
| `TypeCorrect` | `Spec => []TypeOK` |
| `NothingStrays` | `Spec => []Accounted` |
| `WakesNoOther` | `Spec => WakesOnlyItsOwn` |
| `SuspendsWhatWasShown` | `Spec => SuspendsOnlyPlanned` |

`Accounted` fails to be inductive at the end of a stop, which drops the list: there
`Resuming` is needed (what a stop has not come to yet still accounts for
every process it must resume, so an empty rest means none is left) and, when a
start replaces the list, `Sessions` (no session is active while a start suspends).
`Holders` makes a process keep the pid it was started with; `Entries` says that
only processes the backend suspended are listed; `Planned` is what a preview computed.

### PipelineProofs, from `PipelineAssumption`

For any names, marks, intelligence rows and items: the assumption only types the constants.

| theorem | statement |
|---|---|
| `TypeCorrect` | `Spec => []TypeOK` |
| `LockedHolds` | `Spec => []LockedOffersNothing` |
| `OfferHolds` | `Spec => []OfferKept` |
| `SelectionHolds` | `Spec => []SelectedIsTaken` |
| `ListsHold` | `Spec => []ListsReachCleanup` |
| `FactsHold` | `Spec => []FactsAgree` |
| `NeverFreedHolds` | `Spec => NeverFreed` |

The first half is lemmas about the verdicts: what each stage may return
(`RulesType`, `IntelTightens`, `ControlVerdict`, `GateItem`) and hence what an item looks like
after all of them (`Outcome`, `OutcomeControl`, `FileItem`).  The second half ties them to the
states.  `IInv` says that the scan in flight is the result of the stages it has
passed, under the lists it read (`ScanInv`), and that a canonical row is the result of all of them,
under the lists of its scan (`StoredInv`): without it nothing is known of what a reader loads, since
the lists may have changed since.  `NeverFreed` follows from `StagesTighten`: intelligence by its order of
caution, process control because nothing is blocked before it, gating because it blocks only what it protects.

### ScanStoreProofs, from `StoreAssumption`

| theorem | statement |
|---|---|
| `TypeCorrect` | `Spec => []TypeOK` |
| `ScansStayWhole` | `Spec => []WholeScans` |
| `ReadsOvertaken` | `Spec => []WholeRead` |
| `AnswersAreKept` | `Spec => []AnsweredIsKept` |
| `StoreIsRegister` | `Spec => LatestRegister` |

For any number of clients, items, scans, crashes and kept scans.  What makes the latest scan a
register is that retention keeps the first `Keep` scans of the order readers use.  That argument needs:

* `Ordered`: later scans have larger ids and larger rowids, although a rowid is given again when
  the scan that had it was pruned (`NextRow`): the order by time and rowid is then an order by time
  and id, and total;
* `HasNewest`: a table that is not empty has a newest scan, so `Latest` is one of its rows
  (`NewestIs`), and no scan is ahead of it for retention to keep in its place (`NewestKept`);
* `Answering` and `Readers`: what a request at each point may still count on.  A reader whose scan
  is gone was overtaken by `Keep` scans, because with fewer ahead of it retention would have kept it
  (`DroppedAfterKeep`).  The scan that has just run retention was inserted last, so what is newer has
  a later time; and when retention drops it, `Keep` scans are kept and all of them are newer
  (`KeptFew`, `KeptNewer`: the ranks of `n` scans are the numbers below `n`, by counting);
* `Migrated`: until the table has its new key, what is in it belongs to no scan of this program,
  so that `WholeScans` survives the migration and a kill in the middle of it;
* `Flagged`: the flag is up at each of the points of a scan that are named there, and no two
  requests are at such points.  It says nothing of a flag left up: that is `FlagClears`.

`StoreIsRegister` has the refinement's step in two lemmas: `PersistRecords` (only a stored scan is
ever newer, and it has a larger id) and `OnlyPersist` (no other step changes what readers get).

### FileScanProofs, from `FileScanAssumption`

| theorem | statement |
|---|---|
| `TypeCorrect` | `Spec => []TypeOK` |
| `ListsOnce` | `Spec => []ListedOnce` |
| `MissesNothing` | `Spec => []NothingMissed` |
| `StaysWithinCaps` | `Spec => []CapsRespected` |
| `ReportsOnce` | `Spec => []TwiceOnlyByLink` |
| `AnnouncesSample` | `Spec => []SampleIsAnnounced` |

For every file system, every list of scanners and all caps.  `WalkInv` holds of the walk after
each iteration:

* `Listing`: what was listed is marked as seen, and is in the list once;
* `Counting`: the counters are no less than what was reported and within the caps: the file that
  would break the cap on bytes is counted by none and ends the walk;
* `Depths`: what waits, waits with a label no smaller than its depth, unless a link is on its way
  there; a link makes a file appear at a smaller depth than its own, which is why
  `CapsRespected` excepts those;
* `Once`: a file no link leads to waits or was reported at most once, and only if it is the root or its directory was listed;
* `Sorted`: the queue is sorted by label, and no label exceeds the first by more than one: the walk is breadth-first;
* `Owes`, while nothing was lost or cut: the root comes first (`RootFirst`), a directory no link leads to is
  marked only by being listed (`MarkedIsListed`), and everything in a listed directory was done or waits in time
  (`Offspring`).

`MissesNothing` is the deepest: when the queue is empty, nothing waits, so what lies in a listed
directory is done.  Were the directory of a missed file not listed, the topmost directory
on its path that is not listed would lie in one that is, hence wait (`SomethingWaits`).  That
induction over a path, and the one over the sum of bytes (`SumsAgree`, `TotalSizeOf`), go by least elements
(`LeastNat`, from the well-foundedness of `<`): a least counterexample needs no theorem that takes an
operator as its parameter.

### Left to TLC

* Liveness (`HandlersFinish`, `FlagClears`, `Terminates`), which TLAPS does not prove.
* That the runs of section 5 are violated: a counterexample, not a theorem.

## 5. Where the code and its documents disagree

Each of these is a run that TLC ends with a counterexample.

| run | document | code |
|---|---|---|
| `Quarantine_rollback` | README.md:30, quarantine "with rollback" | `quarantine.py:24` moves before it writes `meta.json` and the row; an error or crash in between leaves a file nothing offers to restore |
| `PerformanceSession_rollback` | README.md:31, stop resumes suspended PIDs | a refused resume is swallowed and the list dropped |
| `ScanConsumers_protected` | docs/SCAN_PIPELINE.md:37, performance mode "must respect these flags" | `performance.py:136` goes by the name of the live process and never reads the flags of the scan: what intelligence protected is suspended when asked for by name |
| `ScanStore_migration` | test_scan_item_ids.py:112, an old database "keeps its rows" | the rename is committed on its own; a kill before the restore, or a row of no scan, leaves the rows in a table that no later start looks at |
| `FileScan_ids` | docs/PROJECT_GRAPH_FACTS.md:71, ids "must be unique within one scan" | a link to a file in the same tree reports the file twice under one id, and the clash fails the whole scan |

`FileCustody` keeps its promise in spite of the first: the file is not lost, it is
in the quarantine directory, but only the directory knows.

Eight more are stated in the modules and have no run of their own; to see each fail, add it to
the configuration named.

| property | document | code | configuration |
|---|---|---|---|
| `ExpiredRowsPurged` | docs/SETTINGS.md:12, expired rows are purged at scan start | retention sees the first 200 rows by descending id, restored ones included | `Quarantine_rollback.cfg` with `ListLimit = 1`, as a PROPERTY |
| `ReadOnlyMovesNothing` | README.md:28, read-only has no destructive operations | the mode is read once per execution, before many awaits | `CleanupSession_protocol.cfg`, as a PROPERTY |
| `PreviewsExpire` | README.md:64, previews expire after about an hour | age is tested only when another preview is stored | the same, as a PROPERTY |
| `CleanupsAudited` | README.md:36, every action is audited | one entry after the last item, lost with an error before it | the same, as an INVARIANT |
| `NothingSpoiled` | README.md:30, quarantine "with rollback" | a cross-volume restore that fails leaves a fragment at the path (`quarantine.py:72`); a cleanup takes it (`cleanup.py:85`), and its restore moves it over the good file that is there by then, of which no copy is kept | `Quarantine_rollback.cfg`, as an INVARIANT |
| `JustPersistedKept` | `prune_old_scans` (scan_service.py:288-290), "the scan that was just persisted is always inside the kept window"; test_scan_retention.py:140, "never pruned" | the window goes by `finished_at`: after the clock was set back behind `Keep` stored scans, the scan just committed is deleted and the request answers with it | `ScanStore_history.cfg`, as an INVARIANT |
| `SampleStandsIn` | scan_service.py:109, "Live scanners returned no items; loaded sample dataset instead." | said also where `sample_scan.json` is not installed and nothing was loaded (`mock_data.py:14`), as in the packaged backend | `FileScan_ids.cfg`, as a PROPERTY |
| `BlockedNeverMoved` | CleanupReview.tsx:83, blocked items "will not be changed" | execute decides with the settings of its own time | `CleanupSession_protocol.cfg`, as an INVARIANT |

`FileCustody` and `AnsweredIsKept` say what is so instead of `NothingSpoiled` and
`JustPersistedKept`: a fragment spoils a file only where a body of that path had left home,
and only `Keep` later times push out the scan that answers.

Met while modelling, and not a property of any module: the docstring of `bounded_walk` (`fs.py:101`) counts
depth among the caps that `truncated` reports, and the code never sets it for depth (`fs.py:130`), which is
why `NothingMissed` speaks of files down to the depth; without a `Videos` directory the second root
of the large-file scanner is the home directory, which contains the first (`files.py:204`), and a
large download is reported twice under one id; `ORPHAN_DIR_CHECK_TIMEOUT_S` is defined nowhere
(`files.py:334`); two `Run` keys may give one id (`startup.py:36`), and so may two plists of one stem below one
directory (`startup.py:120`) and two groups of duplicates whose contents differ after the first 4 MiB
(`files.py:293`; `Hash` has it); links lead a walk out of its
root (`fs.py:172`).

## 6. Plan

Written: everything in the table of section 2.  Next, in this order:

1. What is so of the properties that section 5 shows violated, once the condition that is missing is
   added (`ItemIdsUnique` without links and with full hashes, `BlockedNeverMoved` with settings that do
   not change), as theorems.
2. `Settings`: the read-merge-write of `save_settings` (two patches, one lost).
3. `Sidecar`: spawn, exit and signal of the desktop shell.

## 7. Not modelled

* The scanners other than the walks, and the platform's queries of processes, services, tasks and
  registry: pure input and output.  What they may report is enumerated in `Raw` and `Found`; that
  any of them may raise or find nothing is `ScannerRaises`.
* The orphan scanner and the mock environment: the first raises an `AttributeError` on the
  path it is meant for, the second replaces input by constants.
* The ML ranker, explanations, reports and audit redaction: floating point and wording; no
  decision that is modelled reads them.
* `save_settings` as the transactions it is: planned; the other modules let settings change at any step, which
  covers every result it may have.
* The desktop shell and the user interface: they keep no state that the backend relies on.  What they
  may send is covered by requests with any arguments (`AnySelection`, `AllChoices`); what they show
  is not modelled.
