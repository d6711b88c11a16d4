------------------------------ MODULE Quarantine ------------------------------
(***************************************************************************)
(* Where a cleaned file is, through quarantine_path, restore_quarantine    *)
(* and apply_quarantine_retention, with the SQLite rows and the            *)
(* meta.json files that are supposed to know it.                           *)
(*                                                                         *)
(* The backend is one asyncio process: code between two awaits runs with   *)
(* no other handler in between (LoopFree), but a crash, and the user's own *)
(* programs, may come between any two file-system calls.  An action is one *)
(* file-system call, or one awaited database statement, of one handler.    *)
(***************************************************************************)
EXTENDS Integers, FiniteSets

CONSTANTS
    Path,       \* original locations
    Body,       \* file bodies: what the user must not lose
    HomeOf,     \* the path a body was written to
    Qid,        \* quarantine ids, ordered as SQLite orders the uuid strings
    Cleaner,    \* concurrent assisted_cleanup calls
    Restorer,   \* concurrent POST /api/quarantine/restore calls
    ListLimit,  \* LIMIT of list_quarantine (200 in the code)
    NoFile, Torn, Nil

ASSUME ConstantAssumption ==
    /\ HomeOf \in [Body -> Path]
    /\ Qid \subseteq Int
    /\ ListLimit \in Nat
    /\ NoFile \notin Body /\ Torn \notin Body /\ NoFile # Torn
    /\ Nil \notin Path \cup Body \cup {Torn} \cup Qid

VARIABLES
    disk,      \* what is at each original path
    born,      \* history: the bodies that were ever written
    qfile,     \* quarantine_dir/<id>/<name>
    meta,      \* original_path in quarantine_dir/<id>/meta.json
    row,       \* quarantine_entries; "deleted" had a row, "none" never had
    taken,     \* history: the file an id was made for; Nil: id never used
    expired,   \* ids whose created_at is before the retention cutoff
    policyOn,  \* quarantine_retention is not manual_only
    cl, rs, rt,        \* cleaners, restorers, the retention pass
    purged,    \* history: bodies destroyed by retention,
    replaced,  \* by the restore of another body of their path,
    spoiled    \* by the restore of a fragment over them

files == <<disk, qfile, meta>>
hist  == <<born, purged, replaced, spoiled>>
vars  == <<files, row, taken, expired, policyOn, cl, rs, rt, hist>>

File == Body \cup {NoFile, Torn}

IdleCl == [at |-> "idle", q |-> Nil, p |-> Nil]
IdleRs == [at |-> "idle", q |-> Nil]
IdleRt == [at |-> "idle", todo |-> {}, gone |-> {}, due |-> {}]

TypeOK ==
    /\ disk \in [Path -> File]
    /\ born \subseteq Body
    /\ qfile \in [Qid -> File]
    /\ meta \in [Qid -> Path \cup {Nil}]
    /\ row \in [Qid -> {"none", "active", "restored", "deleted"}]
    /\ taken \in [Qid -> Body \cup {Torn, Nil}]
    /\ expired \subseteq Qid
    /\ policyOn \in BOOLEAN
    /\ cl \in [Cleaner -> [at : {"idle", "copying", "unlinking", "meta", "insert"},
                           q : Qid \cup {Nil}, p : Path \cup {Nil}]]
    /\ rs \in [Restorer -> [at : {"idle", "copying", "unlinking", "update", "rmtree"},
                            q : Qid \cup {Nil}]]
    /\ rt \in [at : {"idle", "delete", "unlink"}, todo : SUBSET Qid,
               gone : SUBSET Qid, due : SUBSET Qid]
    /\ purged \subseteq Body
    /\ replaced \subseteq Body
    /\ spoiled \subseteq Body

Init ==
    /\ disk \in [Path -> Body \cup {NoFile}]
    /\ \A p \in Path : disk[p] \in Body => HomeOf[disk[p]] = p
    /\ born = {b \in Body : disk[HomeOf[b]] = b}
    /\ qfile = [q \in Qid |-> NoFile]
    /\ meta = [q \in Qid |-> Nil]
    /\ row = [q \in Qid |-> "none"]
    /\ taken = [q \in Qid |-> Nil]
    /\ expired = {}
    /\ policyOn \in BOOLEAN
    /\ cl = [c \in Cleaner |-> IdleCl]
    /\ rs = [r \in Restorer |-> IdleRs]
    /\ rt = IdleRt
    /\ purged = {}
    /\ replaced = {}
    /\ spoiled = {}

\* No handler is in the middle of synchronous code.
LoopFree == /\ \A c \in Cleaner : cl[c].at \in {"idle", "insert"}
            /\ \A r \in Restorer : rs[r].at \in {"idle", "update", "rmtree"}

\* The retention pass's open transaction holds SQLite's write lock.
WriteLocked == rt.gone # {}

-----------------------------------------------------------------------------
(* quarantine_path: shutil.move, meta.json, INSERT.  A move is a rename, or  *)
(* between volumes a copy followed by an unlink of the source.               *)

\* Mutant: an id is used again.
TakeUsedId(c, p, q) ==
    /\ LoopFree /\ cl[c].at = "idle"
    /\ disk[p] # NoFile
    /\ taken' = [taken EXCEPT ![q] = disk[p]]

\* p.is_file() is all that is asked: a fragment that a failed or killed
\* restore left at p is taken like any other file.
Take(c, p, q) ==
    /\ LoopFree /\ cl[c].at = "idle"
    /\ disk[p] # NoFile /\ taken[q] = Nil
    /\ taken' = [taken EXCEPT ![q] = disk[p]]

QuarantineRename(c, p, q) ==
    /\ Take(c, p, q)
    /\ disk' = [disk EXCEPT ![p] = NoFile]
    /\ qfile' = [qfile EXCEPT ![q] = disk[p]]
    /\ cl' = [cl EXCEPT ![c] = [at |-> "meta", q |-> q, p |-> p]]
    /\ UNCHANGED <<meta, row, expired, policyOn, rs, rt, hist>>

\* Mutant: the source goes before its copy is complete.
UnlinkBeforeCopy(c, p, q) ==
    /\ Take(c, p, q)
    /\ disk' = [disk EXCEPT ![p] = NoFile]
    /\ qfile' = [qfile EXCEPT ![q] = Torn]
    /\ cl' = [cl EXCEPT ![c] = [at |-> "copying", q |-> q, p |-> p]]
    /\ UNCHANGED <<meta, row, expired, policyOn, rs, rt, hist>>

QuarantineCopy(c, p, q) ==
    /\ Take(c, p, q)
    /\ qfile' = [qfile EXCEPT ![q] = Torn]
    /\ cl' = [cl EXCEPT ![c] = [at |-> "copying", q |-> q, p |-> p]]
    /\ UNCHANGED <<disk, meta, row, expired, policyOn, rs, rt, hist>>

QuarantineCopied(c) ==
    /\ cl[c].at = "copying"
    /\ qfile' = [qfile EXCEPT ![cl[c].q] = disk[cl[c].p]]
    /\ cl' = [cl EXCEPT ![c].at = "unlinking"]
    /\ UNCHANGED <<disk, meta, row, taken, expired, policyOn, rs, rt, hist>>

QuarantineUnlink(c) ==
    /\ cl[c].at = "unlinking"
    /\ disk' = [disk EXCEPT ![cl[c].p] = NoFile]
    /\ cl' = [cl EXCEPT ![c].at = "meta"]
    /\ UNCHANGED <<qfile, meta, row, taken, expired, policyOn, rs, rt, hist>>

\* Mutants: meta.json names the id instead of the path; or is left out.
MetaNamesId(c) ==
    /\ cl[c].at = "meta"
    /\ meta' = [meta EXCEPT ![cl[c].q] = cl[c].q]
    /\ cl' = [cl EXCEPT ![c].at = "insert"]
    /\ UNCHANGED <<disk, qfile, row, taken, expired, policyOn, rs, rt, hist>>

NoMeta(c) ==
    /\ cl[c].at = "meta"
    /\ cl' = [cl EXCEPT ![c].at = "insert"]
    /\ UNCHANGED <<disk, qfile, meta, row, taken, expired, policyOn, rs, rt, hist>>

QuarantineMeta(c) ==
    /\ cl[c].at = "meta"
    /\ meta' = [meta EXCEPT ![cl[c].q] = cl[c].p]
    /\ cl' = [cl EXCEPT ![c].at = "insert"]
    /\ UNCHANGED <<disk, qfile, row, taken, expired, policyOn, rs, rt, hist>>

QuarantineInsert(c) ==
    /\ cl[c].at = "insert" /\ ~WriteLocked
    /\ row' = [row EXCEPT ![cl[c].q] = "active"]
    /\ cl' = [cl EXCEPT ![c] = IdleCl]
    /\ UNCHANGED <<files, taken, expired, policyOn, rs, rt, hist>>

\* Mutant: a failed move is cleaned up by removing the entry directory.
FailRemovesEntry(c) ==
    /\ cl[c].at # "idle"
    /\ qfile' = [qfile EXCEPT ![cl[c].q] = NoFile]
    /\ cl' = [cl EXCEPT ![c] = IdleCl]
    /\ UNCHANGED <<disk, meta, row, taken, expired, policyOn, rs, rt, hist>>

\* An OSError of any file call (caught by assisted_cleanup, which goes on
\* with its next item) or an error of the INSERT (which ends the request):
\* nothing done so far is undone.
QuarantineFails(c) ==
    /\ cl[c].at # "idle"
    /\ cl' = [cl EXCEPT ![c] = IdleCl]
    /\ UNCHANGED <<files, row, taken, expired, policyOn, rs, rt, hist>>
-----------------------------------------------------------------------------
(* restore_quarantine: read meta.json, shutil.move back, UPDATE, rmtree.     *)

\* The body at the original path, if no entry has it too: what is moved over
\* it, from the first byte on, destroys it.
Overwritten(q) == {b \in Body : disk[meta[q]] = b /\ \A s \in Qid : qfile[s] # b}

RestoreBegin(r, q) ==
    /\ LoopFree /\ rs[r].at = "idle"
    /\ row[q] # "none"            \* clients know the ids they were listed
    /\ meta[q] # Nil              \* else FileNotFoundError("missing meta")
    /\ qfile[q] # NoFile          \* else shutil.move raises
    /\ replaced' = IF qfile[q] \in Body THEN replaced \cup Overwritten(q) ELSE replaced
    /\ spoiled' = IF qfile[q] = Torn THEN spoiled \cup Overwritten(q) ELSE spoiled

RestoreRename(r, q) ==
    /\ RestoreBegin(r, q)
    /\ disk' = [disk EXCEPT ![meta[q]] = qfile[q]]
    /\ qfile' = [qfile EXCEPT ![q] = NoFile]
    /\ rs' = [rs EXCEPT ![r] = [at |-> "update", q |-> q]]
    /\ UNCHANGED <<meta, row, taken, expired, policyOn, cl, rt, born, purged>>

RestoreCopy(r, q) ==
    /\ RestoreBegin(r, q)
    /\ disk' = [disk EXCEPT ![meta[q]] = Torn]
    /\ rs' = [rs EXCEPT ![r] = [at |-> "copying", q |-> q]]
    /\ UNCHANGED <<qfile, meta, row, taken, expired, policyOn, cl, rt, born, purged>>

RestoreCopied(r) ==
    /\ rs[r].at = "copying"
    /\ disk' = [disk EXCEPT ![meta[rs[r].q]] = qfile[rs[r].q]]
    /\ rs' = [rs EXCEPT ![r].at = "unlinking"]
    /\ UNCHANGED <<qfile, meta, row, taken, expired, policyOn, cl, rt, hist>>

RestoreUnlink(r) ==
    /\ rs[r].at = "unlinking"
    /\ qfile' = [qfile EXCEPT ![rs[r].q] = NoFile]
    /\ rs' = [rs EXCEPT ![r].at = "update"]
    /\ UNCHANGED <<disk, meta, row, taken, expired, policyOn, cl, rt, hist>>

RestoreUpdate(r) ==
    /\ rs[r].at = "update" /\ ~WriteLocked
    /\ row' = [row EXCEPT ![rs[r].q] = IF @ = "active" THEN "restored" ELSE @]
    /\ rs' = [rs EXCEPT ![r].at = "rmtree"]
    /\ UNCHANGED <<files, taken, expired, policyOn, cl, rt, hist>>

\* ignore_errors=True: the directory may also stay as it is.
RestoreRmtree(r) ==
    /\ rs[r].at = "rmtree" /\ LoopFree
    /\ \/ /\ qfile' = [qfile EXCEPT ![rs[r].q] = NoFile]
          /\ meta' = [meta EXCEPT ![rs[r].q] = Nil]
       \/ UNCHANGED <<qfile, meta>>
    /\ rs' = [rs EXCEPT ![r] = IdleRs]
    /\ UNCHANGED <<disk, row, taken, expired, policyOn, cl, rt, hist>>

\* Mutant: meta.json is removed on every exit of restore_quarantine.
FailRemovesMeta(r) ==
    /\ rs[r].at \in {"copying", "unlinking", "update"}
    /\ meta' = [meta EXCEPT ![rs[r].q] = Nil]
    /\ rs' = [rs EXCEPT ![r] = IdleRs]
    /\ UNCHANGED <<disk, qfile, row, taken, expired, policyOn, cl, rt, hist>>

\* An OSError of the move or an error of the UPDATE: 500, nothing undone.
RestoreFails(r) ==
    /\ rs[r].at \in {"copying", "unlinking", "update"}
    /\ rs' = [rs EXCEPT ![r] = IdleRs]
    /\ UNCHANGED <<files, row, taken, expired, policyOn, cl, rt, hist>>
-----------------------------------------------------------------------------
(* apply_quarantine_retention, at the start of a scan: at most one runs.     *)

\* list_quarantine: the first ListLimit rows in descending id order.
Rows == {q \in Qid : row[q] \in {"active", "restored"}}
Listed == {q \in Rows : Cardinality({r \in Rows : r > q}) < ListLimit}

\* Mutant: the age of a row is not tested.
AnyAge == {q \in Qid : row[q] = "active"}

Expired == {q \in expired : row[q] = "active"}

RetentionList ==
    /\ rt.at = "idle" /\ policyOn
    /\ rt' = [at |-> "delete", todo |-> Listed \cap Expired, gone |-> {}, due |-> Expired]
    /\ UNCHANGED <<files, row, taken, expired, policyOn, cl, rs, hist>>

\* The DELETE of the next entry of the list read earlier; not committed yet.
RetentionDelete(q) ==
    /\ rt.at = "delete" /\ q \in rt.todo /\ \A r \in rt.todo : r <= q
    /\ rt' = [rt EXCEPT !.at = "unlink", !.gone = @ \cup {q}]
    /\ UNCHANGED <<files, row, taken, expired, policyOn, cl, rs, hist>>

\* The body that only entry q still holds.
LastCopy(q) == {b \in Body : /\ qfile[q] = b /\ disk[HomeOf[b]] # b
                             /\ \A r \in Qid \ {q} : qfile[r] # b}

\* Mutant: an entry whose file is gone is tried again.
RetryUnlink(q) ==
    /\ rt.at = "unlink" /\ LoopFree /\ q \in rt.todo /\ \A r \in rt.todo : r <= q
    /\ qfile' = [qfile EXCEPT ![q] = NoFile]
    /\ purged' = purged \cup LastCopy(q)
    /\ rt' = [rt EXCEPT !.at = "delete", !.todo = IF qfile[q] = NoFile THEN @ ELSE @ \ {q}]
    /\ UNCHANGED <<disk, meta, row, taken, expired, policyOn, cl, rs, born, replaced, spoiled>>

\* unlink(missing_ok=True) of the entry just deleted; an OSError is ignored.
RetentionUnlink(q) ==
    /\ rt.at = "unlink" /\ LoopFree /\ q \in rt.todo /\ \A r \in rt.todo : r <= q
    /\ \/ /\ qfile' = [qfile EXCEPT ![q] = NoFile]
          /\ purged' = purged \cup LastCopy(q)
       \/ UNCHANGED <<qfile, purged>>
    /\ rt' = [rt EXCEPT !.at = "delete", !.todo = @ \ {q}]
    /\ UNCHANGED <<disk, meta, row, taken, expired, policyOn, cl, rs, born, replaced, spoiled>>

RetentionCommit ==
    /\ rt.at = "delete" /\ rt.todo = {}
    /\ row' = [q \in Qid |-> IF q \in rt.gone THEN "deleted" ELSE row[q]]
    /\ rt' = IdleRt
    /\ UNCHANGED <<files, taken, expired, policyOn, cl, rs, hist>>

\* A database error rolls the DELETEs back, not the unlinks.
RetentionFails ==
    /\ rt.at = "delete"
    /\ rt' = IdleRt
    /\ UNCHANGED <<files, row, taken, expired, policyOn, cl, rs, hist>>
-----------------------------------------------------------------------------
(* The environment: other programs, the clock, the settings page, a crash.   *)

AppWrites(b) ==
    /\ b \notin born /\ disk[HomeOf[b]] = NoFile
    /\ disk' = [disk EXCEPT ![HomeOf[b]] = b]
    /\ born' = born \cup {b}
    /\ UNCHANGED <<qfile, meta, row, taken, expired, policyOn, cl, rs, rt, purged, replaced, spoiled>>

RowAges(q) ==
    /\ q \in Rows \ expired
    /\ expired' = expired \cup {q}
    /\ UNCHANGED <<files, row, taken, policyOn, cl, rs, rt, hist>>

SetRetention ==
    /\ ~WriteLocked
    /\ policyOn' = ~policyOn
    /\ UNCHANGED <<files, row, taken, expired, cl, rs, rt, hist>>

Crash ==
    /\ cl' = [c \in Cleaner |-> IdleCl]
    /\ rs' = [r \in Restorer |-> IdleRs]
    /\ rt' = IdleRt
    /\ UNCHANGED <<files, row, taken, expired, policyOn, hist>>
-----------------------------------------------------------------------------
CleanerStep(c) ==
    \/ QuarantineCopied(c) \/ QuarantineUnlink(c) \/ QuarantineMeta(c)
    \/ QuarantineInsert(c) \/ QuarantineFails(c)

RestorerStep(r) ==
    \/ RestoreCopied(r) \/ RestoreUnlink(r)
    \/ RestoreUpdate(r) \/ RestoreRmtree(r) \/ RestoreFails(r)

RetentionStep ==
    \/ \E q \in Qid : RetentionDelete(q) \/ RetentionUnlink(q)
    \/ RetentionCommit \/ RetentionFails

Next ==
    \/ \E c \in Cleaner : \/ CleanerStep(c)
                          \/ \E p \in Path, q \in Qid : \/ QuarantineRename(c, p, q)
                                                        \/ QuarantineCopy(c, p, q)
    \/ \E r \in Restorer : \/ RestorerStep(r)
                           \/ \E q \in Qid : RestoreRename(r, q) \/ RestoreCopy(r, q)
    \/ RetentionList \/ RetentionStep
    \/ \E b \in Body : AppWrites(b)
    \/ \E q \in Qid : RowAges(q)
    \/ SetRetention
    \/ Crash

Spec == Init /\ [][Next]_vars

\* A started handler is answered by SQLite and resumed by the event loop,
\* whose ready queue is first-in first-out: a handler that is ready again and
\* again, between the synchronous sections of others, gets its turn.
Fairness == /\ \A c \in Cleaner : WF_vars(CleanerStep(c))
            /\ \A r \in Restorer : SF_vars(RestorerStep(r))
            /\ SF_vars(RetentionStep)

FairSpec == Spec /\ Fairness
-----------------------------------------------------------------------------
(* Properties.                                                               *)

OnDisk(b) == disk[HomeOf[b]] = b
Held(b) == \E q \in Qid : qfile[q] = b

(* Cleaning, restoring, retention and a crash anywhere in them never lose a  *)
(* file: every body is at its path or in quarantine, unless retention purged *)
(* its last copy, or a restore put another body of the same path over it, or *)
(* a fragment that a cleanup took where an earlier restore had broken off.   *)
Custody ==
    \A b \in born : OnDisk(b) \/ Held(b) \/ b \in purged \/ b \in replaced \/ b \in spoiled

(* What an active row of quarantine_entries offers to restore is what was    *)
(* taken, or nothing (already moved out).  So a file that was whole when it  *)
(* was taken is never offered torn, nor under another file's row, and its    *)
(* meta.json still names the path it came from; a row may offer a fragment   *)
(* only if it was one when it was taken.                                     *)
ListedIsBacked ==
    \A q \in Qid : row[q] = "active" =>
        /\ taken[q] # Nil
        /\ meta[q] # Nil
        /\ taken[q] \in Body => meta[q] = HomeOf[taken[q]]
        /\ qfile[q] \in {taken[q], NoFile}

(* A complete file leaves the quarantine directory only if it is back at its *)
(* original path, or its entry was past the retention cutoff; a list read    *)
(* before other handlers ran must not make that false.                       *)
LeavesHomeOrExpired ==
    [][\A q \in Qid : (qfile[q] \in Body /\ qfile'[q] # qfile[q])
          => disk'[HomeOf[qfile[q]]] = qfile[q] \/ (q \in expired /\ row[q] # "restored")]_vars

(* The files of the detailed handlers move as FileCustody allows.            *)
Promise == INSTANCE FileCustody WITH
    loc <- [b \in Body |-> IF b \notin born THEN "unborn"
                           ELSE IF OnDisk(b) THEN "home"
                           ELSE IF Held(b) THEN "held"
                           ELSE IF b \in purged THEN "purged"
                           ELSE IF b \in spoiled THEN "spoiled" ELSE "replaced"],
    aged <- {b \in Body : \E q \in expired : taken[q] = b},
    fragments <- {p \in Path : \E q \in Qid : qfile[q] = Torn /\ meta[q] = p}
KeepsPromise == Promise!Spec

(* No handler waits for ever, for the event loop or for the write lock that  *)
(* an open retention transaction holds.                                      *)
HandlersFinish ==
    /\ \A c \in Cleaner : cl[c].at # "idle" ~> cl[c].at = "idle"
    /\ \A r \in Restorer : rs[r].at # "idle" ~> rs[r].at = "idle"
    /\ rt.at # "idle" ~> rt.at = "idle"

(* README: file moves go to quarantine first, with rollback.  Outside a      *)
(* running cleanup, a file that is only in quarantine has a row to restore.   *)
RollbackAvailable ==
    (\A c \in Cleaner : cl[c].at = "idle") =>
        \A b \in Body : (Held(b) /\ ~OnDisk(b)) =>
            \E q \in Rows : qfile[q] = b /\ meta[q] # Nil

(* README: file moves go to quarantine first, with rollback.  No rollback    *)
(* destroys the good file that another one has brought back.                 *)
NothingSpoiled == spoiled = {}

(* SETTINGS.md: expired quarantine rows are purged at scan start.  A pass    *)
(* that commits has removed every row that was expired when it began.        *)
ExpiredRowsPurged == [][RetentionCommit => \A q \in rt.due : row'[q] # "active"]_vars
=============================================================================
