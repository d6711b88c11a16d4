---------------------------- MODULE CleanupSession ----------------------------
(***************************************************************************)
(* The cleanup protocol of the API: scan, preview, execute, with the       *)
(* permission mode, the settings and the scan flag that gate them.  A      *)
(* request is a coroutine: an action is the code between two awaits, and   *)
(* every other request, and a mode or settings change, may come between    *)
(* two of its actions.  Quarantine.tla has the file calls of one move.     *)
(***************************************************************************)
EXTENDS CleanupPolicy, Naturals, FiniteSets

CONSTANTS
    Request,   \* concurrent HTTP requests
    Item,      \* item ids; the same in every scan, by design
    Scan,      \* the scans that ever complete, 1 the first
    FactsOf,   \* what each scan recorded about each item
    Preview,   \* preview tokens
    Modes,     \* permission modes the user switches between
    Choices,   \* preferences the user switches between
    Bodies,    \* what clients select: item ids and the two flags
    None

Prefs == [advanced : BOOLEAN, permanent : BOOLEAN]
Session == [scan : Scan, ids : SUBSET Item, confirm : BOOLEAN, bin : BOOLEAN,
            prefs : Prefs, will : SUBSET Item, blocked : SUBSET Item]

ASSUME SessionAssumption ==
    /\ Scan \subseteq Nat \ {0}
    /\ FactsOf \in [Scan -> [Item -> Facts]]
    /\ None \notin Session
    /\ Choices \subseteq Prefs
    /\ Bodies \subseteq [ids : SUBSET Item, confirm : BOOLEAN, bin : BOOLEAN]
    /\ Modes \subseteq {"read_only", "assisted", "performance"}

VARIABLES
    mode, prefs,   \* settings table: permission_mode, user preferences
    latest,        \* the newest scan in the database; 0: none
    present,       \* items whose file is at its path
    scanning,      \* _scan_in_progress
    live,          \* keys of _previews
    old,           \* previews created more than an hour ago
    req,           \* the requests in flight
    issued,        \* history: each token's CleanupPreviewSession
    moved,         \* history: what the executions moved
    uses,          \* history: how often a token was consumed
    audited,       \* history: tokens whose execution was audited
    emptied        \* history: how the recycle bin came to be emptied
hist == <<issued, moved, uses, audited, emptied>>
vars == <<mode, prefs, latest, present, scanning, live, old, req, hist>>

Idle == [at |-> "idle"]
Idles == {r \in Request : req[r].at = "idle"}
Body(ids, confirm, bin) == [ids |-> ids, confirm |-> confirm, bin |-> bin]

PreviewSteps == {"pv_latest", "pv_prefs"}
ExecuteSteps == {"ex_mode", "ex_prefs", "ex_latest", "ex_item", "ex_insert",
                 "ex_error", "ex_audit"}
ScanSteps == {"sc_mode", "sc_run", "sc_end"}

TypeOK ==
    /\ mode \in {"read_only", "assisted", "performance"}
    /\ prefs \in Prefs
    /\ latest \in Scan \cup {0}
    /\ present \subseteq Item
    /\ scanning \in BOOLEAN
    /\ live \subseteq Preview
    /\ old \subseteq Preview
    /\ issued \in [Preview -> Session \cup {None}]
    /\ \A r \in Request : req[r].at \in {"idle"} \cup PreviewSteps \cup ExecuteSteps \cup ScanSteps
    /\ \A m \in moved : m.pid \in Preview /\ m.item \in Item
    /\ uses \in [Preview -> Nat]
    /\ audited \subseteq Preview

Init ==
    /\ mode = "read_only"
    /\ prefs = [advanced |-> FALSE, permanent |-> FALSE]
    /\ latest = 0
    /\ present = Item
    /\ scanning = FALSE
    /\ live = {}
    /\ old = {}
    /\ req = [r \in Request |-> Idle]
    /\ issued = [v \in Preview |-> None]
    /\ moved = {}
    /\ uses = [v \in Preview |-> 0]
    /\ audited = {}
    /\ emptied = {}

Answer(r) == req' = [req EXCEPT ![r] = Idle]
Goto(r, step) == req' = [req EXCEPT ![r].at = step]
-----------------------------------------------------------------------------
(* POST /api/scan and run_full_scan.                                         *)

ScanStart(r) ==
    /\ r \in Idles /\ ~scanning
    /\ req' = [req EXCEPT ![r] = [at |-> "sc_mode"]]
    /\ UNCHANGED <<mode, prefs, latest, present, scanning, live, old, hist>>

\* Mutant: only the route tests the flag.
BeginUntested(r) ==
    /\ req[r].at = "sc_mode"
    /\ Goto(r, "sc_run") /\ scanning' = TRUE
    /\ UNCHANGED <<mode, prefs, latest, present, live, old, hist>>

\* After the await of the mode the flag is tested again, and then set.
ScanBegin(r) ==
    /\ req[r].at = "sc_mode"
    /\ IF scanning THEN Answer(r) /\ UNCHANGED scanning
                   ELSE Goto(r, "sc_run") /\ scanning' = TRUE
    /\ UNCHANGED <<mode, prefs, latest, present, live, old, hist>>

ScanPersist(r) ==
    /\ req[r].at = "sc_run" /\ latest + 1 \in Scan
    /\ latest' = latest + 1
    /\ Goto(r, "sc_end")
    /\ UNCHANGED <<mode, prefs, present, scanning, live, old, hist>>

\* The audit entry is written, or an exception ends the scan anywhere in it.
ScanEnd(r) ==
    /\ req[r].at \in {"sc_run", "sc_end"}
    /\ scanning' = FALSE
    /\ Answer(r)
    /\ UNCHANGED <<mode, prefs, latest, present, live, old, hist>>
-----------------------------------------------------------------------------
(* POST /api/cleanup/preview.                                                *)

\* The bound on tokens: a preview starts only if one is left for it.
TokenLeft == Cardinality({v \in Preview : issued[v] = None})
                > Cardinality({r \in Request : req[r].at \in PreviewSteps})

PreviewStart(r, b) ==
    /\ r \in Idles /\ ~scanning /\ TokenLeft
    /\ req' = [req EXCEPT ![r] = [at |-> "pv_latest", body |-> b]]
    /\ UNCHANGED <<mode, prefs, latest, present, scanning, live, old, hist>>

PreviewLatest(r) ==
    /\ req[r].at = "pv_latest"
    /\ IF latest = 0 \/ req[r].body.ids = {}
       THEN Answer(r)
       ELSE req' = [req EXCEPT ![r] = [at |-> "pv_prefs", body |-> req[r].body, scan |-> latest]]
    /\ UNCHANGED <<mode, prefs, latest, present, scanning, live, old, hist>>

\* Items of ids whose verdict is status, of those still on disk.
Shown(ids, scan, confirm, status) ==
    {i \in ids : /\ PreviewStatus(FactsOf[scan][i], confirm, prefs.advanced) = status
                 /\ status = "will_quarantine" => i \in present}

\* store_cleanup_preview also drops the previews older than an hour.
PreviewStore(r, v) ==
    /\ req[r].at = "pv_prefs" /\ issued[v] = None
    /\ LET b == req[r].body
           s == req[r].scan
       IN  IF b.bin /\ ~prefs.permanent
           THEN UNCHANGED <<issued, live>>
           ELSE /\ issued' = [issued EXCEPT ![v] =
                      [scan |-> s, ids |-> b.ids, confirm |-> b.confirm, bin |-> b.bin,
                       prefs |-> prefs,
                       will |-> Shown(b.ids, s, b.confirm, "will_quarantine"),
                       blocked |-> Shown(b.ids, s, b.confirm, "blocked")]]
                /\ live' = (live \cup {v}) \ old
    /\ Answer(r)
    /\ UNCHANGED <<mode, prefs, latest, present, scanning, old, moved, uses, audited, emptied>>
-----------------------------------------------------------------------------
(* POST /api/cleanup/execute and assisted_cleanup.                           *)

ExecuteStart(r, v, b, permanent) ==
    /\ r \in Idles /\ ~scanning
    /\ issued[v] # None
    /\ req' = [req EXCEPT ![r] = [at |-> "ex_mode", pid |-> v, body |-> b, permanent |-> permanent]]
    /\ UNCHANGED <<mode, prefs, latest, present, scanning, live, old, hist>>

\* Mutant: the token is looked up, not taken out.
KeepToken(r) ==
    /\ req[r].at = "ex_mode"
    /\ LET v == req[r].pid
           s == issued[v]
       IN  IF mode # "assisted" \/ v \notin live \/ req[r].body # Body(s.ids, s.confirm, s.bin)
           THEN Answer(r) /\ UNCHANGED uses
           ELSE uses' = [uses EXCEPT ![v] = @ + 1] /\ Goto(r, "ex_prefs")
    /\ UNCHANGED <<mode, prefs, latest, present, scanning, live, old, issued, moved, audited, emptied>>

\* The token is consumed before the request is compared with it.
ExecuteConsume(r) ==
    /\ req[r].at = "ex_mode"
    /\ LET v == req[r].pid
           s == issued[v]
       IN  IF mode # "assisted" \/ v \notin live
           THEN Answer(r) /\ UNCHANGED <<live, uses>>
           ELSE /\ live' = live \ {v}
                /\ uses' = [uses EXCEPT ![v] = @ + 1]
                /\ IF req[r].body = Body(s.ids, s.confirm, s.bin)
                   THEN Goto(r, "ex_prefs") ELSE Answer(r)
    /\ UNCHANGED <<mode, prefs, latest, present, scanning, old, issued, moved, audited, emptied>>

\* Mutant: the setting alone admits the recycle bin.
NoPermanentConfirm(r) ==
    /\ req[r].at = "ex_prefs"
    /\ IF req[r].body.bin /\ ~prefs.permanent
       THEN Answer(r)
       ELSE req' = [req EXCEPT ![r] = [at |-> "ex_latest", pid |-> req[r].pid, body |-> req[r].body,
                                       permanent |-> req[r].permanent, prefs |-> prefs]]
    /\ UNCHANGED <<mode, prefs, latest, present, scanning, live, old, hist>>

ExecutePrefs(r) ==
    /\ req[r].at = "ex_prefs"
    /\ IF req[r].body.bin /\ ~(prefs.permanent /\ req[r].permanent)
       THEN Answer(r)
       ELSE req' = [req EXCEPT ![r] = [at |-> "ex_latest", pid |-> req[r].pid, body |-> req[r].body,
                                       permanent |-> req[r].permanent, prefs |-> prefs]]
    /\ UNCHANGED <<mode, prefs, latest, present, scanning, live, old, hist>>

\* Mutant: the ids are trusted to mean what they meant in the preview.
AnyLatest(r) ==
    /\ req[r].at = "ex_latest"
    /\ req' = [req EXCEPT ![r] = [at |-> "ex_item", pid |-> req[r].pid, body |-> req[r].body,
                                  permanent |-> req[r].permanent, prefs |-> req[r].prefs,
                                  scan |-> latest, todo |-> req[r].body.ids]]
    /\ UNCHANGED <<mode, prefs, latest, present, scanning, live, old, hist>>

ExecuteLatest(r) ==
    /\ req[r].at = "ex_latest"
    /\ IF latest # issued[req[r].pid].scan
       THEN Answer(r)
       ELSE req' = [req EXCEPT ![r] = [at |-> "ex_item", pid |-> req[r].pid, body |-> req[r].body,
                                       permanent |-> req[r].permanent, prefs |-> req[r].prefs,
                                       scan |-> latest, todo |-> req[r].body.ids]]
    /\ UNCHANGED <<mode, prefs, latest, present, scanning, live, old, hist>>

TakeItem(r, i, step) == req' = [req EXCEPT ![r].at = step, ![r].todo = @ \ {i}]

SkipsItem(r, i) ==
    ExecuteSkips(FactsOf[req[r].scan][i], req[r].body.confirm, req[r].prefs.advanced)

ExecuteSkip(r, i) ==
    /\ req[r].at = "ex_item" /\ i \in req[r].todo
    /\ SkipsItem(r, i) \/ i \notin present
    /\ TakeItem(r, i, "ex_item")
    /\ UNCHANGED <<mode, prefs, latest, present, scanning, live, old, hist>>

\* The file is moved at once; the INSERT of quarantine_path is awaited.  An
\* empty Start-menu folder is removed without quarantine.
ExecuteMove(r, i) ==
    /\ req[r].at = "ex_item" /\ i \in req[r].todo
    /\ ~SkipsItem(r, i) /\ i \in present
    /\ present' = present \ {i}
    /\ moved' = moved \cup {[pid |-> req[r].pid, item |-> i, scan |-> req[r].scan,
                             prefs |-> req[r].prefs]}
    /\ TakeItem(r, i, IF FactsOf[req[r].scan][i].hint = "startmenu" THEN "ex_item" ELSE "ex_insert")
    /\ UNCHANGED <<mode, prefs, latest, scanning, live, old, issued, uses, audited, emptied>>

\* An OSError is recorded and audited, and the loop goes on.
ExecuteOSError(r, i) ==
    /\ req[r].at = "ex_item" /\ i \in req[r].todo
    /\ ~SkipsItem(r, i)
    /\ TakeItem(r, i, "ex_error")
    /\ UNCHANGED <<mode, prefs, latest, present, scanning, live, old, hist>>

ExecuteResume(r) ==
    /\ req[r].at \in {"ex_insert", "ex_error"}
    /\ Goto(r, "ex_item")
    /\ UNCHANGED <<mode, prefs, latest, present, scanning, live, old, hist>>

\* A database error of an awaited INSERT ends the request with 500.
ExecuteDbError(r) ==
    /\ req[r].at \in {"ex_insert", "ex_error", "ex_audit"}
    /\ Answer(r)
    /\ UNCHANGED <<mode, prefs, latest, present, scanning, live, old, hist>>

\* After the last item, under the settings loaded before the first one.
ExecuteRecycleBin(r) ==
    /\ req[r].at = "ex_item" /\ req[r].todo = {}
    /\ emptied' = IF req[r].body.bin /\ req[r].prefs.permanent
                  THEN emptied \cup {[pid |-> req[r].pid, confirmed |-> req[r].permanent]}
                  ELSE emptied
    /\ Goto(r, "ex_audit")
    /\ UNCHANGED <<mode, prefs, latest, present, scanning, live, old, issued, moved, uses, audited>>

\* Mutant: the audit names the items instead of the preview.
AuditItems(r) ==
    /\ req[r].at = "ex_audit"
    /\ audited' = audited \cup req[r].body.ids
    /\ Answer(r)
    /\ UNCHANGED <<mode, prefs, latest, present, scanning, live, old, issued, moved, uses, emptied>>

ExecuteAudit(r) ==
    /\ req[r].at = "ex_audit"
    /\ audited' = audited \cup {req[r].pid}
    /\ Answer(r)
    /\ UNCHANGED <<mode, prefs, latest, present, scanning, live, old, issued, moved, uses, emptied>>
-----------------------------------------------------------------------------
(* POST /api/mode, PUT /api/settings, the clock, other programs, a restart.  *)

SetMode(m) ==
    /\ mode # m /\ mode' = m
    /\ UNCHANGED <<prefs, latest, present, scanning, live, old, req, hist>>

PutSettings(p) ==
    /\ prefs # p /\ prefs' = p
    /\ UNCHANGED <<mode, latest, present, scanning, live, old, req, hist>>

\* Requests take seconds: the hour passes between them.
HourPasses(v) ==
    /\ v \in live \ old /\ Idles = Request
    /\ old' = old \cup {v}
    /\ UNCHANGED <<mode, prefs, latest, present, scanning, live, req, hist>>

FileReturns(i) ==
    /\ i \notin present
    /\ present' = present \cup {i}
    /\ UNCHANGED <<mode, prefs, latest, scanning, live, old, req, hist>>

Restart ==
    /\ scanning' = FALSE
    /\ live' = {}
    /\ req' = [r \in Request |-> Idle]
    /\ UNCHANGED <<mode, prefs, latest, present, old, hist>>
-----------------------------------------------------------------------------
RequestStep(r) ==
    \/ ScanBegin(r) \/ ScanPersist(r) \/ ScanEnd(r)
    \/ PreviewLatest(r) \/ \E v \in Preview : PreviewStore(r, v)
    \/ ExecuteConsume(r) \/ ExecutePrefs(r) \/ ExecuteLatest(r)
    \/ \E i \in Item : ExecuteSkip(r, i) \/ ExecuteMove(r, i) \/ ExecuteOSError(r, i)
    \/ ExecuteResume(r) \/ ExecuteDbError(r) \/ ExecuteRecycleBin(r) \/ ExecuteAudit(r)

RequestStart(r) ==
    \/ ScanStart(r)
    \/ \E b \in Bodies : \/ PreviewStart(r, b)
                         \/ \E v \in Preview, permanent \in BOOLEAN :
                               ExecuteStart(r, v, b, permanent)

Next ==
    \/ \E r \in Request : RequestStep(r) \/ RequestStart(r)
    \/ \E m \in Modes : SetMode(m)
    \/ \E p \in Choices : PutSettings(p)
    \/ \E v \in Preview : HourPasses(v)
    \/ \E i \in Item : FileReturns(i)
    \/ Restart

Spec == Init /\ [][Next]_vars
-----------------------------------------------------------------------------
(* Properties.                                                               *)

(* At most one scan runs, and the flag says so exactly: the route's own test *)
(* is stale by the time the mode has been read, and every exit of a scan,    *)
(* an exception and a restart among them, clears the flag.                   *)
OneScan ==
    /\ \A r, s \in Request : req[r].at \in {"sc_run", "sc_end"}
                             /\ req[s].at \in {"sc_run", "sc_end"} => r = s
    /\ scanning = \E r \in Request : req[r].at \in {"sc_run", "sc_end"}

(* A preview authorises one execution, however many requests present it.     *)
SingleUse == \A v \in Preview : uses[v] <= 1

(* Item ids repeat from scan to scan: a file is moved on the strength of the *)
(* very scan whose facts the user previewed, and only if it was in the set.  *)
MovesMatchPreview ==
    \A m \in moved : /\ issued[m.pid] # None
                      /\ m.item \in issued[m.pid].ids
                      /\ m.scan = issued[m.pid].scan

(* Under unchanged settings, execute never moves what the preview blocked,   *)
(* though the two decide in different code and in a different order.         *)
BlockedStaysBlocked ==
    \A m \in moved : m.prefs = issued[m.pid].prefs => m.item \notin issued[m.pid].blocked

(* The recycle bin is emptied only by an execution whose preview asked for   *)
(* it and whose request repeated the permanent-delete confirmation.          *)
EmptiedByConsent == \A e \in emptied : issued[e.pid].bin /\ e.confirmed

-----------------------------------------------------------------------------
(* Sentences of the documentation that the code does not keep; each fails in *)
(* the model (see the README).                                               *)

(* README: in read-only mode there are no destructive operations.            *)
ReadOnlyMovesNothing == [][mode = "read_only" => present \subseteq present']_vars

(* README: preview sessions expire after about an hour.                      *)
PreviewsExpire == [][\A v \in old : uses'[v] = uses[v]]_vars

(* README: every cleanup action is written to a local audit log.             *)
CleanupsAudited ==
    \A m \in moved : \/ m.pid \in audited
                      \/ \E r \in Request : req[r].at \in ExecuteSteps /\ req[r].pid = m.pid

(* CleanupReview.tsx: items shown as blocked will not be changed.            *)
BlockedNeverMoved == \A m \in moved : m.item \notin issued[m.pid].blocked
=============================================================================
