---------------------------- MODULE CleanupProofs ----------------------------
(***************************************************************************)
(* The cleanup protocol keeps the user's consent: theorems about           *)
(* CleanupPolicy and CleanupSession for every number of requests, scans,   *)
(* previews and items, whatever the scans recorded.                        *)
(***************************************************************************)
EXTENDS CleanupSession, TLAPS

(* What preview_cleanup_items shows as blocked, assisted_cleanup skips under *)
(* the same flags, for every item a scan can record.                         *)
THEOREM BlockedIsSkipped ==
  ASSUME NEW f \in Facts, NEW confirm \in BOOLEAN, NEW advanced \in BOOLEAN,
         PreviewStatus(f, confirm, advanced) = "blocked"
  PROVE  ExecuteSkips(f, confirm, advanced)
  BY DEF PreviewStatus, ExecuteSkips, Facts, Buckets, Protected, BucketAdmitted
-----------------------------------------------------------------------------
(* The inductive invariant.                                                  *)

BodyType == [ids : SUBSET Item, confirm : BOOLEAN, bin : BOOLEAN]

AtScan == [at : {"idle", "sc_mode", "sc_run", "sc_end"}]
AtPreview == [at : {"pv_latest"}, body : BodyType]
AtStore == [at : {"pv_prefs"}, body : BodyType, scan : Scan]
AtExecute == [at : {"ex_mode", "ex_prefs"}, pid : Preview, body : BodyType,
              permanent : BOOLEAN]
AtLatest == [at : {"ex_latest"}, pid : Preview, body : BodyType, permanent : BOOLEAN,
             prefs : Prefs]
AtItem == [at : {"ex_item", "ex_insert", "ex_error", "ex_audit"}, pid : Preview,
           body : BodyType, permanent : BOOLEAN, prefs : Prefs, scan : Scan,
           todo : SUBSET Item]
ReqType == AtScan \cup AtPreview \cup AtStore \cup AtExecute \cup AtLatest \cup AtItem

\* What a request holds at each of its awaits.
Requests == req \in [Request -> ReqType]

\* A token that was never issued, or not consumed yet, has no use.
Tokens == \A v \in Preview : /\ (issued[v] = None \/ v \in live) => uses[v] = 0
                             /\ uses[v] <= 1

\* A preview's blocked items are blocked under its own flags and settings.
Verdicts == \A v \in Preview : issued[v] # None =>
    \A i \in issued[v].blocked :
        PreviewStatus(FactsOf[issued[v].scan][i], issued[v].confirm, issued[v].prefs.advanced)
            = "blocked"

Confirmed == {"ex_prefs", "ex_latest", "ex_item", "ex_insert", "ex_error", "ex_audit"}
Loaded == {"ex_latest", "ex_item", "ex_insert", "ex_error", "ex_audit"}
Moving == {"ex_item", "ex_insert", "ex_error", "ex_audit"}

\* What an execution has compared with its preview by the time it is there.
Sound(x) ==
    /\ x.at \in ExecuteSteps => issued[x.pid] # None
    /\ x.at \in Confirmed =>
          x.body = Body(issued[x.pid].ids, issued[x.pid].confirm, issued[x.pid].bin)
    /\ x.at \in Loaded => (x.body.bin => x.permanent)
    /\ x.at \in Moving => /\ x.scan = issued[x.pid].scan
                          /\ x.todo \subseteq issued[x.pid].ids

Executions == \A r \in Request : Sound(req[r])

\* The histories name previews that were issued.
Histories == /\ \A m \in moved : m.pid \in Preview /\ m.item \in Item
             /\ \A e \in emptied : e.pid \in Preview /\ issued[e.pid] # None

IInv == /\ TypeOK /\ Requests /\ Tokens /\ Verdicts /\ Executions /\ Histories
        /\ OneScan /\ MovesMatchPreview /\ BlockedStaysBlocked /\ EmptiedByConsent

LEMMA InitIInv == Init => IInv
<1> SUFFICES ASSUME Init PROVE IInv
  OBVIOUS
<1>1. TypeOK
  BY DEF Init, TypeOK, Prefs, Idle
<1>2. Requests
  BY DEF Init, Requests, ReqType, AtScan, Idle
<1>3. Executions
  BY DEF Init, Executions, Sound, Idle, ExecuteSteps, Confirmed, Loaded, Moving
<1>4. OneScan
  BY DEF Init, OneScan, Idle
<1>5. Tokens /\ Verdicts /\ Histories
  BY DEF Init, Tokens, Verdicts, Histories
<1>6. MovesMatchPreview /\ BlockedStaysBlocked /\ EmptiedByConsent
  BY DEF Init, MovesMatchPreview, BlockedStaysBlocked, EmptiedByConsent
<1>7. QED
  BY <1>1, <1>2, <1>3, <1>4, <1>5, <1>6 DEF IInv
-----------------------------------------------------------------------------
(* Steps that change one request and none of the histories.                  *)

InScan(x) == x.at \in {"sc_run", "sc_end"}

\* What a history step and the clock need not look at again.
LEMMA HistoriesKeep ==
  ASSUME IInv, UNCHANGED hist, live' \subseteq live
  PROVE  /\ Tokens' /\ Verdicts' /\ Histories'
         /\ MovesMatchPreview' /\ BlockedStaysBlocked' /\ EmptiedByConsent'
  BY DEF IInv, hist, Tokens, Verdicts, Histories, MovesMatchPreview, BlockedStaysBlocked,
         EmptiedByConsent

\* Requests refines what TypeOK says of them.
LEMMA StepsInRange ==
  \A f \in [Request -> ReqType], r \in Request :
      f[r].at \in {"idle"} \cup PreviewSteps \cup ExecuteSteps \cup ScanSteps
  BY DEF ReqType, AtScan, AtPreview, AtStore, AtExecute, AtLatest, AtItem,
         PreviewSteps, ExecuteSteps, ScanSteps

LEMMA RequestKeeps ==
  ASSUME IInv, UNCHANGED issued,
         NEW r \in Request, NEW x \in ReqType, Sound(x), req' = [req EXCEPT ![r] = x]
  PROVE  Requests' /\ Executions'
<1>1. Requests'
  BY DEF IInv, Requests
<1>2. ASSUME NEW s \in Request PROVE Sound(req[s])'
  BY <1>2 DEF IInv, Requests, Executions, Sound
<1>3. QED
  BY <1>1, <1>2 DEF Executions

LEMMA ScanKeeps ==
  ASSUME IInv, UNCHANGED scanning,
         NEW r \in Request, NEW x, InScan(x) <=> InScan(req[r]), req' = [req EXCEPT ![r] = x]
  PROVE  OneScan'
<1>1. \A s \in Request : InScan(req'[s]) <=> InScan(req[s])
  BY DEF IInv, Requests
<1>2. QED
  BY <1>1 DEF IInv, OneScan, InScan

\* A step of one request that leaves everything else that IInv mentions alone.
LEMMA StepKeeps ==
  ASSUME IInv, UNCHANGED <<hist, scanning>>, live' \subseteq live,
         NEW r \in Request, NEW x \in ReqType, Sound(x),
         InScan(x) <=> InScan(req[r]), req' = [req EXCEPT ![r] = x],
         mode' = mode, prefs' = prefs, latest' = latest, old' = old,
         present' \subseteq Item
  PROVE  IInv'
<1>1. Requests' /\ Executions'
  BY RequestKeeps DEF hist
<1>2. OneScan'
  BY ScanKeeps
<1>3. TypeOK'
  BY <1>1, StepsInRange DEF IInv, TypeOK, Requests, hist
<1>5. QED
  BY <1>1, <1>2, <1>3, HistoriesKeep DEF IInv

\* The forms a request may have at its step.
LEMMA Forms ==
  ASSUME IInv, NEW r \in Request
  PROVE  /\ Sound(req[r])
         /\ req[r].at \in {"idle"} \cup ScanSteps => req[r] \in AtScan
         /\ req[r].at = "pv_latest" => req[r] \in AtPreview
         /\ req[r].at = "pv_prefs" => req[r] \in AtStore
         /\ req[r].at \in {"ex_mode", "ex_prefs"} => req[r] \in AtExecute
         /\ req[r].at = "ex_latest" => req[r] \in AtLatest
         /\ req[r].at \in Moving => req[r] \in AtItem
  BY DEF IInv, Requests, Executions, ReqType, AtScan, AtPreview, AtStore, AtExecute, AtLatest,
         AtItem, ScanSteps, Moving

LEMMA IdleForm == Idle \in ReqType /\ Sound(Idle) /\ ~InScan(Idle)
  BY DEF Idle, ReqType, AtScan, Sound, InScan, ExecuteSteps, Confirmed, Loaded, Moving

LEMMA AnswerKeeps ==
  ASSUME IInv, UNCHANGED <<mode, prefs, latest, present, scanning, old, hist>>,
         live' \subseteq live, NEW r \in Request, ~InScan(req[r]), Answer(r)
  PROVE  IInv'
<1>1. present' \subseteq Item
  BY DEF IInv, TypeOK
<1>2. QED
  BY <1>1, IdleForm, StepKeeps DEF Answer

LEMMA StartsKeep ==
  ASSUME IInv, NEW r \in Request, RequestStart(r)
  PROVE  IInv'
<1>1. present \subseteq Item /\ ~InScan(req[r])
  BY DEF IInv, TypeOK, InScan, RequestStart, ScanStart, PreviewStart, ExecuteStart, Idles
<1>2. CASE ScanStart(r)
  <2> DEFINE x == [at |-> "sc_mode"]
  <2>1. x \in ReqType /\ Sound(x) /\ ~InScan(x)
    BY DEF ReqType, AtScan, Sound, InScan, ExecuteSteps, Confirmed, Loaded, Moving
  <2>2. QED
    BY <1>1, <1>2, <2>1, StepKeeps DEF ScanStart
<1>3. ASSUME NEW b \in Bodies, PreviewStart(r, b) PROVE IInv'
  <2> DEFINE x == [at |-> "pv_latest", body |-> b]
  <2>1. x \in ReqType /\ Sound(x) /\ ~InScan(x)
    BY SessionAssumption
       DEF ReqType, AtPreview, BodyType, Sound, InScan, ExecuteSteps, Confirmed, Loaded, Moving
  <2>2. QED
    BY <1>1, <1>3, <2>1, StepKeeps DEF PreviewStart
<1>4. ASSUME NEW b \in Bodies, NEW v \in Preview, NEW permanent \in BOOLEAN,
             ExecuteStart(r, v, b, permanent)
      PROVE  IInv'
  <2> DEFINE x == [at |-> "ex_mode", pid |-> v, body |-> b, permanent |-> permanent]
  <2>1. x \in ReqType /\ Sound(x) /\ ~InScan(x)
    BY <1>4, SessionAssumption
       DEF ReqType, AtExecute, BodyType, Sound, InScan, ExecuteSteps, Confirmed, Loaded, Moving,
           ExecuteStart
  <2>2. QED
    BY <1>1, <1>4, <2>1, StepKeeps DEF ExecuteStart
<1>5. QED
  BY <1>2, <1>3, <1>4 DEF RequestStart

\* The flag follows the one scan that runs.
LEMMA ScansKeep ==
  ASSUME IInv, NEW r \in Request, ScanBegin(r) \/ ScanPersist(r) \/ ScanEnd(r)
  PROVE  IInv'
<1>1. req[r] \in AtScan /\ req[r].at \in {"sc_mode", "sc_run", "sc_end"}
  BY Forms DEF ScanBegin, ScanPersist, ScanEnd, ScanSteps
<1>2. \A x \in AtScan : x \in ReqType /\ Sound(x)
  BY DEF ReqType, AtScan, Sound, ExecuteSteps, Confirmed, Loaded, Moving
<1>3. Idle \in AtScan
  BY DEF Idle, AtScan
<1>4. present \subseteq Item
  BY DEF IInv, TypeOK
<1>5. CASE scanning /\ ScanBegin(r)
  <2>1. ~InScan(req[r])
    BY <1>5 DEF ScanBegin, InScan
  <2>2. QED
    BY <1>5, <2>1, AnswerKeeps DEF ScanBegin
<1>6. ASSUME ~(scanning /\ ScanBegin(r)) PROVE IInv'
  <2> DEFINE y == [at |-> IF ScanBegin(r) THEN "sc_run"
                          ELSE IF ScanPersist(r) THEN "sc_end" ELSE "idle"]
  <2>1. y \in AtScan /\ req' = [req EXCEPT ![r] = y]
    BY <1>1, <1>6 DEF ScanBegin, ScanPersist, ScanEnd, Answer, Goto, Idle, AtScan
  <2>2. Requests' /\ Executions'
    BY <1>2, <2>1, RequestKeeps DEF ScanBegin, ScanPersist, ScanEnd, hist
  <2>3. latest' \in Scan \cup {0} /\ scanning' \in BOOLEAN
    BY DEF IInv, TypeOK, ScanBegin, ScanPersist, ScanEnd
  <2>4. TypeOK'
    BY <2>2, <2>3, StepsInRange
       DEF IInv, TypeOK, Requests, ScanBegin, ScanPersist, ScanEnd, hist
  <2>5. OneScan'
    <3>1. CASE ScanBegin(r)
      BY <1>6, <2>1, <3>1 DEF IInv, Requests, OneScan, ScanBegin
    <3>2. CASE ScanPersist(r)
      <4>1. ~ScanBegin(r) /\ req[r].at = "sc_run" /\ UNCHANGED scanning
        BY <3>2 DEF ScanPersist, ScanBegin
      <4>2. InScan(y) <=> InScan(req[r])
        BY <3>2, <4>1 DEF InScan
      <4>3. QED
        BY <2>1, <4>1, <4>2, ScanKeeps
    <3>3. CASE ScanEnd(r)
      BY <3>3 DEF IInv, Requests, OneScan, ScanEnd, Answer, Idle
    <3>4. QED
      BY <3>1, <3>2, <3>3
  <2>6. QED
    BY <2>2, <2>4, <2>5, HistoriesKeep DEF IInv, ScanBegin, ScanPersist, ScanEnd
<1>7. QED
  BY <1>5, <1>6
LEMMA PreviewsKeep ==
  ASSUME IInv, NEW r \in Request, PreviewLatest(r) \/ \E v \in Preview : PreviewStore(r, v)
  PROVE  IInv'
<1>1. ~InScan(req[r])
  BY DEF InScan, PreviewLatest, PreviewStore
<1>2. CASE PreviewLatest(r)
  <2>1. CASE latest = 0 \/ req[r].body.ids = {}
    BY <1>1, <1>2, <2>1, AnswerKeeps DEF PreviewLatest
  <2>2. CASE ~(latest = 0 \/ req[r].body.ids = {})
    <3> DEFINE x == [at |-> "pv_prefs", body |-> req[r].body, scan |-> latest]
    <3>1. x \in ReqType /\ Sound(x) /\ ~InScan(x)
      BY <1>2, <2>2, Forms
         DEF IInv, TypeOK, PreviewLatest, ReqType, AtPreview, AtStore, Sound, InScan,
             ExecuteSteps, Confirmed, Loaded, Moving
    <3>2. present \subseteq Item
      BY DEF IInv, TypeOK
    <3>3. QED
      BY <1>1, <1>2, <2>2, <3>1, <3>2, StepKeeps DEF PreviewLatest
  <2>3. QED
    BY <2>1, <2>2
<1>3. ASSUME NEW v \in Preview, PreviewStore(r, v) PROVE IInv'
  <2> DEFINE b == req[r].body
             s == [scan |-> req[r].scan, ids |-> b.ids, confirm |-> b.confirm, bin |-> b.bin,
                   prefs |-> prefs,
                   will |-> Shown(b.ids, req[r].scan, b.confirm, "will_quarantine"),
                   blocked |-> Shown(b.ids, req[r].scan, b.confirm, "blocked")]
  <2>1. CASE b.bin /\ ~prefs.permanent
    BY <1>1, <1>3, <2>1, AnswerKeeps DEF PreviewStore, hist
  <2>2. CASE ~(b.bin /\ ~prefs.permanent)
    <3>1. /\ issued[v] = None /\ issued' = [issued EXCEPT ![v] = s]
          /\ live' = (live \cup {v}) \ old /\ Answer(r)
          /\ UNCHANGED <<mode, prefs, latest, present, scanning, old, moved, uses, audited, emptied>>
      BY <1>3, <2>2, Zenon DEF PreviewStore
    <3>2. s \in Session
      BY <1>3, Forms DEF IInv, TypeOK, PreviewStore, AtStore, BodyType, Session, Shown
    <3>3. s # None
      BY <3>2, SessionAssumption
    <3>4. \A w \in Preview : w # v => issued'[w] = issued[w]
      BY <3>1 DEF IInv, TypeOK
    <3>5. issued'[v] = s /\ issued' \in [Preview -> Session \cup {None}]
      BY <3>1, <3>2 DEF IInv, TypeOK
    <3>6. Requests' /\ Executions'
      <4>1. Requests'
        BY <3>1 DEF IInv, Requests, Answer, Idle, ReqType, AtScan
      <4>2. \A t \in Request : req'[t] = req[t] \/ req'[t].at = "idle"
        BY <3>1 DEF IInv, Requests, Answer, Idle
      <4>3. ASSUME NEW t \in Request PROVE Sound(req[t])'
        <5>1. CASE req'[t].at = "idle"
          BY <5>1 DEF Sound, ExecuteSteps, Confirmed, Loaded, Moving
        <5>2. CASE req'[t] = req[t] /\ req[t].at \in ExecuteSteps
          <6>1. req[t].pid \in Preview /\ Sound(req[t])
            BY <5>2, Forms DEF ExecuteSteps, Moving, AtExecute, AtLatest, AtItem
          <6>2. issued'[req[t].pid] = issued[req[t].pid]
            BY <3>1, <3>4, <5>2, <6>1 DEF Sound
          <6>3. QED
            BY <5>2, <6>1, <6>2 DEF Sound
        <5>3. CASE req'[t] = req[t] /\ req[t].at \notin ExecuteSteps
          BY <5>3 DEF Sound, ExecuteSteps, Confirmed, Loaded, Moving
        <5>4. QED
          BY <4>2, <5>1, <5>2, <5>3
      <4>4. QED
        BY <4>1, <4>3 DEF Executions
    <3>7. TypeOK'
      BY <3>1, <3>5, <3>6, StepsInRange DEF IInv, TypeOK, Requests
    <3>8. OneScan'
      BY <1>1, <3>1, ScanKeeps DEF Answer, InScan, Idle
    <3>9. Tokens'
      BY <3>1, <3>3, <3>4, <3>5 DEF IInv, Tokens, TypeOK
    <3>10. Verdicts'
      <4>1. \A i \in s.blocked :
                PreviewStatus(FactsOf[s.scan][i], s.confirm, s.prefs.advanced) = "blocked"
        BY DEF Shown
      <4>2. QED
        BY <3>4, <3>5, <4>1 DEF IInv, Verdicts
    <3>11. Histories' /\ MovesMatchPreview' /\ BlockedStaysBlocked' /\ EmptiedByConsent'
      BY <3>1, <3>4, <3>3, <3>5
         DEF IInv, Histories, MovesMatchPreview, BlockedStaysBlocked, EmptiedByConsent
    <3>12. QED
      BY <3>6, <3>7, <3>8, <3>9, <3>10, <3>11 DEF IInv
  <2>3. QED
    BY <2>1, <2>2
<1>4. QED
  BY <1>2, <1>3
\* An execution up to its item loop: what it reads, compares and consumes.
LEMMA ExecutionsBegin ==
  ASSUME IInv, NEW r \in Request, ExecuteConsume(r) \/ ExecutePrefs(r) \/ ExecuteLatest(r)
  PROVE  IInv'
<1>1. ~InScan(req[r]) /\ present \subseteq Item /\ Sound(req[r])
  BY Forms DEF IInv, TypeOK, InScan, ExecuteConsume, ExecutePrefs, ExecuteLatest
<1>2. CASE ExecuteConsume(r)
  <2> DEFINE v == req[r].pid
             s == issued[v]
  <2>1. req[r] \in AtExecute /\ req[r].at = "ex_mode" /\ v \in Preview
    BY <1>2, Forms DEF ExecuteConsume, AtExecute
  <2>2. CASE mode # "assisted" \/ v \notin live
    BY <1>1, <1>2, <2>2, AnswerKeeps DEF ExecuteConsume, hist
  <2>3. CASE ~(mode # "assisted" \/ v \notin live)
    <3>1. /\ live' = live \ {v} /\ uses' = [uses EXCEPT ![v] = @ + 1]
          /\ UNCHANGED <<mode, prefs, latest, present, scanning, old, issued, moved, audited, emptied>>
          /\ IF req[r].body = Body(s.ids, s.confirm, s.bin)
             THEN Goto(r, "ex_prefs") ELSE Answer(r)
      BY <1>2, <2>3, Zenon DEF ExecuteConsume
    <3>2. PICK x \in ReqType : /\ req' = [req EXCEPT ![r] = x]
                              /\ ~InScan(x) /\ Sound(x)
      <4>1. CASE req[r].body = Body(s.ids, s.confirm, s.bin)
        <5> DEFINE x == [req[r] EXCEPT !.at = "ex_prefs"]
        <5>1. req' = [req EXCEPT ![r] = x]
          BY <3>1, <4>1 DEF Goto
        <5>2. x \in ReqType /\ ~InScan(x)
          BY <2>1 DEF ReqType, AtExecute, InScan
        <5>3. Sound(x)
          BY <1>1, <2>1, <4>1 DEF Sound, AtExecute, ExecuteSteps, Confirmed, Loaded, Moving
        <5>4. QED
          BY <5>1, <5>2, <5>3
      <4>2. CASE req[r].body # Body(s.ids, s.confirm, s.bin)
        BY <3>1, <4>2, IdleForm DEF Answer
      <4>3. QED
        BY <4>1, <4>2
    <3>3. Requests' /\ Executions'
      BY <3>1, <3>2, RequestKeeps
    <3>4. OneScan'
      BY <1>1, <3>1, <3>2, ScanKeeps
    <3>5. uses' \in [Preview -> Nat]
      BY <2>1, <3>1 DEF IInv, TypeOK
    <3>6. TypeOK'
      BY <3>1, <3>3, <3>5, StepsInRange DEF IInv, TypeOK, Requests
    <3>7. Tokens'
      <4>1. issued[v] # None /\ uses[v] = 0
        BY <1>1, <2>1, <2>3 DEF IInv, Tokens, Sound, ExecuteSteps
      <4>2. QED
        BY <2>1, <3>1, <4>1 DEF IInv, TypeOK, Tokens
    <3>8. /\ Verdicts' /\ Histories'
          /\ MovesMatchPreview' /\ BlockedStaysBlocked' /\ EmptiedByConsent'
      BY <3>1 DEF IInv, Verdicts, Histories, MovesMatchPreview, BlockedStaysBlocked,
                  EmptiedByConsent
    <3>9. QED
      BY <3>3, <3>4, <3>6, <3>7, <3>8 DEF IInv
  <2>4. QED
    BY <2>2, <2>3
<1>3. CASE ExecutePrefs(r)
  <2>1. CASE req[r].body.bin /\ ~(prefs.permanent /\ req[r].permanent)
    BY <1>1, <1>3, <2>1, AnswerKeeps DEF ExecutePrefs
  <2>2. CASE ~(req[r].body.bin /\ ~(prefs.permanent /\ req[r].permanent))
    <3> DEFINE x == [at |-> "ex_latest", pid |-> req[r].pid, body |-> req[r].body,
                     permanent |-> req[r].permanent, prefs |-> prefs]
    <3>1. req[r] \in AtExecute /\ req[r].at = "ex_prefs"
      BY <1>3, Forms DEF ExecutePrefs
    <3>2. x \in ReqType /\ ~InScan(x)
      BY <3>1 DEF IInv, TypeOK, ReqType, AtExecute, AtLatest, InScan
    <3>3. Sound(x)
      BY <1>1, <2>2, <3>1 DEF Sound, AtExecute, ExecuteSteps, Confirmed, Loaded, Moving
    <3>4. QED
      BY <1>1, <1>3, <2>2, <3>2, <3>3, StepKeeps DEF ExecutePrefs
  <2>3. QED
    BY <2>1, <2>2
<1>4. CASE ExecuteLatest(r)
  <2>1. CASE latest # issued[req[r].pid].scan
    BY <1>1, <1>4, <2>1, AnswerKeeps DEF ExecuteLatest
  <2>2. CASE latest = issued[req[r].pid].scan
    <3> DEFINE x == [at |-> "ex_item", pid |-> req[r].pid, body |-> req[r].body,
                     permanent |-> req[r].permanent, prefs |-> req[r].prefs,
                     scan |-> latest, todo |-> req[r].body.ids]
    <3>1. req[r] \in AtLatest
      BY <1>4, Forms DEF ExecuteLatest
    <3>2. issued[req[r].pid] \in Session
      BY <1>1, <3>1 DEF IInv, TypeOK, Sound, AtLatest, ExecuteSteps
    <3>3. x \in ReqType /\ ~InScan(x)
      BY <2>2, <3>1, <3>2 DEF Session, ReqType, AtLatest, AtItem, BodyType, InScan
    <3>4. Sound(x)
      BY <1>1, <2>2, <3>1 DEF Sound, AtLatest, ExecuteSteps, Confirmed, Loaded, Moving, Body
    <3>5. QED
      BY <1>1, <1>4, <2>2, <3>3, <3>4, StepKeeps DEF ExecuteLatest
  <2>3. QED
    BY <2>1, <2>2
<1>5. QED
  BY <1>2, <1>3, <1>4

\* The steps of the item loop that move nothing.
LEMMA LoopKeeps ==
  ASSUME IInv, NEW r \in Request,
         \/ \E i \in Item : ExecuteSkip(r, i) \/ ExecuteOSError(r, i)
         \/ ExecuteResume(r) \/ ExecuteDbError(r)
  PROVE  IInv'
<1>1. ~InScan(req[r]) /\ present \subseteq Item /\ Sound(req[r])
  BY Forms DEF IInv, TypeOK, InScan, ExecuteSkip, ExecuteOSError, ExecuteResume, ExecuteDbError
<1>2. req[r] \in AtItem
  BY Forms DEF Moving, ExecuteSkip, ExecuteOSError, ExecuteResume, ExecuteDbError
<1>3. CASE ExecuteDbError(r)
  BY <1>1, <1>3, AnswerKeeps DEF ExecuteDbError
<1>4. ASSUME NEW step \in Moving, NEW todo \in SUBSET req[r].todo,
             req' = [req EXCEPT ![r] = [req[r] EXCEPT !.at = step, !.todo = todo]],
             UNCHANGED <<mode, prefs, latest, present, scanning, live, old, hist>>
      PROVE  IInv'
  <2> DEFINE x == [req[r] EXCEPT !.at = step, !.todo = todo]
  <2>1. x \in ReqType /\ ~InScan(x)
    BY <1>2 DEF ReqType, AtItem, Moving, InScan
  <2>2. Sound(x)
    BY <1>1, <1>2 DEF Sound, AtItem, Moving, ExecuteSteps, Confirmed, Loaded
  <2>3. QED
    BY <1>1, <1>4, <2>1, <2>2, StepKeeps
<1>5. ASSUME NEW i \in Item, ExecuteSkip(r, i) \/ ExecuteOSError(r, i) PROVE IInv'
  <2>1. PICK step \in Moving :
           req' = [req EXCEPT ![r] = [req[r] EXCEPT !.at = step, !.todo = req[r].todo \ {i}]]
    BY <1>2, <1>5 DEF ExecuteSkip, ExecuteOSError, TakeItem, Moving, IInv, Requests, AtItem
  <2>2. QED
    BY <1>4, <1>5, <2>1 DEF ExecuteSkip, ExecuteOSError
<1>6. CASE ExecuteResume(r)
  <2>1. req' = [req EXCEPT ![r] = [req[r] EXCEPT !.at = "ex_item", !.todo = req[r].todo]]
    BY <1>2, <1>6 DEF ExecuteResume, Goto, AtItem
  <2>2. QED
    BY <1>4, <1>6, <2>1 DEF ExecuteResume, Moving
<1>7. QED
  BY <1>3, <1>5, <1>6
\* What is moved was selected in the preview, and not blocked by it.
LEMMA MoveKeeps ==
  ASSUME IInv, NEW r \in Request, NEW i \in Item, ExecuteMove(r, i)
  PROVE  IInv'
<1> DEFINE v == req[r].pid
           s == issued[v]
           m == [pid |-> v, item |-> i, scan |-> req[r].scan, prefs |-> req[r].prefs]
<1>1. req[r] \in AtItem /\ Sound(req[r]) /\ v \in Preview
  BY Forms DEF ExecuteMove, Moving, AtItem
<1>2. /\ s \in Session /\ s # None
      /\ req[r].body = Body(s.ids, s.confirm, s.bin)
      /\ req[r].scan = s.scan /\ req[r].todo \subseteq s.ids
  BY <1>1 DEF IInv, TypeOK, Sound, AtItem, ExecuteSteps, Confirmed, Moving
<1>3. PICK step \in Moving :
         req' = [req EXCEPT ![r] = [req[r] EXCEPT !.at = step, !.todo = req[r].todo \ {i}]]
  BY <1>1 DEF ExecuteMove, TakeItem, Moving, IInv, Requests, AtItem
<1> DEFINE x == [req[r] EXCEPT !.at = step, !.todo = req[r].todo \ {i}]
<1>4. x \in ReqType /\ Sound(x) /\ ~InScan(x) /\ ~InScan(req[r])
  BY <1>1 DEF ReqType, AtItem, Sound, InScan, ExecuteSteps, Confirmed, Loaded, Moving
<1>5. Requests' /\ Executions'
  BY <1>3, <1>4, RequestKeeps DEF ExecuteMove
<1>6. OneScan'
  BY <1>3, <1>4, ScanKeeps DEF ExecuteMove
<1>7. moved' = moved \cup {m} /\ m.pid \in Preview /\ m.item \in Item
  BY <1>1 DEF ExecuteMove
<1>8. TypeOK'
  BY <1>5, <1>7, StepsInRange DEF IInv, TypeOK, Requests, ExecuteMove
<1>9. Tokens' /\ Verdicts' /\ Histories' /\ EmptiedByConsent'
  BY <1>7 DEF IInv, Tokens, Verdicts, Histories, EmptiedByConsent, ExecuteMove
<1>10. MovesMatchPreview'
  BY <1>2, <1>7 DEF IInv, MovesMatchPreview, ExecuteMove
<1>11. BlockedStaysBlocked'
  <2>1. ASSUME m.prefs = s.prefs, i \in s.blocked PROVE FALSE
    <3>1. PreviewStatus(FactsOf[s.scan][i], s.confirm, s.prefs.advanced) = "blocked"
      BY <1>1, <1>2, <2>1 DEF IInv, Verdicts
    <3>2. FactsOf[s.scan][i] \in Facts /\ s.confirm \in BOOLEAN /\ s.prefs.advanced \in BOOLEAN
      <4>1. s.scan \in Scan /\ s.confirm \in BOOLEAN /\ s.prefs \in Prefs
        BY <1>2 DEF Session
      <4>2. FactsOf[s.scan] \in [Item -> Facts]
        BY <4>1, SessionAssumption
      <4>3. QED
        BY <4>1, <4>2 DEF Prefs
    <3>3. ExecuteSkips(FactsOf[s.scan][i], s.confirm, s.prefs.advanced)
      BY <3>1, <3>2, BlockedIsSkipped
    <3>4. SkipsItem(r, i)
      BY <1>2, <2>1, <3>3 DEF SkipsItem, Body
    <3>5. QED
      BY <3>4 DEF ExecuteMove
  <2>2. QED
    BY <1>7, <2>1 DEF IInv, BlockedStaysBlocked, ExecuteMove
<1>12. QED
  BY <1>5, <1>6, <1>8, <1>9, <1>10, <1>11 DEF IInv

\* The recycle bin and the audit entry, after the last item.
LEMMA ExecutionsEnd ==
  ASSUME IInv, NEW r \in Request, ExecuteRecycleBin(r) \/ ExecuteAudit(r)
  PROVE  IInv'
<1>1. /\ req[r] \in AtItem /\ Sound(req[r]) /\ ~InScan(req[r])
      /\ req[r].pid \in Preview /\ issued[req[r].pid] # None
  BY Forms DEF ExecuteRecycleBin, ExecuteAudit, Moving, AtItem, InScan, Sound, ExecuteSteps
<1>2. PICK x \in ReqType : req' = [req EXCEPT ![r] = x] /\ Sound(x) /\ ~InScan(x)
  <2>1. CASE ExecuteRecycleBin(r)
    <3> DEFINE x == [req[r] EXCEPT !.at = "ex_audit"]
    <3>1. x \in ReqType /\ Sound(x) /\ ~InScan(x)
      BY <1>1 DEF ReqType, AtItem, Sound, InScan, ExecuteSteps, Confirmed, Loaded, Moving
    <3>2. QED
      BY <2>1, <3>1 DEF ExecuteRecycleBin, Goto
  <2>2. CASE ExecuteAudit(r)
    BY <2>2, IdleForm DEF ExecuteAudit, Answer
  <2>3. QED
    BY <2>1, <2>2
<1>3. Requests' /\ Executions' /\ OneScan'
  BY <1>1, <1>2, RequestKeeps, ScanKeeps DEF ExecuteRecycleBin, ExecuteAudit
<1>4. TypeOK'
  BY <1>1, <1>3, StepsInRange
     DEF IInv, TypeOK, Requests, ExecuteRecycleBin, ExecuteAudit
<1>5. Tokens' /\ Verdicts' /\ MovesMatchPreview' /\ BlockedStaysBlocked'
  BY DEF IInv, Tokens, Verdicts, MovesMatchPreview, BlockedStaysBlocked, ExecuteRecycleBin,
         ExecuteAudit
<1>6. Histories' /\ EmptiedByConsent'
  <2>1. CASE ExecuteAudit(r)
    BY <2>1 DEF IInv, Histories, EmptiedByConsent, ExecuteAudit
  <2>2. CASE ExecuteRecycleBin(r)
    <3>1. req[r].body.bin => issued[req[r].pid].bin /\ req[r].permanent
      BY <1>1, <2>2 DEF Sound, ExecuteRecycleBin, Confirmed, Loaded, Body
    <3>2. QED
      BY <1>1, <2>2, <3>1 DEF IInv, Histories, EmptiedByConsent, ExecuteRecycleBin
  <2>3. QED
    BY <2>1, <2>2
<1>7. QED
  BY <1>3, <1>4, <1>5, <1>6 DEF IInv

\* The settings page, the clock, other programs and a restart.
LEMMA EnvironmentKeeps ==
  ASSUME IInv,
         \/ \E m \in Modes : SetMode(m)
         \/ \E p \in Choices : PutSettings(p)
         \/ \E v \in Preview : HourPasses(v)
         \/ \E i \in Item : FileReturns(i)
         \/ Restart
         \/ UNCHANGED vars
  PROVE  IInv'
<1>1. UNCHANGED hist /\ live' \subseteq live
  BY DEF SetMode, PutSettings, HourPasses, FileReturns, Restart, vars
<1>2. /\ mode' \in {"read_only", "assisted", "performance"} /\ prefs' \in Prefs
      /\ present' \subseteq Item /\ old' \subseteq Preview
  BY SessionAssumption
     DEF IInv, TypeOK, SetMode, PutSettings, HourPasses, FileReturns, Restart, vars
<1>3. CASE Restart
  <2>1. Requests' /\ Executions' /\ OneScan'
    BY <1>3 DEF Restart, Requests, ReqType, AtScan, Idle, Executions, Sound, OneScan,
                ExecuteSteps, Confirmed, Loaded, Moving
  <2>2. TypeOK'
    BY <1>1, <1>2, <1>3, <2>1, StepsInRange DEF IInv, TypeOK, Requests, Restart, hist
  <2>3. QED
    BY <1>1, <2>1, <2>2, HistoriesKeep DEF IInv
<1>4. CASE ~Restart
  <2>1. UNCHANGED <<req, scanning, latest, live>>
    BY <1>4 DEF SetMode, PutSettings, HourPasses, FileReturns, vars
  <2>2. Requests' /\ OneScan'
    BY <2>1 DEF IInv, Requests, OneScan
  <2>3. Executions'
    BY <1>1, <2>1 DEF IInv, Executions, Sound, hist
  <2>4. TypeOK'
    BY <1>1, <1>2, <2>1 DEF IInv, TypeOK, hist
  <2>5. QED
    BY <1>1, <2>2, <2>3, <2>4, HistoriesKeep DEF IInv
<1>5. QED
  BY <1>3, <1>4

LEMMA NextKeeps == IInv /\ [Next]_vars => IInv'
<1>1. ASSUME IInv, NEW r \in Request, RequestStep(r) PROVE IInv'
  BY <1>1, ScansKeep, PreviewsKeep, ExecutionsBegin, LoopKeeps, MoveKeeps, ExecutionsEnd
     DEF RequestStep
<1>2. QED
  BY <1>1, StartsKeep, EnvironmentKeeps DEF Next
-----------------------------------------------------------------------------
(* The theorems.                                                             *)

(* IInv is an invariant.                                                     *)
THEOREM Invariance == Spec => []IInv
  BY InitIInv, NextKeeps, PTL DEF Spec

(* Every variable keeps its type: the requests, previews and histories stay in range.*)
THEOREM TypeCorrect == Spec => []TypeOK
  BY Invariance, PTL DEF IInv

(* At most one scan runs, and the flag that refuses others says so exactly.  *)
THEOREM ScansExclude == Spec => []OneScan
  BY Invariance, PTL DEF IInv

(* A preview authorises at most one execution, however many requests present *)
(* its token at whatever moments, and through any restart.                   *)
THEOREM TokensAreSingleUse == Spec => []SingleUse
<1>1. IInv => SingleUse
  BY DEF IInv, Tokens, SingleUse
<1>2. QED
  BY <1>1, Invariance, PTL

(* Nothing is moved that the previewed scan did not describe and the user    *)
(* did not select.                                                           *)
THEOREM MovesWereSelected == Spec => []MovesMatchPreview
  BY Invariance, PTL DEF IInv

(* Nothing is moved that the preview blocked, unless settings changed since. *)
THEOREM BlockedNotMoved == Spec => []BlockedStaysBlocked
  BY Invariance, PTL DEF IInv

(* The recycle bin is emptied only by consent given twice.                   *)
THEOREM EmptyingNeedsConsent == Spec => []EmptiedByConsent
  BY Invariance, PTL DEF IInv
=============================================================================
