-------------------------- MODULE PerformanceProofs --------------------------
(***************************************************************************)
(* No suspended process goes astray: theorems about PerformanceSession for *)
(* every number of processes, pids, names and requests.                    *)
(***************************************************************************)
EXTENDS PerformanceSession, TLAPS

AtIdle == [at : {"idle"}]
AtMode == [at : {"mode"}, preset : Preset, targets : Target, confirm : BOOLEAN]
AtRestart == [at : {"restart"}, preset : Preset, targets : Target, todo : SUBSET Entry]
AtSuspend == [at : {"suspend"}, preset : Preset, targets : Target,
              todo : SUBSET Pid, done : SUBSET Entry]
AtStop == [at : {"stop"}, todo : SUBSET Entry]
AtAudit == [at : {"audit"}, of : {"start", "stop"}]
ReqType == AtIdle \cup AtMode \cup AtRestart \cup AtSuspend \cup AtStop \cup AtAudit

\* What a request holds at each of its steps.
Requests == req \in [Request -> ReqType]

Looping(r) == req[r].at \in {"restart", "suspend", "stop"}

\* A loop has no await: at most one request is inside one.
Exclusive == \A r, s \in Request : Looping(r) /\ Looping(s) => r = s

\* Only a process that was started has a pid.
Holders == \A i \in Pid : holder[i] # None => holder[i] \in born

\* No session, no list; and no session while a start is suspending.
Sessions == /\ ~session.active => session = NoSession
            /\ \A r \in Request : req[r].at = "suspend" => session = NoSession

\* What a stop has not come to yet still accounts for what it must resume.
Resuming == \A r \in Request : req[r].at \in {"restart", "stop"} =>
    \A p \in ours \ forgotten : \E e \in req[r].todo : e.was = p /\ holder[e.pid] = p

\* Every entry is of a process that the backend suspended.
Entries == /\ \A e \in session.list : e.was \in touched
           /\ \A r \in Request : req[r].at = "suspend" => \A e \in req[r].done : e.was \in touched
           /\ \A r \in Request : req[r].at \in {"restart", "stop"} =>
                 \A e \in req[r].todo : e.was \in touched

\* A preview lists whatever it saw that its targets admit.
Planned == plan.would = {p \in plan.seen : /\ Allowed(NameOf[p], plan.targets)
                                          /\ Filtered(NameOf[p], plan.targets)}

IInv == /\ TypeOK /\ Requests /\ Exclusive /\ Holders /\ Sessions /\ Resuming
        /\ Entries /\ Planned /\ Accounted

LEMMA InitIInv == Init => IInv
<1> SUFFICES ASSUME Init PROVE IInv
  OBVIOUS
<1>1. Requests /\ TypeOK
  BY DEF Init, Requests, TypeOK, ReqType, AtIdle, Idle, NoSession, NoPlan
<1>2. Exclusive /\ Holders /\ Sessions
  BY DEF Init, Exclusive, Looping, Holders, Sessions, Idle
<1>3. Resuming /\ Entries /\ Planned /\ Accounted
  BY DEF Init, Resuming, Entries, Planned, Accounted, Idle, NoSession, NoPlan
<1>4. QED
  BY <1>1, <1>2, <1>3 DEF IInv
-----------------------------------------------------------------------------
\* Requests refines what TypeOK says of them.
LEMMA FormsInRange ==
  \A f \in [Request -> ReqType], r \in Request :
      /\ f[r].at \in {"idle", "mode", "restart", "suspend", "stop", "audit"}
      /\ f[r].at \in {"restart", "stop"} => f[r].todo \subseteq Entry
      /\ f[r].at = "suspend" => f[r].todo \subseteq Pid /\ f[r].done \subseteq Entry
  BY DEF ReqType, AtIdle, AtMode, AtRestart, AtSuspend, AtStop, AtAudit

\* The form of a request at each of its steps.
LEMMA Forms ==
  ASSUME IInv, NEW r \in Request
  PROVE  /\ req[r].at = "idle" => req[r] \in AtIdle
         /\ req[r].at = "mode" => req[r] \in AtMode
         /\ req[r].at = "restart" => req[r] \in AtRestart
         /\ req[r].at = "suspend" => req[r] \in AtSuspend
         /\ req[r].at = "stop" => req[r] \in AtStop
         /\ req[r].at = "audit" => req[r] \in AtAudit
  BY DEF IInv, Requests, ReqType, AtIdle, AtMode, AtRestart, AtSuspend, AtStop, AtAudit

\* A request that is in no loop before or after a step of its own.
LEMMA QuietKeeps ==
  ASSUME IInv, NEW r \in Request, NEW x \in AtIdle \cup AtMode \cup AtAudit,
         ~Looping(r), req' = [req EXCEPT ![r] = x],
         UNCHANGED <<mode, holder, born, stopped, session, hist>>
  PROVE  IInv'
<1>1. /\ x \in ReqType /\ x.at \notin {"restart", "suspend", "stop"}
      /\ req[r].at \notin {"restart", "suspend", "stop"}
  BY DEF ReqType, AtIdle, AtMode, AtAudit, Looping
<1>2. Requests'
  BY <1>1 DEF IInv, Requests
<1>3. TypeOK'
  BY <1>2, FormsInRange DEF IInv, TypeOK, Requests, hist
<1>4. Exclusive' /\ Holders' /\ Sessions' /\ Planned'
  BY <1>1 DEF IInv, Requests, Exclusive, Looping, Holders, Sessions, Planned, hist
<1>5. Resuming' /\ Entries'
  BY <1>1 DEF IInv, Requests, Resuming, Entries, hist
<1>6. Accounted'
  BY <1>1 DEF IInv, Requests, Accounted, Tracked, hist
<1>7. QED
  BY <1>2, <1>3, <1>4, <1>5, <1>6 DEF IInv

\* A request enters a loop: no other one is in a loop.
LEMMA EntersLoop ==
  ASSUME IInv, NEW r \in Request, LoopFree, NEW x \in AtRestart \cup AtStop \cup AtSuspend,
         req' = [req EXCEPT ![r] = x],
         UNCHANGED <<mode, holder, born, stopped, session, hist>>,
         x.at # "suspend" => session.active /\ x.todo = session.list,
         x.at = "suspend" => ~session.active /\ x.done = {}
  PROVE  IInv'
<1>1. x \in ReqType
  BY DEF ReqType
<1>2. Requests'
  BY <1>1 DEF IInv, Requests
<1>3. TypeOK'
  BY <1>2, FormsInRange DEF IInv, TypeOK, Requests, hist
<1>4. Exclusive' /\ Holders' /\ Planned'
  BY DEF IInv, Requests, LoopFree, Exclusive, Looping, Holders, Planned, hist
<1>5. Sessions'
  BY DEF IInv, Requests, LoopFree, Sessions
<1>6. \A p \in ours \ forgotten : \E e \in session.list : e.was = p /\ holder[e.pid] = p
  BY DEF IInv, Accounted, Tracked, LoopFree
<1>7. Resuming'
  BY <1>6 DEF IInv, Requests, LoopFree, Resuming, AtSuspend, hist
<1>8. Entries'
  BY DEF IInv, Requests, LoopFree, Entries, AtSuspend, hist
<1>9. Accounted'
  BY <1>6 DEF Accounted, Tracked, hist
<1>10. QED
  BY <1>2, <1>3, <1>4, <1>5, <1>7, <1>8, <1>9 DEF IInv

LEMMA RequestsKeep ==
  ASSUME IInv, NEW r \in Request,
         \/ \E preset \in Preset, targets \in Target, confirm \in BOOLEAN :
               StartRequest(r, preset, targets, confirm)
         \/ StartChecked(r) \/ StopRequest(r) \/ Answer(r)
  PROVE  IInv'
<1>1. Idle \in AtIdle
  BY DEF Idle, AtIdle
<1>2. ASSUME NEW preset \in Preset, NEW targets \in Target, NEW confirm \in BOOLEAN,
             StartRequest(r, preset, targets, confirm)
      PROVE  IInv'
  <2>1. [at |-> "mode", preset |-> preset, targets |-> targets, confirm |-> confirm] \in AtMode
    BY DEF AtMode
  <2>2. QED
    BY <1>2, <2>1, QuietKeeps DEF StartRequest, Looping
<1>3. CASE Answer(r)
  BY <1>1, <1>3, QuietKeeps DEF Answer, Looping
<1>4. CASE StopRequest(r)
  <2>1. CASE session.active
    <3>1. [at |-> "stop", todo |-> session.list] \in AtStop
      BY DEF IInv, TypeOK, AtStop
    <3>2. QED
      BY <1>4, <2>1, <3>1, EntersLoop DEF StopRequest
  <2>2. CASE ~session.active
    <3>1. [at |-> "audit", of |-> "stop"] \in AtAudit
      BY DEF AtAudit
    <3>2. QED
      BY <1>4, <2>2, <3>1, QuietKeeps DEF StopRequest, Looping
  <2>3. QED
    BY <2>1, <2>2
<1>5. CASE StartChecked(r)
  <2>1. req[r] \in AtMode
    BY <1>5, Forms DEF StartChecked
  <2>2. CASE ~mode \/ ~req[r].confirm
    BY <1>1, <1>5, <2>2, QuietKeeps DEF StartChecked, Looping
  <2>3. CASE ~(~mode \/ ~req[r].confirm) /\ session.active
    <3> DEFINE x == [at |-> "restart", preset |-> req[r].preset, targets |-> req[r].targets,
                     todo |-> session.list]
    <3>1. x \in AtRestart
      BY <2>1 DEF IInv, TypeOK, AtRestart, AtMode
    <3>2. req' = [req EXCEPT ![r] = x]
      BY <1>5, <2>3 DEF StartChecked
    <3>3. QED
      BY <1>5, <2>3, <3>1, <3>2, EntersLoop DEF StartChecked
  <2>4. CASE ~(~mode \/ ~req[r].confirm) /\ ~session.active
    <3>1. Suspending(r) \in AtSuspend /\ Suspending(r).at = "suspend" /\ Suspending(r).done = {}
      BY <2>1 DEF Suspending, AtSuspend, AtMode, Live
    <3>2. req' = [req EXCEPT ![r] = Suspending(r)]
      BY <1>5, <2>4 DEF StartChecked
    <3>3. QED
      BY <1>5, <2>4, <3>1, <3>2, EntersLoop DEF StartChecked
  <2>5. QED
    BY <2>2, <2>3, <2>4
<1>6. QED
  BY <1>2, <1>3, <1>4, <1>5
-----------------------------------------------------------------------------
(* The loops.                                                                *)

LEMMA SuspendSkipKeeps ==
  ASSUME IInv, NEW r \in Request, NEW i \in Pid, SuspendSkip(r, i)
  PROVE  IInv'
<1> DEFINE x == [req[r] EXCEPT !.todo = @ \ {i}]
<1>1. /\ req[r] \in AtSuspend /\ x \in AtSuspend /\ x.done = req[r].done
      /\ x.at = "suspend" /\ req[r].at = "suspend"
  BY Forms DEF SuspendSkip, AtSuspend
<1>2. req' = [req EXCEPT ![r] = x]
  BY DEF SuspendSkip
<1>3. Requests'
  BY <1>1, <1>2 DEF IInv, Requests, ReqType
<1>4. TypeOK'
  BY <1>3, FormsInRange DEF IInv, TypeOK, Requests, SuspendSkip, hist
<1>5. Exclusive' /\ Holders' /\ Sessions' /\ Planned'
  BY <1>1, <1>2 DEF IInv, Requests, SuspendSkip, Exclusive, Looping, Holders, Sessions,
                    Planned, hist
<1>6. Resuming' /\ Entries'
  BY <1>1, <1>2 DEF IInv, Requests, SuspendSkip, Resuming, Entries, hist
<1>7. Accounted'
  BY <1>1, <1>2 DEF IInv, Requests, SuspendSkip, Accounted, Tracked, hist
<1>8. QED
  BY <1>3, <1>4, <1>5, <1>6, <1>7 DEF IInv

\* The suspended process enters the list under the pid it has.
LEMMA SuspendKeeps ==
  ASSUME IInv, NEW r \in Request, NEW i \in Pid, Suspend(r, i)
  PROVE  IInv'
<1> DEFINE p == holder[i]
           e == [pid |-> i, was |-> p]
           x == [req[r] EXCEPT !.todo = @ \ {i}, !.done = @ \cup {e}]
<1>1. /\ req[r] \in AtSuspend /\ req[r].at = "suspend" /\ p # None
      /\ req' = [req EXCEPT ![r] = x]
  BY Forms DEF Suspend, Suspendable
<1>2. p \in Process /\ p \in born /\ e \in Entry
  BY <1>1 DEF IInv, TypeOK, Holders, Entry
<1>3. /\ x \in AtSuspend /\ x.at = "suspend" /\ x.done = req[r].done \cup {e}
  BY <1>1, <1>2 DEF AtSuspend
<1>4. Requests'
  BY <1>1, <1>3 DEF IInv, Requests, ReqType
<1>5. TypeOK'
  BY <1>2, <1>4, FormsInRange DEF IInv, TypeOK, Requests, Suspend
<1>6. Exclusive' /\ Holders' /\ Sessions' /\ Planned'
  BY <1>1, <1>3 DEF IInv, Requests, Suspend, Exclusive, Looping, Holders, Sessions, Planned
<1>7. \A q \in Request : req'[q].at \notin {"restart", "stop"}
  BY <1>1, <1>3 DEF IInv, Requests, Exclusive, Looping
<1>8. Resuming'
  BY <1>7 DEF Resuming
<1>9. Entries'
  BY <1>1, <1>3, <1>7 DEF IInv, Requests, Suspend, Entries
<1>10. Accounted'
  <2>1. Tracked \subseteq Tracked' /\ e \in Tracked'
    BY <1>1, <1>3 DEF IInv, Requests, Suspend, Tracked
  <2>2. ours' = ours \cup {p} /\ UNCHANGED <<holder, forgotten>>
    BY DEF Suspend
  <2>3. QED
    BY <2>1, <2>2 DEF IInv, Accounted
<1>11. QED
  BY <1>4, <1>5, <1>6, <1>8, <1>9, <1>10 DEF IInv

\* The list of the loop becomes the list of the session.
LEMMA SuspendDoneKeeps ==
  ASSUME IInv, NEW r \in Request, SuspendDone(r)
  PROVE  IInv'
<1> DEFINE x == [at |-> "audit", of |-> "start"]
<1>1. /\ req[r] \in AtSuspend /\ req[r].at = "suspend" /\ req[r].done \subseteq Entry
      /\ x \in ReqType /\ req' = [req EXCEPT ![r] = x] /\ session' = Active(req[r].done)
  BY Forms DEF SuspendDone, AtSuspend, AtAudit, ReqType
<1>2. \A s \in Request : req'[s].at \notin {"restart", "suspend", "stop"}
  BY <1>1 DEF IInv, Requests, Exclusive, Looping
<1>3. Requests'
  BY <1>1 DEF IInv, Requests
<1>4. TypeOK'
  BY <1>1, <1>3, FormsInRange DEF IInv, TypeOK, Requests, SuspendDone, hist, Active
<1>5. Exclusive' /\ Holders' /\ Planned' /\ Sessions' /\ Resuming'
  BY <1>1, <1>2 DEF IInv, SuspendDone, Exclusive, Looping, Holders, Planned, Sessions, Active,
                    Resuming, hist
<1>6. Entries'
  BY <1>1, <1>2 DEF IInv, SuspendDone, Entries, Active, hist
<1>7. Accounted'
  <2>1. session.list = {}
    BY <1>1 DEF IInv, Sessions, NoSession
  <2>2. Tracked \subseteq Tracked'
    BY <1>1, <2>1 DEF IInv, Exclusive, Looping, Tracked, Active
  <2>3. QED
    BY <2>2 DEF IInv, Accounted, SuspendDone, hist
<1>8. QED
  BY <1>3, <1>4, <1>5, <1>6, <1>7 DEF IInv

\* An entry leaves the loop: its process runs, or was refused.
LEMMA ResumeKeeps ==
  ASSUME IInv, NEW r \in Request, NEW e \in Entry, Resume(r, e) \/ ResumeFails(r, e)
  PROVE  IInv'
<1> DEFINE x == [req[r] EXCEPT !.todo = @ \ {e}]
<1>1. /\ req[r].at \in {"restart", "stop"} /\ e \in req[r].todo
      /\ req' = [req EXCEPT ![r] = x]
      /\ UNCHANGED <<mode, holder, born, session, touched, plan>>
  BY DEF Resume, ResumeFails
<1>2. req[r] \in AtRestart \cup AtStop
  BY <1>1, Forms
<1>3. x \in AtRestart \cup AtStop /\ x.at = req[r].at /\ x.todo = req[r].todo \ {e}
  BY <1>2 DEF AtRestart, AtStop
<1>4. Requests'
  BY <1>1, <1>3 DEF IInv, Requests, ReqType
\* What the step does to the suspended processes.
<1>5. /\ stopped' \subseteq stopped /\ ours' \subseteq ours \cap stopped'
      /\ forgotten \subseteq forgotten' /\ forgotten' \subseteq forgotten \cup {e.was}
  BY DEF IInv, TypeOK, Resume, ResumeFails
<1>6. TypeOK'
  <2>1. e.was \in Process
    BY DEF Entry
  <2>2. /\ mode' \in BOOLEAN /\ holder' \in [Pid -> Process \cup {None}]
        /\ born' \subseteq Process /\ stopped' \subseteq born'
        /\ session' \in [active : BOOLEAN, list : SUBSET Entry]
        /\ ours' \subseteq stopped' /\ forgotten' \subseteq Process
        /\ touched' \subseteq Process
        /\ plan' \in [targets : Target \cup {{}}, seen : SUBSET Process,
                      would : SUBSET Process]
    BY <1>1, <1>5, <2>1 DEF IInv, TypeOK
  <2>3. QED
    BY <1>4, <2>2, FormsInRange DEF TypeOK, Requests
<1>7. Exclusive' /\ Holders' /\ Sessions' /\ Planned'
  BY <1>1, <1>3 DEF IInv, Requests, Exclusive, Looping, Holders, Sessions, Planned
<1>8. Entries'
  BY <1>1, <1>3 DEF IInv, Requests, Entries
<1>9. \A s \in Request \ {r} : req[s].at \notin {"restart", "suspend", "stop"} /\ req'[s] = req[s]
  BY <1>1 DEF IInv, Requests, Exclusive, Looping
<1>10. \A p \in (ours \ forgotten)' :
          p \in ours \ forgotten /\ ~(e.was = p /\ holder[e.pid] = p)
  <2>1. CASE Resume(r, e)
    BY <2>1 DEF Resume
  <2>2. CASE ResumeFails(r, e)
    BY <2>2 DEF ResumeFails
  <2>3. QED
    BY <2>1, <2>2
<1>11. Resuming'
  <2>1. req'[r].todo = req[r].todo \ {e} /\ holder' = holder
    BY <1>1, <1>3 DEF IInv, Requests
  <2>2. \A p \in ours \ forgotten : \E d \in req[r].todo : d.was = p /\ holder[d.pid] = p
    BY <1>1 DEF IInv, Resuming
  <2>3. \A p \in (ours \ forgotten)' : \E d \in req'[r].todo : d.was = p /\ holder'[d.pid] = p
    BY <1>10, <2>1, <2>2
  <2>4. QED
    BY <1>9, <2>3 DEF Resuming
<1>12. Accounted'
  <2>1. Tracked' = session.list /\ Tracked = session.list
    BY <1>1, <1>3, <1>9 DEF IInv, Requests, Tracked
  <2>2. QED
    BY <1>1, <1>10, <2>1 DEF IInv, Accounted
<1>13. QED
  BY <1>4, <1>6, <1>7, <1>8, <1>11, <1>12 DEF IInv

\* The list is dropped when nothing on it is left to account for.
LEMMA ResumeDoneKeeps ==
  ASSUME IInv, NEW r \in Request, ResumeDone(r)
  PROVE  IInv'
<1>1. /\ req[r] \in AtRestart \cup AtStop /\ req[r].at \in {"restart", "stop"}
      /\ req[r].todo = {} /\ session' = NoSession
      /\ UNCHANGED <<mode, holder, born, stopped, hist>>
  BY Forms DEF ResumeDone
<1>2. ours \ forgotten = {}
  BY <1>1 DEF IInv, Resuming
<1> DEFINE x == IF req[r].at = "restart" THEN Suspending(r) ELSE [at |-> "audit", of |-> "stop"]
<1>3. /\ req' = [req EXCEPT ![r] = x] /\ x \in ReqType
      /\ x.at \notin {"restart", "stop"} /\ (x.at = "suspend" => x.done = {})
  <2>1. req' = [req EXCEPT ![r] = x]
    BY DEF ResumeDone
  <2>2. CASE req[r].at = "restart"
    <3>1. Suspending(r) \in AtSuspend /\ Suspending(r).at = "suspend" /\ Suspending(r).done = {}
      BY <1>1, <2>2 DEF Suspending, AtSuspend, AtRestart, AtStop, Live
    <3>2. QED
      BY <2>1, <2>2, <3>1 DEF ReqType
  <2>3. CASE req[r].at = "stop"
    <3>1. [at |-> "audit", of |-> "stop"] \in AtAudit
      BY DEF AtAudit
    <3>2. QED
      BY <2>1, <2>3, <3>1 DEF ReqType
  <2>4. QED
    BY <1>1, <2>2, <2>3
<1> HIDE DEF x
<1>4. Requests'
  BY <1>3 DEF IInv, Requests
<1>5. TypeOK'
  BY <1>1, <1>4, FormsInRange DEF IInv, TypeOK, Requests, hist, NoSession
<1>6. \A s \in Request : /\ req'[s].at \notin {"restart", "stop"}
                         /\ req'[s].at = "suspend" => s = r /\ req'[s].done = {}
  BY <1>1, <1>3 DEF IInv, Requests, Exclusive, Looping
<1>7. Exclusive' /\ Holders' /\ Sessions' /\ Planned' /\ Resuming'
  BY <1>1, <1>6 DEF IInv, Exclusive, Looping, Holders, Sessions, NoSession, Planned, Resuming,
                    hist
<1>8. Entries'
  BY <1>1, <1>6 DEF Entries, NoSession
<1>9. Accounted'
  BY <1>1, <1>2 DEF Accounted, hist
<1>10. QED
  BY <1>4, <1>5, <1>7, <1>8, <1>9 DEF IInv
-----------------------------------------------------------------------------
(* The operating system, the user, the settings page, a restart.             *)

LEMMA SystemKeeps ==
  ASSUME IInv,
         \/ \E p \in Process, i \in Pid : Spawn(p, i)
         \/ \E i \in Pid : Exit(i) \/ UserSuspends(i) \/ UserResumes(i)
  PROVE  IInv'
<1>1. UNCHANGED <<mode, session, req, touched, forgotten, plan>>
  BY DEF Spawn, Exit, UserSuspends, UserResumes, hist
<1>2. TypeOK' /\ Holders'
  BY <1>1, PerformanceAssumption
     DEF IInv, TypeOK, Holders, Spawn, Exit, UserSuspends, UserResumes, hist
<1>3. Requests' /\ Exclusive' /\ Sessions' /\ Entries' /\ Planned' /\ Tracked' = Tracked
  BY <1>1 DEF IInv, Requests, Exclusive, Looping, Sessions, Entries, Planned, Tracked
\* A process that stays suspended keeps its pid.
<1>4. ours' \subseteq ours /\ \A p \in ours', i \in Pid : holder[i] = p => holder'[i] = p
  BY PerformanceAssumption
     DEF IInv, TypeOK, Spawn, Exit, UserSuspends, UserResumes, hist
<1>5. Resuming'
  BY <1>1, <1>4 DEF IInv, Requests, Resuming, Entry, TypeOK
<1>6. Accounted'
  <2>1. Tracked \subseteq Entry
    BY DEF IInv, TypeOK, Tracked
  <2>2. QED
    BY <1>1, <1>3, <1>4, <2>1 DEF IInv, Accounted, Entry
<1>7. QED
  BY <1>2, <1>3, <1>5, <1>6 DEF IInv

LEMMA EnvironmentKeeps ==
  ASSUME IInv,
         \/ \E targets \in Target : Preview(targets)
         \/ SetMode
         \/ Restart
         \/ UNCHANGED vars
  PROVE  IInv'
<1>1. CASE Restart
  <2>1. Requests' /\ TypeOK'
    BY <1>1 DEF IInv, TypeOK, Restart, Requests, ReqType, AtIdle, Idle, NoSession
  <2>2. Exclusive' /\ Holders' /\ Sessions' /\ Planned' /\ Resuming'
    BY <1>1 DEF IInv, Restart, Exclusive, Looping, Holders, Sessions, Planned, Resuming, Idle,
                NoSession
  <2>3. Entries' /\ Accounted'
    BY <1>1 DEF IInv, Restart, Entries, Accounted, Idle, NoSession
  <2>4. QED
    BY <2>1, <2>2, <2>3 DEF IInv
<1>2. CASE SetMode \/ UNCHANGED vars
  <2>1. UNCHANGED <<holder, born, stopped, session, req, ours, touched, forgotten, plan>>
    BY <1>2 DEF SetMode, vars, hist
  <2>2. mode' \in BOOLEAN
    BY <1>2 DEF IInv, TypeOK, SetMode, vars
  <2>3. QED
    BY <2>1, <2>2 DEF IInv, TypeOK, Requests, Exclusive, Looping, Holders, Sessions, Resuming,
                      Entries, Planned, Accounted, Tracked
<1>3. ASSUME NEW targets \in Target, Preview(targets) PROVE IInv'
  <2>1. UNCHANGED <<mode, holder, born, stopped, session, req, ours, touched, forgotten>>
    BY <1>3 DEF Preview
  <2>2. Planned' /\ plan' \in [targets : Target \cup {{}}, seen : SUBSET Process,
                                would : SUBSET Process]
    BY <1>3 DEF Preview, Planned, IInv, TypeOK, Live
  <2>3. TypeOK'
    BY <2>1, <2>2 DEF IInv, TypeOK
  <2>4. QED
    BY <2>1, <2>2, <2>3 DEF IInv, Requests, Exclusive, Looping, Holders, Sessions, Resuming,
                            Entries, Accounted, Tracked
<1>4. QED
  BY <1>1, <1>2, <1>3

LEMMA NextKeeps == IInv /\ [Next]_vars => IInv'
<1>1. ASSUME IInv, NEW r \in Request, RequestStep(r) PROVE IInv'
  BY <1>1, RequestsKeep, SuspendSkipKeeps, SuspendKeeps, SuspendDoneKeeps, ResumeKeeps,
     ResumeDoneKeeps DEF RequestStep
<1>2. QED
  BY <1>1, RequestsKeep, SystemKeeps, EnvironmentKeeps DEF Next
-----------------------------------------------------------------------------
(* The theorems.                                                             *)

(* IInv is an invariant.                                                     *)
THEOREM Invariance == Spec => []IInv
  BY InitIInv, NextKeeps, PTL DEF Spec

(* Every variable keeps its type: the session, requests and histories stay in range.*)
THEOREM TypeCorrect == Spec => []TypeOK
  BY Invariance, PTL DEF IInv

(* What start_session suspended, stop_session finds, through any             *)
(* interleaving of starts, stops, exits and reused pids, unless a resume is  *)
(* refused or the backend restarts.                                          *)
THEOREM NothingStrays == Spec => []Accounted
  BY Invariance, PTL DEF IInv

(* A stop wakes no process that only the user put to sleep.                  *)
THEOREM WakesNoOther == Spec => WakesOnlyItsOwn
<1>1. IInv => \A r \in Request, e \in Entry :
         Resume(r, e) /\ holder[e.pid] = e.was /\ e.was \in stopped \ ours
            => e.was \in touched
  BY DEF IInv, Entries, Resume
<1>2. QED
  BY <1>1, Invariance, PTL DEF Spec, WakesOnlyItsOwn

(* A start suspends nothing that a preview of the same targets saw and left  *)
(* out of its list.                                                          *)
THEOREM SuspendsWhatWasShown == Spec => SuspendsOnlyPlanned
<1>1. IInv => \A r \in Request, i \in Pid :
         Suspend(r, i) /\ plan.targets = req[r].targets /\ holder[i] \in plan.seen
            => holder[i] \in plan.would
  BY DEF IInv, Planned, Suspend, Suspendable
<1>2. QED
  BY <1>1, Invariance, PTL DEF Spec, SuspendsOnlyPlanned
=============================================================================
