-------------------------- MODULE PerformanceSession --------------------------
(***************************************************************************)
(* Performance mode: which processes start_session suspends, and whether   *)
(* stop_session finds them again.  The session is a list of pids in        *)
(* memory; the operating system ends processes, gives their pids to others *)
(* and lets the user suspend and resume by hand meanwhile.                 *)
(*                                                                         *)
(* start_session and stop_session run without an await: the loops of two   *)
(* requests do not interleave (LoopFree), but processes come and go        *)
(* between two of their steps, and the backend may be killed there.        *)
(***************************************************************************)
EXTENDS Naturals, FiniteSets

CONSTANTS
    Pid, Process,   \* a process is one incarnation; its pid may be reused
    Name, NameOf,   \* the image name of each process
    ClassOf,        \* how the protected registry classifies each name
    Target,         \* lists of explicit target names that clients send
    Request, None

Class == {"protected", "shell", "soft", "other"}
Preset == {"max_fps", "battery_saver"}

ASSUME PerformanceAssumption ==
    /\ NameOf \in [Process -> Name]
    /\ ClassOf \in [Name -> Class]
    /\ Target \subseteq SUBSET Name
    /\ None \notin Process

VARIABLES
    mode,       \* permission_mode is performance
    holder,     \* the process that has each pid
    born,       \* processes that were ever started
    stopped,    \* suspended processes
    session,    \* _SESSION: the pids, each with the process it was; or None
    req,        \* POST /api/performance/start and stop in flight
    ours,       \* history: suspended by the backend and not resumed since
    touched,    \* history: ever suspended by the backend
    forgotten,  \* history: of those, resume refused or lost in a restart
    plan        \* history: the targets of the last preview, what it saw and listed
hist == <<ours, touched, forgotten, plan>>
vars == <<mode, holder, born, stopped, session, req, hist>>

Entry == [pid : Pid, was : Process]
NoSession == [active |-> FALSE, list |-> {}]
Active(list) == [active |-> TRUE, list |-> list]
Idle == [at |-> "idle"]
NoPlan == [targets |-> {}, seen |-> {}, would |-> {}]

Live == {i \in Pid : holder[i] # None}

TypeOK ==
    /\ mode \in BOOLEAN
    /\ holder \in [Pid -> Process \cup {None}]
    /\ born \subseteq Process
    /\ stopped \subseteq born
    /\ session \in [active : BOOLEAN, list : SUBSET Entry]
    /\ \A r \in Request :
          /\ req[r].at \in {"idle", "mode", "restart", "suspend", "stop", "audit"}
          /\ req[r].at \in {"restart", "stop"} => req[r].todo \subseteq Entry
          /\ req[r].at = "suspend" => req[r].todo \subseteq Pid /\ req[r].done \subseteq Entry
    /\ ours \subseteq stopped
    /\ forgotten \subseteq Process
    /\ touched \subseteq Process
    /\ plan \in [targets : Target \cup {{}}, seen : SUBSET Process, would : SUBSET Process]

Init ==
    /\ mode = FALSE
    /\ holder = [i \in Pid |-> None]
    /\ born = {}
    /\ stopped = {}
    /\ session = NoSession
    /\ req = [r \in Request |-> Idle]
    /\ ours = {}
    /\ forgotten = {}
    /\ plan = NoPlan
    /\ touched = {}

LoopFree == \A r \in Request : req[r].at \notin {"restart", "suspend", "stop"}

\* suspend_allowed_by_policy, its tests in its order.
Allowed(name, targets) ==
    /\ ClassOf[name] # "protected"
    /\ IF ClassOf[name] = "shell" \/ targets # {}
       THEN name \in targets ELSE ClassOf[name] = "soft"

\* The filter that follows the call: of the targets, or of the default list.
Filtered(name, targets) ==
    IF targets # {} THEN name \in targets ELSE ClassOf[name] = "soft"
-----------------------------------------------------------------------------
(* POST /api/performance/preview: planned_suspend_actions, the same for      *)
(* every preset.                                                             *)

Preview(targets) ==
    /\ mode /\ LoopFree
    /\ LET running == {holder[i] : i \in Live}
       IN  plan' = [targets |-> targets, seen |-> running,
                    would |-> {p \in running : /\ Allowed(NameOf[p], targets)
                                               /\ Filtered(NameOf[p], targets)}]
    /\ UNCHANGED <<mode, holder, born, stopped, session, req, ours, touched, forgotten>>
-----------------------------------------------------------------------------
(* POST /api/performance/start: start_session.                               *)

StartRequest(r, preset, targets, confirm) ==
    /\ req[r].at = "idle"
    /\ req' = [req EXCEPT ![r] = [at |-> "mode", preset |-> preset, targets |-> targets,
                                  confirm |-> confirm]]
    /\ UNCHANGED <<mode, holder, born, stopped, session, hist>>

Suspending(r) == [at |-> "suspend", preset |-> req[r].preset, targets |-> req[r].targets,
                  todo |-> Live, done |-> {}]

\* Mutant: a running session is replaced, not stopped.
StartReplaces(r) ==
    /\ req[r].at = "mode" /\ LoopFree
    /\ req' = [req EXCEPT ![r] = IF mode /\ req[r].confirm THEN Suspending(r) ELSE Idle]
    /\ UNCHANGED <<mode, holder, born, stopped, session, hist>>

\* The mode has been read; a session that is running is stopped first.
StartChecked(r) ==
    /\ req[r].at = "mode" /\ LoopFree
    /\ req' = [req EXCEPT ![r] =
           IF ~mode \/ ~req[r].confirm THEN Idle
           ELSE IF session.active
                THEN [at |-> "restart", preset |-> req[r].preset, targets |-> req[r].targets,
                      todo |-> session.list]
                ELSE Suspending(r)]
    /\ UNCHANGED <<mode, holder, born, stopped, session, hist>>

\* A process of process_iter: gone, not selected, or its call fails.
SuspendSkip(r, i) ==
    /\ req[r].at = "suspend" /\ i \in req[r].todo
    /\ req' = [req EXCEPT ![r].todo = @ \ {i}]
    /\ UNCHANGED <<mode, holder, born, stopped, session, hist>>

\* Mutant: targets extend the default list instead of replacing it.
TargetsExtend(r, i) ==
    /\ req[r].at = "suspend" /\ i \in req[r].todo
    /\ holder[i] # None
    /\ \E targets \in {{}, req[r].targets} : /\ Allowed(NameOf[holder[i]], targets)
                                            /\ Filtered(NameOf[holder[i]], targets)
    /\ req[r].preset # "battery_saver"

\* battery_saver lowers the priority instead.
Suspendable(r, i) ==
    /\ req[r].at = "suspend" /\ i \in req[r].todo
    /\ holder[i] # None
    /\ Allowed(NameOf[holder[i]], req[r].targets)
    /\ Filtered(NameOf[holder[i]], req[r].targets)
    /\ req[r].preset # "battery_saver"

\* Mutant: the status is not tested.
SuspendAny(r, i) ==
    /\ Suspendable(r, i)
    /\ ours' = IF holder[i] \in stopped THEN ours ELSE ours \cup {holder[i]}
    /\ touched' = IF holder[i] \in stopped THEN touched ELSE touched \cup {holder[i]}
    /\ stopped' = stopped \cup {holder[i]}
    /\ req' = [req EXCEPT ![r].todo = @ \ {i}, ![r].done = @ \cup {[pid |-> i, was |-> holder[i]]}]
    /\ UNCHANGED <<mode, holder, born, session, forgotten, plan>>

Suspend(r, i) ==
    /\ Suspendable(r, i) /\ holder[i] \notin stopped
    /\ stopped' = stopped \cup {holder[i]}
    /\ ours' = ours \cup {holder[i]}
    /\ touched' = touched \cup {holder[i]}
    /\ req' = [req EXCEPT ![r].todo = @ \ {i}, ![r].done = @ \cup {[pid |-> i, was |-> holder[i]]}]
    /\ UNCHANGED <<mode, holder, born, session, forgotten, plan>>

\* Mutant: the two parts of an entry are swapped.
SwapsEntry(r) ==
    /\ req[r].at = "suspend" /\ req[r].todo = {}
    /\ session' = Active({[pid |-> e.was, was |-> e.pid] : e \in req[r].done})
    /\ req' = [req EXCEPT ![r] = [at |-> "audit", of |-> "start"]]
    /\ UNCHANGED <<mode, holder, born, stopped, hist>>

SuspendDone(r) ==
    /\ req[r].at = "suspend" /\ req[r].todo = {}
    /\ session' = Active(req[r].done)
    /\ req' = [req EXCEPT ![r] = [at |-> "audit", of |-> "start"]]
    /\ UNCHANGED <<mode, holder, born, stopped, hist>>
-----------------------------------------------------------------------------
(* POST /api/performance/stop: stop_session, in any permission mode.         *)

StopRequest(r) ==
    /\ req[r].at = "idle" /\ LoopFree
    /\ req' = [req EXCEPT ![r] = IF session.active THEN [at |-> "stop", todo |-> session.list]
                                 ELSE [at |-> "audit", of |-> "stop"]]
    /\ UNCHANGED <<mode, holder, born, stopped, session, hist>>

\* Whatever process has the pid now is resumed.
Resume(r, e) ==
    /\ req[r].at \in {"restart", "stop"} /\ e \in req[r].todo
    /\ stopped' = stopped \ {holder[e.pid]}
    /\ ours' = ours \ {holder[e.pid]}
    /\ req' = [req EXCEPT ![r].todo = @ \ {e}]
    /\ UNCHANGED <<mode, holder, born, session, touched, forgotten, plan>>

\* The call is refused, and the loop goes on.
ResumeFails(r, e) ==
    /\ req[r].at \in {"restart", "stop"} /\ e \in req[r].todo
    /\ forgotten' = forgotten \cup {e.was}
    /\ req' = [req EXCEPT ![r].todo = @ \ {e}]
    /\ UNCHANGED <<mode, holder, born, stopped, session, ours, touched, plan>>

ResumeDone(r) ==
    /\ req[r].at \in {"restart", "stop"} /\ req[r].todo = {}
    /\ session' = NoSession
    /\ req' = [req EXCEPT ![r] = IF req[r].at = "restart" THEN Suspending(r)
                                 ELSE [at |-> "audit", of |-> "stop"]]
    /\ UNCHANGED <<mode, holder, born, stopped, hist>>

\* The audit entry is written, or its error answers 500.
Answer(r) ==
    /\ req[r].at = "audit"
    /\ req' = [req EXCEPT ![r] = Idle]
    /\ UNCHANGED <<mode, holder, born, stopped, session, hist>>
-----------------------------------------------------------------------------
(* The operating system, the user, the settings page, a restart.             *)

Spawn(p, i) ==
    /\ p \notin born /\ holder[i] = None
    /\ holder' = [holder EXCEPT ![i] = p]
    /\ born' = born \cup {p}
    /\ UNCHANGED <<mode, stopped, session, req, hist>>

Exit(i) ==
    /\ holder[i] # None
    /\ holder' = [holder EXCEPT ![i] = None]
    /\ stopped' = stopped \ {holder[i]}
    /\ ours' = ours \ {holder[i]}
    /\ UNCHANGED <<mode, born, session, req, touched, forgotten, plan>>

UserSuspends(i) ==
    /\ holder[i] # None /\ holder[i] \notin stopped
    /\ stopped' = stopped \cup {holder[i]}
    /\ UNCHANGED <<mode, holder, born, session, req, hist>>

UserResumes(i) ==
    /\ holder[i] # None /\ holder[i] \in stopped
    /\ stopped' = stopped \ {holder[i]}
    /\ ours' = ours \ {holder[i]}
    /\ UNCHANGED <<mode, holder, born, session, req, touched, forgotten, plan>>

SetMode ==
    /\ LoopFree
    /\ mode' = ~mode
    /\ UNCHANGED <<holder, born, stopped, session, req, hist>>

Restart ==
    /\ session' = NoSession
    /\ req' = [r \in Request |-> Idle]
    /\ forgotten' = forgotten \cup ours
    /\ UNCHANGED <<mode, holder, born, stopped, ours, touched, plan>>
-----------------------------------------------------------------------------
RequestStep(r) ==
    \/ StartChecked(r) \/ SuspendDone(r) \/ ResumeDone(r) \/ Answer(r)
    \/ \E i \in Pid : SuspendSkip(r, i) \/ Suspend(r, i)
    \/ \E e \in Entry : Resume(r, e) \/ ResumeFails(r, e)

Next ==
    \/ \E r \in Request : \/ RequestStep(r)
                          \/ StopRequest(r)
                          \/ \E preset \in Preset, targets \in Target, confirm \in BOOLEAN :
                                StartRequest(r, preset, targets, confirm)
    \/ \E targets \in Target : Preview(targets)
    \/ \E p \in Process, i \in Pid : Spawn(p, i)
    \/ \E i \in Pid : Exit(i) \/ UserSuspends(i) \/ UserResumes(i)
    \/ SetMode
    \/ Restart

Spec == Init /\ [][Next]_vars
-----------------------------------------------------------------------------
(* Properties.                                                               *)

\* The entries that a handler or the session still answers for.
Tracked == session.list \cup UNION {req[r].done : r \in {s \in Request : req[s].at = "suspend"}}

(* A process the backend has suspended is on the list that the next stop     *)
(* goes through, under the pid it still has: restarts of a session, pids     *)
(* that change hands and processes resumed by hand do not make it stray.     *)
(* Only a refused resume or a restart of the backend does.                   *)
Accounted ==
    \A p \in ours \ forgotten : \E e \in Tracked : e.was = p /\ holder[e.pid] = p

(* A process that the user suspended by hand stays suspended: a stop wakes   *)
(* it only if the backend, too, had suspended it at some time, or if it has  *)
(* taken over the pid of one that was.                                       *)
WakesOnlyItsOwn ==
    [][\A r \in Request, e \in Entry :
          Resume(r, e) /\ holder[e.pid] = e.was /\ e.was \in stopped \ ours
             => e.was \in touched]_vars

(* A start suspends nothing that a preview of the same targets saw and did   *)
(* not list, whatever preset either was for: the two select in different     *)
(* code.                                                                     *)
SuspendsOnlyPlanned ==
    [][\A r \in Request, i \in Pid :
          Suspend(r, i) /\ plan.targets = req[r].targets /\ holder[i] \in plan.seen
             => holder[i] \in plan.would]_vars

(* README: stop resumes suspended PIDs.  When a stop is about to be audited  *)
(* as done, what the backend had suspended is resumed, or is on the list of  *)
(* a session begun since.                                                    *)
StopResumesAll ==
    \A r \in Request : (req[r].at = "audit" /\ req[r].of = "stop") =>
        \A p \in ours : \E e \in Tracked : e.was = p
=============================================================================
