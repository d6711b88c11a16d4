--------------------------- MODULE MCScanConsumers ---------------------------
(* Constants for model-checking ScanConsumers: a name for each thing the name  *)
(* lists can say, rows that differ in what decides, and every item that can be *)
(* made of them.                                                               *)
EXTENDS ScanConsumers, TLC

CONSTANTS hard, shell, soft, plain, svc, core, task, guard, app

MCName == {hard, shell, soft, plain, svc, core, task, guard, app}
MCMarks == hard :> {"hard"} @@ shell :> {"shell"} @@ soft :> {"soft"} @@ plain :> {}
    @@ svc :> {"critical_service"} @@ core :> {"core_service"}
    @@ task :> {"os_task", "guarded_task"} @@ guard :> {"guarded_task"}
    @@ app :> {"known_startup"}

Row(risk, category, stop, gaming, sure) ==
    [risk |-> risk, category |-> category, stop |-> stop, gaming |-> gaming, sure |-> sure]
MCEntry == {Row(r, "other", s, g, TRUE) : r \in {"low", "medium", "high"},
                                          s \in {"yes", "no"}, g \in BOOLEAN}
    \cup {Row("low", "other", "yes", FALSE, FALSE), Row("low", "other", "unsaid", FALSE, TRUE),
          Row("critical", "other", "no", FALSE, TRUE), Row("high", "guarded", "no", FALSE, TRUE),
          Row("medium", "guarded", "yes", TRUE, TRUE), Row("medium", "essential", "yes", FALSE, TRUE)}

NamesOf == [t \in ControlTypes |->
    CASE t = "process" -> {hard, shell, soft, plain} [] t = "service" -> {svc, core, plain}
      [] t = "startup_entry" -> {hard, app, plain} [] OTHER -> {task, guard, plain}]
NearBy == {None, Row("low", "other", "yes", FALSE, TRUE), Row("high", "guarded", "no", FALSE, TRUE),
           Row("low", "other", "yes", FALSE, FALSE)}
ControlRaw == {[type |-> t, name |-> n, aliases |-> a, path |-> "user", hint |-> "other",
                locked |-> FALSE, hit |-> h, near |-> m] :
    t \in ControlTypes, n \in {hard, shell, soft, plain, svc, core, task, guard, app},
    a \in {{}, {hard}}, h \in MCEntry \cup {None}, m \in NearBy}
FileRaw == {[type |-> t, name |-> plain, aliases |-> {}, path |-> p, hint |-> h,
             locked |-> k, hit |-> None, near |-> None] :
    t \in Types \ ControlTypes, p \in {"none", "user", "critical"},
    h \in {"temp_cache", "installer_residual", "low", "startmenu", "other"}, k \in BOOLEAN}
MCRaw == {r \in ControlRaw : /\ r.name \in NamesOf[r.type]
                             /\ r.hit # None => r.near = None
                             /\ r.aliases # {} => /\ r.type \in {"process", "startup_entry"}
                                                  /\ r.name = plain}
    \cup {r \in FileRaw : /\ r.locked => r.hint = "temp_cache"
                          /\ r.type # "file_or_folder" => r.path = "user" /\ r.hint = "other"}
\* The two items a gating flag and performance mode disagree about.
SomeRaw == {r \in MCRaw : r.type = "process" /\ r.name = plain /\ r.aliases = {}}
=============================================================================
