------------------------- MODULE MCPerformanceSession -------------------------
(* Constants for model-checking PerformanceSession: processes of the default   *)
(* allowlist, a browser and a protected one, over too few pids for all.        *)
EXTENDS PerformanceSession, TLC

CONSTANTS sync, sync2, browser, guard, r1, r2

Names == {sync, browser, guard}
MCNameOf == [p \in Process |-> IF p = sync2 THEN sync ELSE p]
MCClassOf == sync :> "soft" @@ browser :> "shell" @@ guard :> "protected"

MCRequest == {r1, r2}
Symmetric == Permutations(MCRequest)

NoTargets == {{}}
SomeTargets == {{}, {browser, guard}}
=============================================================================
