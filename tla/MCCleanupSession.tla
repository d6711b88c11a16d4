--------------------------- MODULE MCCleanupSession ---------------------------
(* Constants for model-checking CleanupSession: two items whose facts change   *)
(* from one scan to the next, so that ids that repeat are not harmless.        *)
EXTENDS CleanupSession, TLC

CONSTANTS i1, i2, r1, r2, v1, v2

File(bucket, hint) == [type |-> "file_or_folder", bucket |-> bucket, hint |-> hint,
                       path |-> "user", rulesProtect |-> FALSE]

\* A temp file and a download; at the next scan the temp file is locked, and
\* the download has become protected.
TwoScans == (1 :> (i1 :> File("safe_to_remove", "low") @@ i2 :> File("unknown", "low")))
         @@ (2 :> (i1 :> File("ask_user", "low") @@ i2 :> File("risky_system_critical", "low")))
AnySelection == {[ids |-> {i1, i2}, confirm |-> c, bin |-> b] : c, b \in BOOLEAN}
    \cup {[ids |-> {i1}, confirm |-> TRUE, bin |-> FALSE]}

Default == [advanced |-> FALSE, permanent |-> FALSE]
Advanced == [advanced |-> TRUE, permanent |-> FALSE]
Permanent == [advanced |-> FALSE, permanent |-> TRUE]
MCRequest == {r1, r2}
Symmetric == Permutations(MCRequest)
AllChoices == {Default, Advanced, Permanent}
=============================================================================
