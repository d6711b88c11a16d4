----------------------------- MODULE MCQuarantine -----------------------------
(* Constants for model-checking Quarantine: two files that share a path, so   *)
(* that one can be recreated while the other is held, and one of its own.     *)
EXTENDS Quarantine, TLC

CONSTANTS p1, p2, a1, a2, b1, r1, r2

MCPath == {p1, p2}
MCBody == {a1, a2, b1}
MCHomeOf == [b \in {a1, a2} |-> p1] @@ [b \in {b1} |-> p2]
MCRestorer == {r1, r2}

OnePath == {p1}
TwoBodies == {a1, a2}
OneHome == [b \in {a1, a2} |-> p1]

Symmetric == Permutations(MCRestorer)
=============================================================================
