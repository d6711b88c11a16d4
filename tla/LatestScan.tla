----------------------------- MODULE LatestScan -----------------------------
(***************************************************************************)
(* What every panel of the program is promised about "the latest scan":    *)
(* one register.  It is set by scans only, it never goes back to an older  *)
(* scan and, once there is one, it is never empty again.                   *)
(***************************************************************************)
EXTENDS Integers

CONSTANT None
VARIABLE latest

\* A scan has a number, in the order of recording, and a wall-clock time.
Scans == [id : Nat, at : Nat]

Init == latest \in {None} \cup Scans

Record ==
    /\ latest' \in Scans
    /\ latest # None => latest'.id > latest.id /\ latest'.at >= latest.at

Spec == Init /\ [][Record]_latest
=============================================================================
