----------------------------- MODULE FileCustody -----------------------------
(***************************************************************************)
(* What the file half of OpenCleaner promises a user, with no handler, no  *)
(* database and no directory in it: where each file body may be, and which *)
(* moves between those places are legitimate.  Quarantine.tla is shown to  *)
(* implement it.                                                           *)
(*                                                                         *)
(*   unborn    not written yet                                             *)
(*   home      at the path it was written to                               *)
(*   held      only in the quarantine directory                            *)
(*   purged    destroyed by the retention policy                           *)
(*   replaced  destroyed by the restore of another file of the same path   *)
(*   spoiled   destroyed by the restore of a fragment                      *)
(***************************************************************************)
CONSTANTS Path, Body, HomeOf

VARIABLES loc,       \* where each body is
          aged,      \* bodies with a quarantine entry past the retention period
          fragments  \* paths of which quarantine offers a fragment to restore
vars == <<loc, aged, fragments>>

Place == {"unborn", "home", "held", "purged", "replaced", "spoiled"}

TypeOK == loc \in [Body -> Place] /\ aged \subseteq Body /\ fragments \subseteq Path

Rivals(b) == {c \in Body \ {b} : HomeOf[c] = HomeOf[b]}

Init == /\ loc \in [Body -> {"unborn", "home"}]
        /\ aged = {}
        /\ fragments = {}

\* A program or the user writes a file where there is none.
Appear(b) == /\ loc[b] = "unborn"
             /\ loc' = [loc EXCEPT ![b] = "home"]
             /\ UNCHANGED <<aged, fragments>>

Take(b) == /\ loc[b] = "home"
           /\ loc' = [loc EXCEPT ![b] = "held"]
           /\ UNCHANGED <<aged, fragments>>

\* A body comes back, possibly onto another one (of which quarantine may
\* still have a copy).
GiveBack(b) == /\ loc[b] = "held"
               /\ \/ loc' = [loc EXCEPT ![b] = "home"]
                  \/ \E c \in Rivals(b), to \in {"replaced", "held"} :
                        /\ loc[c] = "home"
                        /\ loc' = [loc EXCEPT ![b] = "home", ![c] = to]
               /\ UNCHANGED <<aged, fragments>>

\* The first half of coming back onto another file: that one is gone before
\* the one restored is complete.
Overwrite(b) == /\ loc[b] = "held"
                /\ \E c \in Rivals(b) :
                      /\ loc[c] = "home"
                      /\ loc' = [loc EXCEPT ![c] = "replaced"]
                /\ UNCHANGED <<aged, fragments>>

\* Quarantine comes to offer a fragment of a path: only where a file of that
\* path left home, and its restore broke off.
OfferFragment(p) == /\ \E b \in Body : HomeOf[b] = p /\ loc[b] \notin {"unborn", "home"}
                    /\ fragments' = fragments \cup {p}
                    /\ UNCHANGED <<loc, aged>>

\* It was restored over no file, or its entry expired.
WithdrawFragment(p) == /\ fragments' = fragments \ {p}
                       /\ UNCHANGED <<loc, aged>>

\* It is restored over the good file that came home in the meantime (of which
\* quarantine may still have a copy).
Spoil(b) == /\ loc[b] = "home" /\ HomeOf[b] \in fragments
            /\ \E to \in {"spoiled", "held"} : loc' = [loc EXCEPT ![b] = to]
            /\ fragments' \in {fragments, fragments \ {HomeOf[b]}}
            /\ UNCHANGED aged

Age(b) == /\ aged' = aged \cup {b}
          /\ UNCHANGED <<loc, fragments>>

Purge(b) == /\ loc[b] = "held" /\ b \in aged
            /\ loc' = [loc EXCEPT ![b] = "purged"]
            /\ UNCHANGED <<aged, fragments>>

Next == \/ \E b \in Body : \/ Appear(b) \/ Take(b) \/ GiveBack(b) \/ Overwrite(b)
                           \/ Spoil(b) \/ Age(b) \/ Purge(b)
        \/ \E p \in Path : OfferFragment(p) \/ WithdrawFragment(p)

Spec == Init /\ [][Next]_vars
=============================================================================
