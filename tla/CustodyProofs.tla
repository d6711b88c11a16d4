---------------------------- MODULE CustodyProofs ----------------------------
(***************************************************************************)
(* Quarantine implements FileCustody, for every set of files, ids and      *)
(* handlers: each file-system call or database statement of the detailed   *)
(* handlers is a move that the abstract specification allows, or none.     *)
(***************************************************************************)
EXTENDS QuarantineProofs

\* Where FileCustody sees a body, which bodies have an expired entry, and of
\* which paths a fragment could be restored.
Where(b) == IF b \notin born THEN "unborn"
            ELSE IF OnDisk(b) THEN "home"
            ELSE IF Held(b) THEN "held"
            ELSE IF b \in purged THEN "purged"
            ELSE IF b \in spoiled THEN "spoiled" ELSE "replaced"
Aged == {b \in Body : \E q \in expired : taken[q] = b}
Fragments == {p \in Path : \E q \in Qid : qfile[q] = Torn /\ meta[q] = p}

\* Only an id that had a row can expire: so making an id for a body never ages
\* the body.
ExpiredHadRow == \A q \in expired : row[q] # "none"

\* What retention or a restore destroyed is nowhere, and stays nowhere: so what
\* destroyed it is one thing, and nothing destroys it again.
DestroyedGone ==
    \A b \in purged \cup replaced \cup spoiled : b \in born /\ ~OnDisk(b) /\ ~Held(b)

\* A fragment lies only where a file was, and what a cleaner has moved away as
\* one still leaves that file out of its path when meta.json is written.
BrokenOff ==
    /\ \A p \in Path : disk[p] = Torn => \E b \in born : HomeOf[b] = p
    /\ \A q \in Qid : meta[q] # Nil => \E b \in born : HomeOf[b] = meta[q]
    /\ \A c \in Cleaner : (cl[c].at = "meta" /\ qfile[cl[c].q] = Torn)
          => \E b \in born : HomeOf[b] = cl[c].p /\ ~OnDisk(b)

\* The invariant of the refinement.
RInv == IInv /\ ExpiredHadRow /\ DestroyedGone /\ BrokenOff
-----------------------------------------------------------------------------
(* The moves of FileCustody in terms of Where, Aged and Fragments. *)

\* Nothing moves.
LEMMA Stays ==
    ASSUME \A b \in Body : Where(b)' = Where(b), Aged' = Aged, Fragments' = Fragments
    PROVE  UNCHANGED Promise!vars
BY DEF Promise!vars, Where, Aged, Fragments

\* One body moves from x to y.
Moves(b, x, y) ==
    /\ Where(b) = x /\ Where(b)' = y
    /\ \A c \in Body \ {b} : Where(c)' = Where(c)
    /\ Aged' = Aged /\ Fragments' = Fragments

\* A move of one body is a move of FileCustody.
LEMMA MovesAre ==
    ASSUME NEW b \in Body
    PROVE  /\ Moves(b, "unborn", "home") => Promise!Appear(b)
           /\ Moves(b, "home", "held") => Promise!Take(b)
           /\ Moves(b, "held", "home") => Promise!GiveBack(b)
           /\ Moves(b, "held", "purged") /\ b \in Aged => Promise!Purge(b)
<1>1. Moves(b, "unborn", "home") => Promise!Appear(b)
  BY DEF Moves, Where, Aged, Fragments, Promise!Appear
<1>2. Moves(b, "home", "held") => Promise!Take(b)
  BY DEF Moves, Where, Aged, Fragments, Promise!Take
<1>3. Moves(b, "held", "home") => Promise!GiveBack(b)
  BY DEF Moves, Where, Aged, Fragments, Promise!GiveBack
<1>4. Moves(b, "held", "purged") /\ b \in Aged => Promise!Purge(b)
  <2> SUFFICES ASSUME Moves(b, "held", "purged"), b \in Aged PROVE Promise!Purge(b)
    OBVIOUS
  <2>1. [d \in Body |-> Where(d)]' = [[d \in Body |-> Where(d)] EXCEPT ![b] = "purged"]
    BY DEF Moves
  <2> QED
    BY <2>1 DEF Moves, Where, Aged, Fragments, Promise!Purge
<1> QED
  BY <1>1, <1>2, <1>3, <1>4

\* A step that FileCustody allows.
Allowed == [Promise!Next]_(Promise!vars)

\* So it is a step that FileCustody allows.
LEMMA MovesAllowed ==
    ASSUME NEW b \in Body,
           \/ Moves(b, "unborn", "home") \/ Moves(b, "home", "held")
           \/ Moves(b, "held", "home") \/ (Moves(b, "held", "purged") /\ b \in Aged)
    PROVE  Allowed
BY MovesAre DEF Allowed, Promise!Next

\* A body comes back onto another one.
LEMMA ReplacesAllowed ==
    ASSUME NEW b \in Body, NEW c \in Body \ {b}, HomeOf[c] = HomeOf[b],
           Where(b) = "held", Where(c) = "home",
           \/ Where(b)' = "home" /\ Where(c)' \in {"replaced", "held"}
           \/ Where(b)' = "held" /\ Where(c)' = "replaced",
           \A d \in Body \ {b, c} : Where(d)' = Where(d), Aged' = Aged,
           Fragments' = Fragments
    PROVE  Allowed
<1> DEFINE loc == [d \in Body |-> Where(d)]
<1>1. CASE Where(b)' = "home"
  <2>1. loc' = [loc EXCEPT ![b] = "home", ![c] = Where(c)']
    BY <1>1
  <2>2. Promise!GiveBack(b)
    BY <1>1, <2>1 DEF Where, Aged, Fragments, Promise!GiveBack, Promise!Rivals
  <2> QED
    BY <2>2 DEF Allowed, Promise!Next
<1>2. CASE Where(b)' = "held"
  <2>1. loc' = [loc EXCEPT ![c] = "replaced"]
    BY <1>2
  <2>2. Promise!Overwrite(b)
    BY <1>2, <2>1 DEF Where, Aged, Fragments, Promise!Overwrite, Promise!Rivals
  <2> QED
    BY <2>2 DEF Allowed, Promise!Next
<1> QED
  BY <1>1, <1>2

\* A fragment goes onto a body.
LEMMA SpoilAllowed ==
    ASSUME NEW c \in Body, Where(c) = "home", Where(c)' \in {"spoiled", "held"},
           \A d \in Body \ {c} : Where(d)' = Where(d), Aged' = Aged,
           HomeOf[c] \in Fragments, Fragments' \in {Fragments, Fragments \ {HomeOf[c]}}
    PROVE  Allowed
<1> DEFINE loc == [d \in Body |-> Where(d)]
<1>1. loc' = [loc EXCEPT ![c] = Where(c)']
  OBVIOUS
<1>2. Promise!Spoil(c)
  BY <1>1 DEF Where, Aged, Fragments, Promise!Spoil
<1> QED
  BY <1>2 DEF Allowed, Promise!Next

\* No body moves, and quarantine has one fragment less, or still another of the
\* same path.
LEMMA WithdrawAllowed ==
    ASSUME NEW p \in Path, \A b \in Body : Where(b)' = Where(b), Aged' = Aged,
           Fragments' \in {Fragments, Fragments \ {p}}
    PROVE  Allowed
<1>1. CASE Fragments' = Fragments
  BY <1>1, Stays DEF Allowed
<1>2. CASE Fragments' = Fragments \ {p}
  <2>1. Promise!WithdrawFragment(p)
    BY <1>2 DEF Where, Aged, Fragments, Promise!WithdrawFragment
  <2> QED
    BY <2>1 DEF Allowed, Promise!Next
<1> QED
  BY <1>1, <1>2

\* Quarantine comes to offer a fragment of a path that a body has left.
LEMMA OfferAllowed ==
    ASSUME NEW p \in Path, NEW b \in Body, HomeOf[b] = p, Where(b) \notin {"unborn", "home"},
           \A d \in Body : Where(d)' = Where(d), Aged' = Aged,
           Fragments' = Fragments \cup {p}
    PROVE  Allowed
<1>1. Promise!OfferFragment(p)
  BY DEF Where, Aged, Fragments, Promise!OfferFragment
<1> QED
  BY <1>1 DEF Allowed, Promise!Next

\* What the write of one entry does to the fragments on offer.
LEMMA FragmentsOf ==
    ASSUME NEW q \in Qid, NEW f, qfile \in [Qid -> File], NoFile # Torn, meta' = meta,
           qfile' = [qfile EXCEPT ![q] = f]
    PROVE  /\ meta[q] \notin Path => Fragments' = Fragments
           /\ qfile[q] # Torn /\ f # Torn => Fragments' = Fragments
           /\ f = NoFile => Fragments' \in {Fragments, Fragments \ {meta[q]}}
BY DEF Fragments

\* A step that leaves the files and their history alone moves nothing.
LEMMA FilesStay ==
    ASSUME UNCHANGED <<disk, qfile, hist>>
    PROVE  /\ \A b \in Body : Where(b)' = Where(b)
           /\ UNCHANGED <<meta, taken, expired>> => Aged' = Aged /\ Allowed
<1>1. \A b \in Body : Where(b)' = Where(b)
  BY DEF Where, OnDisk, Held, hist
<1> QED
  BY <1>1, Stays DEF Aged, Fragments, Allowed
-----------------------------------------------------------------------------
(* One lemma per step that touches a file or the age of an entry. *)

\* A fresh id is empty: making it for a file ages no body.
LEMMA TakeAgesNone ==
    ASSUME RInv, NEW c \in Cleaner, NEW p \in Path, NEW q \in Qid, Take(c, p, q),
           expired' = expired
    PROVE  /\ Aged' = Aged /\ qfile[q] = NoFile /\ meta[q] = Nil /\ disk[p] \in Body \cup {Torn}
           /\ disk[p] \in Body => HomeOf[disk[p]] = p /\ disk[p] \in born
<1>1. /\ taken[q] = Nil /\ row[q] = "none" /\ qfile[q] = NoFile /\ meta[q] = Nil
      /\ q \notin expired
  BY DEF Take, RInv, IInv, TakenFaithful, ExpiredHadRow
<1>2. \A r \in expired : taken'[r] = taken[r]
  BY <1>1 DEF Take, RInv, IInv, TypeOK
<1>3. Aged' = Aged
  BY <1>2 DEF Aged
<1> QED
  BY <1>1, <1>3 DEF Take, RInv, IInv, TypeOK, File, DiskFaithful

\* Taken at once, into an entry of its own.
LEMMA QuarantineRenameMoves ==
    ASSUME RInv, NEW c \in Cleaner, NEW p \in Path, NEW q \in Qid, QuarantineRename(c, p, q)
    PROVE  DestroyedGone' /\ Allowed
<1>1. /\ Aged' = Aged /\ qfile[q] = NoFile /\ meta[q] = Nil /\ disk[p] \in Body \cup {Torn}
      /\ disk[p] \in Body => HomeOf[disk[p]] = p /\ disk[p] \in born
  BY TakeAgesNone DEF QuarantineRename
<1>2. /\ disk' = [disk EXCEPT ![p] = NoFile] /\ qfile' = [qfile EXCEPT ![q] = disk[p]]
      /\ meta' = meta /\ UNCHANGED hist
  BY <1>1 DEF QuarantineRename
<1>3. Fragments' = Fragments
  BY <1>1, <1>2, ConstantAssumption, FragmentsOf DEF RInv, IInv, TypeOK
<1>4. \A d \in Body : d # disk[p] => (OnDisk(d)' <=> OnDisk(d)) /\ (Held(d)' <=> Held(d))
  BY <1>1, <1>2, ConstantAssumption DEF RInv, IInv, TypeOK, OnDisk, Held
<1>5. ASSUME NEW b \in Body, disk[p] = b PROVE DestroyedGone' /\ Allowed
  <2>1. OnDisk(b) /\ ~OnDisk(b)' /\ Held(b)'
    BY <1>1, <1>2, <1>5, ConstantAssumption DEF RInv, IInv, TypeOK, OnDisk, Held
  <2>2. Moves(b, "home", "held")
    BY <1>1, <1>2, <1>3, <1>4, <1>5, <2>1 DEF Moves, Where, hist
  <2>3. DestroyedGone'
    BY <1>2, <1>4, <1>5, <2>1 DEF RInv, IInv, TypeOK, DestroyedGone, hist
  <2> QED
    BY <2>2, <2>3, MovesAllowed
<1>6. CASE disk[p] = Torn
  <2>1. \A d \in Body : d # disk[p]
    BY <1>6, ConstantAssumption
  <2>2. DestroyedGone'
    BY <1>2, <1>4, <2>1 DEF RInv, IInv, TypeOK, DestroyedGone, hist
  <2> QED
    BY <1>1, <1>2, <1>3, <1>4, <2>1, <2>2, Stays DEF Where, hist, Allowed
<1> QED
  BY <1>1, <1>5, <1>6

\* A torn copy is no body.
LEMMA QuarantineCopyMoves ==
    ASSUME RInv, NEW c \in Cleaner, NEW p \in Path, NEW q \in Qid, QuarantineCopy(c, p, q)
    PROVE  DestroyedGone' /\ Allowed
<1>1. Aged' = Aged /\ qfile[q] = NoFile /\ meta[q] = Nil
  BY TakeAgesNone DEF QuarantineCopy
<1>2. /\ disk' = disk /\ qfile' = [qfile EXCEPT ![q] = Torn] /\ meta' = meta
      /\ UNCHANGED hist
  BY DEF QuarantineCopy
<1>3. \A b \in Body : (OnDisk(b)' <=> OnDisk(b)) /\ (Held(b)' <=> Held(b))
  BY <1>1, <1>2, ConstantAssumption DEF RInv, IInv, TypeOK, OnDisk, Held
<1>4. DestroyedGone'
  BY <1>2, <1>3 DEF RInv, IInv, TypeOK, DestroyedGone, hist
<1>5. Fragments' = Fragments
  BY <1>1, <1>2, ConstantAssumption, FragmentsOf DEF RInv, IInv, TypeOK
<1> QED
  BY <1>1, <1>2, <1>3, <1>4, <1>5, Stays DEF Where, hist, Allowed

\* A body that is in both places is at home.
LEMMA QuarantineCopiedMoves ==
    ASSUME RInv, NEW c \in Cleaner, QuarantineCopied(c)
    PROVE  DestroyedGone' /\ Allowed
<1> DEFINE q == cl[c].q
           p == cl[c].p
<1>1. /\ q \in Qid /\ p \in Path /\ qfile[q] = Torn /\ disk[p] = taken[q] /\ meta[q] = Nil
      /\ taken[q] \in Body \cup {Torn} /\ (taken[q] \in Body => p = HomeOf[taken[q]])
  BY DEF QuarantineCopied, RInv, IInv, TypeOK, CleanersOK
<1>2. /\ disk' = disk /\ qfile' = [qfile EXCEPT ![q] = disk[p]]
      /\ meta' = meta /\ UNCHANGED <<hist, taken, expired>>
  BY DEF QuarantineCopied
<1> HIDE DEF p, q
<1>3. \A b \in Body : (OnDisk(b)' <=> OnDisk(b)) /\ (OnDisk(b) \/ (Held(b)' <=> Held(b)))
  BY <1>1, <1>2, ConstantAssumption DEF RInv, IInv, TypeOK, OnDisk, Held
<1>4. DestroyedGone'
  BY <1>2, <1>3 DEF RInv, IInv, TypeOK, DestroyedGone, hist
<1>5. (\A b \in Body : Where(b)' = Where(b)) /\ Aged' = Aged
  BY <1>2, <1>3 DEF Where, Aged, hist
<1>6. Fragments' = Fragments
  BY <1>1, <1>2, ConstantAssumption, FragmentsOf DEF RInv, IInv, TypeOK
<1> QED
  BY <1>4, <1>5, <1>6, Stays DEF Allowed

\* The copy is complete: with the original gone, the body is held.
LEMMA QuarantineUnlinkMoves ==
    ASSUME RInv, NEW c \in Cleaner, QuarantineUnlink(c)
    PROVE  DestroyedGone' /\ Allowed
<1> DEFINE q == cl[c].q
           p == cl[c].p
<1>1. /\ q \in Qid /\ p \in Path /\ qfile[q] = disk[p] /\ disk[p] \in Body \cup {Torn}
      /\ disk[p] \in Body => p = HomeOf[disk[p]] /\ disk[p] \in born
  BY DEF QuarantineUnlink, RInv, IInv, TypeOK, CleanersOK, DiskFaithful
<1>2. /\ disk' = [disk EXCEPT ![p] = NoFile] /\ qfile' = qfile /\ meta' = meta
      /\ UNCHANGED <<hist, taken, expired>>
  BY DEF QuarantineUnlink
<1> HIDE DEF p, q
<1>3. Aged' = Aged /\ Fragments' = Fragments
  BY <1>2 DEF Aged, Fragments
<1>4. \A d \in Body : d # disk[p] => (OnDisk(d)' <=> OnDisk(d)) /\ (Held(d)' <=> Held(d))
  BY <1>1, <1>2, ConstantAssumption DEF RInv, IInv, TypeOK, OnDisk, Held
<1>5. ASSUME NEW b \in Body, disk[p] = b PROVE DestroyedGone' /\ Allowed
  <2>1. OnDisk(b) /\ ~OnDisk(b)' /\ Held(b)'
    BY <1>1, <1>2, <1>5, ConstantAssumption DEF RInv, IInv, TypeOK, OnDisk, Held
  <2>2. Moves(b, "home", "held")
    BY <1>1, <1>2, <1>3, <1>4, <1>5, <2>1 DEF Moves, Where, hist
  <2>3. DestroyedGone'
    BY <1>2, <1>4, <1>5, <2>1 DEF RInv, IInv, TypeOK, DestroyedGone, hist
  <2> QED
    BY <2>2, <2>3, MovesAllowed
<1>6. CASE disk[p] = Torn
  <2>1. \A d \in Body : d # disk[p]
    BY <1>6, ConstantAssumption
  <2>2. DestroyedGone'
    BY <1>2, <1>4, <2>1 DEF RInv, IInv, TypeOK, DestroyedGone, hist
  <2> QED
    BY <1>2, <1>3, <1>4, <2>1, <2>2, Stays DEF Where, hist, Allowed
<1> QED
  BY <1>1, <1>5, <1>6

\* With its meta.json a fragment can be restored; the file it is a part of is
\* still out of its path.
LEMMA QuarantineMetaMoves ==
    ASSUME RInv, NEW c \in Cleaner, QuarantineMeta(c)
    PROVE  DestroyedGone' /\ Allowed
<1> DEFINE q == cl[c].q
           p == cl[c].p
<1>1. /\ q \in Qid /\ p \in Path /\ meta[q] = Nil
      /\ qfile[q] = Torn => \E b \in born : HomeOf[b] = p /\ ~OnDisk(b)
  BY DEF QuarantineMeta, RInv, IInv, CleanersOK, BrokenOff
<1>2. /\ disk' = disk /\ qfile' = qfile /\ meta' = [meta EXCEPT ![q] = p]
      /\ UNCHANGED <<hist, taken, expired>>
  BY DEF QuarantineMeta
<1> HIDE DEF p, q
<1>3. (\A b \in Body : Where(b)' = Where(b)) /\ Aged' = Aged /\ DestroyedGone'
  BY <1>2, FilesStay DEF Aged, RInv, DestroyedGone, OnDisk, Held, hist
<1>4. CASE qfile[q] # Torn
  <2>1. Fragments' = Fragments
    BY <1>1, <1>2, <1>4 DEF Fragments, RInv, IInv, TypeOK
  <2> QED
    BY <1>3, <2>1, Stays DEF Allowed
<1>5. CASE qfile[q] = Torn
  <2>1. \A r \in Qid \ {q} : meta'[r] = meta[r]
    BY <1>2
  <2>2. meta[q] \notin Path /\ meta'[q] = p
    BY <1>1, <1>2, ConstantAssumption DEF RInv, IInv, TypeOK
  <2>3. Fragments' = Fragments \cup {p}
    BY <1>1, <1>2, <1>5, <2>1, <2>2 DEF Fragments
  <2>4. PICK b \in born : HomeOf[b] = p /\ ~OnDisk(b)
    BY <1>1, <1>5
  <2>5. b \in Body /\ Where(b) \notin {"unborn", "home"}
    BY <2>4 DEF RInv, IInv, TypeOK, Where
  <2> QED
    BY <1>1, <1>3, <2>3, <2>4, <2>5, OfferAllowed
<1> QED
  BY <1>4, <1>5

\* What may be restored: a body of the path, or a fragment.
LEMMA Restorable ==
    ASSUME RInv, NEW q \in Qid, meta[q] # Nil, qfile[q] # NoFile
    PROVE  /\ meta[q] \in Path /\ qfile[q] \in Body \cup {Torn}
           /\ qfile[q] \in Body => meta[q] = HomeOf[qfile[q]] /\ qfile[q] \in born
           /\ qfile[q] = Torn => meta[q] \in Fragments
BY DEF RInv, IInv, TypeOK, File, MetaFaithful, DiskFaithful, Fragments

\* Onto its own copy, onto nothing, or onto another body of the path.
LEMMA RestoreRenameMoves ==
    ASSUME RInv, NEW r \in Restorer, NEW q \in Qid, RestoreRename(r, q), qfile[q] \in Body
    PROVE  DestroyedGone' /\ Allowed
<1> DEFINE p == meta[q]
<1>1. /\ p \in Path /\ p = HomeOf[qfile[q]] /\ qfile[q] \in born
      /\ replaced' = replaced \cup Overwritten(q) /\ spoiled' = spoiled
  BY Restorable, ConstantAssumption DEF RestoreRename, RestoreBegin
<1>2. PICK b \in Body : qfile[q] = b /\ p = HomeOf[b] /\ b \in born
  BY <1>1
<1>3. /\ disk' = [disk EXCEPT ![p] = b] /\ qfile' = [qfile EXCEPT ![q] = NoFile]
      /\ meta' = meta /\ UNCHANGED <<born, purged, taken, expired>>
  BY <1>2 DEF RestoreRename
<1>4. Aged' = Aged /\ Fragments' = Fragments
  <2>1. qfile[q] # Torn /\ NoFile # Torn
    BY <1>2, ConstantAssumption
  <2>2. Fragments' = Fragments
    BY <1>3, <2>1, FragmentsOf DEF RInv, IInv, TypeOK
  <2> QED
    BY <1>3, <2>2 DEF Aged
<1>5. Held(b) /\ OnDisk(b)'
  BY <1>1, <1>2, <1>3 DEF RInv, IInv, TypeOK, OnDisk, Held
<1>6. \A d \in Body \ {b} : (Held(d)' <=> Held(d)) /\ (d # disk[p] => (OnDisk(d)' <=> OnDisk(d)))
  BY <1>1, <1>2, <1>3, ConstantAssumption DEF RInv, IInv, TypeOK, OnDisk, Held
<1>7. \A d \in Body \ {b} : OnDisk(d)' => OnDisk(d)
  BY <1>1, <1>2, <1>3, ConstantAssumption DEF RInv, IInv, TypeOK, OnDisk
<1>8. \A d \in Overwritten(q) : /\ d \in Body \ {b} /\ d = disk[p] /\ d \in born
                                /\ ~Held(d) /\ ~OnDisk(d)'
  BY <1>1, <1>2, <1>3 DEF RInv, IInv, TypeOK, DiskFaithful, Overwritten, Held, OnDisk
<1>9. DestroyedGone'
  BY <1>1, <1>3, <1>5, <1>6, <1>7, <1>8 DEF RInv, IInv, TypeOK, DestroyedGone
<1>10. \A d \in Body \ {b} : d # disk[p] => Where(d)' = Where(d)
  BY <1>1, <1>3, <1>6 DEF Where
<1>11. Where(b)' = "home" /\ Where(b) \in {"home", "held"} /\ (Where(b) = "home" <=> OnDisk(b))
  BY <1>2, <1>3, <1>5 DEF Where
<1>12. CASE disk[p] = b
  <2>1. \A d \in Body : Where(d)' = Where(d)
    BY <1>2, <1>10, <1>11, <1>12 DEF OnDisk
  <2> QED
    BY <1>4, <1>9, <2>1, Stays DEF Allowed
<1>13. CASE disk[p] \notin Body
  <2>1. Where(b) = "held"
    BY <1>2, <1>11, <1>13 DEF OnDisk
  <2>2. Moves(b, "held", "home")
    BY <1>4, <1>10, <1>11, <1>13, <2>1 DEF Moves
  <2> QED
    BY <1>9, <2>2, MovesAllowed
<1>14. ASSUME NEW c \in Body \ {b}, disk[p] = c PROVE Allowed
  <2>1. HomeOf[c] = p /\ OnDisk(c) /\ c \in born /\ ~OnDisk(c)'
    BY <1>1, <1>2, <1>3, <1>14 DEF RInv, IInv, TypeOK, DiskFaithful, OnDisk
  <2>2. Where(b) = "held"
    BY <1>2, <1>11, <1>14 DEF OnDisk
  <2>3. c \notin purged /\ c \notin spoiled /\ Where(c) = "home"
    BY <2>1 DEF RInv, DestroyedGone, Where
  <2>4. Where(c)' \in {"replaced", "held"}
    BY <1>1, <1>3, <2>1, <2>3 DEF Where
  <2>5. \A d \in Body \ {b, c} : Where(d)' = Where(d)
    BY <1>10, <1>14
  <2> QED
    BY <1>2, <1>4, <1>11, <2>1, <2>2, <2>3, <2>4, <2>5, ReplacesAllowed
<1> QED
  BY <1>9, <1>12, <1>13, <1>14

\* The path is torn: what was there is gone from it.
LEMMA RestoreCopyMoves ==
    ASSUME RInv, NEW r \in Restorer, NEW q \in Qid, RestoreCopy(r, q), qfile[q] \in Body
    PROVE  DestroyedGone' /\ Allowed
<1> DEFINE p == meta[q]
<1>1. /\ p \in Path /\ p = HomeOf[qfile[q]] /\ qfile[q] \in born
      /\ replaced' = replaced \cup Overwritten(q) /\ spoiled' = spoiled
  BY Restorable, ConstantAssumption DEF RestoreCopy, RestoreBegin
<1>2. PICK b \in Body : qfile[q] = b /\ p = HomeOf[b] /\ b \in born
  BY <1>1
<1>3. /\ disk' = [disk EXCEPT ![p] = Torn] /\ qfile' = qfile /\ meta' = meta
      /\ UNCHANGED <<born, purged, taken, expired>>
  BY DEF RestoreCopy
<1>4. Aged' = Aged /\ Fragments' = Fragments
  BY <1>3 DEF Aged, Fragments
<1>5. Held(b) /\ Held(b)' /\ ~OnDisk(b)'
  BY <1>1, <1>2, <1>3, ConstantAssumption DEF RInv, IInv, TypeOK, OnDisk, Held
<1>6. \A d \in Body : /\ Held(d)' <=> Held(d)
                      /\ IF d = disk[p] THEN ~OnDisk(d)' ELSE OnDisk(d)' <=> OnDisk(d)
  BY <1>1, <1>2, <1>3, ConstantAssumption DEF RInv, IInv, TypeOK, DiskFaithful, OnDisk, Held
<1>7. \A d \in Overwritten(q) : d \in Body /\ d = disk[p] /\ d \in born /\ ~Held(d)
  BY <1>1 DEF RInv, IInv, DiskFaithful, Overwritten, Held
<1>8. DestroyedGone'
  BY <1>1, <1>3, <1>6, <1>7 DEF RInv, IInv, TypeOK, DestroyedGone
<1>9. \A d \in Body : d # disk[p] => Where(d)' = Where(d)
  BY <1>1, <1>3, <1>6, <1>7 DEF Where
<1>10. CASE disk[p] \notin Body
  BY <1>4, <1>8, <1>9, <1>10, Stays DEF Allowed
<1>11. ASSUME NEW c \in Body, disk[p] = c PROVE Allowed
  <2>1. HomeOf[c] = p /\ OnDisk(c) /\ c \in born /\ ~OnDisk(c)'
    BY <1>1, <1>6, <1>11 DEF RInv, IInv, DiskFaithful, OnDisk
  <2>2. c \notin purged /\ c \notin spoiled /\ Where(c) = "home"
    BY <2>1 DEF RInv, DestroyedGone, Where
  <2>3. CASE Held(c)
    <3>1. Moves(c, "home", "held")
      BY <1>3, <1>4, <1>6, <1>9, <1>11, <2>1, <2>2, <2>3 DEF Moves, Where
    <3> QED
      BY <3>1, MovesAllowed
  <2>4. CASE ~Held(c)
    <3>1. c # b /\ Where(b) = "held" /\ Where(b)' = "held"
      BY <1>2, <1>3, <1>5, <1>11, <2>4 DEF Where, OnDisk
    <3>2. Where(c)' = "replaced"
      BY <1>1, <1>3, <1>6, <2>1, <2>2, <2>4 DEF Where
    <3>3. \A d \in Body \ {b, c} : Where(d)' = Where(d)
      BY <1>9, <1>11
    <3> QED
      BY <1>2, <1>4, <2>1, <2>2, <3>1, <3>2, <3>3, ReplacesAllowed
  <2> QED
    BY <2>3, <2>4
<1> QED
  BY <1>8, <1>10, <1>11

\* A fragment goes onto its path: onto nothing, onto another fragment, or onto
\* the body that came home since.
LEMMA RestoreFragmentMoves ==
    ASSUME RInv, NEW r \in Restorer, NEW q \in Qid, RestoreRename(r, q) \/ RestoreCopy(r, q),
           qfile[q] = Torn
    PROVE  DestroyedGone' /\ Allowed
<1> DEFINE p == meta[q]
<1>1. /\ p \in Path /\ p \in Fragments
      /\ spoiled' = spoiled \cup Overwritten(q) /\ replaced' = replaced
  BY Restorable, ConstantAssumption DEF RestoreRename, RestoreCopy, RestoreBegin
<1>2. /\ disk' = [disk EXCEPT ![p] = Torn] /\ meta' = meta
      /\ qfile' = [qfile EXCEPT ![q] = NoFile] \/ qfile' = qfile
      /\ UNCHANGED <<born, purged, taken, expired>>
  BY DEF RestoreRename, RestoreCopy
<1>3. Aged' = Aged /\ Fragments' \in {Fragments, Fragments \ {p}}
  <2>1. CASE qfile' = qfile
    BY <1>2, <2>1 DEF Aged, Fragments
  <2>2. CASE qfile' = [qfile EXCEPT ![q] = NoFile]
    <3>1. Fragments' \in {Fragments, Fragments \ {p}}
      BY <1>2, <2>2, ConstantAssumption, FragmentsOf DEF RInv, IInv, TypeOK
    <3> QED
      BY <1>2, <3>1 DEF Aged
  <2> QED
    BY <1>2, <2>1, <2>2
<1>4. \A d \in Body : /\ Held(d)' <=> Held(d)
                      /\ IF d = disk[p] THEN ~OnDisk(d)' ELSE OnDisk(d)' <=> OnDisk(d)
  BY <1>1, <1>2, ConstantAssumption DEF RInv, IInv, TypeOK, DiskFaithful, OnDisk, Held
<1>5. \A d \in Overwritten(q) : d \in Body /\ d = disk[p] /\ d \in born /\ ~Held(d)
  BY <1>1 DEF RInv, IInv, DiskFaithful, Overwritten, Held
<1>6. DestroyedGone'
  BY <1>1, <1>2, <1>4, <1>5 DEF RInv, IInv, TypeOK, DestroyedGone
<1>7. \A d \in Body : d # disk[p] => Where(d)' = Where(d)
  BY <1>1, <1>2, <1>4, <1>5 DEF Where
<1>8. CASE disk[p] \notin Body
  BY <1>1, <1>3, <1>6, <1>7, <1>8, WithdrawAllowed
<1>9. ASSUME NEW c \in Body, disk[p] = c PROVE Allowed
  <2>1. HomeOf[c] = p /\ OnDisk(c) /\ c \in born /\ ~OnDisk(c)'
    BY <1>1, <1>4, <1>9 DEF RInv, IInv, DiskFaithful, OnDisk
  <2>2. c \notin purged /\ Where(c) = "home"
    BY <2>1 DEF RInv, DestroyedGone, Where
  <2>3. Held(c)' \/ c \in Overwritten(q)
    BY <1>4, <1>9 DEF Overwritten, Held
  <2>4. Where(c)' \in {"spoiled", "held"}
    BY <1>1, <1>2, <2>1, <2>2, <2>3 DEF Where
  <2> QED
    BY <1>1, <1>3, <1>7, <1>9, <2>1, <2>2, <2>4, SpoilAllowed
<1> QED
  BY <1>6, <1>8, <1>9

\* The copy back is complete: the torn path holds the body, or what there was
\* of it.
LEMMA RestoreCopiedMoves ==
    ASSUME RInv, NEW r \in Restorer, RestoreCopied(r)
    PROVE  DestroyedGone' /\ Allowed
<1> DEFINE q == rs[r].q
           p == meta[q]
<1>1. /\ q \in Qid /\ disk[p] = Torn /\ p \in Path /\ qfile[q] \in Body \cup {Torn}
      /\ qfile[q] \in Body => p = HomeOf[qfile[q]] /\ qfile[q] \in born
  BY Restorable DEF RestoreCopied, RInv, IInv, RestorersOK
<1>2. /\ disk' = [disk EXCEPT ![p] = qfile[q]] /\ qfile' = qfile /\ meta' = meta
      /\ UNCHANGED <<hist, taken, expired>>
  BY DEF RestoreCopied
<1> HIDE DEF p, q
<1>3. Aged' = Aged /\ Fragments' = Fragments
  BY <1>2 DEF Aged, Fragments
<1>4. CASE qfile[q] = Torn
  <2>1. disk' = disk
    BY <1>1, <1>2, <1>4 DEF RInv, IInv, TypeOK
  <2>2. DestroyedGone'
    BY <1>2, <2>1 DEF RInv, DestroyedGone, OnDisk, Held, hist
  <2> QED
    BY <1>2, <2>1, <2>2, FilesStay
<1>5. ASSUME NEW b \in Body, qfile[q] = b PROVE DestroyedGone' /\ Allowed
  <2>1. Held(b) /\ ~OnDisk(b) /\ OnDisk(b)' /\ b \in born
    BY <1>1, <1>2, <1>5, ConstantAssumption DEF RInv, IInv, TypeOK, OnDisk, Held
  <2>2. \A d \in Body \ {b} : (OnDisk(d)' <=> OnDisk(d)) /\ (Held(d)' <=> Held(d))
    BY <1>1, <1>2, <1>5, ConstantAssumption DEF RInv, IInv, TypeOK, OnDisk, Held
  <2>3. Moves(b, "held", "home")
    BY <1>2, <1>3, <2>1, <2>2 DEF Moves, Where, hist
  <2>4. DestroyedGone'
    BY <1>2, <2>1, <2>2 DEF RInv, IInv, TypeOK, DestroyedGone, hist
  <2> QED
    BY <2>3, <2>4, MovesAllowed
<1> QED
  BY <1>1, <1>4, <1>5

\* The entry's file goes only when its path holds the same.
LEMMA RestoreUnlinkMoves ==
    ASSUME RInv, NEW r \in Restorer, RestoreUnlink(r)
    PROVE  DestroyedGone' /\ Allowed
<1> DEFINE q == rs[r].q
           p == meta[q]
<1>1. /\ q \in Qid /\ p \in Path /\ disk[p] = qfile[q]
      /\ qfile[q] \in Body => p = HomeOf[qfile[q]]
  BY Restorable DEF RestoreUnlink, RInv, IInv, RestorersOK
<1>2. /\ disk' = disk /\ meta' = meta /\ UNCHANGED <<hist, taken, expired>>
      /\ qfile' = [qfile EXCEPT ![q] = NoFile]
  BY DEF RestoreUnlink
<1>3. Fragments' \in {Fragments, Fragments \ {p}}
  BY <1>1, <1>2, ConstantAssumption, FragmentsOf DEF RInv, IInv, TypeOK
<1> HIDE DEF p, q
<1>4. \A b \in Body : /\ (OnDisk(b)' <=> OnDisk(b)) /\ (Held(b)' => Held(b))
                      /\ OnDisk(b) \/ (Held(b)' <=> Held(b))
  BY <1>1, <1>2, ConstantAssumption DEF RInv, IInv, TypeOK, OnDisk, Held
<1>5. (\A b \in Body : Where(b)' = Where(b)) /\ Aged' = Aged
  <2>1. \A b \in Body : Where(b)' = Where(b)
    BY <1>2, <1>4 DEF Where, hist
  <2> QED
    BY <1>2, <2>1 DEF Aged
<1>6. DestroyedGone'
  BY <1>2, <1>4 DEF RInv, IInv, TypeOK, DestroyedGone, hist
<1> QED
  BY <1>1, <1>3, <1>5, <1>6, WithdrawAllowed

\* By then the entry is empty: its directory goes without any file.
LEMMA RestoreRmtreeMoves ==
    ASSUME RInv, NEW r \in Restorer, RestoreRmtree(r)
    PROVE  DestroyedGone' /\ Allowed
<1> DEFINE q == rs[r].q
<1>1. q \in Qid /\ qfile[q] = NoFile
  BY DEF RestoreRmtree, RInv, IInv, RestorersOK
<1>2. disk' = disk /\ qfile' = qfile /\ UNCHANGED <<hist, taken, expired>>
  BY <1>1 DEF RestoreRmtree, RInv, IInv, TypeOK
<1>3. \A s \in Qid : s # q => meta'[s] = meta[s]
  BY DEF RestoreRmtree, RInv, IInv, TypeOK
<1> HIDE DEF q
<1>4. Fragments' = Fragments
  BY <1>1, <1>2, <1>3, ConstantAssumption DEF Fragments
<1>5. (\A b \in Body : Where(b)' = Where(b)) /\ Aged' = Aged
  BY <1>2, FilesStay DEF Aged
<1>6. DestroyedGone'
  BY <1>2 DEF RInv, DestroyedGone, OnDisk, Held, hist
<1> QED
  BY <1>4, <1>5, <1>6, Stays DEF Allowed

\* Retention destroys a body when its entry was the last place it was.
LEMMA RetentionUnlinkMoves ==
    ASSUME RInv, NEW q \in Qid, RetentionUnlink(q)
    PROVE  DestroyedGone' /\ Allowed
<1>1. /\ disk' = disk /\ UNCHANGED <<meta, born, replaced, spoiled, taken, expired>>
      /\ q \in expired
  BY DEF RetentionUnlink, RInv, IInv, RetentionOK
<1>2. CASE UNCHANGED <<qfile, purged>>
  <2>1. UNCHANGED <<disk, qfile, hist>> /\ UNCHANGED <<meta, taken, expired>>
    BY <1>1, <1>2 DEF hist
  <2>2. DestroyedGone'
    BY <2>1 DEF RInv, DestroyedGone, OnDisk, Held, hist
  <2>3. Allowed
    BY <2>1, FilesStay
  <2> QED
    BY <2>2, <2>3
<1>3. CASE qfile' = [qfile EXCEPT ![q] = NoFile] /\ purged' = purged \cup LastCopy(q)
  <2>1. \A b \in Body : (OnDisk(b)' <=> OnDisk(b)) /\ (Held(b)' => Held(b))
    BY <1>1, <1>3, ConstantAssumption DEF RInv, IInv, TypeOK, OnDisk, Held
  <2>2. \A b \in Body : b \notin LastCopy(q) => OnDisk(b) \/ (Held(b)' <=> Held(b))
    BY <1>3, ConstantAssumption DEF RInv, IInv, TypeOK, OnDisk, Held, LastCopy
  <2>3. \A b \in LastCopy(q) : /\ b \in Body /\ qfile[q] = b /\ b = taken[q] /\ b \in born
                               /\ Held(b) /\ ~OnDisk(b) /\ ~Held(b)'
    BY <1>3, ConstantAssumption
       DEF RInv, IInv, TypeOK, TakenFaithful, DiskFaithful, OnDisk, Held, LastCopy
  <2>4. DestroyedGone'
    BY <1>1, <1>3, <2>1, <2>3 DEF RInv, IInv, TypeOK, DestroyedGone
  <2>5. Aged' = Aged /\ \A b \in Body \ LastCopy(q) : Where(b)' = Where(b)
    BY <1>1, <1>3, <2>1, <2>2 DEF Where, Aged
  <2>6. ASSUME NEW b \in LastCopy(q) PROVE Allowed
    <3>1. b \in Body /\ b \in Aged /\ LastCopy(q) = {b}
      BY <1>1, <2>3 DEF Aged
    <3>2. qfile[q] # Torn /\ NoFile # Torn
      BY <2>3, ConstantAssumption
    <3>3. Fragments' = Fragments
      BY <1>1, <1>3, <3>2, FragmentsOf DEF RInv, IInv, TypeOK
    <3>4. Moves(b, "held", "purged")
      BY <1>1, <1>3, <2>1, <2>3, <2>5, <3>1, <3>3 DEF Moves, Where
    <3> QED
      BY <3>1, <3>4, MovesAllowed
  <2>7. CASE LastCopy(q) = {}
    <3>1. Fragments' \in {Fragments, Fragments \ {meta[q]}}
      BY <1>1, <1>3, ConstantAssumption, FragmentsOf DEF RInv, IInv, TypeOK
    <3>2. \A b \in Body : Where(b)' = Where(b)
      BY <2>5, <2>7
    <3>3. CASE meta[q] \in Path
      BY <2>4, <2>5, <3>1, <3>2, <3>3, WithdrawAllowed
    <3>4. CASE meta[q] \notin Path
      <4>1. Fragments' = Fragments
        BY <3>1, <3>4 DEF Fragments
      <4> QED
        BY <2>4, <2>5, <3>2, <4>1, Stays DEF Allowed
    <3> QED
      BY <3>3, <3>4
  <2> QED
    BY <2>4, <2>6, <2>7
<1> QED
  BY <1>2, <1>3 DEF RetentionUnlink

\* A file that is written appears where there was none.
LEMMA AppWritesMoves ==
    ASSUME RInv, NEW b \in Body, AppWrites(b)
    PROVE  DestroyedGone' /\ Allowed
<1>1. /\ b \notin born /\ disk[HomeOf[b]] = NoFile /\ disk' = [disk EXCEPT ![HomeOf[b]] = b]
      /\ born' = born \cup {b} /\ qfile' = qfile
      /\ UNCHANGED <<meta, purged, replaced, spoiled, taken, expired>>
  BY DEF AppWrites
<1>2. OnDisk(b)' /\ \A d \in Body \ {b} : (OnDisk(d)' <=> OnDisk(d)) /\ (Held(d)' <=> Held(d))
  BY <1>1, ConstantAssumption DEF RInv, IInv, TypeOK, OnDisk, Held
<1>3. Moves(b, "unborn", "home")
  BY <1>1, <1>2 DEF Moves, Where, Aged, Fragments
<1>4. DestroyedGone'
  BY <1>1, <1>2 DEF RInv, IInv, TypeOK, DestroyedGone
<1> QED
  BY <1>3, <1>4, MovesAllowed

\* The entry of a body passes the cutoff.
LEMMA RowAgesMoves ==
    ASSUME RInv, NEW q \in Qid, RowAges(q)
    PROVE  DestroyedGone' /\ Allowed
<1>1. UNCHANGED <<disk, qfile, meta, hist, taken>> /\ expired' = expired \cup {q}
  BY DEF RowAges, files
<1>2. (\A d \in Body : Where(d)' = Where(d)) /\ Fragments' = Fragments
  BY <1>1, FilesStay DEF Fragments
<1>3. DestroyedGone'
  BY <1>1 DEF RInv, DestroyedGone, OnDisk, Held, hist
<1>4. CASE taken[q] \in Body
  <2>1. PICK b \in Body : b = taken[q]
    BY <1>4
  <2>2. Aged' = Aged \cup {b}
    BY <1>1, <2>1 DEF Aged
  <2>3. Promise!Age(b)
    BY <1>2, <2>2 DEF Promise!Age, Where, Aged, Fragments
  <2> QED
    BY <1>3, <2>3 DEF Allowed, Promise!Next
<1>5. CASE taken[q] \notin Body
  <2>1. Aged' = Aged
    BY <1>1, <1>5 DEF Aged
  <2> QED
    BY <1>2, <1>3, <2>1, Stays DEF Allowed
<1> QED
  BY <1>4, <1>5

\* Every other step leaves the files and the ages alone.
LEMMA OthersMoveNothing ==
    ASSUME RInv,
           \/ \E c \in Cleaner : QuarantineInsert(c) \/ QuarantineFails(c)
           \/ \E r \in Restorer : RestoreUpdate(r) \/ RestoreFails(r)
           \/ \E q \in Qid : RetentionDelete(q)
           \/ RetentionList \/ RetentionCommit \/ RetentionFails \/ SetRetention \/ Crash
           \/ UNCHANGED vars
    PROVE  DestroyedGone' /\ Allowed
<1>1. UNCHANGED <<disk, qfile, meta, hist, taken, expired>>
  BY DEF QuarantineInsert, QuarantineFails, RestoreUpdate, RestoreFails,
         RetentionDelete, RetentionList, RetentionCommit, RetentionFails, SetRetention, Crash,
         vars, files
<1> QED
  BY <1>1, FilesStay DEF RInv, DestroyedGone, OnDisk, Held, hist
-----------------------------------------------------------------------------
(* The refinement. *)

\* A row that existed never becomes one that did not, and only rows age.
LEMMA ExpiredHadRowKeeps ==
    ASSUME IInv, ExpiredHadRow, [Next]_vars
    PROVE  ExpiredHadRow'
<1>1. CASE UNCHANGED <<row, expired>>
  BY <1>1 DEF ExpiredHadRow
<1>2. ASSUME NEW c \in Cleaner, QuarantineInsert(c) PROVE ExpiredHadRow'
  BY <1>2 DEF QuarantineInsert, IInv, TypeOK, ExpiredHadRow
<1>3. ASSUME NEW r \in Restorer, RestoreUpdate(r) PROVE ExpiredHadRow'
  BY <1>3 DEF RestoreUpdate, IInv, TypeOK, ExpiredHadRow
<1>4. CASE RetentionCommit
  BY <1>4 DEF RetentionCommit, IInv, TypeOK, ExpiredHadRow
<1>5. ASSUME NEW q \in Qid, RowAges(q) PROVE ExpiredHadRow'
  BY <1>5 DEF RowAges, Rows, ExpiredHadRow
<1>6. \/ UNCHANGED <<row, expired>> \/ RetentionCommit
      \/ \E c \in Cleaner : QuarantineInsert(c)
      \/ \E r \in Restorer : RestoreUpdate(r)
      \/ \E q \in Qid : RowAges(q)
  BY DEF Next, vars, CleanerStep, QuarantineCopied, QuarantineUnlink, QuarantineMeta,
         QuarantineFails, QuarantineRename, QuarantineCopy, RestorerStep, RestoreCopied,
         RestoreUnlink, RestoreRmtree, RestoreFails, RestoreRename, RestoreCopy,
         RetentionList, RetentionStep, RetentionDelete, RetentionUnlink, RetentionFails,
         AppWrites, SetRetention, Crash
<1> QED
  BY <1>1, <1>2, <1>3, <1>4, <1>5, <1>6

\* Fragments come from files that were written, which nothing unwrites; and
\* while a cleaner has yet to write meta.json, no restore runs.
LEMMA BrokenOffKeeps ==
    ASSUME RInv, [Next]_vars
    PROVE  BrokenOff'
<1>1. ASSUME NEW c \in Cleaner, NEW p \in Path, NEW q \in Qid, QuarantineRename(c, p, q)
      PROVE  BrokenOff'
  <2>1. /\ meta' = meta /\ born' = born
        /\ disk' = [disk EXCEPT ![p] = NoFile]
        /\ qfile' = [qfile EXCEPT ![q] = disk[p]]
        /\ \A d \in Cleaner : cl'[d].at = "meta" => d = c /\ cl'[d].q = q /\ cl'[d].p = p
    BY <1>1 DEF QuarantineRename, Take, LoopFree, hist, RInv, IInv, TypeOK
  <2>2. disk[p] = Torn => \E b \in born : HomeOf[b] = p /\ ~OnDisk(b)'
    BY <2>1, ConstantAssumption DEF RInv, IInv, TypeOK, BrokenOff, OnDisk
  <2> QED
    BY <2>1, <2>2, ConstantAssumption DEF RInv, IInv, TypeOK, BrokenOff
<1>a. ASSUME NEW c \in Cleaner, NEW p \in Path, NEW q \in Qid, QuarantineCopy(c, p, q)
      PROVE  BrokenOff'
  BY <1>a DEF QuarantineCopy, Take, LoopFree, hist, RInv, IInv, TypeOK, BrokenOff
<1>2. ASSUME NEW c \in Cleaner, QuarantineCopied(c) PROVE BrokenOff'
  BY <1>2 DEF QuarantineCopied, RInv, IInv, TypeOK, BrokenOff, Exclusive, ClSync, OnDisk, hist
<1>3. ASSUME NEW c \in Cleaner, QuarantineUnlink(c) PROVE BrokenOff'
  <2>1. /\ cl[c].p \in Path /\ qfile[cl[c].q] = disk[cl[c].p]
        /\ \A d \in Cleaner : cl[d].at # "meta"
    BY <1>3 DEF QuarantineUnlink, RInv, IInv, CleanersOK, Exclusive, ClSync
  <2>2. disk[cl[c].p] = Torn => \E b \in born : HomeOf[b] = cl[c].p /\ ~OnDisk(b)'
    BY <1>3, <2>1, ConstantAssumption DEF RInv, IInv, TypeOK, BrokenOff, OnDisk, QuarantineUnlink
  <2> QED
    BY <1>3, <2>1, <2>2, ConstantAssumption DEF QuarantineUnlink, RInv, IInv, TypeOK, BrokenOff, hist
<1>4. ASSUME NEW c \in Cleaner, QuarantineMeta(c) PROVE BrokenOff'
  <2>1. /\ cl[c].q \in Qid
        /\ \E b \in born : HomeOf[b] = cl[c].p
    BY <1>4 DEF QuarantineMeta, RInv, IInv, TypeOK, File, CleanersOK, DiskFaithful, BrokenOff
  <2> QED
    BY <1>4, <2>1 DEF QuarantineMeta, RInv, IInv, TypeOK, BrokenOff, OnDisk, hist
<1>5. ASSUME NEW r \in Restorer, NEW q \in Qid, RestoreRename(r, q) \/ RestoreCopy(r, q)
      PROVE  BrokenOff'
  <2>1. /\ meta' = meta /\ born' = born /\ cl' = cl /\ meta[q] # Nil
        /\ \E f \in File : disk' = [disk EXCEPT ![meta[q]] = f]
        /\ \A d \in Cleaner : cl[d].at # "meta"
    BY <1>5 DEF RestoreRename, RestoreCopy, RestoreBegin, LoopFree, RInv, IInv, TypeOK, File
  <2> QED
    BY <2>1 DEF RInv, IInv, TypeOK, BrokenOff
<1>6. ASSUME NEW r \in Restorer, RestoreCopied(r) PROVE BrokenOff'
  <2>1. /\ meta' = meta /\ born' = born /\ cl' = cl /\ rs[r].q \in Qid /\ meta[rs[r].q] # Nil
        /\ disk' = [disk EXCEPT ![meta[rs[r].q]] = qfile[rs[r].q]]
        /\ \A d \in Cleaner : cl[d].at # "meta"
    BY <1>6 DEF RestoreCopied, RInv, IInv, RestorersOK, Exclusive, ClSync, RsSync, hist
  <2> QED
    BY <2>1 DEF RInv, IInv, TypeOK, BrokenOff
<1>7. ASSUME NEW r \in Restorer, RestoreUnlink(r) \/ RestoreRmtree(r) PROVE BrokenOff'
  <2>1. /\ disk' = disk /\ born' = born /\ cl' = cl
        /\ \A s \in Qid : meta'[s] \in {meta[s], Nil}
        /\ \A d \in Cleaner : cl[d].at # "meta"
    BY <1>7 DEF RestoreUnlink, RestoreRmtree, LoopFree, RInv, IInv, TypeOK, Exclusive, ClSync,
                RsSync, hist
  <2> QED
    BY <2>1 DEF RInv, BrokenOff
<1>8. ASSUME NEW q \in Qid, RetentionUnlink(q) PROVE BrokenOff'
  BY <1>8 DEF RetentionUnlink, LoopFree, RInv, BrokenOff
<1>9. ASSUME NEW b \in Body, AppWrites(b) PROVE BrokenOff'
  BY <1>9, ConstantAssumption DEF AppWrites, RInv, IInv, TypeOK, BrokenOff, OnDisk
<1>10. CASE /\ UNCHANGED <<disk, qfile, meta, born>>
            /\ \A c \in Cleaner : cl'[c] = cl[c] \/ cl'[c].at # "meta"
  BY <1>10 DEF RInv, BrokenOff, OnDisk
<1>11. \/ \E c \in Cleaner, p \in Path, q \in Qid : QuarantineRename(c, p, q) \/ QuarantineCopy(c, p, q)
       \/ \E c \in Cleaner : QuarantineCopied(c) \/ QuarantineUnlink(c) \/ QuarantineMeta(c)
       \/ \E r \in Restorer, q \in Qid : RestoreRename(r, q) \/ RestoreCopy(r, q)
       \/ \E r \in Restorer : RestoreCopied(r) \/ RestoreUnlink(r) \/ RestoreRmtree(r)
       \/ \E q \in Qid : RetentionUnlink(q)
       \/ \E b \in Body : AppWrites(b)
       \/ /\ UNCHANGED <<disk, qfile, meta, born>>
          /\ \A c \in Cleaner : cl'[c] = cl[c] \/ cl'[c].at # "meta"
  <2>1. ASSUME NEW c \in Cleaner, QuarantineInsert(c) \/ QuarantineFails(c)
        PROVE  /\ UNCHANGED <<disk, qfile, meta, born>>
               /\ \A d \in Cleaner : cl'[d] = cl[d] \/ cl'[d].at # "meta"
    BY <2>1 DEF QuarantineInsert, QuarantineFails, IdleCl, files, hist, RInv, IInv, TypeOK
  <2>2. Crash => /\ UNCHANGED <<disk, qfile, meta, born>>
                 /\ \A d \in Cleaner : cl'[d] = cl[d] \/ cl'[d].at # "meta"
    BY DEF Crash, IdleCl, files, hist
  <2>3. ASSUME \/ \E r \in Restorer : RestoreUpdate(r) \/ RestoreFails(r)
               \/ \E q \in Qid : RetentionDelete(q) \/ RowAges(q)
               \/ RetentionList \/ RetentionCommit \/ RetentionFails \/ SetRetention
               \/ UNCHANGED vars
        PROVE  UNCHANGED <<disk, qfile, meta, born, cl>>
    BY <2>3 DEF RestoreUpdate, RestoreFails, RetentionDelete, RowAges, RetentionList,
                RetentionCommit, RetentionFails, SetRetention, vars, files, hist
  <2> QED
    BY <2>1, <2>2, <2>3 DEF Next, CleanerStep, RestorerStep, RetentionStep
<1> QED
  BY <1>1, <1>a, <1>2, <1>3, <1>4, <1>5, <1>6, <1>7, <1>8, <1>9, <1>10, <1>11

\* Every step is allowed, and what was destroyed stays gone.
LEMMA StepAllowed ==
    ASSUME RInv, [Next]_vars
    PROVE  DestroyedGone' /\ Allowed
<1>1. ASSUME NEW c \in Cleaner, CleanerStep(c) PROVE DestroyedGone' /\ Allowed
  BY <1>1, QuarantineCopiedMoves, QuarantineUnlinkMoves, QuarantineMetaMoves, OthersMoveNothing
     DEF CleanerStep
<1>2. ASSUME NEW r \in Restorer, RestorerStep(r) PROVE DestroyedGone' /\ Allowed
  BY <1>2, RestoreCopiedMoves, RestoreUnlinkMoves, RestoreRmtreeMoves, OthersMoveNothing
     DEF RestorerStep
<1>3. CASE RetentionStep
  BY <1>3, RetentionUnlinkMoves, OthersMoveNothing DEF RetentionStep
<1>4. ASSUME NEW r \in Restorer, NEW q \in Qid, RestoreRename(r, q) \/ RestoreCopy(r, q)
      PROVE  DestroyedGone' /\ Allowed
  <2>1. qfile[q] \in Body \cup {Torn}
    BY <1>4, Restorable DEF RestoreRename, RestoreCopy, RestoreBegin
  <2> QED
    BY <1>4, <2>1, RestoreRenameMoves, RestoreCopyMoves, RestoreFragmentMoves
<1> QED
  BY <1>1, <1>2, <1>3, <1>4, QuarantineRenameMoves, QuarantineCopyMoves, AppWritesMoves,
     RowAgesMoves, OthersMoveNothing DEF Next

\* Nothing is destroyed or expired at the start, and each body is written or not.
LEMMA InitAllowed ==
    ASSUME Init
    PROVE  RInv /\ Promise!Init
<1>1. IInv
  BY InitIInv
<1>2. ExpiredHadRow /\ DestroyedGone /\ Aged = {} /\ Fragments = {}
  BY ConstantAssumption DEF Init, ExpiredHadRow, DestroyedGone, Aged, Fragments
<1>4. BrokenOff
  BY ConstantAssumption DEF Init, BrokenOff, IdleCl
<1>3. \A b \in Body : Where(b) \in {"unborn", "home"}
  BY DEF Init, Where, OnDisk
<1> QED
  BY <1>1, <1>2, <1>3, <1>4 DEF RInv, Promise!Init, Where, Aged, Fragments

\* Whatever quarantine_path, restore_quarantine and the retention pass do
\* concurrently, call by call, and wherever they fail or crash, each file moves
\* only as FileCustody says: destroyed only by retention, past its cutoff, or by
\* the restore, over it, of another file of its path, or of a fragment of it that
\* an interrupted restore left and a cleanup took.
THEOREM QuarantineKeepsPromise == Spec => KeepsPromise
<1>1. Init => RInv /\ Promise!Init
  BY InitAllowed
<1>2. RInv /\ [Next]_vars => RInv' /\ [Promise!Next]_(Promise!vars)
  BY NextKeeps, ExpiredHadRowKeeps, BrokenOffKeeps, StepAllowed DEF RInv, Allowed
<1> QED
  BY <1>1, <1>2, PTL DEF Spec, KeepsPromise, Promise!Spec
=============================================================================
