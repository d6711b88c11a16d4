--------------------------- MODULE ScanStoreProofs ---------------------------
(***************************************************************************)
(* ScanStore, for every number of clients, items, scans, kept scans and    *)
(* crashes: scans whole or absent, the scan that answers outdone only by   *)
(* later times, and the latest scan a register that never goes back.       *)
(***************************************************************************)
EXTENDS ScanStore, TLAPS, FiniteSetTheorems

\* A scan holds the flag from its second check to its answer.
Scanning(c) == op[c].pc \in {"begun", "collected", "persisted", "pruned"}

\* Requests are served by a backend that is up, and the table has its new key
\* from then on; before that no scan was stored, and a parked table is the old
\* one.
Migrated ==
    /\ \A c \in Client : op[c] # Idle => server = "up"
    /\ server \in {"recreated", "up"} => shape = "composite"
    /\ server = "fresh" => shape # "legacy"
    /\ server = "renamed" => shape = "absent"
    /\ shape # "composite" => persisted = <<>>
    /\ shape = "legacy" => rows \subseteq {0, Foreign} \X Item
    /\ shape = "absent" => rows = {}
    /\ server \in {"renamed", "recreated"} => parked \subseteq {0, Foreign} \X Item

\* Later scans have larger ids and larger rowids, also after a rowid was given
\* again; the time of a scan is that of its record.
Ordered ==
    /\ IsFiniteSet(scans)
    /\ \A s \in scans : s.id <= Len(persisted) /\ s.row <= s.id
    /\ \A s \in scans : s.id > 0 => s.at = persisted[s.id].at
    /\ \A s, t \in scans : (s.id < t.id => s.row < t.row) /\ (s.id = t.id => s = t)

\* What is in the table has a newest scan.
HasNewest == scans # {} => \E s \in scans : \A t \in scans : ~Newer(t, s)

\* The rows of a stored scan are those it found, one each.
Whole ==
    /\ \A s \in scans : s.id > 0 => \A i \in Item :
          persisted[s.id].found[i] = IF <<s.id, i>> \in rows THEN 1 ELSE 0
    /\ shape = "composite" => \A r \in rows : r[1] \in Ids

\* The flag is up while there is a scan, and there is one at most.
Flagged ==
    /\ \A c \in Client : Scanning(c) => inProgress
    /\ \A c, d \in Client : Scanning(c) /\ Scanning(d) => c = d

\* A scan that has just been stored was inserted last; once retention has run,
\* what stands before it has a later time, and Keep scans do if it is gone.
Answering ==
    \A c \in Client :
        /\ op[c].pc = "persisted" => \E s \in scans :
              s.id = op[c].id /\ s.id > 0 /\ \A t \in scans : t.id <= s.id
        /\ op[c].pc = "pruned" =>
              /\ op[c].id \in 1..Len(persisted)
              /\ op[c].id \in Ids \/ Cardinality(LaterThan(op[c].id)) = Keep
              /\ op[c].id = Latest.id <=> LaterThan(op[c].id) = {}
              /\ Cardinality(scans) <= Keep

\* What has become newer than the scan a reader looks at was stored since.
Readers ==
    \A c \in Client : op[c].pc = "reading" =>
        /\ op[c].id <= op[c].since /\ op[c].since <= Len(persisted)
        /\ op[c].id \notin Ids => Len(persisted) - op[c].since >= Keep
        /\ \A s, t \in scans : s.id = op[c].id /\ Newer(t, s) => t.id > op[c].since

\* The inductive invariant.
IInv == /\ TypeOK /\ Migrated /\ Ordered /\ HasNewest /\ Whole /\ Flagged
        /\ Answering /\ Readers
-----------------------------------------------------------------------------
(* The order of the scans. *)

\* Newer is a strict total order on the table.
LEMMA NewerOrder ==
    ASSUME TypeOK, Ordered
    PROVE  /\ \A s \in scans : ~Newer(s, s)
           /\ \A s, t \in scans : s # t => Newer(s, t) \/ Newer(t, s)
           /\ \A s, t, u \in scans : Newer(s, t) /\ Newer(t, u) => Newer(s, u)
<1>1. \A s \in scans : s.id \in Nat /\ s.at \in Nat /\ s.row \in Nat
  BY StoreAssumption DEF TypeOK
<1>2. \A s, t \in scans : s # t => s.row # t.row
  BY <1>1 DEF Ordered
<1> QED
  BY <1>1, <1>2 DEF Newer

\* Newest is the one scan than which none is newer.
LEMMA NewestIs ==
    ASSUME TypeOK, Ordered, HasNewest, scans # {}
    PROVE  /\ Newest \in scans /\ \A t \in scans : ~Newer(t, Newest)
           /\ \A s \in scans : (\A t \in scans : ~Newer(t, s)) => s = Newest
<1>1. Newest \in scans /\ \A t \in scans : ~Newer(t, Newest)
  BY DEF HasNewest, Newest
<1> QED
  BY <1>1, NewerOrder

\* How many stored scans are newer than s.
Rank(s) == Cardinality({t \in scans : Newer(t, s)})

\* A rank is a number, and no two scans share one.
LEMMA RanksDiffer ==
    ASSUME TypeOK, Ordered
    PROVE  /\ \A s \in scans : Rank(s) \in Nat
           /\ \A s, t \in scans : Rank(s) = Rank(t) => s = t
<1> DEFINE Above(s) == {t \in scans : Newer(t, s)}
<1>1. ASSUME NEW s \in scans PROVE IsFiniteSet(Above(s)) /\ Rank(s) \in Nat
  <2>1. IsFiniteSet(Above(s))
    BY FS_Subset DEF Ordered
  <2> QED
    BY <2>1, FS_CardinalityType DEF Rank
<1>2. ASSUME NEW s \in scans, NEW t \in scans, Newer(t, s) PROVE Rank(t) < Rank(s)
  <2>1. Above(t) \in SUBSET Above(s)
    BY <1>2, NewerOrder
  <2>2. t \in Above(s) /\ t \notin Above(t)
    BY <1>2, NewerOrder
  <2>3. Cardinality(Above(t)) <= Cardinality(Above(s)) /\ Cardinality(Above(t)) # Cardinality(Above(s))
    BY <2>1, <2>2, <1>1, FS_Subset
  <2> QED
    BY <2>3, <1>1 DEF Rank
<1>3. ASSUME NEW s \in scans, NEW t \in scans, Rank(s) = Rank(t) PROVE s = t
  <2>1. s # t => Rank(s) < Rank(t) \/ Rank(t) < Rank(s)
    BY <1>2, NewerOrder
  <2>2. Rank(s) \in Nat /\ Rank(t) \in Nat
    BY <1>1
  <2>3. ~(Rank(s) < Rank(t)) /\ ~(Rank(t) < Rank(s))
    BY <2>2, <1>3
  <2> QED
    BY <2>1, <2>3
<1> QED
  BY <1>1, <1>3

\* Retention keeps no more than Keep scans, and the newest among them.
LEMMA KeptFew ==
    ASSUME TypeOK, Ordered
    PROVE  /\ IsFiniteSet({s \in scans : Kept(s)})
           /\ Cardinality({s \in scans : Kept(s)}) <= Keep
<1> DEFINE K == {s \in scans : Kept(s)}
           f == [s \in K |-> Rank(s)]
<1>1. IsFiniteSet(0..(Keep - 1)) /\ Cardinality(0..(Keep - 1)) = Keep
  BY FS_Interval, StoreAssumption
<1>2. ASSUME NEW s \in K PROVE f[s] \in 0..(Keep - 1)
  BY RanksDiffer, StoreAssumption DEF Kept, Rank
<1>3. \A s, t \in K : f[s] = f[t] => s = t
  BY RanksDiffer
<1>4. f \in Injection(K, 0..(Keep - 1))
  BY <1>2, <1>3 DEF Injection, IsInjective
<1> QED
  BY <1>1, <1>4, FS_Injection

\* When retention drops a scan, it keeps Keep scans, all of them newer.
LEMMA KeptNewer ==
    ASSUME TypeOK, Ordered, NEW s \in scans, ~Kept(s)
    PROVE  /\ Cardinality({t \in scans : Kept(t)}) = Keep
           /\ \A t \in scans : Kept(t) => Newer(t, s)
<1> DEFINE K == {t \in scans : Kept(t)}
           Above(t) == {u \in scans : Newer(u, t)}
           n == Cardinality(scans)
           f == [t \in scans |-> Rank(t)]
           g == [t \in K |-> Rank(t)]
<1>1. n \in Nat /\ IsFiniteSet(scans)
  BY FS_CardinalityType DEF Ordered
<1>2. ASSUME NEW t \in scans PROVE Rank(t) \in Nat /\ Rank(t) < n
  <2>1. Above(t) \in SUBSET scans /\ t \notin Above(t)
    BY NewerOrder
  <2>2. Cardinality(Above(t)) <= n /\ n # Cardinality(Above(t))
    BY <1>1, <2>1, FS_Subset
  <2> QED
    BY <1>1, <2>2, RanksDiffer DEF Rank
<1>3. Keep <= Rank(s) /\ Keep < n
  BY <1>1, <1>2, StoreAssumption DEF Kept, Rank
\* The ranks of n scans are 0..(n-1).
<1>4. IsFiniteSet(0..(n - 1)) /\ Cardinality(0..(n - 1)) = n
  <2>1. PICK m \in Nat : m = n
    BY <1>1
  <2>2. IsFiniteSet(0..(m - 1)) /\ Cardinality(0..(m - 1)) = m
    BY ONLY FS_Interval, m \in Nat
  <2> QED
    BY <2>1, <2>2
<1>5. f \in Injection(scans, 0..(n - 1))
  <2>1. \A t \in scans : f[t] \in 0..(n - 1)
    BY <1>1, <1>2
  <2>2. \A t, u \in scans : f[t] = f[u] => t = u
    BY RanksDiffer
  <2> QED
    BY <2>1, <2>2 DEF Injection, IsInjective
<1>6. f \in Surjection(scans, 0..(n - 1))
  BY <1>4, <1>5, FS_Injection
<1>7. \A k \in 0..(n - 1) : \E t \in scans : Rank(t) = k
  BY <1>6 DEF Surjection
\* So those below Keep are all taken.
<1>8. g \in Surjection(K, 0..(Keep - 1))
  <2>1. \A t \in K : g[t] \in 0..(Keep - 1)
    BY <1>2, StoreAssumption DEF Kept, Rank
  <2>2. ASSUME NEW k \in 0..(Keep - 1) PROVE \E t \in K : g[t] = k
    <3>1. k \in 0..(n - 1)
      BY <1>1, <1>3, StoreAssumption
    <3>2. PICK t \in scans : Rank(t) = k
      BY <1>7, <3>1
    <3>3. Rank(t) < Keep
      BY <3>2, StoreAssumption
    <3>4. Kept(t)
      BY <3>3 DEF Kept, Rank
    <3> QED
      BY <3>2, <3>4
  <2> QED
    BY <2>1, <2>2 DEF Surjection
<1>9. IsFiniteSet(K) /\ Cardinality(K) <= Keep /\ Cardinality(K) \in Nat
  BY KeptFew, FS_CardinalityType
<1>10. Cardinality(0..(Keep - 1)) <= Cardinality(K)
  BY <1>8, <1>9, FS_Surjection
<1>11. Cardinality(0..(Keep - 1)) = Keep
  BY FS_Interval, StoreAssumption
<1>12. Cardinality(K) = Keep
  BY <1>9, <1>10, <1>11, StoreAssumption
\* A scan of a smaller rank is newer.
<1>13. ASSUME NEW t \in scans, Kept(t) PROVE Newer(t, s)
  <2>1. Rank(t) < Keep /\ t # s
    BY <1>13 DEF Kept, Rank
  <2>2. CASE Newer(s, t)
    <3>1. Above(s) \in SUBSET Above(t)
      BY <2>2, NewerOrder
    <3>2. IsFiniteSet(Above(t))
      BY <1>1, FS_Subset
    <3>3. Rank(s) <= Rank(t)
      BY <3>1, <3>2, FS_Subset DEF Rank
    <3> QED
      BY <1>2, <1>3, <2>1, <3>3, StoreAssumption
  <2> QED
    BY <2>1, <2>2, NewerOrder
<1> QED
  BY <1>12, <1>13

\* Retention never drops the newest scan.
LEMMA NewestKept ==
    ASSUME TypeOK, Ordered, HasNewest, scans # {}
    PROVE  Kept(Newest)
<1>1. {t \in scans : Newer(t, Newest)} = {}
  BY NewestIs
<1>2. Cardinality({}) = 0
  BY FS_EmptySet
<1> QED
  BY <1>1, <1>2, StoreAssumption DEF Kept
-----------------------------------------------------------------------------
(* Initialisation, and the steps that leave the stored scans alone. *)

\* What a client's request may have done.
Ops == {Idle} \cup [pc : {"asked", "begun"}] \cup [pc : {"collected"}, found : Found]
         \cup [pc : {"persisted", "pruned"}, id : 1..MaxScans]
         \cup [pc : {"reading"}, id : 0..MaxScans, since : 0..MaxScans]

\* The tables of a new database, and those of an old one.
LEMMA InitInv == Init => IInv
<1> SUFFICES ASSUME Init PROVE IInv
  OBVIOUS
<1>1. IsFiniteSet(scans) /\ scans \subseteq {[id |-> 0, at |-> clock, row |-> 0]}
  <2>1. CASE scans = {}
    BY <2>1, FS_EmptySet
  <2>2. CASE scans = {[id |-> 0, at |-> clock, row |-> 0]}
    BY <2>2, FS_Singleton
  <2> QED
    BY <2>1, <2>2 DEF Init
<1>2. \A c \in Client : op[c] = Idle
  BY DEF Init
<1>3. TypeOK
  <2>1. persisted \in Seq([found : Found, at : 0..MaxTime]) /\ Len(persisted) = 0
    BY DEF Init
  <2>2. rows \subseteq ((0..MaxScans) \cup {Foreign}) \X Item
    BY StoreAssumption DEF Init
  <2>3. scans \subseteq [id : 0..MaxScans, at : 0..MaxTime, row : 0..MaxScans]
    BY StoreAssumption, <1>1 DEF Init
  <2>4. op \in [Client -> Ops]
    BY DEF Init, Ops
  <2>5. server = "down" /\ shape \in {"legacy", "absent"} /\ parked = NoTable
        /\ clock \in 0..MaxTime /\ inProgress = FALSE
    BY DEF Init
  <2>6. crashes \in 0..MaxCrashes /\ Len(persisted) <= MaxScans
    BY <2>1, StoreAssumption DEF Init
  <2> QED
    BY <2>1, <2>2, <2>3, <2>4, <2>5, <2>6 DEF TypeOK, Ops
<1>4. Migrated
  BY <1>2 DEF Init, Migrated
<1>5. Ordered /\ HasNewest
  BY <1>1, StoreAssumption DEF Init, Ordered, HasNewest, Newer
<1>6. Whole
  BY <1>1 DEF Init, Whole
<1>7. Flagged /\ Answering /\ Readers
  BY <1>2 DEF Idle, Flagged, Scanning, Answering, Readers
<1> QED
  BY <1>3, <1>4, <1>5, <1>6, <1>7 DEF IInv

\* The order of the scans is one of the stored scans alone.
LEMMA SameScans ==
    ASSUME IInv, UNCHANGED <<scans, persisted>>
    PROVE  Ordered' /\ HasNewest' /\ Ids' = Ids /\ Latest' = Latest
<1>1. Ids' = Ids /\ Newest' = Newest
  BY DEF Ids, Newest, Newer
<1> QED
  BY <1>1 DEF IInv, Ordered, HasNewest, Newer, Latest

\* A request that goes on without touching the tables.
LEMMA GoKeeps ==
    ASSUME IInv, NEW c \in Client, NEW to \in Ops, server = "up",
           op' = [op EXCEPT ![c] = to], inProgress' \in BOOLEAN,
           UNCHANGED <<server, shape, scans, rows, parked, clock, persisted, crashes>>,
           to.pc \notin {"persisted", "pruned"},
           to.pc \in {"begun", "collected"} => inProgress',
           \A d \in Client : d # c /\ Scanning(d) =>
               inProgress' /\ to.pc \notin {"begun", "collected"},
           to.pc = "reading" => /\ to.since = Len(persisted)
                                /\ \E s \in scans : s.id = to.id /\ \A t \in scans : ~Newer(t, s)
    PROVE  IInv'
<1>1. \A d \in Client : op'[d] = IF d = c THEN to ELSE op[d]
  BY DEF IInv, TypeOK
<1>2. TypeOK'
  <2>1. op' \in [Client -> Ops]
    BY DEF IInv, TypeOK, Ops
  <2> QED
    BY <2>1 DEF IInv, TypeOK, Ops
<1>3. Migrated'
  BY <1>1 DEF IInv, Migrated
<1>4. Ordered' /\ HasNewest' /\ Ids' = Ids /\ Latest' = Latest
  BY SameScans
<1>5. Whole'
  BY <1>4 DEF IInv, Whole
<1>6. Flagged'
  BY <1>1 DEF IInv, Flagged, Scanning
<1>7. Answering'
  <2>1. \A id : LaterThan(id)' = LaterThan(id)
    BY DEF LaterThan
  <2> QED
    BY <1>1, <1>4, <2>1 DEF IInv, Answering
<1>8. Readers'
  <2> SUFFICES ASSUME NEW d \in Client, op'[d].pc = "reading"
               PROVE  /\ op'[d].id <= op'[d].since /\ op'[d].since <= Len(persisted)
                      /\ op'[d].id \notin Ids => Len(persisted) - op'[d].since >= Keep
                      /\ \A s, t \in scans : s.id = op'[d].id /\ Newer(t, s) => t.id > op'[d].since
    BY <1>4 DEF Readers, Newer
  <2>1. CASE d = c
    BY <1>1, <2>1 DEF IInv, Ordered, Ids
  <2>2. CASE d # c
    BY <1>1, <2>2 DEF IInv, Readers
  <2> QED
    BY <2>1, <2>2
<1> QED
  BY <1>2, <1>3, <1>4, <1>5, <1>6, <1>7, <1>8 DEF IInv
-----------------------------------------------------------------------------
(* One lemma per step. *)

\* Requests that only change what they hold.
LEMMA RequestKeeps ==
    ASSUME IInv, NEW c \in Client,
           \/ Ask(c) \/ Begin(c) \/ ScanDone(c) \/ ScanFails(c) \/ ReadItems(c)
           \/ \E f \in Found : ScanCollected(c, f)
    PROVE  IInv'
<1> DEFINE to == op'[c]
<1>1. /\ server = "up" /\ op' = [op EXCEPT ![c] = to]
      /\ UNCHANGED <<server, shape, scans, rows, parked, clock, persisted, crashes>>
  BY DEF Go, Ask, Begin, ScanDone, ScanFails, ReadItems, ScanCollected, IInv, TypeOK
<1>2. to \in {Idle} \cup [pc : {"asked", "begun"}] \cup [pc : {"collected"}, found : Found]
  BY DEF Go, Ask, Begin, ScanDone, ScanFails, ReadItems, ScanCollected, IInv, TypeOK
<1>3. to \in Ops /\ to.pc \notin {"persisted", "pruned", "reading"}
  BY <1>2 DEF Ops, Idle
\* What each of them does to the flag.
<1>4. \/ to.pc = "asked" /\ inProgress' = FALSE /\ ~inProgress
      \/ to.pc = "idle" /\ inProgress /\ inProgress'
      \/ to.pc = "begun" /\ ~inProgress /\ inProgress' = TRUE
      \/ to.pc = "idle" /\ inProgress' = FALSE /\ Scanning(c)
      \/ to.pc = "idle" /\ inProgress' = inProgress
      \/ to.pc = "collected" /\ inProgress' = inProgress /\ Scanning(c)
  <2>1. inProgress \in BOOLEAN /\ op \in [Client -> Ops]
    BY DEF IInv, TypeOK, Ops
  <2>2. CASE Ask(c) \/ Begin(c)
    BY <2>1, <2>2 DEF Ask, Begin, Go, Idle
  <2>3. CASE ScanDone(c) \/ ScanFails(c) \/ ReadItems(c)
    BY <2>1, <2>3 DEF ScanDone, ScanFails, ReadItems, Go, Idle, Scanning
  <2>4. CASE \E f \in Found : ScanCollected(c, f)
    BY <2>1, <2>4 DEF ScanCollected, Go, Scanning
  <2> QED
    BY <2>2, <2>3, <2>4
<1> HIDE DEF to
<1>5. inProgress' \in BOOLEAN /\ (to.pc \in {"begun", "collected"} => inProgress')
  BY <1>4 DEF IInv, TypeOK, Flagged
<1>6. ASSUME NEW d \in Client, d # c, Scanning(d)
      PROVE  inProgress' /\ to.pc \notin {"begun", "collected"}
  <2>1. inProgress /\ ~Scanning(c)
    BY <1>6 DEF IInv, Flagged
  <2> QED
    BY <2>1, <1>4
<1> QED
  BY <1>1, <1>3, <1>5, <1>6, GoKeeps

\* A reader starts from the newest scan.
LEMMA ReadScanKeeps ==
    ASSUME IInv, NEW c \in Client, ReadScan(c)
    PROVE  IInv'
<1> DEFINE to == [pc |-> "reading", id |-> Latest.id, since |-> Len(persisted)]
<1>1. Newest \in scans /\ (\A t \in scans : ~Newer(t, Newest)) /\ Latest.id = Newest.id
  BY NewestIs DEF IInv, ReadScan, Latest
<1>2. to \in Ops
  BY <1>1 DEF IInv, TypeOK, Ops
<1>3. op' = [op EXCEPT ![c] = to] /\ server = "up" /\ inProgress' = inProgress
  BY DEF ReadScan, Go
<1>4. \A d \in Client : Scanning(d) => inProgress'
  BY <1>3 DEF IInv, Flagged
<1>5. UNCHANGED <<server, shape, scans, rows, parked, clock, persisted, crashes>>
  BY DEF ReadScan, Go
<1>6. inProgress' \in BOOLEAN
  BY <1>3 DEF IInv, TypeOK
<1> QED
  BY <1>1, <1>2, <1>3, <1>4, <1>5, <1>6, GoKeeps

\* The migration, before any request is served.
LEMMA StartKeeps ==
    ASSUME IInv, Rename \/ CreateSchema \/ Restore
    PROVE  IInv'
<1>1. /\ UNCHANGED <<scans, clock, inProgress, op, persisted, crashes>>
      /\ server # "up"
  BY DEF Rename, CreateSchema, Restore
<1>2. \A c \in Client : op[c] = Idle
  BY <1>1 DEF IInv, Migrated
<1>3. Ordered' /\ HasNewest' /\ Ids' = Ids
  BY <1>1, SameScans
<1>4. TypeOK' /\ Migrated' /\ Whole'
  <2>1. CASE Rename
    <3>1. /\ server' \in {"renamed", "fresh"} /\ shape' \in {"legacy", "absent", "composite"}
          /\ server' = "renamed" => shape' = "absent" /\ rows' = {} /\ parked' = rows
          /\ server' = "renamed" => shape = "legacy"
          /\ server' = "fresh" => shape' # "legacy" /\ UNCHANGED <<shape, rows, parked>>
      BY <2>1 DEF Rename, IInv, TypeOK
    <3>2. rows' \subseteq ((0..MaxScans) \cup {Foreign}) \X Item
      BY <3>1 DEF IInv, TypeOK
    <3>3. shape = "legacy" => rows \subseteq {0, Foreign} \X Item
      BY DEF IInv, Migrated
    <3>4. parked' = NoTable \/ parked' \subseteq {0, Foreign} \X Item
      BY <3>1, <3>3 DEF IInv, TypeOK
    <3>5. TypeOK'
      BY <1>1, <3>1, <3>2, <3>4 DEF IInv, TypeOK
    <3>6. Migrated'
      BY <1>1, <1>2, <3>1, <3>3 DEF IInv, Migrated
    <3>7. Whole'
      BY <1>1, <1>3, <3>1 DEF IInv, Migrated, Ordered, TypeOK, Whole
    <3> QED
      BY <3>5, <3>6, <3>7
  <2>2. CASE CreateSchema
    <3>1. TypeOK' /\ Migrated'
      BY <2>2, <1>1, <1>2 DEF CreateSchema, IInv, TypeOK, Migrated
    <3>2. Whole'
      BY <2>2, <1>1, <1>3 DEF CreateSchema, IInv, Migrated, Whole, TypeOK
    <3> QED
      BY <3>1, <3>2
  <2>3. CASE Restore
    <3>1. parked \subseteq {0, Foreign} \X Item
      BY <2>3 DEF Restore, IInv, Migrated
    <3>2. TypeOK' /\ Migrated'
      BY <2>3, <1>1, <1>2, <3>1, StoreAssumption DEF Restore, IInv, TypeOK, Migrated
    <3>3. \A n \in Nat \ {0}, i \in Item : <<n, i>> \in rows' <=> <<n, i>> \in rows
      BY <2>3, <3>1, StoreAssumption DEF Restore
    <3>4. Whole'
      BY <2>3, <1>1, <1>3, <3>3 DEF Restore, IInv, Whole, TypeOK
    <3> QED
      BY <3>2, <3>4
  <2> QED
    BY <2>1, <2>2, <2>3
<1>5. Flagged' /\ Answering' /\ Readers'
  BY <1>1, <1>2 DEF Flagged, Scanning, Answering, Readers, Idle
<1> QED
  BY <1>3, <1>4, <1>5 DEF IInv

\* What is in memory goes, the tables stay.
LEMMA CrashKeeps ==
    ASSUME IInv, Crash
    PROVE  IInv'
<1>1. \A c \in Client : op'[c] = Idle
  BY DEF Crash
<1>2. Ordered' /\ HasNewest' /\ Ids' = Ids
  BY SameScans DEF Crash
<1>3. TypeOK'
  <2>1. op' \in [Client -> Ops]
    BY DEF Crash, Ops
  <2>2. crashes' \in 0..MaxCrashes
    BY StoreAssumption DEF Crash, IInv, TypeOK
  <2> QED
    BY <2>1, <2>2 DEF Crash, IInv, TypeOK, Ops
<1>4. Migrated' /\ Whole'
  BY <1>1, <1>2 DEF Crash, IInv, Migrated, Whole
<1>5. Flagged' /\ Answering' /\ Readers'
  BY <1>1 DEF Flagged, Scanning, Answering, Readers, Idle
<1> QED
  BY <1>2, <1>3, <1>4, <1>5 DEF IInv

\* Setting the clock changes no stored time.
LEMMA ClockKeeps ==
    ASSUME IInv, NEW t \in 0..MaxTime, ClockSet(t)
    PROVE  IInv'
<1>1. UNCHANGED <<server, shape, scans, rows, parked, inProgress, op, persisted, crashes>>
      /\ clock' \in 0..MaxTime
  BY DEF ClockSet
<1>2. Ordered' /\ HasNewest' /\ Ids' = Ids /\ Latest' = Latest
  BY <1>1, SameScans
<1>3. TypeOK' /\ Migrated' /\ Whole' /\ Flagged'
  BY <1>1, <1>2 DEF IInv, TypeOK, Migrated, Whole, Flagged, Scanning
<1>4. Answering' /\ Readers'
  BY <1>1, <1>2 DEF IInv, Answering, LaterThan, Readers, Newer
<1> QED
  BY <1>2, <1>3, <1>4 DEF IInv

\* The rowid of the next scan: one more than the largest, never more than its id.
LEMMA NextRow ==
    ASSUME TypeOK, Ordered, Len(persisted) < MaxScans,
           NEW row, row = Cardinality({n \in 0..MaxScans : \E s \in scans : n <= s.row})
    PROVE  row \in 0..(Len(persisted) + 1) /\ \A s \in scans : s.row < row
<1> DEFINE Taken == {n \in 0..MaxScans : \E s \in scans : n <= s.row}
           n0 == Len(persisted)
<1>1. n0 \in Nat /\ MaxScans \in Nat
  BY StoreAssumption DEF TypeOK
<1>2. \A s \in scans : s.row \in 0..MaxScans /\ s.id \in Nat /\ s.row <= n0
  BY <1>1 DEF TypeOK, Ordered
<1>3. Taken \in SUBSET (0..n0)
  BY <1>1, <1>2
<1>4. IsFiniteSet(0..n0) /\ Cardinality(0..n0) = n0 + 1
  BY <1>1, FS_Interval
<1>5. IsFiniteSet(Taken) /\ Cardinality(Taken) <= n0 + 1
  BY <1>3, <1>4, FS_Subset
<1>6. Cardinality(Taken) \in Nat
  BY <1>5, FS_CardinalityType
<1>7. ASSUME NEW s \in scans PROVE s.row < Cardinality(Taken)
  <2>1. 0..s.row \in SUBSET Taken
    BY <1>1, <1>2
  <2>2. Cardinality(0..s.row) = s.row + 1
    <3>1. PICK r \in Nat : r = s.row
      BY <1>2
    <3>2. Cardinality(0..r) = r + 1
      BY ONLY FS_Interval, r \in Nat
    <3> QED BY <3>1, <3>2
  <2>3. Cardinality(0..s.row) <= Cardinality(Taken)
    BY <2>1, <1>5, FS_Subset
  <2> QED
    BY <2>2, <2>3, <1>2, <1>6
<1> QED
  BY <1>1, <1>5, <1>6, <1>7

\* The record that Persist inserts, with the next id and the next rowid.
Stored(s) ==
    /\ s \in [id : 1..MaxScans, at : 0..MaxTime, row : 0..MaxScans]
    /\ s.id = Len(persisted) + 1 /\ s.at = clock /\ s.row <= s.id
    /\ \A t \in scans : t.id < s.id /\ t.row < s.row

\* Persist inserts such a record, with the rows of what was found.
LEMMA PersistIs ==
    ASSUME IInv, NEW c \in Client, Persist(c)
    PROVE  \E s : /\ Stored(s)
                  /\ op' = [op EXCEPT ![c] = [pc |-> "persisted", id |-> s.id]]
                  /\ scans' = scans \cup {s}
                  /\ rows' = rows \cup {s.id} \X ItemsOf(op[c].found)
                  /\ persisted' = Append(persisted, [found |-> op[c].found, at |-> clock])
<1> DEFINE id == Len(persisted) + 1
           row == Cardinality({n \in 0..MaxScans : \E s \in scans : n <= s.row})
           s0 == [id |-> id, at |-> clock, row |-> row]
<1>1. Len(persisted) < MaxScans
  BY DEF Persist
<1>2. row \in 0..id /\ \A s \in scans : s.row < row
  BY <1>1, NextRow DEF IInv
<1> HIDE DEF row
<1>3. /\ op' = [op EXCEPT ![c] = [pc |-> "persisted", id |-> id]]
      /\ scans' = scans \cup {s0}
      /\ rows' = rows \cup {id} \X ItemsOf(op[c].found)
      /\ persisted' = Append(persisted, [found |-> op[c].found, at |-> clock])
  BY DEF Persist, Go, row
<1>4. \A s \in scans : s.id < id
  BY DEF IInv, TypeOK, Ordered
<1>5. id \in 1..MaxScans /\ row \in 0..MaxScans /\ clock \in 0..MaxTime
  BY <1>1, <1>2, StoreAssumption DEF IInv, TypeOK
<1>6. Stored(s0)
  BY <1>2, <1>4, <1>5 DEF Stored
<1> QED
  BY <1>3, <1>6

\* What a scan with the next id and rowid does to the newest one.
LEMMA NewestStored ==
    ASSUME TypeOK, Ordered, HasNewest, NEW s, Stored(s), scans' = scans \cup {s}
    PROVE  /\ HasNewest'
           /\ \/ Newest' = s /\ (scans # {} => s.id > Newest.id /\ s.at >= Newest.at)
              \/ scans # {} /\ Newest' = Newest
<1>1. \A t \in scans' : t.id \in Nat /\ t.at \in Nat /\ t.row \in Nat
  BY StoreAssumption DEF TypeOK, Stored
<1>2. CASE scans = {} \/ ~Newer(Newest, s)
  <2>1. \A t \in scans : ~Newer(t, s)
    BY <1>1, <1>2, NewestIs DEF Newer, Stored
  <2>2. (\A t \in scans' : ~Newer(t, s)) /\ (\A t \in scans : Newer(s, t))
    BY <1>1, <2>1 DEF Newer, Stored
  <2>3. s \in scans' /\ \A u \in scans' : (\A t \in scans' : ~Newer(t, u)) => u = s
    BY <2>2
  <2>4. Newest' = s /\ HasNewest'
    BY <2>2, <2>3 DEF Newest, HasNewest, Newer
  <2>5. scans # {} => Newest \in scans
    BY NewestIs
  <2> QED
    BY <1>1, <2>2, <2>4, <2>5 DEF Stored, Newer
<1>3. CASE scans # {} /\ Newer(Newest, s)
  <2>1. /\ Newest \in scans /\ \A t \in scans' : ~Newer(t, Newest)
    BY <1>1, <1>3, NewestIs DEF Newer
  <2>2. \A u \in scans' : (\A t \in scans' : ~Newer(t, u)) => u = Newest
    BY <1>3, <2>1, NewestIs
  <2> QED
    BY <1>3, <2>1, <2>2 DEF Newest, HasNewest, Newer
<1> QED
  BY <1>2, <1>3

\* The transaction of a scan: its record and all its rows, or neither.
LEMMA PersistKeeps ==
    ASSUME IInv, NEW c \in Client, Persist(c)
    PROVE  IInv'
<1> DEFINE n0 == Len(persisted)
           found == op[c].found
<1>1. PICK s : /\ Stored(s)
               /\ op' = [op EXCEPT ![c] = [pc |-> "persisted", id |-> s.id]]
               /\ scans' = scans \cup {s}
               /\ rows' = rows \cup {s.id} \X ItemsOf(found)
               /\ persisted' = Append(persisted, [found |-> found, at |-> clock])
  BY PersistIs
<1>2. /\ UNCHANGED <<server, shape, parked, clock, inProgress, crashes>>
      /\ server = "up" /\ op[c].pc = "collected" /\ UniqueIds(found) /\ n0 < MaxScans
  BY DEF Persist, Go
<1>3. found \in Found /\ found \in [Item -> Nat]
  <2>1. op[c] \in Ops
    BY DEF IInv, TypeOK, Ops
  <2>2. op[c] \in [pc : {"collected"}, found : Found]
    BY <1>2, <2>1 DEF Ops, Idle
  <2> QED
    BY <2>2, StoreAssumption
<1>4. \A d \in Client : op'[d] = IF d = c THEN [pc |-> "persisted", id |-> s.id] ELSE op[d]
  BY <1>1 DEF IInv, TypeOK
<1>5. /\ persisted' \in Seq([found : Found, at : 0..MaxTime]) /\ Len(persisted') = n0 + 1
      /\ persisted'[n0 + 1] = [found |-> found, at |-> clock]
      /\ \A k \in 1..n0 : persisted'[k] = persisted[k]
  BY <1>1, <1>3 DEF IInv, TypeOK
<1>6. shape = "composite" /\ shape' = "composite"
  BY <1>2 DEF IInv, Migrated
<1>7. \A d \in Client : d # c => ~Scanning(d)
  BY <1>2 DEF IInv, Flagged, Scanning
<1>8. /\ s.id = n0 + 1 /\ s.at = clock /\ s.row <= s.id /\ n0 \in Nat
      /\ s \in [id : 1..MaxScans, at : 0..MaxTime, row : 0..MaxScans]
      /\ \A t \in scans : t.id < s.id /\ t.row < s.row
  BY <1>1 DEF Stored, IInv, TypeOK
<1>9. \A t \in scans : t.id \in 0..n0 /\ t.row \in Nat /\ t.at \in Nat /\ t.row <= t.id
  BY StoreAssumption DEF IInv, TypeOK, Ordered
<1>10. TypeOK'
  <2>1. op' \in [Client -> Ops]
    BY <1>1, <1>8 DEF IInv, TypeOK, Ops
  <2>2. scans' \subseteq [id : 0..MaxScans, at : 0..MaxTime, row : 0..MaxScans]
    BY <1>1, <1>8 DEF IInv, TypeOK
  <2>3. rows' \subseteq ((0..MaxScans) \cup {Foreign}) \X Item
    BY <1>1, <1>8 DEF IInv, TypeOK, ItemsOf
  <2>4. Len(persisted') <= MaxScans
    BY <1>2, <1>5, <1>8, StoreAssumption
  <2> QED
    BY <1>2, <1>5, <2>1, <2>2, <2>3, <2>4 DEF IInv, TypeOK, Ops
<1>11. Migrated'
  BY <1>2, <1>4, <1>6 DEF IInv, Migrated
<1>12. Ordered'
  <2>1. IsFiniteSet(scans')
    BY <1>1, FS_AddElement DEF IInv, Ordered
  <2>2. \A t \in scans' : t.id <= Len(persisted') /\ t.row <= t.id
    BY <1>1, <1>5, <1>8, <1>9
  <2>3. \A t \in scans' : t.id > 0 => t.at = persisted'[t.id].at
    BY <1>1, <1>5, <1>8, <1>9 DEF IInv, Ordered
  <2>4. \A t, u \in scans' : (t.id < u.id => t.row < u.row) /\ (t.id = u.id => t = u)
    BY <1>1, <1>8, <1>9 DEF IInv, Ordered
  <2> QED
    BY <2>1, <2>2, <2>3, <2>4 DEF Ordered
<1>13. HasNewest'
  BY <1>1, NewestStored DEF IInv
<1>14. Ids' = Ids \cup {s.id}
  BY <1>1 DEF Ids
<1>15. Whole'
  <2>1. \A i \in Item : <<s.id, i>> \notin rows
    BY <1>6, <1>8, <1>9 DEF IInv, Whole, Ids
  <2>2. \A i \in Item : found[i] = IF <<s.id, i>> \in rows' THEN 1 ELSE 0
    BY <1>1, <1>2, <1>3, <2>1 DEF UniqueIds, ItemsOf
  <2>3. ASSUME NEW t \in scans, t.id > 0, NEW i \in Item
        PROVE  persisted'[t.id].found[i] = IF <<t.id, i>> \in rows' THEN 1 ELSE 0
    <3>1. <<t.id, i>> \in rows' <=> <<t.id, i>> \in rows
      BY <1>1, <1>8, <1>9
    <3>2. persisted'[t.id] = persisted[t.id]
      BY <1>5, <1>9, <2>3
    <3> QED
      BY <2>3, <3>1, <3>2 DEF IInv, Whole
  <2>4. persisted'[s.id].found = found
    BY <1>5, <1>8
  <2>5. \A r \in rows' : r[1] \in Ids'
    BY <1>1, <1>6, <1>14 DEF IInv, Whole
  <2> QED
    BY <1>1, <2>2, <2>3, <2>4, <2>5 DEF Whole
<1>16. Flagged'
  BY <1>2, <1>4, <1>7 DEF IInv, Flagged, Scanning
<1>17. Answering'
  <2>1. \A d \in Client : op'[d].pc # "pruned" /\ (op'[d].pc = "persisted" => d = c)
    BY <1>4, <1>7 DEF Scanning
  <2>2. s.id > 0 /\ \A t \in scans' : t.id <= s.id
    BY <1>1, <1>8, <1>9
  <2> QED
    BY <1>1, <1>4, <2>1, <2>2 DEF Answering
<1>18. Readers'
  <2> SUFFICES ASSUME NEW d \in Client, op'[d].pc = "reading"
               PROVE  /\ op'[d].id <= op'[d].since /\ op'[d].since <= Len(persisted')
                      /\ op'[d].id \notin Ids' => Len(persisted') - op'[d].since >= Keep
                      /\ \A t, u \in scans' : t.id = op'[d].id /\ Newer(u, t) => u.id > op'[d].since
    BY DEF Readers, Newer
  <2>1. d # c /\ op'[d] = op[d]
    BY <1>4
  <2>2. op[d].id \in Nat /\ op[d].since \in Nat
    BY <2>1, StoreAssumption DEF IInv, TypeOK, Idle
  <2>3. /\ op[d].id <= op[d].since /\ op[d].since <= n0
        /\ op[d].id \notin Ids => n0 - op[d].since >= Keep
        /\ \A t, u \in scans : t.id = op[d].id /\ Newer(u, t) => u.id > op[d].since
    BY <2>1 DEF IInv, Readers
  <2>4. op[d].id # s.id /\ s.id > op[d].since
    BY <1>8, <2>2, <2>3
  <2>5. \A t, u \in scans' : t.id = op[d].id /\ Newer(u, t) => u.id > op[d].since
    BY <1>1, <2>3, <2>4
  <2>6. PICK n \in Nat : n = n0 + 1 /\ Len(persisted') = n
    BY <1>5, <1>8
  <2>7. n >= op[d].since /\ (op[d].id \notin Ids' => n - op[d].since >= Keep)
    BY <1>8, <1>14, <2>2, <2>3, <2>6, StoreAssumption
  <2>8. Len(persisted') >= op[d].since /\ (op[d].id \notin Ids' => Len(persisted') - op[d].since >= Keep)
    BY <2>6, <2>7
  <2>9. /\ op'[d].id <= op'[d].since /\ op'[d].since <= Len(persisted')
        /\ op'[d].id \notin Ids' => Len(persisted') - op'[d].since >= Keep
    BY <2>1, <2>2, <2>3, <2>6, <2>8
  <2>10. \A t, u \in scans' : t.id = op'[d].id /\ Newer(u, t) => u.id > op'[d].since
    BY <2>1, <2>5
  <2> QED
    BY <2>9, <2>10
<1> QED
  BY <1>10, <1>11, <1>12, <1>13, <1>15, <1>16, <1>17, <1>18 DEF IInv

\* When all that is newer than a scan was stored since, and retention drops the
\* scan, Keep scans were stored since.
LEMMA DroppedAfterKeep ==
    ASSUME TypeOK, Ordered, NEW s \in scans, ~Kept(s),
           NEW since \in Nat, since <= Len(persisted),
           \A t \in scans : Newer(t, s) => t.id > since
    PROVE  Len(persisted) - since >= Keep
<1>1. PICK n \in Nat : n = Len(persisted)
  BY DEF TypeOK
<1> DEFINE Above == {t \in scans : Newer(t, s)}
           Since == (since + 1)..n
           f == [t \in Above |-> t.id]
<1>2. IsFiniteSet(Since) /\ Cardinality(Since) = n - since
  <2>1. since + 1 \in Int /\ n \in Int /\ since <= n
    BY <1>1
  <2>2. IsFiniteSet(Since) /\ Cardinality(Since) = IF since + 1 > n THEN 0 ELSE n - (since + 1) + 1
    BY <2>1, FS_Interval
  <2> QED
    BY <2>1, <2>2
<1>3. f \in Injection(Above, Since)
  <2>1. \A t \in Above : f[t] \in Since
    BY <1>1, StoreAssumption DEF TypeOK, Ordered
  <2>2. \A t, u \in Above : f[t] = f[u] => t = u
    BY DEF Ordered
  <2> QED
    BY <2>1, <2>2 DEF Injection, IsInjective
<1>4. Cardinality(Above) <= Cardinality(Since)
  BY <1>2, <1>3, FS_Injection
<1>5. Cardinality(Above) \in Nat /\ ~(Cardinality(Above) < Keep)
  BY RanksDiffer DEF Rank, Kept
<1> QED
  BY <1>1, <1>2, <1>4, <1>5, StoreAssumption

\* Retention leaves the newest scan the newest.
LEMMA NewestStays ==
    ASSUME TypeOK, Ordered, HasNewest, scans # {}, scans' = {s \in scans : Kept(s)}
    PROVE  HasNewest' /\ Latest' = Latest
<1>1. Newest \in scans' /\ \A t \in scans' : ~Newer(t, Newest)
  BY NewestIs, NewestKept
<1>2. \A u \in scans' : (\A t \in scans' : ~Newer(t, u)) => u = Newest
  BY <1>1, NewerOrder
<1>3. HasNewest' /\ Newest' = Newest
  BY <1>1, <1>2 DEF HasNewest, Newest, Newer
<1> QED
  BY <1>1, <1>3 DEF Latest

\* Retention: whole scans go, oldest first.
LEMMA PruneKeeps ==
    ASSUME IInv, NEW c \in Client, Prune(c)
    PROVE  IInv' /\ Latest' = Latest
<1> DEFINE done == [op[c] EXCEPT !.pc = "pruned"]
<1>1. /\ UNCHANGED <<server, shape, parked, clock, inProgress, persisted, crashes>>
      /\ server = "up" /\ op[c].pc = "persisted" /\ op' = [op EXCEPT ![c] = done]
      /\ scans' = {s \in scans : Kept(s)}
      /\ rows' = {r \in rows : \E s \in scans' : s.id = r[1]}
  BY DEF Prune, Go
<1>2. done \in [pc : {"pruned"}, id : 1..MaxScans] /\ done.id = op[c].id
  <2>1. op[c] \in Ops
    BY DEF IInv, TypeOK, Ops
  <2>2. op[c] \in [pc : {"persisted"}, id : 1..MaxScans]
    BY <1>1, <2>1 DEF Ops, Idle
  <2> QED
    BY <2>2
<1> HIDE DEF done
<1>3. \A d \in Client : op'[d] = IF d = c THEN done ELSE op[d]
  BY <1>1 DEF IInv, TypeOK
<1>4. \A d \in Client : d # c => ~Scanning(d)
  BY <1>1 DEF IInv, Flagged, Scanning
<1>5. PICK s \in scans : s.id = op[c].id /\ s.id > 0 /\ \A t \in scans : t.id <= s.id
  BY <1>1 DEF IInv, Answering
<1>6. HasNewest' /\ Latest' = Latest
  BY <1>1, <1>5, NewestStays DEF IInv
<1>7. TypeOK'
  <2>1. op' \in [Client -> Ops]
    BY <1>1, <1>2 DEF IInv, TypeOK, Ops
  <2> QED
    BY <1>1, <2>1 DEF IInv, TypeOK, Ops
<1>8. Migrated'
  BY <1>1, <1>3 DEF IInv, Migrated
<1>9. Ordered'
  BY <1>1, FS_Subset DEF IInv, Ordered
<1>10. Whole'
  BY <1>1 DEF IInv, Whole, Ids
<1>11. Flagged'
  BY <1>1, <1>3, <1>4 DEF IInv, Flagged, Scanning
<1>12. Answering'
  <2>1. Cardinality(scans') <= Keep
    BY <1>1, KeptFew DEF IInv
  <2>2. s.id \in 1..Len(persisted) /\ s.at = persisted[s.id].at
    BY <1>5, StoreAssumption DEF IInv, TypeOK, Ordered
  <2>3. \A t \in scans : t.id \in Nat /\ t.at \in Nat /\ t.row \in Nat
    BY StoreAssumption DEF IInv, TypeOK
  \* s was inserted last: what is newer has a later time.
  <2>6. \A t \in scans : Newer(t, s) <=> t.at > s.at
    BY <1>5, <2>3 DEF IInv, Ordered, Newer
  <2>7. LaterThan(s.id)' = {t \in scans' : Newer(t, s)}
    BY <1>1, <2>2, <2>6 DEF LaterThan
  <2>8. s.id \in Ids' \/ Cardinality(LaterThan(s.id)') = Keep
    <3>1. CASE Kept(s)
      BY <1>1, <3>1 DEF Ids
    <3>2. CASE ~Kept(s)
      <4>1. LaterThan(s.id)' = scans'
        BY <1>1, <2>7, <3>2, KeptNewer DEF IInv
      <4> QED
        BY <1>1, <3>2, <4>1, KeptNewer DEF IInv
    <3> QED
      BY <3>1, <3>2
  <2>9. s.id = Latest'.id <=> LaterThan(s.id)' = {}
    <3>1. Newest \in scans' /\ \A t \in scans : ~Newer(t, Newest)
      BY <1>1, <1>5, NewestIs, NewestKept DEF IInv
    <3>2. Newest \in scans /\ Latest'.id = Newest.id
      BY <1>1, <1>5, <1>6, <3>1 DEF Latest
    <3>3. CASE Newest = s
      BY <1>1, <2>7, <3>1, <3>2, <3>3
    <3>4. CASE Newest # s
      <4>1. Newest.id # s.id
        BY <3>2, <3>4 DEF IInv, Ordered
      <4>2. Newer(Newest, s)
        BY <3>1, <3>2, <3>4, NewerOrder DEF IInv
      <4> QED
        BY <2>7, <3>1, <3>2, <4>1, <4>2
    <3> QED
      BY <3>3, <3>4
  <2>4. \A d \in Client : op'[d].pc # "persisted" /\ (op'[d].pc = "pruned" => d = c)
    BY <1>2, <1>3, <1>4 DEF Scanning
  <2>5. op'[c].id = s.id
    BY <1>2, <1>3, <1>5
  <2> QED
    BY <1>1, <2>1, <2>2, <2>4, <2>5, <2>8, <2>9 DEF Answering, LaterThan
<1>13. Readers'
  <2> SUFFICES ASSUME NEW d \in Client, op'[d].pc = "reading"
               PROVE  /\ op'[d].id <= op'[d].since /\ op'[d].since <= Len(persisted')
                      /\ op'[d].id \notin Ids' => Len(persisted') - op'[d].since >= Keep
                      /\ \A t, u \in scans' : t.id = op'[d].id /\ Newer(u, t) => u.id > op'[d].since
    BY DEF Readers, Newer
  <2>1. d # c /\ op'[d] = op[d]
    BY <1>2, <1>3
  <2>2. op[d].since \in Nat
    BY <2>1, StoreAssumption DEF IInv, TypeOK, Idle
  <2>3. /\ op[d].id <= op[d].since /\ op[d].since <= Len(persisted)
        /\ op[d].id \notin Ids => Len(persisted) - op[d].since >= Keep
        /\ \A t, u \in scans : t.id = op[d].id /\ Newer(u, t) => u.id > op[d].since
    BY <2>1 DEF IInv, Readers
  <2>4. ASSUME op[d].id \in Ids, op[d].id \notin Ids'
        PROVE  Len(persisted) - op[d].since >= Keep
    <3>1. PICK t \in scans : t.id = op[d].id /\ ~Kept(t)
      BY <1>1, <2>4 DEF Ids
    <3>2. \A u \in scans : Newer(u, t) => u.id > op[d].since
      BY <2>3, <3>1
    <3> QED
      BY <2>2, <2>3, <3>1, <3>2, DroppedAfterKeep DEF IInv
  <2> QED
    BY <1>1, <2>1, <2>3, <2>4
<1> QED
  BY <1>6, <1>7, <1>8, <1>9, <1>10, <1>11, <1>12, <1>13 DEF IInv
-----------------------------------------------------------------------------
(* The invariant holds. *)

\* By the disjuncts of Next.
LEMMA NextInv == IInv /\ [Next]_vars => IInv'
<1> SUFFICES ASSUME IInv, [Next]_vars PROVE IInv'
  OBVIOUS
<1>1. CASE Rename \/ CreateSchema \/ Restore
  BY <1>1, StartKeeps
<1>2. CASE Crash
  BY <1>2, CrashKeeps
<1>3. ASSUME NEW c \in Client, Ask(c) \/ ScanStep(c) \/ ReadScan(c) \/ ReadItems(c)
      PROVE  IInv'
  BY <1>3, RequestKeeps, PersistKeeps, PruneKeeps, ReadScanKeeps DEF ScanStep
<1>4. ASSUME NEW t \in 0..MaxTime, ClockSet(t) PROVE IInv'
  BY <1>4, ClockKeeps
<1>5. CASE UNCHANGED vars
  <2>1. UNCHANGED <<server, shape, scans, rows, parked, clock, inProgress, op, persisted, crashes>>
    BY <1>5 DEF vars
  <2>2. Ordered' /\ HasNewest' /\ Ids' = Ids /\ Latest' = Latest
    BY <2>1, SameScans
  <2>3. TypeOK' /\ Migrated' /\ Whole' /\ Flagged' /\ Answering' /\ Readers'
    BY <2>1, <2>2 DEF IInv, TypeOK, Migrated, Whole, Flagged, Scanning, Answering, LaterThan,
                        Readers, Newer
  <2> QED
    BY <2>2, <2>3 DEF IInv
<1> QED
  BY <1>1, <1>2, <1>3, <1>4, <1>5 DEF Next

\* In every reachable state.
LEMMA SpecInv == Spec => []IInv
BY InitInv, NextInv, PTL DEF Spec

\* The state of the tables, of the migration and of each request has the type
\* the store gives it, for any number of clients, items, scans and crashes.
THEOREM TypeCorrect == Spec => []TypeOK
<1>1. IInv => TypeOK
  BY DEF IInv
<1> QED
  BY <1>1, SpecInv, PTL

\* The transaction of _persist_scan and the cascade of prune_old_scans keep a
\* scan whole: in the table with one row for each item it found, or out of it
\* with none, across every crash, failure and migration.
THEOREM ScansStayWhole == Spec => []WholeScans
<1>1. IInv => WholeScans
  <2> SUFFICES ASSUME IInv PROVE WholeScans
    OBVIOUS
  <2>1. ASSUME NEW s \in scans, s.id > 0, NEW i \in Item
        PROVE  Cardinality({r \in rows : r = <<s.id, i>>}) = persisted[s.id].found[i]
    <3>1. CASE <<s.id, i>> \in rows
      <4>1. {r \in rows : r = <<s.id, i>>} = {<<s.id, i>>}
        BY <3>1
      <4> QED
        BY <2>1, <3>1, <4>1, FS_Singleton DEF IInv, Whole
    <3>2. CASE <<s.id, i>> \notin rows
      <4>1. {r \in rows : r = <<s.id, i>>} = {}
        BY <3>2
      <4> QED
        BY <2>1, <3>2, <4>1, FS_EmptySet DEF IInv, Whole
    <3> QED
      BY <3>1, <3>2
  <2> QED
    BY <2>1 DEF IInv, Whole, WholeScans
<1> QED
  BY <1>1, SpecInv, PTL

\* latest_scan_from_db reads the scan and its items in two statements; only Keep
\* scans stored in between can take the scan away.
THEOREM ReadsOvertaken == Spec => []WholeRead
<1>1. IInv => WholeRead
  BY DEF IInv, Readers, WholeRead
<1> QED
  BY <1>1, SpecInv, PTL

\* Retention drops the scan that answers POST /api/scan only after the clock was
\* set back behind Keep stored scans, and readers get another scan for the
\* latest only if that one has a later time.
THEOREM AnswersAreKept == Spec => []AnsweredIsKept
<1>1. IInv => AnsweredIsKept
  BY DEF IInv, Answering, AnsweredIsKept
<1> QED
  BY <1>1, SpecInv, PTL
-----------------------------------------------------------------------------
(* The tables implement the register. *)

\* Only a transaction of _persist_scan changes the latest scan.
LEMMA OnlyPersist ==
    ASSUME IInv, [Next]_vars, \A c \in Client : ~Persist(c)
    PROVE  Latest' = Latest
<1>1. CASE UNCHANGED <<scans, persisted>>
  BY <1>1, SameScans
<1>2. ASSUME NEW c \in Client, Prune(c) PROVE Latest' = Latest
  BY <1>2, PruneKeeps
<1>3. UNCHANGED <<scans, persisted>> \/ \E c \in Client : Prune(c)
  BY DEF Next, vars, Rename, CreateSchema, Restore, Crash, Ask, ScanStep, Begin, ScanCollected,
         ScanDone, ScanFails, ReadScan, ReadItems, ClockSet
<1> QED
  BY <1>1, <1>2, <1>3

\* It changes it to the scan it stores, or not at all.
LEMMA PersistRecords ==
    ASSUME IInv, NEW c \in Client, Persist(c)
    PROVE  [Register!Record]_Latest
<1>1. PICK s : Stored(s) /\ scans' = scans \cup {s}
  BY PersistIs
<1>2. scans' # {} /\ s.id \in Nat /\ s.at \in Nat
  BY <1>1, StoreAssumption DEF Stored
<1>3. CASE Newest' = s /\ (scans # {} => s.id > Newest.id /\ s.at >= Newest.at)
  <2>1. Latest' = [id |-> s.id, at |-> s.at]
    BY <1>2, <1>3 DEF Latest
  <2>2. Latest # None => scans # {} /\ Latest = [id |-> Newest.id, at |-> Newest.at]
    BY DEF Latest
  <2> QED
    BY <1>2, <1>3, <2>1, <2>2 DEF Register!Record, Register!Scans
<1>4. CASE scans # {} /\ Newest' = Newest
  BY <1>2, <1>4 DEF Latest
<1> QED
  BY <1>1, <1>3, <1>4, NewestStored DEF IInv

\* Through migration, scans, failures, retention, crashes and a clock set back,
\* what readers get for the latest scan is one register, which only scans write
\* and which never goes back to an older scan or to none.
THEOREM StoreIsRegister == Spec => LatestRegister
<1>1. Init => Register!Init
  <2> SUFFICES ASSUME Init PROVE Latest \in {None} \cup [id : Nat, at : Nat]
    BY DEF Register!Init, Register!Scans
  <2>1. IInv
    BY InitInv
  <2>2. scans # {} => Newest \in scans
    BY <2>1, NewestIs DEF IInv
  <2>3. \A s \in scans : s.id \in Nat /\ s.at \in Nat
    BY <2>1, StoreAssumption DEF IInv, TypeOK
  <2> QED
    BY <2>2, <2>3 DEF Latest
<1>2. IInv /\ [Next]_vars => [Register!Record]_Latest
  BY OnlyPersist, PersistRecords
<1> QED
  BY <1>1, <1>2, SpecInv, PTL DEF Spec, LatestRegister, Register!Spec
=============================================================================
