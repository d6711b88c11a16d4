--------------------------- MODULE FileScanProofs ---------------------------
(***************************************************************************)
(* FileScan, for every file system, every sequence of scanners and every   *)
(* choice of caps.                                                         *)
(***************************************************************************)
EXTENDS FileScan, TLAPS, SequenceTheorems, WellFoundedInduction

-----------------------------------------------------------------------------
(* Least elements and sums. *)

\* Every set of naturals has a least element; proofs by induction go by it.
LEMMA LeastNat ==
    ASSUME NEW T \in SUBSET Nat, T # {}
    PROVE  \E n \in T : \A m \in T : n <= m
<1> DEFINE R == {ss \in Nat \X Nat : ss[1] < ss[2]}
<1>1. IsWellFoundedOn(R, Nat)
  BY NatLessThanWellFounded DEF OpToRel
<1>2. \A m, n \in Nat : m < n => <<m, n>> \in R
  OBVIOUS
<1> HIDE DEF R
<1>3. PICK n \in T : \A m \in T : ~(<<m, n>> \in R)
  BY <1>1, WFMin
<1>4. ASSUME NEW m \in T PROVE n <= m
  <2>1. m \in Nat /\ n \in Nat
    OBVIOUS
  <2>2. ~(m < n)
    BY <2>1, <1>2, <1>3
  <2> QED BY <2>1, <2>2
<1> QED BY <1>4

\* The function that TotalSize sums with.
Sums(g, files) ==
    g = [n \in 0..Len(files) |-> IF n = 0 THEN 0 ELSE g[n - 1] + fs.size[files[n]]]

\* TotalSize takes the last value of such a function.
LEMMA TotalSizeIs ==
    ASSUME NEW files PROVE TotalSize(files) = (CHOOSE g : Sums(g, files))[Len(files)]
<1> DEFINE sum[n \in 0..Len(files)] == IF n = 0 THEN 0 ELSE sum[n - 1] + fs.size[files[n]]
<1>1. sum = CHOOSE g : Sums(g, files)
  BY DEF Sums
<1>2. TotalSize(files) = sum[Len(files)]
  BY DEF TotalSize
<1> HIDE DEF sum
<1> QED BY <1>1, <1>2

\* Two such functions agree.
LEMMA SumsAgree ==
    ASSUME NEW files \in Seq(Node), NEW g, NEW h, Sums(g, files), Sums(h, files),
           NEW n \in 0..Len(files)
    PROVE  g[n] = h[n]
<1> DEFINE Differ == {m \in Nat : m \in 0..Len(files) /\ g[m] # h[m]}
<1>1. ASSUME Differ # {} PROVE FALSE
  <2>1. PICK m \in Differ : \A k \in Differ : m <= k
    BY <1>1, LeastNat
  <2>2. /\ g[m] = IF m = 0 THEN 0 ELSE g[m - 1] + fs.size[files[m]]
        /\ h[m] = IF m = 0 THEN 0 ELSE h[m - 1] + fs.size[files[m]]
    BY DEF Sums
  <2>3. m # 0 /\ m - 1 \in Nat /\ m - 1 \in 0..Len(files)
    BY <2>2
  <2>4. g[m - 1] = h[m - 1]
    BY <2>1, <2>3
  <2> QED BY <2>2, <2>3, <2>4
<1> QED BY <1>1

\* There is one for the empty sequence.
LEMMA SumsOfNone ==
    Sums([n \in 0..0 |-> 0], <<>>)
<1>1. Len(<<>>) = 0
  OBVIOUS
<1> QED BY <1>1 DEF Sums

\* One for a sequence gives one for the sequence with an element more.
LEMMA SumsOfMore ==
    ASSUME NEW files \in Seq(Node), NEW f \in Node, NEW g, Sums(g, files)
    PROVE  LET more == Append(files, f)
               h == [n \in 0..(Len(files) + 1) |->
                        IF n = Len(files) + 1 THEN g[Len(files)] + fs.size[f] ELSE g[n]]
           IN  Sums(h, more)
<1> DEFINE more == Append(files, f)
           h == [n \in 0..(Len(files) + 1) |->
                    IF n = Len(files) + 1 THEN g[Len(files)] + fs.size[f] ELSE g[n]]
<1>1. Len(files) \in Nat /\ Len(more) = Len(files) + 1
  OBVIOUS
<1>2. /\ more[Len(files) + 1] = f
      /\ \A n \in 1..Len(files) : more[n] = files[n]
  OBVIOUS
<1>3. ASSUME NEW n \in 0..Len(more)
      PROVE  h[n] = IF n = 0 THEN 0 ELSE h[n - 1] + fs.size[more[n]]
  <2>1. CASE n = Len(files) + 1
    <3>1. n - 1 = Len(files) /\ n # 0 /\ h[n] = g[Len(files)] + fs.size[f]
      BY <1>1, <2>1
    <3>2. h[n - 1] = g[Len(files)]
      BY <1>1, <2>1
    <3> QED BY <1>2, <2>1, <3>1, <3>2
  <2>2. CASE n # Len(files) + 1
    <3>1. n \in 0..Len(files) /\ h[n] = g[n]
      BY <1>1, <2>2
    <3>2. n # 0 => n - 1 \in 0..Len(files) /\ h[n - 1] = g[n - 1] /\ more[n] = files[n]
      BY <1>1, <1>2, <3>1
    <3> QED BY <3>1, <3>2 DEF Sums
  <2> QED BY <2>1, <2>2
<1>4. h = [n \in 0..Len(more) |-> IF n = 0 THEN 0 ELSE h[n - 1] + fs.size[more[n]]]
  <2>1. DOMAIN h = 0..Len(more) /\ h = [n \in DOMAIN h |-> h[n]]
    BY <1>1
  <2> HIDE DEF h, more
  <2> QED BY <1>3, <2>1
<1> HIDE DEF h, more
<1> QED BY <1>4 DEF Sums, h, more

\* So there is one for every sequence: the shortest prefix without one would
\* be a shorter one with an element more.
LEMMA SumsExist ==
    ASSUME NEW files \in Seq(Node) PROVE \E g : Sums(g, files)
<1> DEFINE Part(n) == SubSeq(files, 1, n)
           Fail == {n \in Nat : n \in 0..Len(files) /\ ~ \E g : Sums(g, Part(n))}
<1>1. ASSUME Fail # {} PROVE FALSE
  <2>1. PICK n \in Fail : \A k \in Fail : n <= k
    BY <1>1, LeastNat
  <2>2. CASE n = 0
    <3>1. Part(n) = <<>>
      BY <2>2
    <3> QED BY <3>1, SumsOfNone
  <2>3. CASE n # 0
    <3>1. n - 1 \in Nat /\ n - 1 \in 0..Len(files) /\ n \in 1..Len(files)
      BY <2>3
    <3>2. PICK g : Sums(g, Part(n - 1))
      BY <2>1, <3>1
    <3>3. Part(n - 1) \in Seq(Node) /\ Len(Part(n - 1)) = n - 1 /\ Part(n) \in Seq(Node)
      BY <3>1, SubSeqProperties, ElementOfSeq
    <3>4. Part(n) = Append(Part(n - 1), files[n])
      BY <3>1
    <3> HIDE DEF Part
    <3>5. \E h : Sums(h, Part(n))
      BY <3>1, <3>2, <3>3, <3>4, SumsOfMore, ElementOfSeq
    <3> QED BY <3>5
  <2> QED BY <2>2, <2>3
<1>2. Part(Len(files)) = files
  BY SubSeqFull
<1>3. Len(files) \in 0..Len(files) /\ Len(files) \in Nat
  OBVIOUS
<1> QED BY <1>1, <1>2, <1>3

\* TotalSize is what any of them ends with.
LEMMA TotalBySums ==
    ASSUME NEW s \in Seq(Node), NEW g, Sums(g, s) PROVE TotalSize(s) = g[Len(s)]
<1> DEFINE h == CHOOSE h : Sums(h, s)
<1>1. Sums(h, s)
  OBVIOUS
<1>2. Len(s) \in 0..Len(s) /\ TotalSize(s) = h[Len(s)]
  BY TotalSizeIs
<1> HIDE DEF h
<1> QED BY <1>1, <1>2, SumsAgree

\* No files, no bytes.
LEMMA TotalOfNone == TotalSize(<<>>) = 0
<1>1. Len(<<>>) = 0 /\ <<>> \in Seq(Node) /\ [n \in 0..0 |-> 0][0] = 0
  OBVIOUS
<1> QED BY <1>1, SumsOfNone, TotalBySums

\* One more file adds its size.
LEMMA TotalSizeOf ==
    ASSUME IsTree(fs), NEW files \in Seq(Node), NEW f \in Node
    PROVE  TotalSize(Append(files, f)) = TotalSize(files) + fs.size[f]
<1>3. PICK g : Sums(g, files)
  BY SumsExist
<1> DEFINE more == Append(files, f)
           h == [n \in 0..(Len(files) + 1) |->
                    IF n = Len(files) + 1 THEN g[Len(files)] + fs.size[f] ELSE g[n]]
<1>4. Sums(h, more)
  BY <1>3, SumsOfMore
<1>5. more \in Seq(Node) /\ Len(more) = Len(files) + 1 /\ h[Len(files) + 1] = g[Len(files)] + fs.size[f]
  OBVIOUS
<1> HIDE DEF h, more
<1>6. TotalSize(more) = h[Len(more)] /\ TotalSize(files) = g[Len(files)]
  BY <1>3, <1>4, <1>5, TotalBySums
<1> QED BY <1>5, <1>6 DEF more

\* Sums are naturals: there is no shortest prefix whose sum is not.
LEMMA TotalIsNat ==
    ASSUME IsTree(fs), NEW files \in Seq(Node) PROVE TotalSize(files) \in Nat
<1> DEFINE Part(n) == SubSeq(files, 1, n)
           Fail == {n \in Nat : n \in 0..Len(files) /\ TotalSize(Part(n)) \notin Nat}
<1>1. ASSUME Fail # {} PROVE FALSE
  <2>1. PICK n \in Fail : \A k \in Fail : n <= k
    BY <1>1, LeastNat
  <2>2. n # 0
    <3>1. Part(0) = <<>>
      OBVIOUS
    <3>2. 1 \in Nat /\ <<>> \in Seq(Node)
      OBVIOUS
    <3> QED BY <2>1, <3>1, TotalOfNone
  <2>3. n - 1 \in Nat /\ n - 1 \in 0..Len(files) /\ n \in 1..Len(files) /\ files[n] \in Node
    BY <2>2, ElementOfSeq
  <2>4. TotalSize(Part(n - 1)) \in Nat
    BY <2>1, <2>3
  <2>5. Part(n - 1) \in Seq(Node) /\ Part(n) = Append(Part(n - 1), files[n])
    BY <2>3, SubSeqProperties, ElementOfSeq
  <2> HIDE DEF Part
  <2>6. TotalSize(Part(n)) \in Nat
    <3>1. fs.size[files[n]] \in Nat
      BY <2>3 DEF IsTree
    <3>2. TotalSize(Part(n)) = TotalSize(Part(n - 1)) + fs.size[files[n]]
      BY <2>3, <2>5, TotalSizeOf
    <3> QED BY <2>4, <3>1, <3>2
  <2> QED BY <2>1, <2>6
<1>2. Part(Len(files)) = files /\ Len(files) \in Nat /\ Len(files) \in 0..Len(files)
  BY SubSeqFull
<1> QED BY <1>1, <1>2

-----------------------------------------------------------------------------
(* The tree. *)

\* A path ends in its node, and every node on it has the path up to there.
LEMMA PathIs ==
    ASSUME IsTree(fs), NEW n \in Node
    PROVE  /\ fs.path[n] \in Seq(Node) /\ Len(fs.path[n]) \in Nat \ {0}
           /\ fs.path[n][Len(fs.path[n])] = n
           /\ \A i \in 1..Len(fs.path[n]) :
                 /\ fs.path[n][i] \in Node /\ Len(fs.path[fs.path[n][i]]) = i
                 /\ \A j \in 1..i : fs.path[fs.path[n][i]][j] = fs.path[n][j]
                 /\ i < Len(fs.path[n]) => fs.kind[fs.path[n][i]] = "dir"
<1>1. /\ fs.path[n] \in Seq(Node) /\ Len(fs.path[n]) \in Nat \ {0}
      /\ fs.path[n][Len(fs.path[n])] = n
  BY DEF IsTree
<1>2. ASSUME NEW i \in 1..Len(fs.path[n])
      PROVE  /\ fs.path[n][i] \in Node /\ Len(fs.path[fs.path[n][i]]) = i
             /\ \A j \in 1..i : fs.path[fs.path[n][i]][j] = fs.path[n][j]
             /\ i < Len(fs.path[n]) => fs.kind[fs.path[n][i]] = "dir"
  <2>1. fs.path[n][i] \in Node
    BY <1>1, ElementOfSeq
  <2>2. fs.path[fs.path[n][i]] = SubSeq(fs.path[n], 1, i)
    BY DEF IsTree
  <2>3. i < Len(fs.path[n]) => fs.kind[fs.path[n][i]] = "dir"
    <3>1. i < Len(fs.path[n]) => i \in 1..(Len(fs.path[n]) - 1)
      BY <1>1
    <3> QED BY <3>1 DEF IsTree
  <2>4. \A j \in 1..i : fs.path[n][j] \in Node
    BY <1>1, ElementOfSeq
  <2>5. Len(SubSeq(fs.path[n], 1, i)) = i
    BY <1>1, <2>4, SubSeqProperties
  <2>6. \A j \in 1..i : SubSeq(fs.path[n], 1, i)[j] = fs.path[n][j]
    BY <1>1, <2>4, SubSeqProperties
  <2> QED BY <2>1, <2>2, <2>3, <2>5, <2>6
<1> QED BY <1>1, <1>2

\* A child lies one below its directory, on its path.
LEMMA ChildIs ==
    ASSUME IsTree(fs), NEW d \in Node, NEW i \in 1..Len(Children(d))
    PROVE  LET c == Children(d)[i] IN
           /\ c \in Node /\ Len(fs.path[c]) = Len(fs.path[d]) + 1 /\ Parent(c) = d
           /\ \A j \in 1..Len(fs.path[d]) : fs.path[c][j] = fs.path[d][j]
<1> DEFINE c == Children(d)[i]
<1>1. Children(d) \in Seq(Node) /\ c \in Node
  BY ElementOfSeq DEF IsTree, Children
<1>2. fs.path[c] = Append(fs.path[d], c)
  BY DEF IsTree, Children
<1>3. fs.path[d] \in Seq(Node) /\ Len(fs.path[d]) \in Nat \ {0} /\ fs.path[d][Len(fs.path[d])] = d
  BY PathIs
<1> HIDE DEF c
<1>4. /\ Len(fs.path[c]) = Len(fs.path[d]) + 1
      /\ \A j \in 1..Len(fs.path[d]) : fs.path[c][j] = fs.path[d][j]
  BY <1>1, <1>2, <1>3
<1>5. Parent(c) = d
  BY <1>3, <1>4 DEF Parent
<1> QED BY <1>1, <1>4, <1>5 DEF c

\* What lies in a directory has its path but for the last node, and the
\* directory lists it.
LEMMA ListedByParent ==
    ASSUME IsTree(fs), NEW n \in Node, Len(fs.path[n]) > 1
    PROVE  /\ Parent(n) \in Node /\ fs.kind[Parent(n)] = "dir"
           /\ Len(fs.path[Parent(n)]) = Len(fs.path[n]) - 1
           /\ \A j \in 1..(Len(fs.path[n]) - 1) : fs.path[Parent(n)][j] = fs.path[n][j]
           /\ \E i \in 1..Len(Children(Parent(n))) : Children(Parent(n))[i] = n
<1>1. PICK i \in 1..Len(fs.path[n]) : i = Len(fs.path[n]) - 1 /\ i < Len(fs.path[n])
  <2>1. Len(fs.path[n]) \in Nat
    BY PathIs
  <2>2. \A k \in Nat : k > 1 => k - 1 \in 1..k /\ k - 1 < k
    OBVIOUS
  <2> QED BY ONLY <2>1, <2>2, Len(fs.path[n]) > 1
<1>2. Parent(n) = fs.path[n][i]
  BY <1>1 DEF Parent
<1>3. /\ fs.path[n][i] \in Node /\ Len(fs.path[fs.path[n][i]]) = i
      /\ \A j \in 1..i : fs.path[fs.path[n][i]][j] = fs.path[n][j]
      /\ fs.kind[fs.path[n][i]] = "dir"
  <2>1. \A k \in 1..Len(fs.path[n]) :
           /\ fs.path[n][k] \in Node /\ Len(fs.path[fs.path[n][k]]) = k
           /\ \A j \in 1..k : fs.path[fs.path[n][k]][j] = fs.path[n][j]
           /\ k < Len(fs.path[n]) => fs.kind[fs.path[n][k]] = "dir"
    BY PathIs
  <2> QED BY ONLY <1>1, <2>1
<1>4. \E j \in 1..Len(Children(Parent(n))) : Children(Parent(n))[j] = n
  BY DEF IsTree, Parent, Children
<1> QED BY <1>1, <1>2, <1>3, <1>4

-----------------------------------------------------------------------------
(* The walk in progress: its types. *)

\* What a root resolves to is a directory or a file.
LEMMA ResolvedIs ==
    ASSUME IsTree(fs), NEW r \in Node, Resolved(r) # None
    PROVE  Resolved(r) \in Node /\ fs.kind[Resolved(r)] \in {"dir", "file"}
<1>1. /\ fs.target[r] \in Node \cup {None}
      /\ fs.target[r] # None => fs.kind[fs.target[r]] # "link"
      /\ \A n \in Node : fs.kind[n] \in {"dir", "file", "link"}
  BY DEF IsTree
<1>2. CASE fs.kind[r] = "link"
  <2>1. Resolved(r) = fs.target[r] /\ fs.target[r] # None
    BY <1>2 DEF Resolved
  <2> QED BY <1>1, <2>1
<1>3. CASE fs.kind[r] # "link"
  BY <1>1, <1>3 DEF Resolved
<1> QED BY <1>2, <1>3

\* A walk is of a root that is there.
RootKnown == Walking => root <= Len(Scanner.roots) /\ Root # None

\* Such a root is a directory or a file.
LEMMA RootIs ==
    ASSUME TypeOK, RootKnown, Walking
    PROVE  /\ IsTree(fs) /\ walk \in WalkType /\ Scanner \in ScannerType
           /\ Root \in Node /\ fs.kind[Root] \in {"dir", "file"}
           /\ root \in 1..Len(Scanner.roots)
<1>1. IsTree(fs) /\ walk \in WalkType /\ todo # <<>> /\ todo \in Seq(ScannerType) /\ root \in Nat
  BY DEF TypeOK
<1>2. Scanner \in ScannerType
  BY <1>1, HeadTailProperties DEF Scanner
<1>3. Scanner.roots \in Seq(Node) /\ root \in 1..Len(Scanner.roots)
  BY <1>1, <1>2 DEF RootKnown, ScannerType, TypeOK
<1>4. Scanner.roots[root] \in Node
  BY <1>3, ElementOfSeq
<1>5. Root \in Node /\ fs.kind[Root] \in {"dir", "file"}
  BY <1>1, <1>4, ResolvedIs DEF RootKnown, Root
<1> QED BY <1>1, <1>2, <1>3, <1>5

\* The first entry of the queue, and the queue without it.
LEMMA PoppedIs ==
    ASSUME walk \in WalkType, ~Over
    PROVE  /\ walk.q # <<>> /\ Len(walk.q) \in Nat \ {0} /\ ~walk.truncated
           /\ Entry \in Node /\ Depth \in Nat /\ walk.q[1] = <<Entry, Depth>>
           /\ Popped \in WalkType /\ Popped.q = Tail(walk.q)
           /\ Len(Tail(walk.q)) = Len(walk.q) - 1
           /\ \A i \in 1..Len(Tail(walk.q)) : i + 1 \in 1..Len(walk.q) /\ Tail(walk.q)[i] = walk.q[i + 1]
           /\ Popped.seen = walk.seen /\ Popped.files = walk.files
           /\ Popped.bytes = walk.bytes /\ Popped.truncated = walk.truncated
           /\ Popped.found = walk.found /\ Popped.listed = walk.listed /\ Popped.lost = walk.lost
<1>1. walk.q \in Seq(Node \X Nat) /\ walk.q # <<>> /\ ~walk.truncated
  BY DEF WalkType, Over
<1>2. Len(walk.q) \in Nat \ {0} /\ walk.q[1] \in Node \X Nat
  BY <1>1, EmptySeq, ElementOfSeq
<1>3. Entry \in Node /\ Depth \in Nat /\ walk.q[1] = <<Entry, Depth>>
  BY <1>2 DEF Entry, Depth
<1>4. /\ Tail(walk.q) \in Seq(Node \X Nat) /\ Len(Tail(walk.q)) = Len(walk.q) - 1
      /\ \A i \in 1..Len(Tail(walk.q)) : i + 1 \in 1..Len(walk.q) /\ Tail(walk.q)[i] = walk.q[i + 1]
  BY <1>1, <1>2, HeadTailProperties
<1>5. /\ Popped \in WalkType /\ Popped.q = Tail(walk.q)
      /\ Popped.seen = walk.seen /\ Popped.files = walk.files
      /\ Popped.bytes = walk.bytes /\ Popped.truncated = walk.truncated
      /\ Popped.found = walk.found /\ Popped.listed = walk.listed /\ Popped.lost = walk.lost
  BY <1>4 DEF Popped, WalkType
<1> QED BY <1>1, <1>2, <1>3, <1>4, <1>5

-----------------------------------------------------------------------------
(* The inductive invariant: what is so of every walk in progress. *)

\* Directories listed are marked as seen, and listed once.
Listing(w) ==
    /\ Distinct(w.listed)
    /\ \A i \in 1..Len(w.listed) : w.listed[i] \in w.seen

\* What was reported was counted, and nothing is counted past a cap.
Counting(w) ==
    /\ Len(w.found) <= w.files /\ w.files <= Scanner.files
    /\ TotalSize(w.found) <= w.bytes /\ w.bytes <= Scanner.bytes

\* An entry lies no deeper than its label says, unless a link led there; and
\* what was reported are files.
Shallow(n, d) == Under(n) => DepthOf(n) <= d \/ Linked(n)
Depths(w) ==
    /\ \A i \in 1..Len(w.q) : Shallow(w.q[i][1], w.q[i][2])
    /\ \A i \in 1..Len(w.found) :
          fs.kind[w.found[i]] = "file" /\ Shallow(w.found[i], Scanner.depth)

\* A file no link leads to is met once at most, waiting or reported: as the
\* root, or when the directory it lies in was listed.
Own(f) == fs.kind[f] = "file" /\ ~LinkTo(f)
Waits(w, n) == \E i \in 1..Len(w.q) : w.q[i][1] = n
Reported(w, n) == \E i \in 1..Len(w.found) : w.found[i] = n
InList(w, n) == \E i \in 1..Len(w.listed) : w.listed[i] = n
Once(w) ==
    /\ \A f \in Node : Own(f) =>
          /\ \A i, j \in 1..Len(w.q) : w.q[i][1] = f /\ w.q[j][1] = f => i = j
          /\ \A i, j \in 1..Len(w.found) : w.found[i] = f /\ w.found[j] = f => i = j
          /\ ~(Waits(w, f) /\ Reported(w, f))
          /\ Waits(w, f) \/ Reported(w, f) =>
                f = Root \/ (Len(fs.path[f]) > 1 /\ InList(w, Parent(f)))
    /\ fs.kind[Root] = "file" => \A i \in 1..Len(w.q) : w.q[i][1] = Root

\* The walk is breadth first.
Sorted(w) ==
    \A i, j \in 1..Len(w.q) : i <= j => w.q[i][2] <= w.q[j][2] /\ w.q[j][2] <= w.q[1][2] + 1

\* The directories whose files the walk owes, and what waits early enough not
\* to be dropped for its depth.
Good(m) == Under(m) /\ fs.kind[m] = "dir" /\ (fs.inodes => ~Linked(m))
InTime(w, n) == \E i \in 1..Len(w.q) : w.q[i][1] = n /\ w.q[i][2] <= DepthOf(n)

\* The root comes first; a good directory is marked only when it is listed; and
\* what lies in a good directory that was listed is done or waits in time.
RootFirst(w) == fs.kind[Root] = "dir" => InList(w, Root) \/ w.q = <<<<Root, 0>>>>
MarkedIsListed(w) == \A m \in Node : Good(m) /\ m \in w.seen => InList(w, m)
Offspring(w) ==
    \A c \in Node :
        /\ Len(fs.path[c]) > 1 /\ Good(Parent(c)) /\ InList(w, Parent(c))
        /\ DepthOf(c) <= Scanner.depth
        => /\ fs.kind[c] = "file" => Reported(w, c) \/ InTime(w, c)
           /\ Good(c) => InList(w, c) \/ InTime(w, c)
Owes(w) == ~w.lost /\ ~w.truncated => RootFirst(w) /\ MarkedIsListed(w) /\ Offspring(w)

\* What every walk keeps.
WalkInv(w) == Listing(w) /\ Counting(w) /\ Depths(w) /\ Once(w) /\ Sorted(w) /\ Owes(w)

\* The sample is nobody's item, and a scan ends when every scanner has run.
NoSample ==
    /\ status = "running" => \A x \in items : x.scanner # "sample"
    /\ status # "running" => todo = <<>>

\* The inductive invariant.
IInv == /\ TypeOK /\ RootKnown /\ NoSample /\ SampleIsAnnounced
        /\ Walking => WalkInv(walk)

\* A scan starts with nothing reported and no walk.
LEMMA InitInv == Init => IInv
<1> SUFFICES ASSUME Init PROVE IInv
  OBVIOUS
<1>1. TypeOK
  <2>1. IsTree(fs) /\ todo \in Seq(ScannerType)
    BY FileScanAssumption DEF Init
  <2>2. <<>> \in Seq(Node) /\ 1 \in Nat \ {0}
    OBVIOUS
  <2> QED BY <2>1, <2>2 DEF Init, TypeOK, Walking
<1> QED BY <1>1 DEF Init, IInv, RootKnown, NoSample, SampleIsAnnounced, Walking

\* A step of a walk keeps the invariant when the walk it leaves has it.
LEMMA GoesKeeps ==
    ASSUME IInv, todo # <<>>, root <= Len(Scanner.roots), Root # None,
           NEW w, w \in WalkType, WalkInv(w), Goes(w)
    PROVE  IInv'
<1>1. walk' = w /\ UNCHANGED <<fs, todo, root, got, items, warned, status>>
  BY DEF Goes
<1>2. TypeOK'
  <2>1. IsTree(fs)'
    BY <1>1 DEF IInv, TypeOK
  <2>2. walk' \in WalkType /\ todo' # <<>>
    BY <1>1 DEF IInv, TypeOK
  <2> QED BY <1>1, <2>1, <2>2 DEF IInv, TypeOK, Walking, WalkType, Node
<1>3. (RootKnown /\ NoSample /\ SampleIsAnnounced)'
  BY <1>1 DEF IInv, RootKnown, NoSample, SampleIsAnnounced, Walking, Root, Resolved, Scanner
<1>4. WalkInv(walk)'
  <2>1. Listing(walk)' /\ Sorted(walk)'
    BY <1>1 DEF WalkInv, Listing, Distinct, Sorted
  <2>2. Counting(walk)'
    BY <1>1 DEF WalkInv, Counting, TotalSize, Scanner
  <2>0. Root' = Root /\ RootAt' = RootAt /\ Scanner' = Scanner
    BY <1>1 DEF Root, RootAt, Resolved, Scanner
  <2>3. Depths(walk)'
    BY <1>1, <2>0 DEF WalkInv, Depths, Shallow, Under, DepthOf, Linked, LinkTo
  <2>4. Once(walk)'
    <3>1. \A f : Own(f)' = Own(f) /\ Parent(f)' = Parent(f)
      BY <1>1 DEF Own, LinkTo, Parent
    <3> QED BY <1>1, <2>0, <3>1 DEF WalkInv, Once, Waits, Reported, InList
  <2>5. \A n : Good(n)' = Good(n) /\ DepthOf(n)' = DepthOf(n) /\ Parent(n)' = Parent(n)
    BY <1>1, <2>0 DEF Good, Under, DepthOf, Linked, LinkTo, Parent
  <2>6. /\ walk'.lost = w.lost /\ walk'.truncated = w.truncated
        /\ RootFirst(w) => RootFirst(walk)' 
    BY <1>1, <2>0 DEF RootFirst, InList
  <2>7. MarkedIsListed(w) => MarkedIsListed(walk)'
    BY <1>1, <2>5 DEF MarkedIsListed, InList
  <2>8. Offspring(w) => Offspring(walk)'
    BY <1>1, <2>0, <2>5 DEF Offspring, InList, Reported, InTime
  <2>9. Owes(walk)'
    BY <2>6, <2>7, <2>8 DEF WalkInv, Owes
  <2> QED BY <2>1, <2>2, <2>3, <2>4, <2>9 DEF WalkInv
<1> QED BY <1>2, <1>3, <1>4 DEF IInv

-----------------------------------------------------------------------------
(* A walk that starts. *)

\* The root is at depth 0, and is all that is.
LEMMA UnderRoot ==
    ASSUME IsTree(fs), Root \in Node
    PROVE  /\ RootAt \in Nat \ {0} /\ Under(Root) /\ DepthOf(Root) = 0 /\ ~Linked(Root)
           /\ \A n \in Node : Under(n) => DepthOf(n) \in Nat
           /\ \A n \in Node : Under(n) /\ DepthOf(n) = 0 => n = Root
<1>1. RootAt \in Nat \ {0} /\ fs.path[Root][RootAt] = Root
  BY PathIs DEF RootAt
<1>2. Under(Root) /\ DepthOf(Root) = 0 /\ ~Linked(Root)
  BY <1>1 DEF RootAt, Under, DepthOf, Linked
<1>3. ASSUME NEW n \in Node, Under(n)
      PROVE  DepthOf(n) \in Nat /\ (DepthOf(n) = 0 => n = Root)
  BY <1>1, <1>3, PathIs DEF Under, DepthOf
<1> QED BY <1>1, <1>2, <1>3

\* A walk starts with its root waiting and nothing done.
LEMMA BeginKeeps == IInv /\ WalkBegins => IInv'
<1> SUFFICES ASSUME IInv, WalkBegins PROVE IInv'
  OBVIOUS
<1> DEFINE w == NewWalk(Root)
<1>1. todo # <<>> /\ root <= Len(Scanner.roots) /\ Root # None /\ Goes(w)
  BY DEF WalkBegins, BetweenWalks
<1>2. IsTree(fs) /\ Scanner \in ScannerType /\ Root \in Node /\ fs.kind[Root] \in {"dir", "file"}
  <2>1. IsTree(fs) /\ Scanner \in ScannerType /\ root \in Nat \ {0}
    BY <1>1, HeadTailProperties DEF IInv, TypeOK, Scanner
  <2>2. Scanner.roots[root] \in Node
    BY <1>1, <2>1, ElementOfSeq DEF ScannerType
  <2> QED BY <1>1, <2>1, <2>2, ResolvedIs DEF Root
<1>3. /\ w.q = <<<<Root, 0>>>> /\ Len(w.q) = 1 /\ w.q[1] = <<Root, 0>>
      /\ w.seen = {} /\ w.files = 0 /\ w.bytes = 0 /\ w.truncated = FALSE
      /\ w.found = <<>> /\ w.listed = <<>> /\ w.lost = FALSE
      /\ Len(w.found) = 0 /\ Len(w.listed) = 0 /\ w \in WalkType
  BY <1>2 DEF NewWalk, WalkType
<1> HIDE DEF w
<1>4. Listing(w)
  BY <1>3 DEF Listing, Distinct
<1>5. Counting(w)
  BY <1>2, <1>3, TotalOfNone DEF Counting, ScannerType
<1>6. Depths(w)
  BY <1>2, <1>3, UnderRoot DEF Depths, Shallow
<1>7. Once(w)
  BY <1>3 DEF Once, Waits, Reported
<1>8. Sorted(w)
  BY <1>3 DEF Sorted
<1>9. Owes(w)
  BY <1>3 DEF Owes, RootFirst, MarkedIsListed, Offspring, InList
<1>10. WalkInv(w)
  BY <1>4, <1>5, <1>6, <1>7, <1>8, <1>9 DEF WalkInv
<1> QED BY <1>1, <1>3, <1>10, GoesKeeps

-----------------------------------------------------------------------------
(* What every look at the first entry has in common. *)

\* What holds whenever the loop takes an entry from the queue.
LEMMA LooksIs ==
    ASSUME IInv, Looks
    PROVE  /\ todo # <<>> /\ root <= Len(Scanner.roots) /\ Root # None
           /\ IsTree(fs) /\ walk \in WalkType /\ Scanner \in ScannerType
           /\ Root \in Node /\ fs.kind[Root] \in {"dir", "file"} /\ WalkInv(walk)
           /\ walk.files < Scanner.files /\ walk.bytes < Scanner.bytes /\ ~Over
BY RootIs DEF IInv, TypeOK, RootKnown, Looks

\* The entries that stay in front when the first is taken away.
Stays(w) ==
    /\ w.q \in Seq(Node \X Nat) /\ Len(walk.q) - 1 <= Len(w.q)
    /\ \A i \in 1..(Len(walk.q) - 1) : w.q[i] = walk.q[i + 1]

\* What is put behind them has the next label, so the queue stays sorted.
LEMMA SortedKeeps ==
    ASSUME IInv, Looks, NEW w, Stays(w),
           \A i \in Len(walk.q)..Len(w.q) : w.q[i][2] = Depth + 1
    PROVE  Sorted(w)
<1> DEFINE n == Len(walk.q)
<1>1. WalkInv(walk) /\ walk \in WalkType /\ ~Over
  BY LooksIs
<1>2. n \in Nat \ {0} /\ Depth \in Nat /\ walk.q[1][2] = Depth /\ Len(w.q) \in Nat
  BY <1>1, PoppedIs DEF Stays
<1>3. \A k \in 1..n : walk.q[k][2] \in Nat
  BY <1>1, ElementOfSeq DEF WalkType
<1>4. \A i, j \in 1..n : i <= j => walk.q[i][2] <= walk.q[j][2] /\ walk.q[j][2] <= Depth + 1
  BY <1>1, <1>2 DEF WalkInv, Sorted
<1>5. \A i \in 1..(n - 1) : i + 1 \in 1..n /\ 1 \in 1..n /\ 1 <= i + 1 /\ w.q[i] = walk.q[i + 1]
  <2>1. \A i \in 1..(n - 1) : w.q[i] = walk.q[i + 1]
    BY DEF Stays
  <2> HIDE DEF n
  <2>2. \A i \in 1..(n - 1) : i + 1 \in 1..n /\ 1 \in 1..n /\ 1 <= i + 1
    BY ONLY <1>2
  <2> QED BY ONLY <2>1, <2>2
<1>6. \A i \in n..Len(w.q) : w.q[i][2] = Depth + 1
  OBVIOUS
<1> HIDE DEF n
<1>7. \A i \in 1..(n - 1) : w.q[i][2] \in Nat /\ Depth <= w.q[i][2] /\ w.q[i][2] <= Depth + 1
  BY <1>2, <1>3, <1>4, <1>5
<1>8. \A i \in 1..Len(w.q) : i \in 1..(n - 1) \/ i \in n..Len(w.q)
  BY <1>2
<1>9. \A i \in 1..Len(w.q) : w.q[i][2] \in Nat /\ Depth <= w.q[i][2] /\ w.q[i][2] <= Depth + 1
  BY <1>2, <1>6, <1>7, <1>8
<1>10. ASSUME NEW i \in 1..Len(w.q), NEW j \in 1..Len(w.q), i <= j
       PROVE  w.q[i][2] <= w.q[j][2] /\ w.q[j][2] <= w.q[1][2] + 1
  <2>1. w.q[j][2] <= w.q[1][2] + 1
    <3>1. 1 \in 1..Len(w.q)
      BY <1>2
    <3> QED BY <1>2, <1>9, <3>1
  <2>2. CASE j \in 1..(n - 1)
    <3>1. i \in 1..(n - 1) /\ i + 1 <= j + 1
      BY <1>2, <1>10, <2>2
    <3>2. w.q[i] = walk.q[i + 1] /\ w.q[j] = walk.q[j + 1]
      BY <1>5, <2>2, <3>1
    <3>3. i + 1 \in 1..n /\ j + 1 \in 1..n
      BY <1>5, <2>2, <3>1
    <3> QED BY <1>4, <2>1, <3>1, <3>2, <3>3
  <2>3. CASE j \in n..Len(w.q)
    BY <1>6, <1>9, <2>1, <2>3
  <2> QED BY <1>8, <2>2, <2>3
<1> QED BY <1>10 DEF Sorted

\* With nothing put behind them, they keep what is said of entries.
LEMMA PopKeeps ==
    ASSUME IInv, Looks, NEW w, w.q = Tail(walk.q), w.found = walk.found, w.listed = walk.listed
    PROVE  Stays(w) /\ Depths(w) /\ Once(w) /\ Sorted(w)
<1> DEFINE n == Len(walk.q)
<1>1. WalkInv(walk) /\ walk \in WalkType /\ ~Over
  BY LooksIs
<1>2. /\ w.q \in Seq(Node \X Nat) /\ n \in Nat \ {0} /\ Len(w.q) = n - 1
      /\ \A i \in 1..Len(w.q) : i + 1 \in 1..n /\ w.q[i] = walk.q[i + 1]
  BY <1>1, PoppedIs DEF WalkType
<1> HIDE DEF n
<1>3. Stays(w)
  BY <1>2 DEF Stays, n
<1>4. Depths(w)
  BY <1>1, <1>2 DEF WalkInv, Depths, n
<1>5. Sorted(w)
  <2>1. \A i \in Len(walk.q)..Len(w.q) : w.q[i][2] = Depth + 1
    BY <1>2 DEF n
  <2> QED BY <1>3, <2>1, SortedKeeps
<1>6. Once(w)
  <2>1. \A f : (Waits(w, f) => Waits(walk, f)) /\ Reported(w, f) = Reported(walk, f)
               /\ InList(w, f) = InList(walk, f)
    BY <1>2 DEF Waits, Reported, InList, n
  <2>2. ASSUME NEW f \in Node, Own(f), NEW i \in 1..Len(w.q), NEW j \in 1..Len(w.q),
               w.q[i][1] = f, w.q[j][1] = f
        PROVE  i = j
    <3>1. i + 1 = j + 1
      BY <1>1, <1>2, <2>2 DEF WalkInv, Once, n
    <3> QED BY <3>1
  <2>3. fs.kind[Root] = "file" => \A i \in 1..Len(w.q) : w.q[i][1] = Root
    BY <1>1, <1>2 DEF WalkInv, Once, n
  <2>4. \A f \in Node : Own(f) => \A i, j \in 1..Len(w.found) : w.found[i] = f /\ w.found[j] = f => i = j
    BY <1>1 DEF WalkInv, Once
  <2>5. \A f \in Node : Own(f) =>
          /\ ~(Waits(walk, f) /\ Reported(walk, f))
          /\ Waits(walk, f) \/ Reported(walk, f) =>
                f = Root \/ (Len(fs.path[f]) > 1 /\ InList(walk, Parent(f)))
    BY <1>1 DEF WalkInv, Once
  <2> QED BY <2>1, <2>2, <2>3, <2>4, <2>5 DEF Once
<1> QED BY <1>3, <1>4, <1>5, <1>6

\* Nothing owed is forgotten but what was the first entry.
LEMMA OwedKeeps ==
    ASSUME IInv, Looks, ~walk.lost, NEW w, Stays(w),
           \A n : (Reported(walk, n) => Reported(w, n)) /\ (InList(walk, n) => InList(w, n)),
           NEW c \in Node, Len(fs.path[c]) > 1, Good(Parent(c)), InList(walk, Parent(c)),
           DepthOf(c) <= Scanner.depth
    PROVE  LET first == c = Entry /\ Depth <= Scanner.depth IN
           /\ fs.kind[c] = "file" => Reported(w, c) \/ InTime(w, c) \/ first
           /\ Good(c) => InList(w, c) \/ InTime(w, c) \/ first
<1>1. WalkInv(walk) /\ walk \in WalkType /\ ~Over /\ Scanner \in ScannerType
  BY LooksIs
<1>2. ~walk.truncated /\ Offspring(walk) /\ walk.q[1] = <<Entry, Depth>> /\ Depth \in Nat
  BY <1>1, PoppedIs DEF WalkInv, Owes
<1>3. ASSUME InTime(walk, c)
      PROVE  InTime(w, c) \/ (c = Entry /\ Depth <= Scanner.depth)
  <2>1. PICK i \in 1..Len(walk.q) : walk.q[i][1] = c /\ walk.q[i][2] <= DepthOf(c)
    BY <1>3 DEF InTime
  <2>2. CASE i = 1
    <3>1. c = Entry /\ Depth <= DepthOf(c)
      BY <1>2, <2>1, <2>2
    <3>2. DepthOf(c) \in Int /\ Scanner.depth \in Nat
      BY <1>1, LooksIs, PathIs DEF DepthOf, RootAt, ScannerType
    <3> QED BY <1>2, <3>1, <3>2
  <2>3. CASE i # 1
    <3>1. Len(walk.q) \in Nat /\ Len(w.q) \in Nat
      BY <1>1 DEF Stays, WalkType
    <3>2. i - 1 \in 1..(Len(walk.q) - 1) /\ (i - 1) + 1 = i
      BY <2>3, <3>1
    <3>3. i - 1 \in 1..Len(w.q) /\ w.q[i - 1] = walk.q[i]
      BY <3>1, <3>2 DEF Stays
    <3> QED BY <2>1, <3>3 DEF InTime
  <2> QED BY <2>2, <2>3
<1>4. /\ fs.kind[c] = "file" => Reported(walk, c) \/ InTime(walk, c)
      /\ Good(c) => InList(walk, c) \/ InTime(walk, c)
  BY <1>2 DEF Offspring
<1> QED BY <1>3, <1>4

-----------------------------------------------------------------------------
(* An entry is dropped. *)

\* Why that is no loss: it waits too deep, it is a link, or it was seen; or the
\* walk admits a loss.
Excused(w) ==
    \/ w.lost \/ w.truncated
    \/ ~walk.lost /\ \/ Depth > Scanner.depth
                     \/ fs.kind[Entry] = "link"
                     \/ fs.kind[Entry] = "dir" /\ Visited(Entry)

\* An entry is dropped: nothing is reported or listed, and what it owed is excused.
LEMMA DropKeeps ==
    ASSUME IInv, Looks, NEW w, Goes(w), w \in WalkType, w.q = Tail(walk.q),
           w.seen = walk.seen, w.found = walk.found, w.listed = walk.listed,
           Counting(w), Excused(w)
    PROVE  IInv'
<1>1. /\ todo # <<>> /\ root <= Len(Scanner.roots) /\ Root # None
      /\ IsTree(fs) /\ walk \in WalkType /\ Scanner \in ScannerType
      /\ Root \in Node /\ WalkInv(walk) /\ ~Over
  BY LooksIs
<1>2. Stays(w) /\ Depths(w) /\ Once(w) /\ Sorted(w)
  BY PopKeeps
<1>3. Listing(w)
  BY <1>1 DEF WalkInv, Listing
<1>4. Owes(w)
  <2> SUFFICES ASSUME ~w.lost, ~w.truncated
               PROVE  RootFirst(w) /\ MarkedIsListed(w) /\ Offspring(w)
    BY DEF Owes
  <2>1. /\ ~walk.lost /\ \/ Depth > Scanner.depth
                         \/ fs.kind[Entry] = "link"
                         \/ fs.kind[Entry] = "dir" /\ Entry \in walk.seen
    BY DEF Excused, Visited
  <2>2. RootFirst(walk) /\ MarkedIsListed(walk) /\ Offspring(walk) /\ walk.q[1] = <<Entry, Depth>>
        /\ Entry \in Node
    BY <1>1, <2>1, PoppedIs DEF WalkInv, Owes
  <2>3. \A n : (Reported(walk, n) => Reported(w, n)) /\ InList(walk, n) = InList(w, n)
    BY DEF Reported, InList
  <2>4. MarkedIsListed(w)
    BY <2>2, <2>3 DEF MarkedIsListed
  <2>5. RootFirst(w)
    <3>1. CASE fs.kind[Root] = "dir" /\ walk.q = <<<<Root, 0>>>>
      <4>1. Entry = Root /\ Depth = 0
        BY <2>2, <3>1
      <4>2. Root \in walk.seen
        BY <1>1, <2>1, <3>1, <4>1 DEF ScannerType
      <4>3. Good(Root)
        BY <1>1, <3>1, UnderRoot DEF Good
      <4> QED BY <1>1, <2>2, <2>3, <4>2, <4>3 DEF MarkedIsListed, RootFirst
    <3> QED BY <2>2, <2>3, <3>1 DEF RootFirst
  <2>6. Offspring(w)
    <3> SUFFICES ASSUME NEW c \in Node, Len(fs.path[c]) > 1, Good(Parent(c)),
                        InList(walk, Parent(c)), DepthOf(c) <= Scanner.depth
                 PROVE  /\ fs.kind[c] = "file" => Reported(w, c) \/ InTime(w, c)
                        /\ Good(c) => InList(w, c) \/ InTime(w, c)
      BY <2>3 DEF Offspring
    <3>1. LET first == c = Entry /\ Depth <= Scanner.depth IN
          /\ fs.kind[c] = "file" => Reported(w, c) \/ InTime(w, c) \/ first
          /\ Good(c) => InList(w, c) \/ InTime(w, c) \/ first
      BY <1>2, <2>1, <2>3, OwedKeeps
    <3>2. ASSUME c = Entry, Depth <= Scanner.depth
          PROVE  fs.kind[c] # "file" /\ (Good(c) => InList(w, c))
      <4>1. ~(Depth > Scanner.depth)
        BY <1>1, <3>2, PoppedIs DEF ScannerType
      <4>2. fs.kind[c] # "file"
        BY <2>1, <3>2, <4>1
      <4>3. Good(c) => c \in walk.seen
        BY <2>1, <3>2, <4>1 DEF Good
      <4> QED BY <2>2, <2>3, <4>2, <4>3 DEF MarkedIsListed
    <3> QED BY <3>1, <3>2
  <2> QED BY <2>4, <2>5, <2>6
<1>5. WalkInv(w)
  BY <1>2, <1>3, <1>4 DEF WalkInv
<1> QED BY <1>1, <1>5, GoesKeeps

\* Popped is counted as the walk was, and so is it with a loss admitted.
LEMMA PoppedCounts ==
    ASSUME IInv, Looks
    PROVE  Counting(Popped) /\ Counting([Popped EXCEPT !.lost = TRUE])
                            /\ Counting([Popped EXCEPT !.truncated = TRUE])
<1>1. Counting(walk) /\ walk \in WalkType /\ ~Over
  BY LooksIs DEF WalkInv
<1> QED BY <1>1, PoppedIs DEF Counting, WalkType

\* The caps and the deadline end the walk before it takes an entry.
LEMMA CutKeeps == IInv /\ CapReached => IInv'
<1> SUFFICES ASSUME IInv, CapReached PROVE IInv'
  OBVIOUS
<1> DEFINE w == [walk EXCEPT !.truncated = TRUE]
<1>1. Goes(w) /\ Walking
  BY DEF CapReached
<1>2. todo # <<>> /\ root <= Len(Scanner.roots) /\ Root # None /\ walk \in WalkType /\ WalkInv(walk)
  BY <1>1 DEF IInv, TypeOK, RootKnown
<1>3. /\ w \in WalkType /\ w.q = walk.q /\ w.seen = walk.seen /\ w.files = walk.files
      /\ w.bytes = walk.bytes /\ w.truncated /\ w.found = walk.found /\ w.listed = walk.listed
  BY <1>2 DEF WalkType
<1> HIDE DEF w
<1>4. Listing(w) /\ Counting(w) /\ Depths(w) /\ Sorted(w)
  BY <1>2, <1>3 DEF WalkInv, Listing, Counting, Depths, Sorted
<1>5. Once(w)
  BY <1>2, <1>3 DEF WalkInv, Once, Waits, Reported, InList
<1>6. Owes(w)
  BY <1>3 DEF Owes
<1> QED BY <1>1, <1>2, <1>3, <1>4, <1>5, <1>6, GoesKeeps DEF WalkInv

\* Entries beyond the depth owe nothing: no good directory put them there in time.
LEMMA TooDeepKeeps == IInv /\ TooDeep => IInv'
<1> SUFFICES ASSUME IInv, TooDeep PROVE IInv'
  OBVIOUS
<1>1. Looks /\ Goes(Popped) /\ Depth > Scanner.depth
  BY DEF TooDeep
<1>2. walk \in WalkType /\ ~Over
  BY <1>1, LooksIs
<1>3. Excused(Popped)
  BY <1>1, <1>2, PoppedIs DEF Excused
<1> QED BY <1>1, <1>2, <1>3, PoppedIs, PoppedCounts, DropKeeps

\* A directory seen before was listed then, or a link led to it.
LEMMA LoopSkippedKeeps == IInv /\ LoopSkipped => IInv'
<1> SUFFICES ASSUME IInv, LoopSkipped PROVE IInv'
  OBVIOUS
<1>1. Looks /\ Goes(Popped) /\ fs.kind[Entry] = "dir" /\ Visited(Entry)
  BY DEF LoopSkipped, LooksAt
<1>2. walk \in WalkType /\ ~Over
  BY <1>1, LooksIs
<1>3. Excused(Popped)
  BY <1>1, <1>2, PoppedIs DEF Excused
<1> QED BY <1>1, <1>2, <1>3, PoppedIs, PoppedCounts, DropKeeps

\* What an error takes away, the walk owns up to as lost.
LEMMA VanishedKeeps == IInv /\ Vanished => IInv'
<1> SUFFICES ASSUME IInv, Vanished PROVE IInv'
  OBVIOUS
<1> DEFINE w == [Popped EXCEPT !.lost = TRUE]
<1>1. Looks /\ Goes(w) /\ Counting(w)
  BY PoppedCounts DEF Vanished
<1>2. walk \in WalkType /\ ~Over
  BY <1>1, LooksIs
<1>3. /\ w \in WalkType /\ w.q = Tail(walk.q) /\ w.seen = walk.seen
      /\ w.found = walk.found /\ w.listed = walk.listed /\ w.lost
  BY <1>2, PoppedIs DEF WalkType
<1> HIDE DEF w
<1> QED BY <1>1, <1>3, DropKeeps DEF Excused

-----------------------------------------------------------------------------
(* A file is taken. *)

\* A link that leads below the root leads to what lies behind a link.
LEMMA LinkedIs ==
    ASSUME IsTree(fs), Root \in Node, NEW n \in Node, LinkTo(n), Under(n), n # Root
    PROVE  Linked(n)
<1>1. fs.path[n][Len(fs.path[n])] = n /\ Len(fs.path[n]) \in Nat
  BY PathIs
<1>2. RootAt \in Nat /\ DepthOf(n) \in Nat /\ DepthOf(n) # 0
  BY UnderRoot
<1>3. Len(fs.path[n]) \in (RootAt + 1)..Len(fs.path[n])
  BY <1>1, <1>2 DEF DepthOf
<1> QED BY <1>1, <1>3 DEF Linked

\* A file is reported, met itself or through a link to it.
LEMMA FoundKeeps ==
    ASSUME IInv, Looks, Depth <= Scanner.depth, NEW f \in Node, fs.kind[f] = "file",
           f = Entry \/ (fs.kind[Entry] = "link" /\ LinkTo(f)),
           NEW w, Goes(w), w \in WalkType, w.q = Tail(walk.q), w.seen = walk.seen,
           w.listed = walk.listed, w.found = Append(walk.found, f),
           w.lost = walk.lost, w.truncated = walk.truncated, Counting(w)
    PROVE  IInv'
<1>1. /\ todo # <<>> /\ root <= Len(Scanner.roots) /\ Root # None
      /\ IsTree(fs) /\ walk \in WalkType /\ Scanner \in ScannerType
      /\ Root \in Node /\ WalkInv(walk) /\ ~Over
  BY LooksIs
<1>2. /\ Entry \in Node /\ Depth \in Nat /\ walk.q[1] = <<Entry, Depth>>
      /\ Len(walk.q) \in Nat \ {0} /\ 1 \in 1..Len(walk.q)
      /\ Popped.q = w.q /\ Popped.found = walk.found /\ Popped.listed = w.listed
      /\ Len(w.q) = Len(walk.q) - 1
      /\ \A i \in 1..Len(w.q) : i + 1 \in 1..Len(walk.q) /\ w.q[i] = walk.q[i + 1]
  BY <1>1, PoppedIs
<1>3. Stays(Popped) /\ Depths(Popped) /\ Once(Popped) /\ Sorted(Popped)
  BY <1>1, PopKeeps, PoppedIs
<1>4. /\ walk.found \in Seq(Node) /\ Len(walk.found) \in Nat
      /\ Len(w.found) = Len(walk.found) + 1 /\ w.found[Len(walk.found) + 1] = f
      /\ \A i \in 1..Len(walk.found) : w.found[i] = walk.found[i]
  BY <1>1 DEF WalkType
<1>5. Stays(w) /\ Sorted(w) /\ Listing(w)
  BY <1>1, <1>2, <1>3 DEF Stays, Sorted, Listing, WalkInv
<1>6. Depths(w)
  <2>1. Shallow(f, Scanner.depth)
    <3>1. CASE f = Entry
      <4>1. Shallow(Entry, Depth)
        BY <1>1, <1>2 DEF WalkInv, Depths
      <4>2. Under(Entry) => DepthOf(Entry) \in Nat
        BY <1>1, <1>2, UnderRoot
      <4> QED BY <1>1, <1>2, <3>1, <4>1, <4>2 DEF Shallow, ScannerType
    <3>2. CASE LinkTo(f)
      BY <1>1, <3>2, LinkedIs, UnderRoot DEF Shallow, ScannerType
    <3> QED BY <3>1, <3>2
  <2>2. \A i \in 1..Len(w.found) :
           fs.kind[w.found[i]] = "file" /\ Shallow(w.found[i], Scanner.depth)
    BY <1>1, <1>4, <2>1 DEF WalkInv, Depths
  <2> QED BY <1>2, <1>3, <2>2 DEF Depths
<1>7. Once(w)
  <2>1. \A g : /\ Waits(w, g) = Waits(Popped, g) /\ InList(w, g) = InList(Popped, g)
               /\ Reported(w, g) => Reported(Popped, g) \/ g = f
    BY <1>2, <1>4 DEF Waits, InList, Reported
  <2>2. Own(f) => ~Waits(Popped, f) /\ ~Reported(Popped, f) /\
                  (f = Root \/ (Len(fs.path[f]) > 1 /\ InList(w, Parent(f))))
    <3> SUFFICES ASSUME Own(f)
                 PROVE  /\ ~Waits(Popped, f) /\ ~Reported(Popped, f)
                        /\ (f = Root \/ (Len(fs.path[f]) > 1 /\ InList(w, Parent(f))))
      OBVIOUS
    <3>1. f = Entry
      BY DEF Own
    <3>2. Waits(walk, f)
      BY <1>2, <3>1 DEF Waits
    <3>3. /\ ~Reported(walk, f)
          /\ \A i, j \in 1..Len(walk.q) : walk.q[i][1] = f /\ walk.q[j][1] = f => i = j
          /\ f = Root \/ (Len(fs.path[f]) > 1 /\ InList(walk, Parent(f)))
      BY <1>1, <3>2 DEF WalkInv, Once
    <3>4. ASSUME NEW i \in 1..Len(w.q), w.q[i][1] = f PROVE FALSE
      <4>1. i + 1 = 1
        BY <1>2, <3>1, <3>3, <3>4
      <4> QED BY <4>1
    <3>5. ~Waits(Popped, f)
      BY <1>2, <3>4 DEF Waits
    <3>6. ~Reported(Popped, f) /\ InList(w, Parent(f)) = InList(walk, Parent(f))
      BY <1>2, <3>3 DEF Reported, InList
    <3> QED BY <3>3, <3>5, <3>6
  <2>3. ASSUME NEW g \in Node, Own(g), NEW i \in 1..Len(w.found), NEW j \in 1..Len(w.found),
               w.found[i] = g, w.found[j] = g
        PROVE  i = j
    <3>1. CASE g = f
      <4>1. \A k \in 1..Len(walk.found) : walk.found[k] # f
        BY <1>2, <2>2, <2>3, <3>1 DEF Reported
      <4> QED BY <1>4, <2>3, <3>1, <4>1
    <3>2. CASE g # f
      <4>1. i \in 1..Len(walk.found) /\ j \in 1..Len(walk.found)
        BY <1>4, <2>3, <3>2
      <4>2. walk.found[i] = g /\ walk.found[j] = g
        BY <1>4, <2>3, <4>1
      <4> QED BY <1>1, <2>3, <4>1, <4>2 DEF WalkInv, Once
    <3> QED BY <3>1, <3>2
  <2>4. ASSUME NEW g \in Node, Own(g)
        PROVE  /\ \A i, j \in 1..Len(w.q) : w.q[i][1] = g /\ w.q[j][1] = g => i = j
               /\ ~(Waits(w, g) /\ Reported(w, g))
               /\ Waits(w, g) \/ Reported(w, g) =>
                     g = Root \/ (Len(fs.path[g]) > 1 /\ InList(w, Parent(g)))
    <3>1. /\ \A i, j \in 1..Len(Popped.q) : Popped.q[i][1] = g /\ Popped.q[j][1] = g => i = j
          /\ ~(Waits(Popped, g) /\ Reported(Popped, g))
          /\ Waits(Popped, g) \/ Reported(Popped, g) =>
                g = Root \/ (Len(fs.path[g]) > 1 /\ InList(Popped, Parent(g)))
      BY ONLY <1>3, <2>4 DEF Once
    <3>2. \A i, j \in 1..Len(w.q) : w.q[i][1] = g /\ w.q[j][1] = g => i = j
      BY ONLY <1>2, <3>1
    <3> QED BY <2>1, <2>2, <2>4, <3>1, <3>2
  <2>5. fs.kind[Root] = "file" => \A i \in 1..Len(w.q) : w.q[i][1] = Root
    BY <1>2, <1>3 DEF Once
  <2> QED BY <2>3, <2>4, <2>5 DEF Once
<1>8. Owes(w)
  <2> SUFFICES ASSUME ~walk.lost, ~walk.truncated
               PROVE  RootFirst(w) /\ MarkedIsListed(w) /\ Offspring(w)
    BY DEF Owes
  <2>1. RootFirst(walk) /\ MarkedIsListed(walk)
    BY <1>1 DEF WalkInv, Owes
  <2>2. \A n : (Reported(walk, n) => Reported(w, n)) /\ InList(walk, n) = InList(w, n)
    BY <1>4 DEF Reported, InList
  <2>3. MarkedIsListed(w)
    BY <2>1, <2>2 DEF MarkedIsListed
  <2>4. RootFirst(w)
    <3>1. walk.q = <<<<Root, 0>>>> => Entry = Root
      BY DEF Entry
    <3>2. fs.kind[Entry] # "dir"
      OBVIOUS
    <3> QED BY <2>1, <2>2, <3>1, <3>2 DEF RootFirst
  <2>5. Offspring(w)
    <3> SUFFICES ASSUME NEW c \in Node, Len(fs.path[c]) > 1, Good(Parent(c)),
                        InList(walk, Parent(c)), DepthOf(c) <= Scanner.depth
                 PROVE  /\ fs.kind[c] = "file" => Reported(w, c) \/ InTime(w, c)
                        /\ Good(c) => InList(w, c) \/ InTime(w, c)
      BY <2>2 DEF Offspring
    <3>1. LET first == c = Entry /\ Depth <= Scanner.depth IN
          /\ fs.kind[c] = "file" => Reported(w, c) \/ InTime(w, c) \/ first
          /\ Good(c) => InList(w, c) \/ InTime(w, c) \/ first
      BY <1>5, <2>2, OwedKeeps
    <3>2. Reported(w, f)
      BY <1>4 DEF Reported
    <3>3. c = Entry => (fs.kind[c] = "file" => c = f) /\ ~Good(c)
      BY DEF Good
    <3> QED BY <3>1, <3>2, <3>3
  <2> QED BY <2>3, <2>4, <2>5
<1>9. WalkInv(w)
  BY <1>5, <1>6, <1>7, <1>8 DEF WalkInv
<1> QED BY <1>1, <1>9, GoesKeeps

\* At its own place the file is the entry; elsewhere a link leads to it.
LEMMA TakeKeeps ==
    ASSUME IInv, Looks, Depth <= Scanner.depth, NEW f \in Node, Take(f),
           fs.kind[f] = "file", f = Entry \/ (fs.kind[Entry] = "link" /\ LinkTo(f))
    PROVE  IInv'
<1>1. /\ todo # <<>> /\ root <= Len(Scanner.roots) /\ Root # None
      /\ IsTree(fs) /\ walk \in WalkType /\ Scanner \in ScannerType
      /\ Root \in Node /\ WalkInv(walk) /\ ~Over
      /\ walk.files < Scanner.files /\ walk.bytes < Scanner.bytes
  BY LooksIs
<1>2. /\ Entry \in Node /\ Depth \in Nat /\ walk.q[1] = <<Entry, Depth>> /\ Popped \in WalkType
      /\ Len(walk.q) \in Nat \ {0}
  BY <1>1, PoppedIs
<1>3. CASE walk.bytes + fs.size[f] > Scanner.bytes
  <2> DEFINE w == [Popped EXCEPT !.truncated = TRUE]
  <2>1. Goes(w) /\ Counting(w)
    BY <1>3, PoppedCounts DEF Take
  <2>2. /\ w \in WalkType /\ w.q = Tail(walk.q) /\ w.seen = walk.seen
        /\ w.found = walk.found /\ w.listed = walk.listed /\ w.truncated
    BY <1>1, PoppedIs DEF WalkType
  <2> HIDE DEF w
  <2> QED BY <2>1, <2>2, DropKeeps DEF Excused
<1>4. CASE ~(walk.bytes + fs.size[f] > Scanner.bytes)
  <2> DEFINE counted == [Popped EXCEPT !.files = @ + 1, !.bytes = @ + fs.size[f]]
  <2>1. fs.size[f] \in Nat
    BY <1>1 DEF IsTree
  <2>2. /\ counted \in WalkType /\ counted.q = Tail(walk.q) /\ counted.seen = walk.seen
        /\ counted.files = walk.files + 1 /\ counted.bytes = walk.bytes + fs.size[f]
        /\ counted.found = walk.found /\ counted.listed = walk.listed
        /\ counted.lost = walk.lost /\ counted.truncated = walk.truncated
    <3>1. /\ Popped \in WalkType /\ Popped.q = Tail(walk.q)
          /\ Popped.seen = walk.seen /\ Popped.files = walk.files
          /\ Popped.bytes = walk.bytes /\ Popped.truncated = walk.truncated
          /\ Popped.found = walk.found /\ Popped.listed = walk.listed /\ Popped.lost = walk.lost
      BY <1>1, PoppedIs
    <3>2. Popped.files + 1 \in Nat /\ Popped.bytes + fs.size[f] \in Nat
      BY <2>1, <3>1 DEF WalkType
    <3> QED BY <3>1, <3>2 DEF WalkType
  <2>3. /\ counted.files <= Scanner.files /\ counted.bytes <= Scanner.bytes
        /\ Len(walk.found) + 1 <= counted.files
        /\ TotalSize(walk.found) + fs.size[f] <= counted.bytes
    <3>1. Len(walk.found) <= walk.files /\ TotalSize(walk.found) <= walk.bytes
      BY <1>1 DEF WalkInv, Counting
    <3>2. Len(walk.found) \in Nat /\ walk.files \in Nat /\ walk.bytes \in Nat
          /\ Scanner.files \in Nat /\ Scanner.bytes \in Nat
      BY <1>1 DEF WalkType, ScannerType
    <3>3. TotalSize(walk.found) \in Nat
      BY <1>1, TotalIsNat DEF WalkType
    <3>4. counted.files <= Scanner.files /\ Len(walk.found) + 1 <= counted.files
      BY ONLY <1>1, <2>2, <3>1, <3>2
    <3>5. counted.bytes <= Scanner.bytes
      BY ONLY <1>4, <2>1, <2>2, <3>2
    <3>6. TotalSize(walk.found) + fs.size[f] <= counted.bytes
      BY ONLY <2>1, <2>2, <3>1, <3>2, <3>3
    <3> QED BY <3>4, <3>5, <3>6
  <2>4. \/ Goes([counted EXCEPT !.found = Append(@, f)])
        \/ Goes([counted EXCEPT !.lost = TRUE])
    BY <1>4 DEF Take
  <2> HIDE DEF counted
  <2>5. CASE Goes([counted EXCEPT !.lost = TRUE])
    <3> DEFINE w == [counted EXCEPT !.lost = TRUE]
    <3>1. /\ w \in WalkType /\ w.q = Tail(walk.q) /\ w.seen = walk.seen
          /\ w.files = counted.files /\ w.bytes = counted.bytes
          /\ w.found = walk.found /\ w.listed = walk.listed /\ w.lost
      BY <2>2 DEF WalkType
    <3>2. Goes(w)
      BY <2>5
    <3> HIDE DEF w
    <3>3. Counting(w)
      <4>1. /\ TotalSize(walk.found) \in Nat /\ Len(walk.found) \in Nat
            /\ counted.files \in Nat /\ counted.bytes \in Nat
        BY <1>1, <2>2, TotalIsNat DEF WalkType
      <4> QED BY <2>1, <2>3, <3>1, <4>1 DEF Counting
    <3> QED BY <3>1, <3>2, <3>3, DropKeeps DEF Excused
  <2>6. CASE Goes([counted EXCEPT !.found = Append(@, f)])
    <3> DEFINE w == [counted EXCEPT !.found = Append(@, f)]
    <3>1. /\ w \in WalkType /\ w.q = Tail(walk.q) /\ w.seen = walk.seen
          /\ w.files = counted.files /\ w.bytes = counted.bytes
          /\ w.found = Append(walk.found, f) /\ w.listed = walk.listed
          /\ w.lost = walk.lost /\ w.truncated = walk.truncated
      <4>1. Append(walk.found, f) \in Seq(Node)
        BY <1>1 DEF WalkType
      <4> QED BY <2>2, <4>1 DEF WalkType
    <3>2. Goes(w)
      BY <2>6
    <3> HIDE DEF w
    <3>3. Counting(w)
      <4>1. walk.found \in Seq(Node)
        BY <1>1 DEF WalkType
      <4>2. /\ TotalSize(w.found) = TotalSize(walk.found) + fs.size[f]
            /\ Len(w.found) = Len(walk.found) + 1
        BY <1>1, <3>1, <4>1, TotalSizeOf
      <4> QED BY <2>3, <3>1, <4>2 DEF Counting
    <3> QED BY <3>1, <3>2, <3>3, FoundKeeps
  <2> QED BY <2>4, <2>5, <2>6
<1> QED BY <1>3, <1>4

\* A file of the queue is counted and reported, or the counters end the walk.
LEMMA TakeFileKeeps == IInv /\ TakeFile => IInv'
<1> SUFFICES ASSUME IInv, TakeFile PROVE IInv'
  OBVIOUS
<1>1. Looks /\ Depth <= Scanner.depth /\ fs.kind[Entry] = "file" /\ Take(Entry)
  BY DEF TakeFile, LooksAt
<1>2. Entry \in Node
  BY <1>1, LooksIs, PoppedIs
<1> QED BY <1>1, <1>2, TakeKeeps

-----------------------------------------------------------------------------
(* A link is followed. *)

\* The directory a link leads to is put last.
LEMMA QueueKeeps ==
    ASSUME IInv, Looks, fs.kind[Entry] = "link", NEW t \in Node, LinkTo(t), fs.kind[t] # "file",
           NEW w, Goes(w), w \in WalkType, w.q = Append(Tail(walk.q), <<t, Depth + 1>>),
           w.seen = walk.seen \cup (IF fs.inodes THEN {t} ELSE {}),
           w.found = walk.found, w.listed = walk.listed, w.files = walk.files,
           w.bytes = walk.bytes, w.lost = walk.lost, w.truncated = walk.truncated
    PROVE  IInv'
<1> DEFINE n == Len(walk.q)
<1>1. /\ todo # <<>> /\ root <= Len(Scanner.roots) /\ Root # None
      /\ IsTree(fs) /\ walk \in WalkType /\ Scanner \in ScannerType
      /\ Root \in Node /\ WalkInv(walk) /\ ~Over
  BY LooksIs
<1>2. /\ Entry \in Node /\ Depth \in Nat /\ walk.q[1] = <<Entry, Depth>>
      /\ n \in Nat \ {0} /\ 1 \in 1..n
      /\ Tail(walk.q) \in Seq(Node \X Nat) /\ Len(Tail(walk.q)) = n - 1
      /\ \A i \in 1..(n - 1) : Tail(walk.q)[i] = walk.q[i + 1]
      /\ Popped.q = Tail(walk.q) /\ Popped.found = walk.found /\ Popped.listed = w.listed
  <2>1. /\ Entry \in Node /\ Depth \in Nat /\ walk.q[1] = <<Entry, Depth>>
        /\ n \in Nat \ {0} /\ Len(Tail(walk.q)) = n - 1
        /\ Popped \in WalkType /\ Popped.q = Tail(walk.q)
        /\ Popped.found = walk.found /\ Popped.listed = w.listed
    BY <1>1, PoppedIs
  <2>2. \A i \in 1..Len(Tail(walk.q)) : Tail(walk.q)[i] = walk.q[i + 1]
    BY <1>1, PoppedIs
  <2>3. Tail(walk.q) \in Seq(Node \X Nat)
    BY ONLY <2>1 DEF WalkType
  <2> HIDE DEF n
  <2> QED BY ONLY <2>1, <2>2, <2>3
<1>3. Stays(Popped) /\ Depths(Popped) /\ Once(Popped)
  BY <1>1, PopKeeps, PoppedIs
<1> HIDE DEF n
<1>4. <<t, Depth + 1>> \in Node \X Nat
  BY <1>2
<1>5. /\ Len(w.q) = n /\ w.q[n] = <<t, Depth + 1>> /\ w.q \in Seq(Node \X Nat)
      /\ \A i \in 1..(n - 1) : w.q[i] = Tail(walk.q)[i]
  BY <1>2, <1>4
<1>6. Stays(w)
  BY <1>2, <1>5 DEF Stays, n
<1>7. Sorted(w)
  <2>1. \A i \in n..Len(w.q) : w.q[i][2] = Depth + 1
    BY <1>2, <1>5
  <2> QED BY <1>6, <2>1, SortedKeeps DEF n
<1>8. Listing(w) /\ Counting(w)
  BY <1>1 DEF WalkInv, Listing, Counting
<1>9. Depths(w)
  <2>1. Shallow(t, Depth + 1)
    BY <1>1, <1>2, LinkedIs, UnderRoot DEF Shallow
  <2>2. ASSUME NEW i \in 1..Len(w.q) PROVE Shallow(w.q[i][1], w.q[i][2])
    <3>1. CASE i = n
      BY <1>5, <2>1, <3>1
    <3>2. CASE i # n
      <4>1. i \in 1..(n - 1) /\ i \in 1..Len(Popped.q) /\ w.q[i] = Popped.q[i]
        BY <1>2, <1>5, <3>2
      <4> QED BY <1>3, <4>1 DEF Depths
    <3> QED BY <3>1, <3>2
  <2> QED BY <1>2, <1>3, <2>2 DEF Depths
<1>10. fs.kind[Root] = "dir"
  <2>1. Entry # Root
    BY LooksIs
  <2>2. fs.kind[Root] # "file"
    BY <1>1, <1>2, <2>1 DEF WalkInv, Once
  <2> QED BY <2>2, LooksIs
<1>11. Once(w)
  <2>1. ASSUME NEW g \in Node, Own(g), NEW i \in 1..Len(w.q), w.q[i][1] = g
        PROVE  i \in 1..(n - 1) /\ i \in 1..Len(Popped.q) /\ Popped.q[i][1] = g
    <3>1. i # n
      BY <1>5, <2>1 DEF Own
    <3> QED BY <1>2, <1>5, <2>1, <3>1
  <2>2. \A g \in Node : Own(g) =>
           /\ Waits(w, g) => Waits(Popped, g)
           /\ Reported(w, g) = Reported(Popped, g) /\ InList(w, Parent(g)) = InList(Popped, Parent(g))
    BY <1>2, <2>1 DEF Waits, Reported, InList
  <2>3. ASSUME NEW g \in Node, Own(g), NEW i \in 1..Len(w.q), NEW j \in 1..Len(w.q),
               w.q[i][1] = g, w.q[j][1] = g
        PROVE  i = j
    <3>1. /\ i \in 1..Len(Popped.q) /\ Popped.q[i][1] = g
          /\ j \in 1..Len(Popped.q) /\ Popped.q[j][1] = g
      BY <2>1, <2>3
    <3> QED BY <1>3, <2>3, <3>1 DEF Once
  <2>4. \A g \in Node : Own(g) =>
          /\ \A i, j \in 1..Len(w.found) : w.found[i] = g /\ w.found[j] = g => i = j
          /\ ~(Waits(Popped, g) /\ Reported(Popped, g))
          /\ Waits(Popped, g) \/ Reported(Popped, g) =>
                g = Root \/ (Len(fs.path[g]) > 1 /\ InList(Popped, Parent(g)))
    BY <1>2, <1>3 DEF Once
  <2> QED BY <1>10, <2>2, <2>3, <2>4 DEF Once
<1>12. Owes(w)
  <2> SUFFICES ASSUME ~walk.lost, ~walk.truncated
               PROVE  RootFirst(w) /\ MarkedIsListed(w) /\ Offspring(w)
    BY DEF Owes
  <2>1. RootFirst(walk) /\ MarkedIsListed(walk)
    BY <1>1 DEF WalkInv, Owes
  <2>2. \A m : (Reported(walk, m) => Reported(w, m)) /\ InList(walk, m) = InList(w, m)
    BY DEF Reported, InList
  <2>3. InList(w, Root)
    <3>1. walk.q = <<<<Root, 0>>>> => Entry = Root
      BY DEF Entry
    <3> QED BY <1>10, <2>1, <2>2, <3>1 DEF RootFirst
  <2>4. MarkedIsListed(w)
    <3>1. fs.inodes /\ Good(t) => t = Root
      BY <1>1, LinkedIs DEF Good
    <3> QED BY <2>1, <2>2, <2>3, <3>1 DEF MarkedIsListed
  <2>5. Offspring(w)
    <3> SUFFICES ASSUME NEW c \in Node, Len(fs.path[c]) > 1, Good(Parent(c)),
                        InList(walk, Parent(c)), DepthOf(c) <= Scanner.depth
                 PROVE  /\ fs.kind[c] = "file" => Reported(w, c) \/ InTime(w, c)
                        /\ Good(c) => InList(w, c) \/ InTime(w, c)
      BY <2>2 DEF Offspring
    <3>1. LET first == c = Entry /\ Depth <= Scanner.depth IN
          /\ fs.kind[c] = "file" => Reported(w, c) \/ InTime(w, c) \/ first
          /\ Good(c) => InList(w, c) \/ InTime(w, c) \/ first
      BY <1>6, <2>2, OwedKeeps
    <3>2. c = Entry => fs.kind[c] # "file" /\ ~Good(c)
      BY DEF Good
    <3> QED BY <3>1, <3>2
  <2> QED BY <2>3, <2>4, <2>5 DEF RootFirst
<1>13. WalkInv(w)
  BY <1>7, <1>8, <1>9, <1>11, <1>12 DEF WalkInv
<1> QED BY <1>1, <1>13, GoesKeeps

\* A link is followed to a file, to a directory that is marked, or to nothing.
LEMMA FollowLinkKeeps == IInv /\ FollowLink => IInv'
<1> SUFFICES ASSUME IInv, FollowLink PROVE IInv'
  OBVIOUS
<1> DEFINE t == fs.target[Entry]
<1>1. Looks /\ Depth <= Scanner.depth /\ fs.kind[Entry] = "link"
  BY DEF FollowLink, LooksAt
<1>2. IsTree(fs) /\ walk \in WalkType /\ ~Over
  BY <1>1, LooksIs
<1>3. /\ Entry \in Node /\ Depth \in Nat /\ Popped \in WalkType /\ Popped.q = Tail(walk.q)
      /\ Popped.seen = walk.seen /\ Popped.files = walk.files
      /\ Popped.bytes = walk.bytes /\ Popped.truncated = walk.truncated
      /\ Popped.found = walk.found /\ Popped.listed = walk.listed /\ Popped.lost = walk.lost
  BY <1>2, PoppedIs
<1>4. t \in Node \cup {None} /\ (t # None => LinkTo(t))
  BY <1>1, <1>2, <1>3 DEF IsTree, LinkTo
<1>5. CASE Goes(Popped)
  BY <1>1, <1>3, <1>5, PoppedCounts, DropKeeps DEF Excused
<1>6. CASE t # None /\ fs.kind[t] = "file" /\ Take(t)
  BY <1>1, <1>4, <1>6, TakeKeeps
<1>7. CASE /\ t # None /\ fs.kind[t] # "file"
           /\ Goes([Popped EXCEPT !.q = Append(@, <<t, Depth + 1>>),
                                  !.seen = IF fs.inodes THEN @ \cup {t} ELSE @])
  <2> DEFINE seen == IF fs.inodes THEN Popped.seen \cup {t} ELSE Popped.seen
             q == Append(Popped.q, <<t, Depth + 1>>)
             w == [Popped EXCEPT !.q = Append(@, <<t, Depth + 1>>),
                                 !.seen = IF fs.inodes THEN @ \cup {t} ELSE @]
  <2>1. t \in Node /\ LinkTo(t) /\ Goes(w)
    BY <1>4, <1>7
  <2>2. /\ seen = walk.seen \cup (IF fs.inodes THEN {t} ELSE {}) /\ seen \subseteq Node
        /\ q \in Seq(Node \X Nat)
    <3>1. <<t, Depth + 1>> \in Node \X Nat
      BY <1>3, <2>1
    <3>2. Popped.q \in Seq(Node \X Nat) /\ Popped.seen \subseteq Node
      BY <1>3 DEF WalkType
    <3> HIDE DEF t
    <3>3. q \in Seq(Node \X Nat)
      BY <3>1, <3>2
    <3>4. seen = walk.seen \cup (IF fs.inodes THEN {t} ELSE {}) /\ seen \subseteq Node
      BY <1>3, <2>1, <3>2
    <3> QED BY <3>3, <3>4
  <2>3. w = [Popped EXCEPT !.q = q, !.seen = seen]
    OBVIOUS
  <2> HIDE DEF seen, q, w
  <2>4. /\ w \in WalkType /\ w.q = q /\ w.seen = seen /\ w.files = walk.files
        /\ w.bytes = walk.bytes /\ w.truncated = walk.truncated
        /\ w.found = walk.found /\ w.listed = walk.listed /\ w.lost = walk.lost
    BY <1>3, <2>2, <2>3 DEF WalkType
  <2>5. q = Append(Tail(walk.q), <<t, Depth + 1>>)
    BY <1>3 DEF q
  <2> HIDE DEF t
  <2> QED BY <1>1, <1>7, <2>1, <2>2, <2>4, <2>5, QueueKeeps
<1>8. \/ Goes(Popped)
      \/ t # None /\ fs.kind[t] = "file" /\ Take(t)
      \/ /\ t # None /\ fs.kind[t] # "file"
         /\ Goes([Popped EXCEPT !.q = Append(@, <<t, Depth + 1>>),
                                !.seen = IF fs.inodes THEN @ \cup {t} ELSE @])
  BY DEF FollowLink
<1> HIDE DEF t
<1> QED BY <1>5, <1>6, <1>7, <1>8

-----------------------------------------------------------------------------
(* A directory is listed. *)

\* What lies on the path of a good directory, from the root on.
LEMMA AboveGood ==
    ASSUME IsTree(fs), Root \in Node, NEW m \in Node, Good(m), NEW i \in RootAt..Len(fs.path[m])
    PROVE  LET a == fs.path[m][i] IN
           /\ a \in Node /\ Good(a) /\ DepthOf(a) = i - RootAt /\ Len(fs.path[a]) = i
           /\ i > RootAt => Parent(a) = fs.path[m][i - 1]
<1> DEFINE a == fs.path[m][i]
<1>1. RootAt \in Nat \ {0} /\ Len(fs.path[m]) \in Nat /\ i \in 1..Len(fs.path[m])
  BY UnderRoot, PathIs
<1>2. /\ a \in Node /\ Len(fs.path[a]) = i /\ \A j \in 1..i : fs.path[a][j] = fs.path[m][j]
      /\ i < Len(fs.path[m]) => fs.kind[a] = "dir"
      /\ i = Len(fs.path[m]) => a = m
  BY <1>1, PathIs
<1> HIDE DEF a
<1>3. Under(a) /\ DepthOf(a) = i - RootAt
  BY <1>1, <1>2 DEF Good, Under, DepthOf
<1>4. fs.kind[a] = "dir"
  BY <1>1, <1>2 DEF Good
<1>5. Linked(a) => Linked(m)
  <2> SUFFICES ASSUME NEW j \in (RootAt + 1)..i, LinkTo(fs.path[a][j]) PROVE Linked(m)
    BY <1>2 DEF Linked
  <2>1. j \in 1..i /\ j \in (RootAt + 1)..Len(fs.path[m])
    BY <1>1
  <2> QED BY <1>2, <2>1 DEF Linked
<1>6. i > RootAt => Parent(a) = fs.path[m][i - 1]
  BY <1>1, <1>2 DEF Parent
<1> QED BY <1>2, <1>3, <1>4, <1>5, <1>6 DEF Good, a

\* Between the root, once listed, and a good directory that is not, something
\* waits in time: the topmost directory that is not listed.
LEMMA SomethingWaits ==
    ASSUME IsTree(fs), Root \in Node, Scanner \in ScannerType, NEW w, Offspring(w),
           InList(w, Root), NEW m \in Node, Good(m), DepthOf(m) <= Scanner.depth, ~InList(w, m)
    PROVE  \E a \in Node : InTime(w, a) /\ DepthOf(a) <= DepthOf(m)
<1> DEFINE p == fs.path[m]
           T == {i \in Nat : i \in RootAt..Len(p) /\ ~InList(w, p[i])}
<1>1. /\ RootAt \in Nat \ {0} /\ Len(p) \in Nat /\ p[Len(p)] = m /\ p[RootAt] = Root
      /\ RootAt <= Len(p) /\ DepthOf(m) = Len(p) - RootAt
  BY UnderRoot, PathIs DEF Good, Under, DepthOf
<1>2. PICK i \in T : \A k \in T : i <= k
  <2>1. Len(p) \in T
    BY <1>1
  <2> QED BY <2>1, LeastNat
<1>3. i \in RootAt..Len(p) /\ i > RootAt /\ i - 1 \in RootAt..Len(p) /\ ~InList(w, p[i])
  BY <1>1, <1>2
<1>4. InList(w, p[i - 1])
  <2>1. i - 1 \notin T
    BY <1>1, <1>2, <1>3
  <2> QED BY <1>1, <1>3, <2>1
<1>5. /\ p[i] \in Node /\ Good(p[i]) /\ DepthOf(p[i]) = i - RootAt /\ Len(fs.path[p[i]]) = i
      /\ Parent(p[i]) = p[i - 1] /\ Good(p[i - 1])
  BY <1>3, AboveGood
<1>6. DepthOf(p[i]) <= DepthOf(m) /\ DepthOf(p[i]) <= Scanner.depth /\ Len(fs.path[p[i]]) > 1
  <2>1. Scanner.depth \in Nat
    BY DEF ScannerType
  <2>2. DepthOf(m) <= Scanner.depth
    OBVIOUS
  <2> HIDE DEF p, T
  <2> QED BY ONLY <1>1, <1>3, <1>5, <2>1, <2>2
<1> HIDE DEF p, T
<1>7. InTime(w, p[i])
  BY <1>3, <1>4, <1>5, <1>6 DEF Offspring
<1> QED BY <1>5, <1>6, <1>7

\* So a good directory that is looked at for the first time is in time.
LEMMA EntryInTime ==
    ASSUME IInv, Looks, ~walk.lost, Depth <= Scanner.depth, Good(Entry), ~Visited(Entry)
    PROVE  Depth <= DepthOf(Entry)
<1>1. /\ IsTree(fs) /\ walk \in WalkType /\ Scanner \in ScannerType
      /\ Root \in Node /\ fs.kind[Root] \in {"dir", "file"} /\ WalkInv(walk) /\ ~Over
  BY LooksIs
<1>2. Entry \in Node /\ Depth \in Nat /\ walk.q[1] = <<Entry, Depth>> /\ ~walk.truncated
      /\ 1 \in 1..Len(walk.q)
  BY <1>1, PoppedIs
<1>3. RootFirst(walk) /\ Offspring(walk) /\ ~InList(walk, Entry) /\ DepthOf(Entry) \in Nat
  BY <1>1, <1>2, UnderRoot DEF WalkInv, Owes, Listing, InList, Visited, Good
<1>4. fs.kind[Root] = "dir"
  <2>1. RootAt \in RootAt..Len(fs.path[Entry]) /\ fs.path[Entry][RootAt] = Root
    BY <1>1, <1>2, UnderRoot, PathIs DEF Good, Under
  <2>2. Good(Root)
    BY <1>1, <1>2, <2>1, AboveGood
  <2> QED BY <2>2 DEF Good
<1>5. CASE walk.q = <<<<Root, 0>>>>
  <2>1. Depth = 0
    BY <1>5 DEF Depth
  <2> QED BY <1>3, <2>1
<1>6. CASE InList(walk, Root)
  <2> SUFFICES ASSUME ~(Depth <= DepthOf(Entry)) PROVE FALSE
    OBVIOUS
  <2>1. DepthOf(Entry) <= Scanner.depth
    BY <1>1, <1>2, <1>3 DEF ScannerType
  <2>2. PICK a \in Node : InTime(walk, a) /\ DepthOf(a) <= DepthOf(Entry)
    BY <1>1, <1>2, <1>3, <1>6, <2>1, SomethingWaits
  <2>3. PICK i \in 1..Len(walk.q) : walk.q[i][1] = a /\ walk.q[i][2] <= DepthOf(a)
    BY <2>2 DEF InTime
  <2>4. Depth <= walk.q[i][2]
    BY <1>1, <1>2 DEF WalkInv, Sorted
  <2>5. walk.q[i][2] \in Nat /\ DepthOf(a) \in Int
    BY <1>1, ElementOfSeq, PathIs DEF WalkType, DepthOf, RootAt
  <2> QED BY <1>2, <1>3, <2>2, <2>3, <2>4, <2>5
<1> QED BY <1>3, <1>4, <1>5, <1>6 DEF RootFirst

\* What a listed directory puts in the queue.
Entered(n, cut) ==
    [Popped EXCEPT !.seen = @ \cup {Entry}, !.listed = Append(@, Entry),
                   !.q = @ \o [i \in 1..n |-> <<Children(Entry)[i], Depth + 1>>],
                   !.truncated = cut, !.lost = @ \/ n < Len(Children(Entry))]

\* The queue it leaves: the rest of the old one, and what was listed.
Extends(w, n) ==
    /\ Len(w.q) = Len(walk.q) - 1 + n
    /\ \A i \in 1..(Len(walk.q) - 1) : w.q[i] = walk.q[i + 1]
    /\ \A i \in Nat, j \in 1..n :
          i = Len(walk.q) - 1 + j => w.q[i] = <<Children(Entry)[j], Depth + 1>>

\* What listing a directory leaves of the walk.
LEMMA EnterIs ==
    ASSUME IInv, LooksAt("dir"), ~Visited(Entry), NEW n \in 0..Len(Children(Entry)),
           NEW cut \in BOOLEAN, NEW w, w = Entered(n, cut)
    PROVE  /\ w \in WalkType /\ w.seen = walk.seen \cup {Entry} /\ w.files = walk.files
           /\ w.bytes = walk.bytes /\ w.found = walk.found /\ w.listed = Append(walk.listed, Entry)
           /\ w.lost = (walk.lost \/ n < Len(Children(Entry)))
           /\ Extends(w, n)
<1> DEFINE kids == [i \in 1..n |-> <<Children(Entry)[i], Depth + 1>>]
           q == Popped.q \o kids
           seen == Popped.seen \cup {Entry}
           listed == Append(Popped.listed, Entry)
           lost == Popped.lost \/ n < Len(Children(Entry))
<1>1. IsTree(fs) /\ walk \in WalkType /\ ~Over
  BY LooksIs DEF LooksAt
<1>2. /\ Entry \in Node /\ Depth \in Nat /\ Len(walk.q) \in Nat \ {0}
      /\ Popped \in WalkType /\ Popped.q = Tail(walk.q)
      /\ Len(Popped.q) = Len(walk.q) - 1
      /\ \A i \in 1..(Len(walk.q) - 1) : Popped.q[i] = walk.q[i + 1]
      /\ Popped.seen = walk.seen /\ Popped.files = walk.files /\ Popped.bytes = walk.bytes
      /\ Popped.found = walk.found /\ Popped.listed = walk.listed /\ Popped.lost = walk.lost
  BY <1>1, PoppedIs
<1>3. Children(Entry) \in Seq(Node) /\ n \in Nat
  BY <1>1, <1>2 DEF IsTree, Children
<1>4. kids \in Seq(Node \X Nat) /\ Len(kids) = n
  <2>1. \A i \in 1..n : Children(Entry)[i] \in Node
    BY <1>3, ElementOfSeq
  <2>2. \A i \in 1..n : <<Children(Entry)[i], Depth + 1>> \in Node \X Nat
    BY <1>2, <2>1
  <2>3. kids \in [1..n -> Node \X Nat]
    BY <2>2
  <2> QED BY <1>3, <2>3
<1>5. \A i \in 1..n : kids[i] = <<Children(Entry)[i], Depth + 1>>
  OBVIOUS
<1>6. Popped.q \in Seq(Node \X Nat) /\ Popped.seen \subseteq Node
      /\ Popped.listed \in Seq(Node) /\ Popped.lost \in BOOLEAN
  BY <1>2 DEF WalkType
<1> HIDE DEF kids
<1>7. /\ q \in Seq(Node \X Nat) /\ Len(q) = Len(walk.q) - 1 + n
      /\ \A i \in 1..(Len(walk.q) - 1) : q[i] = walk.q[i + 1]
      /\ \A i \in Nat, j \in 1..n :
            i = Len(walk.q) - 1 + j => q[i] = <<Children(Entry)[j], Depth + 1>>
  <2>1. /\ q \in Seq(Node \X Nat) /\ Len(q) = Len(Popped.q) + n
        /\ \A i \in 1..(Len(Popped.q) + n) :
              q[i] = IF i <= Len(Popped.q) THEN Popped.q[i] ELSE kids[i - Len(Popped.q)]
    BY <1>4, <1>6, ConcatProperties
  <2> HIDE DEF q
  <2>2. ASSUME NEW i \in 1..(Len(walk.q) - 1) PROVE q[i] = walk.q[i + 1]
    <3>1. i \in 1..(Len(Popped.q) + n) /\ i <= Len(Popped.q)
      BY <1>2, <1>3
    <3> QED BY <1>2, <2>1, <3>1
  <2>3. ASSUME NEW i \in Nat, NEW j \in 1..n, i = Len(walk.q) - 1 + j
        PROVE  q[i] = <<Children(Entry)[j], Depth + 1>>
    <3>1. i \in 1..(Len(Popped.q) + n) /\ ~(i <= Len(Popped.q)) /\ i - Len(Popped.q) = j
      BY <1>2, <1>3, <2>3
    <3>2. q[i] = kids[j]
      BY <2>1, <3>1
    <3> QED BY <1>5, <3>2
  <2> QED BY <1>2, <2>1, <2>2, <2>3
<1>8. listed \in Seq(Node) /\ seen \subseteq Node /\ lost \in BOOLEAN
  BY <1>2, <1>6
<1>9. w = [Popped EXCEPT !.seen = seen, !.listed = listed, !.q = q, !.truncated = cut, !.lost = lost]
  BY DEF kids, Entered
<1> HIDE DEF q, seen, listed, lost
<1>10. /\ w \in WalkType /\ w.seen = seen /\ w.listed = listed /\ w.q = q /\ w.lost = lost
       /\ w.files = Popped.files /\ w.bytes = Popped.bytes /\ w.found = Popped.found
  BY <1>2, <1>7, <1>8, <1>9 DEF WalkType
<1>11. seen = walk.seen \cup {Entry}
  BY <1>2 DEF seen
<1>12. listed = Append(walk.listed, Entry)
  BY <1>2 DEF listed
<1>13. lost = (walk.lost \/ n < Len(Children(Entry)))
  BY <1>2 DEF lost
<1>14. Extends(w, n)
  BY <1>7, <1>10 DEF Extends
<1> QED BY <1>2, <1>10, <1>11, <1>12, <1>13, <1>14

\* A child lies one deeper than its directory.
LEMMA ChildShallow ==
    ASSUME IsTree(fs), Root \in Node, NEW d \in Node, NEW i \in 1..Len(Children(d)),
           NEW lab \in Nat, Shallow(d, lab)
    PROVE  Shallow(Children(d)[i], lab + 1)
<1>1. PICK c \in Node : /\ c = Children(d)[i] /\ Len(fs.path[c]) = Len(fs.path[d]) + 1
                        /\ \A j \in 1..Len(fs.path[d]) : fs.path[c][j] = fs.path[d][j]
  BY ChildIs
<1>2. Len(fs.path[d]) \in Nat \ {0} /\ RootAt \in Nat \ {0}
  BY PathIs, UnderRoot
<1>3. CASE RootAt <= Len(fs.path[d])
  <2>1. Under(c) => Under(d)
    BY <1>1, <1>2, <1>3 DEF Under
  <2>2. DepthOf(c) = DepthOf(d) + 1 /\ DepthOf(d) \in Int
    BY <1>1, <1>2 DEF DepthOf
  <2>3. Linked(d) => Linked(c)
    <3> SUFFICES ASSUME NEW j \in (RootAt + 1)..Len(fs.path[d]), LinkTo(fs.path[d][j])
                 PROVE  Linked(c)
      BY DEF Linked
    <3>1. j \in 1..Len(fs.path[d]) /\ j \in (RootAt + 1)..Len(fs.path[c])
      BY <1>1, <1>2
    <3> QED BY <1>1, <3>1 DEF Linked
  <2>4. DepthOf(d) <= lab => DepthOf(c) <= lab + 1
    BY <2>2
  <2> QED BY <1>1, <2>1, <2>3, <2>4 DEF Shallow
<1>4. CASE ~(RootAt <= Len(fs.path[d]))
  <2>1. Under(c) => DepthOf(c) <= 0
    BY <1>1, <1>2, <1>4 DEF Under, DepthOf
  <2>2. DepthOf(c) \in Int
    BY <1>1, <1>2 DEF DepthOf
  <2> QED BY <1>1, <2>1, <2>2 DEF Shallow
<1> QED BY <1>3, <1>4

\* A directory is listed once and its entries wait one level deeper.
LEMMA EnterDirKeeps == IInv /\ EnterDir => IInv'
<1> SUFFICES ASSUME IInv, EnterDir PROVE IInv'
  OBVIOUS
<1> DEFINE k == Len(walk.q)
           kids == Children(Entry)
<1>1. Looks /\ LooksAt("dir") /\ Depth <= Scanner.depth /\ fs.kind[Entry] = "dir" /\ ~Visited(Entry)
  BY DEF EnterDir, LooksAt
<1>2. /\ todo # <<>> /\ root <= Len(Scanner.roots) /\ Root # None
      /\ IsTree(fs) /\ walk \in WalkType /\ Scanner \in ScannerType
      /\ Root \in Node /\ fs.kind[Root] \in {"dir", "file"} /\ WalkInv(walk) /\ ~Over
  BY <1>1, LooksIs
<1>22. PICK n \in 0..Len(kids), cut \in BOOLEAN : Goes(Entered(n, cut))
  BY DEF EnterDir, Entered
<1>23. PICK w : w = Entered(n, cut)
  OBVIOUS
<1>3. /\ Goes(w) /\ w \in WalkType /\ w.seen = walk.seen \cup {Entry} /\ w.files = walk.files
      /\ w.bytes = walk.bytes /\ w.found = walk.found /\ w.listed = Append(walk.listed, Entry)
      /\ w.lost = (walk.lost \/ n < Len(kids))
      /\ Extends(w, n)
  BY <1>1, <1>22, <1>23, EnterIs
<1>4. /\ Entry \in Node /\ Depth \in Nat /\ walk.q[1] = <<Entry, Depth>> /\ k \in Nat \ {0}
      /\ 1 \in 1..k /\ Popped.q = Tail(walk.q) /\ Len(Popped.q) = k - 1
      /\ \A i \in 1..(k - 1) : i \in 1..Len(Popped.q) /\ Popped.q[i] = walk.q[i + 1]
      /\ Popped.found = walk.found /\ Popped.listed = walk.listed
  <2>1. /\ Entry \in Node /\ Depth \in Nat /\ walk.q[1] = <<Entry, Depth>> /\ k \in Nat \ {0}
        /\ Popped.q = Tail(walk.q) /\ Len(Tail(walk.q)) = k - 1
        /\ Popped.found = walk.found /\ Popped.listed = walk.listed
    BY <1>2, PoppedIs
  <2>2. \A i \in 1..Len(Tail(walk.q)) : Tail(walk.q)[i] = walk.q[i + 1]
    BY <1>2, PoppedIs
  <2> HIDE DEF k
  <2> QED BY <2>1, <2>2
<1>5. Stays(Popped) /\ Depths(Popped) /\ Once(Popped)
  BY <1>1, <1>2, PopKeeps, PoppedIs
<1>6. kids \in Seq(Node) /\ Len(kids) \in Nat /\ n \in Nat
  BY <1>2, <1>4 DEF IsTree, Children
<1>7. \A i \in 1..n : i \in 1..Len(kids) /\ kids[i] \in Node
  BY <1>6, ElementOfSeq
<1>queue. /\ Len(w.q) = k - 1 + n
          /\ \A i \in 1..(k - 1) : w.q[i] = walk.q[i + 1]
          /\ \A i \in Nat, j \in 1..n : i = k - 1 + j => w.q[i] = <<kids[j], Depth + 1>>
  BY <1>3 DEF Extends
<1> HIDE DEF k, kids
<1>8. ASSUME NEW i \in 1..Len(w.q)
      PROVE  \/ i \in 1..(k - 1) /\ i \in 1..Len(Popped.q) /\ w.q[i] = Popped.q[i]
             \/ \E j \in 1..n : i = k - 1 + j /\ w.q[i] = <<kids[j], Depth + 1>>
  <2>1. CASE i <= k - 1
    BY <1>queue, <1>4, <2>1
  <2>2. CASE ~(i <= k - 1)
    <3>1. PICK j \in 1..n : i = k - 1 + j
      <4>1. i - (k - 1) \in 1..n /\ i = k - 1 + (i - (k - 1))
        <5>1. i \in 1..(k - 1 + n) /\ k \in Nat \ {0} /\ n \in Nat
          BY <1>queue, <1>4, <1>6
        <5> QED BY ONLY <5>1, <2>2
      <4> QED BY <4>1
    <3> QED BY <1>queue, <3>1
  <2> QED BY <2>1, <2>2
<1>9. Stays(w)
  <2>1. w.q \in Seq(Node \X Nat)
    BY <1>3 DEF WalkType
  <2>2. k - 1 <= Len(w.q)
    BY ONLY <1>queue, <1>4, <1>6
  <2> QED BY <1>queue, <2>1, <2>2 DEF Stays, k
<1>10. Sorted(w)
  <2>1. ASSUME NEW i \in k..Len(w.q) PROVE w.q[i][2] = Depth + 1
    <3>1. i \in 1..Len(w.q) /\ i \notin 1..(k - 1)
      BY <1>queue, <1>4, <1>6
    <3> QED BY <1>8, <3>1
  <2> QED BY <1>1, <1>9, <2>1, SortedKeeps DEF k
<1>11. Counting(w)
  BY <1>2, <1>3 DEF WalkInv, Counting
<1>12. /\ walk.listed \in Seq(Node) /\ Len(walk.listed) \in Nat
       /\ Len(w.listed) = Len(walk.listed) + 1 /\ w.listed[Len(walk.listed) + 1] = Entry
       /\ \A i \in 1..Len(walk.listed) : w.listed[i] = walk.listed[i]
  <2>1. walk.listed \in Seq(Node)
    BY <1>2 DEF WalkType
  <2>2. w.listed = Append(walk.listed, Entry) /\ Entry \in Node
    BY <1>3, <1>4
  <2> QED BY ONLY <2>1, <2>2
<1>13. \A m : InList(w, m) <=> InList(walk, m) \/ m = Entry
  <2>1. ASSUME NEW m, InList(walk, m) PROVE InList(w, m)
    <3>1. PICK i \in 1..Len(walk.listed) : walk.listed[i] = m
      BY <2>1 DEF InList
    <3>2. i \in 1..Len(w.listed) /\ w.listed[i] = m
      BY <1>12, <3>1
    <3> QED BY <3>2 DEF InList
  <2>2. InList(w, Entry)
    BY <1>12 DEF InList
  <2>3. ASSUME NEW i \in 1..Len(w.listed)
        PROVE  w.listed[i] = Entry \/ (i \in 1..Len(walk.listed) /\ w.listed[i] = walk.listed[i])
    BY <1>12
  <2>4. \A m : InList(w, m) => InList(walk, m) \/ m = Entry
    BY <2>3 DEF InList
  <2> QED BY <2>1, <2>2, <2>4
<1>14. ~InList(walk, Entry)
  BY <1>1, <1>2 DEF WalkInv, Listing, InList, Visited
<1>15. Listing(w)
  <2>1. ASSUME NEW i \in 1..Len(w.listed), NEW j \in 1..Len(w.listed), w.listed[i] = w.listed[j]
        PROVE  i = j
    <3>1. \A a \in 1..Len(walk.listed) : walk.listed[a] # Entry
      BY <1>14 DEF InList
    <3>2. \A a, b \in 1..Len(walk.listed) : walk.listed[a] = walk.listed[b] => a = b
      BY <1>2 DEF WalkInv, Listing, Distinct
    <3>3. CASE i \in 1..Len(walk.listed) /\ j \in 1..Len(walk.listed)
      <4>1. w.listed[i] = walk.listed[i] /\ w.listed[j] = walk.listed[j]
        BY <1>12, <3>3
      <4> QED BY <2>1, <3>2, <3>3, <4>1
    <3>4. CASE ~(i \in 1..Len(walk.listed) /\ j \in 1..Len(walk.listed))
      <4>1. \A a \in 1..Len(w.listed) :
               \/ a \in 1..Len(walk.listed) /\ w.listed[a] = walk.listed[a]
               \/ a = Len(walk.listed) + 1 /\ w.listed[a] = Entry
        BY <1>12
      <4> QED BY <2>1, <3>1, <3>4, <4>1
    <3> QED BY <3>3, <3>4
  <2>2. \A i \in 1..Len(w.listed) : w.listed[i] \in w.seen
    BY <1>2, <1>3, <1>12 DEF WalkInv, Listing
  <2> QED BY <2>1, <2>2 DEF Listing, Distinct
<1>16. ASSUME NEW j \in 1..n
       PROVE  /\ kids[j] \in Node /\ Len(fs.path[kids[j]]) = Len(fs.path[Entry]) + 1
              /\ Parent(kids[j]) = Entry /\ Len(fs.path[kids[j]]) > 1
              /\ Shallow(kids[j], Depth + 1)
  <2>1. /\ kids[j] \in Node /\ Len(fs.path[kids[j]]) = Len(fs.path[Entry]) + 1
        /\ Parent(kids[j]) = Entry
    BY <1>2, <1>4, <1>7, ChildIs DEF kids
  <2>2. Len(fs.path[Entry]) \in Nat \ {0}
    BY <1>2, <1>4, PathIs
  <2>3. Shallow(Entry, Depth)
    BY <1>2, <1>4 DEF WalkInv, Depths, k
  <2>4. Shallow(kids[j], Depth + 1)
    BY <1>2, <1>4, <1>7, <2>3, ChildShallow DEF kids
  <2> QED BY <2>1, <2>2, <2>4
<1>17. Depths(w)
  <2>1. ASSUME NEW i \in 1..Len(w.q) PROVE Shallow(w.q[i][1], w.q[i][2])
    <3>1. CASE i \in 1..Len(Popped.q) /\ w.q[i] = Popped.q[i]
      BY <1>5, <3>1 DEF Depths
    <3>2. CASE \E j \in 1..n : w.q[i] = <<kids[j], Depth + 1>>
      BY <1>16, <3>2
    <3> QED BY <1>8, <3>1, <3>2
  <2> QED BY <1>3, <1>4, <1>5, <2>1 DEF Depths
<1>18. fs.kind[Root] = "dir"
  <2>1. fs.kind[Root] = "file" => Entry = Root
    BY <1>2, <1>4 DEF WalkInv, Once, k
  <2> QED BY <1>1, <1>2, <2>1
<1>19. Once(w)
  <2>1. ASSUME NEW g \in Node, Own(g)
        PROVE  /\ \A i, j \in 1..Len(Popped.q) : Popped.q[i][1] = g /\ Popped.q[j][1] = g => i = j
               /\ \A i, j \in 1..Len(w.found) : w.found[i] = g /\ w.found[j] = g => i = j
               /\ ~(Waits(Popped, g) /\ Reported(w, g))
               /\ Waits(Popped, g) \/ Reported(w, g) =>
                     g = Root \/ (Len(fs.path[g]) > 1 /\ InList(walk, Parent(g)))
    <3>1. Reported(w, g) = Reported(Popped, g) /\ InList(walk, Parent(g)) = InList(Popped, Parent(g))
      BY <1>3, <1>4 DEF Reported, InList
    <3>2. \A i, j \in 1..Len(w.found) : w.found[i] = g /\ w.found[j] = g => i = j
      BY <1>2, <1>3, <2>1 DEF WalkInv, Once
    <3>3. /\ \A i, j \in 1..Len(Popped.q) : Popped.q[i][1] = g /\ Popped.q[j][1] = g => i = j
          /\ ~(Waits(Popped, g) /\ Reported(Popped, g))
          /\ Waits(Popped, g) \/ Reported(Popped, g) =>
                g = Root \/ (Len(fs.path[g]) > 1 /\ InList(Popped, Parent(g)))
      BY <1>5, <2>1 DEF Once
    <3> QED BY <3>1, <3>2, <3>3
  <2>2. ASSUME NEW j \in 1..n, Own(kids[j])
        PROVE  ~Waits(Popped, kids[j]) /\ ~Reported(w, kids[j])
    <3>1. kids[j] # Root
      BY <1>18, <2>2 DEF Own
    <3> QED BY <1>14, <1>16, <2>1, <2>2, <3>1
  <2>3. ASSUME NEW g \in Node, Own(g), NEW i \in 1..Len(w.q), NEW j \in 1..Len(w.q),
               w.q[i][1] = g, w.q[j][1] = g
        PROVE  i = j
    <3>1. CASE /\ i \in 1..Len(Popped.q) /\ w.q[i] = Popped.q[i]
               /\ j \in 1..Len(Popped.q) /\ w.q[j] = Popped.q[j]
      BY <2>1, <2>3, <3>1
    <3>2. ASSUME NEW a \in 1..n, g = kids[a] PROVE ~Waits(Popped, g)
      BY <2>2, <2>3, <3>2
    <3>3. CASE \E a, b \in 1..n : /\ i = k - 1 + a /\ w.q[i] = <<kids[a], Depth + 1>>
                                  /\ j = k - 1 + b /\ w.q[j] = <<kids[b], Depth + 1>>
      <4>1. PICK a \in 1..n, b \in 1..n :
                /\ i = k - 1 + a /\ w.q[i] = <<kids[a], Depth + 1>>
                /\ j = k - 1 + b /\ w.q[j] = <<kids[b], Depth + 1>>
        BY <3>3
      <4>2. kids[a] = kids[b]
        BY <2>3, <4>1
      <4>3. Distinct(kids)
        BY <1>2, <1>4 DEF IsTree, kids, Children
      <4>4. a = b
        BY <1>7, <4>2, <4>3 DEF Distinct
      <4> QED BY <4>1, <4>4
    <3>4. Waits(Popped, g) \/ ~(i \in 1..Len(Popped.q) /\ w.q[i] = Popped.q[i])
      BY <2>3 DEF Waits
    <3>5. Waits(Popped, g) \/ ~(j \in 1..Len(Popped.q) /\ w.q[j] = Popped.q[j])
      BY <2>3 DEF Waits
    <3>6. \A a \in 1..n : w.q[i] = <<kids[a], Depth + 1>> \/ w.q[j] = <<kids[a], Depth + 1>>
                             => ~Waits(Popped, g)
      BY <2>3, <3>2
    <3>7. \/ i \in 1..Len(Popped.q) /\ w.q[i] = Popped.q[i]
          \/ \E a \in 1..n : i = k - 1 + a /\ w.q[i] = <<kids[a], Depth + 1>>
      BY <1>8
    <3>8. \/ j \in 1..Len(Popped.q) /\ w.q[j] = Popped.q[j]
          \/ \E a \in 1..n : j = k - 1 + a /\ w.q[j] = <<kids[a], Depth + 1>>
      BY <1>8
    <3> QED BY <3>1, <3>3, <3>4, <3>5, <3>6, <3>7, <3>8
  <2>4. \A g : Waits(w, g) => Waits(Popped, g) \/ \E j \in 1..n : g = kids[j]
    <3> SUFFICES ASSUME NEW g, NEW i \in 1..Len(w.q), w.q[i][1] = g
                 PROVE  Waits(Popped, g) \/ \E j \in 1..n : g = kids[j]
      BY DEF Waits
    <3> QED BY <1>8 DEF Waits
  <2>5. \A g \in Node : Own(g) =>
          /\ ~(Waits(w, g) /\ Reported(w, g))
          /\ Waits(w, g) \/ Reported(w, g) =>
                g = Root \/ (Len(fs.path[g]) > 1 /\ InList(w, Parent(g)))
    BY <1>13, <1>16, <2>1, <2>2, <2>4
  <2> QED BY <1>18, <2>1, <2>3, <2>5 DEF Once
<1>20. Owes(w)
  <2> SUFFICES ASSUME ~w.lost, ~w.truncated
               PROVE  RootFirst(w) /\ MarkedIsListed(w) /\ Offspring(w)
    BY DEF Owes
  <2>1. ~walk.lost /\ n = Len(kids)
    <3>1. walk.lost \in BOOLEAN
      BY <1>2 DEF WalkType
    <3>2. ~(walk.lost \/ n < Len(kids))
      BY <1>3
    <3> QED BY <1>6, <3>2
  <2>2. RootFirst(walk) /\ MarkedIsListed(walk)
    BY <1>2, <2>1, PoppedIs DEF WalkInv, Owes
  <2>3. \A m : (Reported(walk, m) => Reported(w, m)) /\ (InList(walk, m) => InList(w, m))
    BY <1>3, <1>13 DEF Reported
  <2>4. RootFirst(w)
    <3>1. walk.q = <<<<Root, 0>>>> => Entry = Root
      BY DEF Entry
    <3> QED BY <1>13, <2>2, <3>1 DEF RootFirst
  <2>5. MarkedIsListed(w)
    BY <1>3, <1>13, <2>2 DEF MarkedIsListed
  <2>6. Offspring(w)
    <3> SUFFICES ASSUME NEW c \in Node, Len(fs.path[c]) > 1, Good(Parent(c)),
                        InList(w, Parent(c)), DepthOf(c) <= Scanner.depth
                 PROVE  /\ fs.kind[c] = "file" => Reported(w, c) \/ InTime(w, c)
                        /\ Good(c) => InList(w, c) \/ InTime(w, c)
      BY DEF Offspring
    <3>1. CASE InList(walk, Parent(c))
      <4>1. LET first == c = Entry /\ Depth <= Scanner.depth IN
            /\ fs.kind[c] = "file" => Reported(w, c) \/ InTime(w, c) \/ first
            /\ Good(c) => InList(w, c) \/ InTime(w, c) \/ first
        BY <1>1, <1>9, <2>1, <2>3, <3>1, OwedKeeps
      <4>2. c = Entry => fs.kind[c] # "file" /\ InList(w, c)
        BY <1>1, <1>13
      <4> QED BY <4>1, <4>2
    <3>2. CASE Parent(c) = Entry
      <4>1. Depth <= DepthOf(Entry)
        BY <1>1, <2>1, <3>2, EntryInTime
      <4>2. PICK j \in 1..n : kids[j] = c
        BY <1>2, <2>1, <3>2, ListedByParent DEF kids
      <4>3. PICK i \in Nat : i = k - 1 + j
        BY <1>4, <1>6
      <4>4. i \in 1..Len(w.q) /\ w.q[i] = <<c, Depth + 1>>
        <5>1. i \in 1..Len(w.q)
          <6>1. Len(w.q) = k - 1 + n /\ k \in Nat \ {0} /\ n \in Nat /\ j \in 1..n
            BY <1>queue, <1>4, <1>6
          <6> QED BY ONLY <6>1, <4>3
        <5>2. w.q[i] = <<kids[j], Depth + 1>>
          BY ONLY <1>queue, <4>3
        <5> QED BY <4>2, <5>1, <5>2
      <4>5. DepthOf(c) = DepthOf(Entry) + 1 /\ DepthOf(Entry) \in Int
        <5>1. Len(fs.path[c]) = Len(fs.path[Entry]) + 1
          BY <1>16, <4>2
        <5>2. Len(fs.path[Entry]) \in Nat /\ RootAt \in Nat
          BY <1>2, <1>4, PathIs, UnderRoot
        <5> QED BY <5>1, <5>2 DEF DepthOf
      <4>6. Depth + 1 <= DepthOf(c)
        BY <1>4, <4>1, <4>5
      <4>7. InTime(w, c)
        BY <4>4, <4>6 DEF InTime
      <4> QED BY <4>7
    <3> QED BY <1>13, <3>1, <3>2
  <2> QED BY <2>4, <2>5, <2>6
<1>21. WalkInv(w)
  BY <1>10, <1>11, <1>15, <1>17, <1>19, <1>20 DEF WalkInv
<1> QED BY <1>2, <1>3, <1>21, GoesKeeps

-----------------------------------------------------------------------------
(* Between the walks. *)

\* Without a walk in progress there is only the type of the rest to keep.
LEMMA RestKeeps ==
    ASSUME IInv, walk' = None, fs' = fs, todo' \in Seq(ScannerType), root' \in Nat \ {0},
           got' \in Seq(Node), warned' \in BOOLEAN, status' = status, status = "running",
           items' \subseteq [scanner : Name, id : Nat, nr : Nat, paths : SUBSET Node]
                            \cup items
    PROVE  IInv'
<1>1. IsTree(fs)'
  BY DEF IInv, TypeOK
<1>2. items \subseteq [scanner : Name \cup {"sample"}, id : Nat, nr : Nat, paths : SUBSET Node]
  BY DEF IInv, TypeOK
<1>3. items' \subseteq [scanner : Name \cup {"sample"}, id : Nat, nr : Nat, paths : SUBSET Node]
  BY <1>2
<1>4. TypeOK'
  BY <1>1, <1>3 DEF IInv, TypeOK, Walking, Node
<1>5. \A x \in items' : x.scanner # "sample"
  BY DEF IInv, NoSample, Name
<1> QED BY <1>4, <1>5 DEF IInv, RootKnown, NoSample, SampleIsAnnounced, Walking

\* A walk that is over hands over what it found.
LEMMA WalkEndsKeeps == IInv /\ WalkEnds => IInv'
<1> SUFFICES ASSUME IInv, WalkEnds PROVE IInv'
  OBVIOUS
<1>1. Walking /\ got' = got \o walk.found /\ walk' = None /\ root' = root + 1
      /\ UNCHANGED <<fs, todo, items, warned, status>>
  BY DEF WalkEnds
<1>2. todo # <<>> /\ walk \in WalkType /\ got \in Seq(Node) /\ status = "running"
  BY <1>1 DEF IInv, TypeOK, NoSample
<1>3. got' \in Seq(Node)
  BY <1>1, <1>2, ConcatProperties DEF WalkType
<1> QED BY <1>1, <1>2, <1>3, RestKeeps DEF IInv, TypeOK

\* A root that does not exist is passed over.
LEMMA RootMissingKeeps == IInv /\ RootMissing => IInv'
<1> SUFFICES ASSUME IInv, RootMissing PROVE IInv'
  OBVIOUS
<1>1. /\ todo # <<>> /\ walk = None /\ root' = root + 1
      /\ UNCHANGED <<fs, todo, walk, got, items, warned, status>>
  BY DEF RootMissing, BetweenWalks
<1>2. status = "running"
  BY <1>1 DEF IInv, NoSample
<1> QED BY <1>1, <1>2, RestKeeps DEF IInv, TypeOK

\* The next scanner starts with what items its predecessor made, if any.
LEMMA NextScannerKeeps ==
    ASSUME IInv, todo # <<>>, NEW more, NEW warn \in BOOLEAN, NextScanner(more, warn),
           more \subseteq [scanner : Name, id : Nat, nr : Nat, paths : SUBSET Node]
    PROVE  IInv'
<1>1. /\ todo' = Tail(todo) /\ root' = 1 /\ walk' = None /\ got' = <<>>
      /\ items' = items \cup more /\ warned' = (warned \/ warn) /\ UNCHANGED <<fs, status>>
  BY DEF NextScanner
<1>2. todo \in Seq(ScannerType) /\ warned \in BOOLEAN /\ status = "running"
  BY DEF IInv, TypeOK, NoSample
<1>3. todo' \in Seq(ScannerType) /\ got' \in Seq(Node) /\ root' \in Nat \ {0} /\ warned' \in BOOLEAN
  BY <1>1, <1>2, HeadTailProperties
<1> QED BY <1>1, <1>2, <1>3, RestKeeps

\* A scanner that raises leaves a warning and no items.
LEMMA ScannerRaisesKeeps == IInv /\ ScannerRaises => IInv'
<1> SUFFICES ASSUME IInv, ScannerRaises PROVE IInv'
  OBVIOUS
<1>1. todo # <<>> /\ NextScanner({}, TRUE)
  BY DEF ScannerRaises
<1> QED BY <1>1, NextScannerKeeps

\* Whatever the kind, an item carries the name of its scanner.
LEMMA ReportIs ==
    ASSUME IsTree(fs), got \in Seq(Node), NEW s \in ScannerType
    PROVE  Report(s) \subseteq
               [scanner : Name, id : Nat, nr : Nat, paths : SUBSET Node]
<1> DEFINE Items == [scanner : Name, id : Nat, nr : Nat, paths : SUBSET Node]
<1>1. s.name \in Name /\ s.hash \in Nat
      /\ s.kind \in {"inventory", "large", "duplicates"}
  BY DEF ScannerType
<1>2. ASSUME NEW i \in 1..Len(got) PROVE ItemOf(s, i) \in Items
  <2>1. got[i] \in Node /\ got[i] \in Nat /\ i \in Nat
    BY ElementOfSeq, FileScanAssumption DEF Node
  <2> QED BY <1>1, <2>1 DEF ItemOf
<1>3. ASSUME NEW z \in Twins(s) PROVE TwinItem(s, z) \in Items
  <2>1. z \in Nat
    BY DEF Twins, IsTree
  <2>2. Hash(s, z) \in Nat
    BY <1>1, <2>1 DEF Hash
  <2>3. {got[i] : i \in SameContent(z)} \subseteq Node
    BY ElementOfSeq DEF SameContent
  <2> QED BY <1>1, <2>1, <2>2, <2>3 DEF TwinItem
<1> HIDE DEF Items
<1>4. CASE s.kind = "inventory"
  <2>1. Report(s) = {ItemOf(s, i) : i \in 1..Len(got)}
    BY <1>4 DEF Report
  <2> QED BY <1>2, <2>1 DEF Items
<1>5. CASE s.kind = "large"
  <2>1. Report(s) = {ItemOf(s, i) : i \in Large(s)}
    BY <1>5 DEF Report
  <2> QED BY <1>2, <2>1 DEF Items, Large
<1>6. CASE s.kind = "duplicates"
  <2>1. Report(s) = {TwinItem(s, z) : z \in Twins(s)}
    BY <1>6 DEF Report
  <2> QED BY <1>3, <2>1 DEF Items
<1> QED BY <1>1, <1>4, <1>5, <1>6

\* A scanner adds items of its own name.
LEMMA ScannerReturnsKeeps == IInv /\ ScannerReturns => IInv'
<1> SUFFICES ASSUME IInv, ScannerReturns PROVE IInv'
  OBVIOUS
<1>1. todo # <<>> /\ NextScanner(Report(Scanner), FALSE)
  BY DEF ScannerReturns, BetweenWalks
<1>2. Scanner \in ScannerType /\ IsTree(fs) /\ got \in Seq(Node)
  BY <1>1, HeadTailProperties DEF IInv, TypeOK, Scanner
<1>3. PICK more : more = Report(Scanner)
  OBVIOUS
<1>4. more \subseteq [scanner : Name, id : Nat, nr : Nat, paths : SUBSET Node]
  BY <1>2, <1>3, ReportIs
<1> QED BY <1>1, <1>3, <1>4, NextScannerKeeps

\* The collection ends with items, or with the sample and a warning.
LEMMA CollectKeeps == IInv /\ Collect => IInv'
<1> SUFFICES ASSUME IInv, Collect PROVE IInv'
  OBVIOUS
<1>1. /\ todo = <<>> /\ status = "running"
      /\ \E sample \in {{}, {Sample}} : items' = IF items = {} THEN sample ELSE items
      /\ warned' = (warned \/ items = {})
      /\ status' = (IF warned' THEN "partial_success" ELSE "success")
      /\ UNCHANGED <<fs, todo, root, walk, got>>
  BY DEF Collect
<1>2. /\ IsTree(fs)' /\ ~Walking /\ warned \in BOOLEAN
      /\ items \subseteq [scanner : Name \cup {"sample"}, id : Nat, nr : Nat, paths : SUBSET Node]
      /\ \A x \in items : x.scanner # "sample"
  BY <1>1 DEF IInv, TypeOK, NoSample
<1>3. Sample \in [scanner : Name \cup {"sample"}, id : Nat, nr : Nat, paths : SUBSET Node]
  <2>1. {} \in SUBSET Node /\ 0 \in Nat
    OBVIOUS
  <2> QED BY <2>1 DEF Sample
<1>4. warned' \in BOOLEAN /\ status' \in {"success", "partial_success"}
  BY <1>1, <1>2
<1>5. items' \subseteq [scanner : Name \cup {"sample"}, id : Nat, nr : Nat, paths : SUBSET Node]
  BY <1>1, <1>2, <1>3
<1>6. TypeOK' /\ ~Walking'
  BY <1>1, <1>2, <1>4, <1>5 DEF IInv, TypeOK, Walking, Node
<1>7. NoSample'
  BY <1>1, <1>4 DEF NoSample
<1>8. SampleIsAnnounced'
  <2>1. CASE items = {}
    BY <1>1, <2>1 DEF SampleIsAnnounced
  <2>2. CASE items # {}
    <3>1. Sample \notin items
      BY <1>2 DEF Sample
    <3> QED BY <1>1, <2>2, <3>1 DEF SampleIsAnnounced
  <2> QED BY <2>1, <2>2
<1> QED BY <1>6, <1>7, <1>8 DEF IInv, RootKnown

-----------------------------------------------------------------------------
(* The invariant, and what follows from it. *)

\* Every step keeps the invariant.
LEMMA NextInv == IInv /\ [Next]_vars => IInv'
<1> SUFFICES ASSUME IInv, [Next]_vars PROVE IInv'
  OBVIOUS
<1>1. CASE WalkBegins
  BY <1>1, BeginKeeps
<1>2. CASE RootMissing
  BY <1>2, RootMissingKeeps
<1>3. CASE CapReached
  BY <1>3, CutKeeps
<1>4. CASE TooDeep
  BY <1>4, TooDeepKeeps
<1>5. CASE Vanished
  BY <1>5, VanishedKeeps
<1>6. CASE LoopSkipped
  BY <1>6, LoopSkippedKeeps
<1>7. CASE EnterDir
  BY <1>7, EnterDirKeeps
<1>8. CASE TakeFile
  BY <1>8, TakeFileKeeps
<1>9. CASE FollowLink
  BY <1>9, FollowLinkKeeps
<1>10. CASE WalkEnds
  BY <1>10, WalkEndsKeeps
<1>11. CASE ScannerReturns
  BY <1>11, ScannerReturnsKeeps
<1>12. CASE ScannerRaises
  BY <1>12, ScannerRaisesKeeps
<1>13. CASE Collect
  BY <1>13, CollectKeeps
<1>14. CASE UNCHANGED vars
  <2>1. CASE Walking
    <3>1. /\ todo # <<>> /\ root <= Len(Scanner.roots) /\ Root # None
          /\ walk \in WalkType /\ WalkInv(walk) /\ Goes(walk)
      BY <1>14, <2>1 DEF IInv, TypeOK, RootKnown, Goes, vars
    <3>2. PICK w : w = walk
      OBVIOUS
    <3> QED BY <3>1, <3>2, GoesKeeps
  <2>2. CASE ~Walking
    <3>1. IsTree(fs)' /\ ~Walking'
      BY <1>14, <2>2 DEF IInv, TypeOK, Walking, vars
    <3>2. TypeOK'
      BY <1>14, <3>1 DEF IInv, TypeOK, vars, Node
    <3> QED BY <1>14, <3>1, <3>2 DEF IInv, RootKnown, NoSample, SampleIsAnnounced, vars
  <2> QED BY <2>1, <2>2
<1> QED BY <1>1, <1>2, <1>3, <1>4, <1>5, <1>6, <1>7, <1>8, <1>9, <1>10, <1>11, <1>12, <1>13, <1>14
        DEF Next, Step, WalkStep, Collected

\* Hence it holds of every reachable state.
LEMMA SpecInv == Spec => []IInv
BY InitInv, NextInv, PTL DEF Spec

\* Every reachable state is typed.
THEOREM TypeCorrect == Spec => []TypeOK
<1>1. IInv => TypeOK
  BY DEF IInv
<1> QED BY <1>1, SpecInv, PTL

\* A scan without a warning shows what it found on this machine, and something.
THEOREM AnnouncesSample == Spec => []SampleIsAnnounced
<1>1. IInv => SampleIsAnnounced
  BY DEF IInv
<1> QED BY <1>1, SpecInv, PTL

\* bounded_walk lists no directory twice, whatever the links.
THEOREM ListsOnce == Spec => []ListedOnce
<1>1. IInv => ListedOnce
  BY DEF IInv, WalkInv, Listing, ListedOnce
<1> QED BY <1>1, SpecInv, PTL

\* bounded_walk reports no more files, no more bytes and nothing deeper than
\* its caps allow.
THEOREM StaysWithinCaps == Spec => []CapsRespected
<1>1. ASSUME IInv PROVE CapsRespected
  <2> SUFFICES ASSUME Walking
               PROVE  /\ Len(walk.found) <= Scanner.files
                      /\ TotalSize(walk.found) <= Scanner.bytes
                      /\ \A i \in 1..Len(walk.found) : LET f == walk.found[i] IN
                            Under(f) /\ DepthOf(f) > Scanner.depth => Linked(f)
    BY DEF CapsRespected
  <2>1. /\ IsTree(fs) /\ walk \in WalkType /\ Scanner \in ScannerType /\ Root \in Node
        /\ WalkInv(walk)
    BY <1>1, RootIs DEF IInv
  <2>2. /\ walk.found \in Seq(Node) /\ Len(walk.found) \in Nat
        /\ {walk.files, walk.bytes, Scanner.files, Scanner.bytes, Scanner.depth} \subseteq Nat
    BY <2>1 DEF WalkType, ScannerType
  <2>3. TotalSize(walk.found) \in Nat
    BY <2>1, <2>2, TotalIsNat
  <2>4. Len(walk.found) <= Scanner.files /\ TotalSize(walk.found) <= Scanner.bytes
    BY <2>1, <2>2, <2>3 DEF WalkInv, Counting
  <2>5. ASSUME NEW i \in 1..Len(walk.found), Under(walk.found[i]),
               DepthOf(walk.found[i]) > Scanner.depth
        PROVE  Linked(walk.found[i])
    <3>1. walk.found[i] \in Node /\ Shallow(walk.found[i], Scanner.depth)
      BY <2>1, <2>2, ElementOfSeq DEF WalkInv, Depths
    <3>2. DepthOf(walk.found[i]) \in Nat
      BY <2>1, <2>5, <3>1, UnderRoot
    <3> QED BY <2>2, <2>5, <3>1, <3>2 DEF Shallow
  <2> QED BY <2>4, <2>5
<1> QED BY <1>1, SpecInv, PTL

\* bounded_walk reports a file twice only where a link leads to it, so that
\* without such links the items of one walk have ids of their own.
THEOREM ReportsOnce == Spec => []TwiceOnlyByLink
<1>1. ASSUME IInv PROVE TwiceOnlyByLink
  <2> SUFFICES ASSUME Walking, NEW i \in 1..Len(walk.found), NEW j \in 1..Len(walk.found),
                      walk.found[i] = walk.found[j], ~LinkTo(walk.found[i])
               PROVE  i = j
    BY DEF TwiceOnlyByLink
  <2>1. walk \in WalkType /\ WalkInv(walk)
    BY <1>1, RootIs DEF IInv
  <2>2. walk.found[i] \in Node /\ Own(walk.found[i])
    BY <2>1, ElementOfSeq DEF WalkType, WalkInv, Depths, Own
  <2> QED BY <2>1, <2>2 DEF WalkInv, Once
<1> QED BY <1>1, SpecInv, PTL

\* A walk that ends uncut and unharmed has reported every file down to its
\* depth, those behind the target of a link excepted: were one missing, the
\* topmost directory above it not listed would still wait, or the file itself.
THEOREM MissesNothing == Spec => []NothingMissed
<1>1. ASSUME IInv PROVE NothingMissed
  <2> SUFFICES ASSUME Walking, walk.q = <<>>, ~walk.truncated, ~walk.lost,
                      NEW f \in Node, fs.kind[f] = "file", Under(f),
                      DepthOf(f) \in 1..Scanner.depth, fs.inodes => ~Linked(Parent(f))
               PROVE  Reported(walk, f)
    BY DEF NothingMissed, Reported
  <2>1. /\ IsTree(fs) /\ walk \in WalkType /\ Scanner \in ScannerType /\ Root \in Node
        /\ WalkInv(walk)
    BY <1>1, RootIs DEF IInv
  <2>2. RootFirst(walk) /\ Offspring(walk)
    BY <2>1 DEF WalkInv, Owes
  <2>3. \A n : ~InTime(walk, n)
    BY DEF InTime
  <2>4. /\ Len(fs.path[f]) \in Nat /\ RootAt \in Nat \ {0} /\ Len(fs.path[f]) > RootAt
        /\ DepthOf(f) = Len(fs.path[f]) - RootAt /\ Scanner.depth \in Nat
    <3>1. Len(fs.path[f]) \in Nat /\ RootAt \in Nat \ {0} /\ Scanner.depth \in Nat
      BY <2>1, PathIs, UnderRoot DEF ScannerType
    <3> QED BY <3>1 DEF DepthOf
  <2> DEFINE d == fs.path[f][Len(fs.path[f]) - 1]
  <2>5. /\ d = Parent(f) /\ d \in Node /\ fs.kind[d] = "dir"
        /\ Len(fs.path[d]) = Len(fs.path[f]) - 1
        /\ \A j \in 1..(Len(fs.path[f]) - 1) : fs.path[d][j] = fs.path[f][j]
    <3>1. Len(fs.path[f]) > 1
      BY ONLY <2>4
    <3> QED BY <2>1, <3>1, ListedByParent DEF Parent
  <2> HIDE DEF d
  <2>6. Under(d) /\ DepthOf(d) = DepthOf(f) - 1 /\ Good(d)
    <3>1. RootAt \in 1..(Len(fs.path[f]) - 1) /\ RootAt <= Len(fs.path[d])
      BY ONLY <2>4, <2>5
    <3>2. fs.path[f][RootAt] = Root
      BY DEF Under
    <3>3. Under(d)
      BY ONLY <2>5, <3>1, <3>2 DEF Under
    <3>4. DepthOf(d) = DepthOf(f) - 1
      BY ONLY <2>4, <2>5 DEF DepthOf
    <3> QED BY <2>5, <3>3, <3>4 DEF Good
  <2>7. InList(walk, Root)
    <3>1. RootAt \in RootAt..Len(fs.path[d]) /\ fs.path[d][RootAt] = Root
      BY <2>4, <2>5, <2>6 DEF Under
    <3>2. Good(Root)
      BY <2>1, <2>5, <2>6, <3>1, AboveGood
    <3>3. walk.q # <<<<Root, 0>>>>
      OBVIOUS
    <3> QED BY <2>2, <3>2, <3>3 DEF RootFirst, Good
  <2>8. InList(walk, d)
    <3>1. DepthOf(d) <= Scanner.depth
      BY <2>4, <2>6
    <3> QED BY <2>1, <2>2, <2>3, <2>5, <2>6, <2>7, <3>1, SomethingWaits
  <2> QED BY <2>2, <2>3, <2>4, <2>5, <2>6, <2>8 DEF Offspring
<1> QED BY <1>1, SpecInv, PTL
=============================================================================
