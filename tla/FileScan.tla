------------------------------ MODULE FileScan ------------------------------
(***************************************************************************)
(* The scanners that walk directories: bounded_walk, a breadth-first walk  *)
(* under caps that follows symbolic links and remembers directories by     *)
(* inode, the scanners that turn what it reports into items, and the       *)
(* collection that runs them one after the other and survives any of them. *)
(* One iteration of the loop is one step.  The file system may lose        *)
(* anything between the listing and the look at it, and the deadline may   *)
(* pass at every look at the clock.                                        *)
(***************************************************************************)
EXTENDS Integers, Sequences

CONSTANTS
    N,        \* how many paths there are
    Trees,    \* file systems
    Scans,    \* sequences of scanners
    None

\* Resolved paths.
Node == 1..N
Distinct(s) == \A i, j \in 1..Len(s) : s[i] = s[j] => i = j

\* path: the directories above a node, top first, and the node; list: what a
\* directory lists; target: what a link resolves to.  size stands for the
\* content too: a larger file begins with a smaller one.  inodes: st_ino is not
\* 0 on this platform.
IsTree(t) ==
    /\ t.path \in [Node -> Seq(Node)] /\ t.list \in [Node -> Seq(Node)]
    /\ t.target \in [Node -> Node \cup {None}] /\ t.inodes \in BOOLEAN
    /\ t.kind \in [Node -> {"dir", "file", "link"}] /\ t.size \in [Node -> Nat]
    /\ \A n \in Node : LET p == t.path[n]  depth == Len(t.path[n]) IN
          /\ depth > 0 /\ p[depth] = n
          /\ \A i \in 1..depth : t.path[p[i]] = SubSeq(p, 1, i)
          /\ \A i \in 1..(depth - 1) : t.kind[p[i]] = "dir"
          /\ t.target[n] # None => t.kind[t.target[n]] # "link"
    /\ \A d \in Node :
          /\ Distinct(t.list[d])
          /\ \A i \in 1..Len(t.list[d]) : t.path[t.list[d][i]] = Append(t.path[d], t.list[d][i])
    /\ \A n \in Node : Len(t.path[n]) > 1 =>
          LET d == t.path[n][Len(t.path[n]) - 1]
          IN  \E i \in 1..Len(t.list[d]) : t.list[d][i] = n

\* kind: what becomes of the files: an item each ("inventory"), one each from
\* the size floor on ("large"; the code keeps the first fifteen), one for each
\* content from the floor on found twice ("duplicates").
Name == STRING \ {"sample"}
ScannerType ==
    [name : Name, kind : {"inventory", "large", "duplicates"}, roots : Seq(Node),
     files : Nat, depth : Nat, bytes : Nat, floor : Nat, hash : Nat]

ASSUME FileScanAssumption ==
    /\ N \in Nat /\ None \notin Node
    /\ \A t \in Trees : IsTree(t)
    /\ Scans \subseteq Seq(ScannerType)

VARIABLES
    fs,        \* the file system
    todo,      \* the scanners still to run, the current one first
    root,      \* which of its roots is next or being walked
    walk,      \* the walk in progress, or None
    got,       \* what the walks of the current scanner reported
    items,     \* raw_items: scanner, id, number and the paths it stands for
    warned,    \* is there a scanner warning?
    status     \* of the scan, once collected
vars == <<fs, todo, root, walk, got, items, warned, status>>

Children(d) == fs.list[d]
Scanner == Head(todo)
Sample == [scanner |-> "sample", id |-> 0, nr |-> 0, paths |-> {}]

\* q: entries and their depths; seen: seen_dirs; found: the calls of on_file.
\* listed and lost are history: directories listed, and whether an error hid
\* anything.
NewWalk(r) ==
    [q |-> <<<<r, 0>>>>, seen |-> {}, files |-> 0, bytes |-> 0, truncated |-> FALSE,
     found |-> <<>>, listed |-> <<>>, lost |-> FALSE]
Walking == walk # None
Over == walk.q = <<>> \/ walk.truncated

WalkType ==
    [q : Seq(Node \X Nat), seen : SUBSET Node, files : Nat, bytes : Nat, truncated : BOOLEAN,
     found : Seq(Node), listed : Seq(Node), lost : BOOLEAN]

TypeOK ==
    /\ IsTree(fs) /\ todo \in Seq(ScannerType) /\ root \in Nat \ {0}
    /\ Walking => todo # <<>> /\ walk \in WalkType
    /\ got \in Seq(Node) /\ warned \in BOOLEAN
    /\ items \subseteq [scanner : Name \cup {"sample"}, id : Nat, nr : Nat, paths : SUBSET Node]
    /\ status \in {"running", "success", "partial_success"}

Init ==
    /\ fs \in Trees /\ todo \in Scans /\ root = 1 /\ walk = None
    /\ got = <<>> /\ items = {} /\ warned = FALSE /\ status = "running"

-----------------------------------------------------------------------------
(* bounded_walk *)

Goes(w) == walk' = w /\ UNCHANGED <<fs, todo, root, got, items, warned, status>>
Entry == walk.q[1][1]
Depth == walk.q[1][2]
Popped == [walk EXCEPT !.q = Tail(@)]

\* A root may be a link; the walk starts at what it resolves to.
Resolved(r) == IF fs.kind[r] = "link" THEN fs.target[r] ELSE r
Root == Resolved(Scanner.roots[root])
BetweenWalks == todo # <<>> /\ walk = None

WalkBegins ==
    /\ BetweenWalks /\ root <= Len(Scanner.roots) /\ Root # None
    /\ Goes(NewWalk(Root))

\* Without the directory the scanner goes on to the next.
RootMissing ==
    /\ BetweenWalks /\ root <= Len(Scanner.roots) /\ Root = None
    /\ root' = root + 1 /\ UNCHANGED <<fs, todo, walk, got, items, warned, status>>

\* The tests at the head of the loop; the clock is one of them.
CapReached ==
    /\ Walking /\ ~Over
    /\ Goes([walk EXCEPT !.truncated = TRUE])

Looks == /\ Walking /\ ~Over
         /\ walk.files < Scanner.files /\ walk.bytes < Scanner.bytes
LooksAt(kind) == Looks /\ Depth <= Scanner.depth /\ fs.kind[Entry] = kind

\* Mutant: the cap on the depth is exclusive.
StopsShort == Looks /\ Depth >= Scanner.depth /\ Goes(Popped)
TooDeep == Looks /\ Depth > Scanner.depth /\ Goes(Popped)

\* Mutant: an entry that could not be looked at is tried again later.
RetryLater == Looks /\ Depth <= Scanner.depth /\ Goes([Popped EXCEPT !.q = Append(@, walk.q[1])])

\* lstat, resolve or exists fails.
Vanished == Looks /\ Depth <= Scanner.depth /\ Goes([Popped EXCEPT !.lost = TRUE])

\* Mutant: seen_dirs is not consulted.
VisitsAgain(d) == FALSE
Visited(d) == d \in walk.seen

LoopSkipped == LooksAt("dir") /\ Visited(Entry) /\ Goes(Popped)

\* The directory is listed, in part if the deadline passes meanwhile.  One that
\* may not be read looks empty, and nobody is told.
EnterDir ==
    /\ LooksAt("dir") /\ ~Visited(Entry)
    /\ \E n \in 0..Len(Children(Entry)), cut \in BOOLEAN :
          /\ n < Len(Children(Entry)) => cut \/ n = 0
          /\ Goes([Popped EXCEPT
                     !.seen = @ \cup {Entry}, !.listed = Append(@, Entry),
                     !.q = @ \o [i \in 1..n |-> <<Children(Entry)[i], Depth + 1>>],
                     !.truncated = cut, !.lost = @ \/ n < Len(Children(Entry))])

\* Mutant: the file that breaks the cap on bytes is still reported.
TakeOver(f) ==
    \/ Goes([Popped EXCEPT !.files = @ + 1, !.bytes = @ + fs.size[f],
                           !.truncated = walk.bytes + fs.size[f] > Scanner.bytes,
                           !.found = Append(@, f)])
    \/ Goes([Popped EXCEPT !.files = @ + 1, !.lost = TRUE])

\* A file is counted, then reported; on_file may fail.
Take(f) ==
    IF walk.bytes + fs.size[f] > Scanner.bytes
    THEN Goes([Popped EXCEPT !.truncated = TRUE])
    ELSE LET counted == [Popped EXCEPT !.files = @ + 1, !.bytes = @ + fs.size[f]]
         IN  \/ Goes([counted EXCEPT !.found = Append(@, f)])
             \/ Goes([counted EXCEPT !.lost = TRUE])

TakeFile == LooksAt("file") /\ Take(Entry)

\* Mutant: the target is not tested for existence.
FollowBroken ==
    /\ LooksAt("link")
    /\ Goes([Popped EXCEPT !.q = Append(@, <<fs.target[Entry], Depth + 1>>)])

\* A link is resolved.  The directory it leads to is marked as seen when it is
\* queued (with inodes), so that its own turn in the queue is skipped.
FollowLink ==
    /\ LooksAt("link")
    /\ LET t == fs.target[Entry] IN
       IF t = None THEN Goes(Popped)
       ELSE IF fs.kind[t] = "file" THEN Take(t)
       ELSE IF Depth + 1 > Scanner.depth \/ (fs.inodes /\ Visited(t)) THEN Goes(Popped)
       ELSE Goes([Popped EXCEPT !.q = Append(@, <<t, Depth + 1>>),
                                !.seen = IF fs.inodes THEN @ \cup {t} ELSE @])

WalkEnds ==
    /\ Walking /\ Over
    /\ got' = got \o walk.found /\ walk' = None /\ root' = root + 1
    /\ UNCHANGED <<fs, todo, items, warned, status>>

-----------------------------------------------------------------------------
(* The scanners and _collect_raw_scored. *)

\* An item for the i-th file.
ItemOf(s, i) == [scanner |-> s.name, id |-> got[i], nr |-> i, paths |-> {got[i]}]
Large(s) == {i \in 1..Len(got) : fs.size[got[i]] >= s.floor}
\* The hash of a content of that size: of as much of it as is read.
Hash(s, size) == IF size > s.hash THEN s.hash ELSE size
SameContent(size) == {i \in 1..Len(got) : fs.size[got[i]] = size}
Twins(s) == {z \in {fs.size[n] : n \in Node} :
                z >= s.floor /\ \E i, j \in SameContent(z) : i # j}
TwinItem(s, z) == [scanner |-> s.name, id |-> Hash(s, z), nr |-> z,
                   paths |-> {got[i] : i \in SameContent(z)}]
Report(s) ==
    CASE s.kind = "inventory" -> {ItemOf(s, i) : i \in 1..Len(got)}
      [] s.kind = "large" -> {ItemOf(s, i) : i \in Large(s)}
      [] s.kind = "duplicates" -> {TwinItem(s, z) : z \in Twins(s)}

NextScanner(more, warn) ==
    /\ todo' = Tail(todo) /\ root' = 1 /\ walk' = None /\ got' = <<>>
    /\ items' = items \cup more /\ warned' = (warned \/ warn)
    /\ UNCHANGED <<fs, status>>

ScannerReturns ==
    /\ BetweenWalks /\ root > Len(Scanner.roots)
    /\ NextScanner(Report(Scanner), FALSE)

\* Whatever it raises, its items are lost and a warning is left.
ScannerRaises == todo # <<>> /\ NextScanner({}, TRUE)

\* Mutant: the sample is taken for a scan of the machine.
CollectSilently ==
    /\ todo = <<>> /\ status = "running"
    /\ \E sample \in {{}, {Sample}} : items' = IF items = {} THEN sample ELSE items
    /\ status' = IF warned THEN "partial_success" ELSE "success"
    /\ UNCHANGED <<fs, todo, root, walk, got, warned>>

\* With nothing found, the sample data set stands in, if its file is there: the
\* packaged backend has none.
Collect ==
    /\ todo = <<>> /\ status = "running"
    /\ \E sample \in {{}, {Sample}} : items' = IF items = {} THEN sample ELSE items
    /\ warned' = (warned \/ items = {})
    /\ status' = IF warned' THEN "partial_success" ELSE "success"
    /\ UNCHANGED <<fs, todo, root, walk, got>>

WalkStep == \/ WalkBegins \/ RootMissing \/ CapReached \/ TooDeep \/ Vanished \/ LoopSkipped
            \/ EnterDir \/ TakeFile \/ FollowLink \/ WalkEnds
Step == WalkStep \/ ScannerReturns \/ ScannerRaises \/ Collect
Collected == status # "running" /\ UNCHANGED vars
Next == Step \/ Collected

\* The scan runs on; it has nobody to wait for.
Spec == Init /\ [][Next]_vars /\ WF_vars(Step)

-----------------------------------------------------------------------------
(* Properties. *)

LinkTo(n) == \E l \in Node : fs.kind[l] = "link" /\ fs.target[l] = n

\* Below the root of the walk, or the root; and how far below.
RootAt == Len(fs.path[Root])
Under(n) == RootAt <= Len(fs.path[n]) /\ fs.path[n][RootAt] = Root
DepthOf(n) == Len(fs.path[n]) - RootAt
Parent(n) == fs.path[n][Len(fs.path[n]) - 1]
\* A link leads to it or to a directory between it and the root.
Linked(n) == \E i \in (RootAt + 1)..Len(fs.path[n]) : LinkTo(fs.path[n][i])

\* No directory is listed twice, whatever cycles the links make, with inodes or
\* without: the walk is bounded by the tree and not by its caps alone.
ListedOnce == Walking => Distinct(walk.listed)

\* A walk that says it was not cut short, and lost nothing to an error, has
\* reported every file down to its depth.  With inodes, what lies below the
\* target of a link is the exception: the link marks the directory as seen and
\* it is never listed.
NothingMissed ==
    Walking /\ walk.q = <<>> /\ ~walk.truncated /\ ~walk.lost =>
    \A f \in Node :
        /\ fs.kind[f] = "file" /\ Under(f) /\ DepthOf(f) \in 1..Scanner.depth
        /\ fs.inodes => ~Linked(Parent(f))
        => \E i \in 1..Len(walk.found) : walk.found[i] = f

TotalSize(files) ==
    LET sum[n \in 0..Len(files)] == IF n = 0 THEN 0 ELSE sum[n - 1] + fs.size[files[n]]
    IN  sum[Len(files)]

\* What a walk reports respects all three caps at once, links counted.
CapsRespected ==
    Walking => /\ Len(walk.found) <= Scanner.files
               /\ TotalSize(walk.found) <= Scanner.bytes
               /\ \A i \in 1..Len(walk.found) : LET f == walk.found[i] IN
                     Under(f) /\ DepthOf(f) > Scanner.depth => Linked(f)

\* A walk reports a file twice only if a link leads to it.
TwiceOnlyByLink ==
    Walking => \A i, j \in 1..Len(walk.found) :
        i # j /\ walk.found[i] = walk.found[j] => LinkTo(walk.found[i])

\* A scan that ends as a success shows items, all of them found on this machine:
\* whatever the scanners raised and whether the sample data set is there or not,
\* neither the sample nor nothing at all passes for a complete scan.  The sample
\* is never mixed with items of this machine.
SampleIsAnnounced ==
    status # "running" =>
        /\ status = "success" => items # {} /\ Sample \notin items
        /\ Sample \in items => items = {Sample}

\* Caps, cycles and errors of any kind: the scan gets to its end.
Terminates == <>(status # "running")

\* The warning of a scan in which nothing was found and nothing failed: sample
\* dataset loaded instead.  A scan that gets it shows the sample.
SampleStandsIn ==
    [][status = "running" /\ status' # "running" /\ ~warned /\ warned'
          => Sample \in items']_vars

\* Two items of one scan never share an id.
ItemIdsUnique ==
    \A x, y \in items : x.scanner = y.scanner /\ x.id = y.id => x = y
=============================================================================
