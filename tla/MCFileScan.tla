----------------------------- MODULE MCFileScan -----------------------------
(* Constants for model-checking FileScan: every tree of N nodes under one root  *)
(* with every choice of links, and a scanner of each kind.                     *)
EXTENDS FileScan, TLC, FiniteSets

Parents == {p \in [Node -> Node \cup {None}] :
              p[1] = None /\ \A n \in 2..N : p[n] # None /\ p[n] < n}
Kinds == {k \in [Node -> {"dir", "file", "link"}] : k[1] = "dir"}
Targets == [Node -> Node \cup {None}]
PathsOf(p) ==
    LET path[n \in Node] == IF p[n] = None THEN <<n>> ELSE Append(path[p[n]], n) IN path
ListsOf(p) ==
    [d \in Node |-> SelectSeq([n \in Node |-> n], LAMBDA n : p[n] = d)]
MCTrees ==
    UNION {{[path |-> PathsOf(p), list |-> ListsOf(p), kind |-> k, target |-> t, inodes |-> b,
             size |-> [n \in Node |-> IF n >= 4 THEN 2 ELSE 1]] :
              b \in BOOLEAN,
              t \in {t \in Targets : \A n \in Node :
                        IF k[n] = "link" THEN t[n] = None \/ k[t[n]] # "link"
                        ELSE t[n] = None}} :
           <<p, k>> \in {<<p, k>> \in Parents \X Kinds :
                           \A n \in 2..N : k[p[n]] = "dir"}}

Of(name, kind, roots, files, depth, bytes) ==
    [name |-> name, kind |-> kind, roots |-> roots, files |-> files, depth |-> depth,
     bytes |-> bytes, floor |-> 2, hash |-> 1]
MCScans == {<<Of("downloads", "inventory", <<1>>, 4, 2, 9)>>,
            <<Of("temp", "inventory", <<1>>, 1, 1, 9)>>,
            <<Of("large", "large", <<2, 1>>, 4, 3, 2)>>,
            <<Of("startup", "inventory", <<2, 3>>, 4, 1, 9),
              [Of("duplicates", "duplicates", <<1>>, 4, 1, 9) EXCEPT !.floor = 1]>>}
\* A scan of the downloads alone.
Downloads == {<<Of("downloads", "inventory", <<1>>, 4, 2, 9)>>}
=============================================================================
