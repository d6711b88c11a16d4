\* Can the items of one scanner share an id?
CONSTANTS
    None = None
    N = 4
    Trees <- MCTrees
    Scans <- Downloads
SPECIFICATION Spec
INVARIANTS ItemIdsUnique
