\* Two cleanups and two restores over two paths, one of them recreated.
CONSTANTS
    p1 = p1  p2 = p2  a1 = a1  a2 = a2  b1 = b1  r1 = r1  r2 = r2
    Path <- MCPath
    Body <- MCBody
    HomeOf <- MCHomeOf
    Qid = {1, 2}
    Cleaner = {c1, c2}
    Restorer <- MCRestorer
    ListLimit = 2
    NoFile = NoFile  Torn = Torn  Nil = Nil
SPECIFICATION Spec
SYMMETRY Symmetric
INVARIANTS TypeOK Custody ListedIsBacked
PROPERTIES LeavesHomeOrExpired KeepsPromise
