\* A cleanup that fails half-way: is the moved file restorable?
CONSTANTS
    p1 = p1  p2 = p2  a1 = a1  a2 = a2  b1 = b1  r1 = r1  r2 = r2
    Path <- OnePath
    Body <- TwoBodies
    HomeOf <- OneHome
    Qid = {1, 2}
    Cleaner = {c1}
    Restorer = {r1}
    ListLimit = 2
    NoFile = NoFile  Torn = Torn  Nil = Nil
SPECIFICATION Spec
INVARIANTS RollbackAvailable
