\* One handler of each kind under the event loop's fairness.
CONSTANTS
    p1 = p1  p2 = p2  a1 = a1  a2 = a2  b1 = b1  r1 = r1  r2 = r2
    Path <- OnePath
    Body <- TwoBodies
    HomeOf <- OneHome
    Qid = {1, 2}
    Cleaner = {c1}
    Restorer = {r1}
    ListLimit = 2
    NoFile = NoFile  Torn = Torn  Nil = Nil
SPECIFICATION FairSpec
PROPERTIES HandlersFinish
