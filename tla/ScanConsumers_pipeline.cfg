\* Every item the pipeline can meet, scanned, stored, and read back.
CONSTANTS
    hard = hard  shell = shell  soft = soft  plain = plain  svc = svc
    core = core  task = task  guard = guard  app = app
    Name <- MCName
    Marks <- MCMarks
    Entry <- MCEntry
    Raw <- MCRaw
    None = None
SPECIFICATION Spec
INVARIANTS TypeOK LockedOffersNothing OfferKept SelectedIsTaken ListsReachCleanup FactsAgree
PROPERTIES NeverFreed
