\* Two clients, three scans of which two are kept, a clock of two readings
\* that may be set back, one crash.
CONSTANTS
    i1 = i1  i2 = i2
    Client = {c1, c2}
    Item <- MCItem
    Found <- MCFound
    Keep = 2
    Foreign = Foreign
    NoTable = NoTable
    None = None
    MaxScans = 3
    MaxTime = 1
    MaxCrashes = 1
SPECIFICATION Spec
INVARIANTS TypeOK WholeScans WholeRead AnsweredIsKept
PROPERTIES LatestRegister FlagClears
