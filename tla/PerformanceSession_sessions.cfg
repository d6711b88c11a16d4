\* Overlapping starts and stops while pids change hands.
CONSTANTS
    sync = sync  sync2 = sync2  browser = browser  guard = guard  r1 = r1  r2 = r2
    Pid = {1, 2}
    Process = {sync, browser}
    Name <- Names
    NameOf <- MCNameOf
    ClassOf <- MCClassOf
    Target <- SomeTargets
    Request <- MCRequest
    None = None
SPECIFICATION Spec
SYMMETRY Symmetric
INVARIANTS TypeOK Accounted
PROPERTIES WakesOnlyItsOwn SuspendsOnlyPlanned
