\* Does a stop resume everything?
CONSTANTS
    sync = sync  sync2 = sync2  browser = browser  guard = guard  r1 = r1  r2 = r2
    Pid = {1, 2}
    Process = {sync, sync2}
    Name <- Names
    NameOf <- MCNameOf
    ClassOf <- MCClassOf
    Target <- NoTargets
    Request = {r1}
    None = None
SPECIFICATION Spec
INVARIANTS StopResumesAll
