\* Does performance mode respect what gating protects?
CONSTANTS
    hard = hard  shell = shell  soft = soft  plain = plain  svc = svc
    core = core  task = task  guard = guard  app = app
    Name <- MCName
    Marks <- MCMarks
    Entry <- MCEntry
    Raw <- SomeRaw
    None = None
SPECIFICATION Spec
PROPERTIES StartSparesProtected
