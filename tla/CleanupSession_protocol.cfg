\* Two requests, two scans that found different facts, every combination of the flags.
CONSTANTS
    i1 = i1  i2 = i2  r1 = r1  r2 = r2  v1 = v1  v2 = v2
    Request <- MCRequest
    Item = {i1, i2}
    Scan = {1, 2}
    FactsOf <- TwoScans
    Preview = {v1}
    Modes = {"read_only", "assisted"}
    Choices <- AllChoices
    Bodies <- AnySelection
    None = None
SPECIFICATION Spec
SYMMETRY Symmetric
INVARIANTS TypeOK OneScan SingleUse MovesMatchPreview BlockedStaysBlocked EmptiedByConsent
