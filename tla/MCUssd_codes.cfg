SPECIFICATION Spec
CONSTANTS
    h1 = h1  h2 = h2  h3 = h3  h4 = h4
    ann = ann  c1 = c1  c2 = c2  c3 = c3
    Handlers = {h1, h2, h3, h4}
    Users = {ann}
    Codes = {c1, c2, c3}
    Requests <- OneUser
    CodeTimeout = 1
    MaxGeneration = 2
    Window = 2
    IncrAttempts = 2
    Retention = 1
    ZoneOffset = 0
    MaxTime = 3
    Overlap = FALSE
    CleanupRuns = TRUE
CHECK_DEADLOCK FALSE
SYMMETRY HandlerSymmetry
INVARIANTS
    IInv
    SingleUse
    WithinLimit
PROPERTIES
    ConsumedInTime
