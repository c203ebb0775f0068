SPECIFICATION MCSpec
CHECK_DEADLOCK FALSE
CONSTANTS
    Tools = {t1}
    Handlers = {p1, p2}
    Codes = {c1, c2}
    SerialTools = {t1, t2}
    SerialHandlers = {p3}
    SerialCodes = {c3}
    NoCode = NoCode
    NoHandler = NoHandler
    NotRegistered = NotRegistered
    Modes <- RequireApproval
    Operations <- AllOperations
    ServerOps <- FilteringServerOps
    Overlap = FALSE
    Serial = FALSE
    Failures = TRUE
    MaxVersion = 2
SYMMETRY Symmetry
INVARIANTS OverlappingApproved SerialInSync
