SPECIFICATION PSpec
CHECK_DEADLOCK FALSE
CONSTANTS
    Tools = {t1}
    Handlers = {p1}
    Codes = {c1, c2}
    NoCode = NoCode
    NoHandler = NoHandler
    NotRegistered = NotRegistered
    Modes <- RequireApproval
    Operations <- RegisteringOperations
    ServerOps <- AllServerOps
    Overlap = FALSE
    Serial = TRUE
    Failures = FALSE
    MaxVersion = 2
SYMMETRY Symmetry
INVARIANT OnlyActiveRegistered
