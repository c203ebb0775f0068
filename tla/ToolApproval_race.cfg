SPECIFICATION Spec
CHECK_DEADLOCK FALSE
CONSTANTS
    Tools = {t1}
    Handlers = {p1, p2}
    Codes = {c1, c2}
    NoCode = NoCode
    NoHandler = NoHandler
    Modes <- RequireApproval
    Operations <- AllOperations
    Overlap = TRUE
    MaxVersion = 3
SYMMETRY Symmetry
PROPERTY CodeChangeResetsApproval
