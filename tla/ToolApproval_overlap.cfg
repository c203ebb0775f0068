SPECIFICATION FairSpec
CHECK_DEADLOCK FALSE
CONSTANTS
    Tools = {t1}
    Handlers = {p1, p2}
    Codes = {c1}
    NoCode = NoCode
    NoHandler = NoHandler
    Modes <- AllModes
    Operations <- AllOperations
    Overlap = TRUE
    MaxVersion = 3
INVARIANT TypeOK
INVARIANT VersionHistory
PROPERTY OnlyApproveApproves
PROPERTY RequestsEnd
