SPECIFICATION MCSpec
CONSTANTS
    Tools = {t1}
    Handlers = {p1, p2}
    Codes = {c1, c2}
    NoCode = NoCode
    NoHandler = NoHandler
    Modes <- AllModes
    Operations <- AllOperations
    Overlap = FALSE
    MaxVersion = 3
    Configs = {k1, k2}
    Policies = {p1}
    NoPolicy = NoPolicy
    Unknown = Unknown
    MaxSteps = 2
    MaxFaults = 1
    Processes = {"backend"}
    Requests = {r1, r2, r3}
    FailureThreshold = 2
    SuccessThreshold = 2
    Timeout = 2
    MaxRetries = 1
    Never = Never
    MaxFailures = 3
    Tasks = {t1, t2}
    MaxPending = 2
    Refused = {4}
    MaxLogs = 5
CHECK_DEADLOCK FALSE
INVARIANTS LiveTypeOK WorkerInSync CountsRequests OneFlusher InOrder Accounted
PROPERTIES ImplementsWorkflow LocalOnlyIfRead CachesConverge TimerNotExtended Recovers LimitedRequeue Settles
