SPECIFICATION MCSpec
CONSTANTS
    Opportunities = {1, 2}
    Limit = 2
    Workers = {w1, w2}
    Products = {p1, p2}
    ByHand <- MCByHand
    ByActivation <- MCByActivation
    Txns = {w1, w2}
    Scheduled = "s"
    NoRun = NoRun
    ProviderAvailable = TRUE
    Callers = {w1, w2, w3}
    NoToken = NoToken
    Fingerprints = {g1, g2}
    NoRequest = NoRequest
    Registrations = 2
    MaxAttempts = 3
SYMMETRY Symmetry
INVARIANTS PlanSafety ScheduleSafety ReadinessSafety ExecutionSafety
PROPERTIES ReadyIsFrozen ChildIsDetectionRun PassCoversEveryProduct SettledIsFinal
CHECK_DEADLOCK FALSE
