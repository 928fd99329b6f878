SPECIFICATION MCSpec
CONSTANTS
    Workers = {w1, w2, w3}
    NoOwner = NoOwner
    NoInput = NoInput
    MaxTime = 2
    MaxData = 2
    Snapshots <- MCSnapshots
    RowSets <- MCRowSets
    PositionUnit = 2
    PageMatch <- MCPageMatch
    ReadPeriod = 2
    Correction = 2
    FinalLag = 2
    StaleAfter = 1
    MaxReadDays = 3
    OpensOn = 6
    ClosesOn = 9
    MaxFeeds = 1
    MaxFeedRuns = 2
    Asked = {k1, k2}
    Children = {v1}
    Bodies = {b1, b2}
    Callers = {c1, c2}
    Replies = {f1}
    NoOne = NoOne
    Cooldown = 2
    LastDay = 2
SYMMETRY Symmetry
INVARIANTS DetectionSafety DetectorSafety ReadingSafety LedgerSafety
PROPERTIES TerminalIsFinal ImplementsDetectionRun DismissedStaysAway
CHECK_DEADLOCK FALSE
