SPECIFICATION ReadingOnlySpec
CONSTANTS
    Snapshots <- MCNoSnapshots
    RowSets <- MCRowSets
    PositionUnit = 2
    PageMatch <- MCPageMatch
    ReadPeriod = 2
    Correction = 2
    FinalLag = 2
    StaleAfter = 1
    MaxReadDays = 3
    OpensOn = 6
    ClosesOn = 9
    MaxFeeds = 1
    MaxFeedRuns = 2
INVARIANT UsableIsDetected
CHECK_DEADLOCK FALSE
