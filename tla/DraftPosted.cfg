SPECIFICATION Spec
CONSTANTS
    Requests = {r1, r2}
    Commands = {k1, k2}
    DraftKey = DraftKey
    Runs = {}
    Edits = {}
    Source = Source
    None = None
    MaxCrashes = 0
    MaxAsked = 2
INVARIANT PostedOnce
CHECK_DEADLOCK FALSE
