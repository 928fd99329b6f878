SPECIFICATION MCSpec
CONSTANTS
    Events = {1, 2}
    Workers = {w1}
    NoEvent = NoEvent
    BatchSize = 2
    MaxAttempts = 1
    AttemptCap = 1
    MaxCrashes = 1
    Mailers = {x1, x2}
    FirstMailer = x1
    MaxPlan = 2
    MaxTries = 2
    MaxDeaths = 1
INVARIANT AnnouncementSafety
PROPERTY AnnouncedIsDelivered
CHECK_DEADLOCK FALSE
