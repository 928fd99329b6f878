SPECIFICATION MCSpec
CONSTANTS
    Events = {e1, e2}
    Workers = {w1, w2}
    NoEvent = NoEvent
    BatchSize = 2
    MaxAttempts = 2
    AttemptCap = 2
    MaxCrashes = 1
    Mailers = {x1, x2}
    MaxPlan = 2
    MaxTries = 3
    MaxDeaths = 1
    DigestJobs = {j1, j2}
    MaxJobs = 4
INVARIANTS OutboxSafety MailSafety DigestSafety
PROPERTY EventuallySettled
CHECK_DEADLOCK FALSE
