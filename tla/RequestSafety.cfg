SPECIFICATION MCSpec
CONSTANTS
    Consumers = {c1, c2}
    Requests = {r1, r2}
    Executions = {x1, x2}
    NoConsumer = NoConsumer
    MaxCrashes = 1
    Browsers = {r1, r2}
    Workspaces = {wa, wb}
    Home = wa
    MaxSession = 3
    MaxExpired = 1
    Visitors = {r1, r2, w3}
    Flows = {f1, f2}
    NoVisitor = NoVisitor
    MaxGuess = 5
    MaxMails = 2
SYMMETRY Symmetry
INVARIANTS ConsumerSafety SessionSafety SignInSafety
PROPERTY ConsumersAreFixed
CHECK_DEADLOCK FALSE
