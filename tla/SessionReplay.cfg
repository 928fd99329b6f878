SPECIFICATION SessionSpec
CONSTANTS
    Browsers = {r1, r2}
    Workspaces = {wa}
    Home = wa
    MaxSession = 3
    MaxExpired = 0
INVARIANT ReplayRevokesFamily
