SPECIFICATION MCSpec
CONSTANTS
    Requests = {u1, u2}
    Commands = {k1, k2}
    DraftKey = DraftKey
    Runs = {g1, g2}
    Edits = {e1}
    Source = Source
    None = None
    MaxCrashes = 1
    MaxAsked = 2
    Accounts = {k1, k2}
    Installations = {g1, g2}
    Admins = {u1, u2}
    NoAccount = NoAccount
    MaxTracked = 2
    MaxSaves = 3
    Syncers = {u1, u2}
    NoSyncer = NoSyncer
    MaxSource = 1
    InitialDays = 1
    OverlapDays = 1
    MaxDays = 2
    Lag = 1
    FirstDay = 2
    FinalDay = 4
    MaxGrants = 2
    SyncTries = 2
    MaxHands = 1
    MaxUpsets = 2
    Crawlers = {u1, u2}
    MaxCrawl = 2
    CrawlTries = 3
    Addresses = {1, 2, 3, 4, 5, 6, 7, 8}
    Root = 1
    Host <- MCHost
    Crawlable = {1, 2, 3, 4, 7, 8}
    Priority <- MCPriority
    Configured <- MCConfigured
    Known <- MCKnown
    Webs <- MCWebs
    Disallows = {{}, {1}, {2}}
    PageLimits = {1, 3, 8}
    MaxRedirects = 2
    Editors = {u1, u2}
    Items = {k1, k2}
    NoItem = NoItem
    MaxRevision = 2
    MaxProfile = 2
SYMMETRY Symmetry
INVARIANTS DraftSafety ConnectionSafety SyncSafety CrawlSafety WalkSafety ActivationSafety
PROPERTIES PostedIsFinal DisconnectedStoresNothing CrawlSuccessKept OnboardedStays
CHECK_DEADLOCK FALSE
