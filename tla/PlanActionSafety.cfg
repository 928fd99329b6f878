SPECIFICATION MCSpec
CONSTANTS
    Users = {u1, u2}
    Workers = {k1, k2}
    MaxRevision = 2
    Clients = {u1, u2}
    PlanActions = {a1, a2}
    CommandKeys = {k1, k2}
    Edits = {e1, e2}
    Editable = {a1}
    WindowDays = 1
    MaxEdits = 3
    MaxReceipts = 4
    LastDay = 1
SYMMETRY Symmetry
INVARIANTS ApprovalSafety OfferSafety CommandSafety
CHECK_DEADLOCK FALSE
