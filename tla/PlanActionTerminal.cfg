SPECIFICATION Spec
CONSTANTS
  Users = {u1, u2}
  Workers = {k1}
  MaxRevision = 2
PROPERTY TerminalIsFinal
CHECK_DEADLOCK FALSE
