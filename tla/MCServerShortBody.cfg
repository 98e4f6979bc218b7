SPECIFICATION FairSpec
CONSTANTS
  Client = {c1, c2}
  Fd = {4, 5}
  Boundaries = {2}
  Polite = {}
  SelectFails = FALSE
  Backlog = 1
  Capacity = 2
  MaxRequests = 1
  MaxSessions = 1
  None = None
PROPERTIES
  FailedReadIsSurvived
CHECK_DEADLOCK FALSE
