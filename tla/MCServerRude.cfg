SPECIFICATION Spec
CONSTANTS
  Client = {c1, c2}
  Fd = {4, 5}
  Boundaries = {1, 2, 3}
  Polite = {c1}
  SelectFails = TRUE
  Backlog = 2
  Capacity = 1
  MaxRequests = 2
  MaxSessions = 2
  None = None
INVARIANTS
  DescriptorsTracked
  AnswersInOrder
  StreamAligned
PROPERTIES
  ScanComplete
  SparesThePolite
  KeepsSessions
CHECK_DEADLOCK FALSE
