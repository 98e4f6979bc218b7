SPECIFICATION FairSpec
CONSTANTS
  Client = {c1, c2}
  Fd = {4, 5, 6, 7}
  Boundaries = {2}
  Polite = {c1, c2}
  SelectFails = FALSE
  Backlog = 2
  Capacity = 1
  MaxRequests = 2
  MaxSessions = 2
  None = None
INVARIANTS
  TypeOK
  DescriptorsTracked
  AnswersInOrder
PROPERTIES
  ScanComplete
  OncePerScan
  DropsOnlyTheGone
  EveryConnectionWelcomed
  EveryRequestAnswered
CHECK_DEADLOCK FALSE
