SPECIFICATION Spec
CONSTANTS
  Token <- MCToken
  Cut <- MCCut
  Numeric <- MCNumeric
  Stod <- MCStod
  Request <- MCGift
  InitialStorage <- MCStorage
  NotAMap = NotAMap
  NoRequest = NoRequest
  Mistyped = Mistyped
  Absent = Absent
  IOFaults = TRUE
  SortLimit = 1
  MaxRecords = 2
INVARIANT ReloadAnswers
CHECK_DEADLOCK FALSE
