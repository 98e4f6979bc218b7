SPECIFICATION Spec
CONSTANTS
  Token <- MCToken
  Cut <- MCCut
  Numeric <- MCNumeric
  Stod <- MCStod
  Request <- MCChange
  InitialStorage <- MCStorage
  NotAMap = NotAMap
  NoRequest = NoRequest
  Mistyped = Mistyped
  Absent = Absent
  IOFaults = TRUE
  SortLimit = 1
  MaxRecords = 2
PROPERTY KeepsTheStore
CHECK_DEADLOCK FALSE
