SPECIFICATION Spec
CONSTANTS
  Token <- MCToken
  Cut <- MCCut
  Numeric <- MCNumeric
  Stod <- MCStod
  Request <- MCRequest
  InitialStorage <- MCStorage
  NotAMap = NotAMap
  NoRequest = NoRequest
  Mistyped = Mistyped
  Absent = Absent
  IOFaults = FALSE
  SortLimit = 1
  MaxRecords = 2
INVARIANTS
  TypeOK
  SaveInFlight
  SaveThenLoad
  AlwaysLoadable
  RollUpConsistent
  SliceMatchesDiagram
  SortsDefined
