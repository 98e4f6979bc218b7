SPECIFICATION SystemSpec
CONSTANTS
  Token <- MCToken
  Cut <- MCWhole
  Numeric <- MCNumeric
  Stod <- MCStod
  Request <- MCTold
  InitialStorage <- MCSaved
  NotAMap = NotAMap
  NoRequest = NoRequest
  Mistyped = Mistyped
  Absent = Absent
  IOFaults = TRUE
  SortLimit = 1
  MaxRecords = 1
  Client <- MCClient
  Writer = Writer
  Reader = Reader
  Asks <- MCAsks
  Nobody = Nobody
  MaxAsked <- MCMaxAsked
  MaxLeft = 1
INVARIANT AnswersWereTrue
VIEW View
PROPERTY KeepsTheStore
