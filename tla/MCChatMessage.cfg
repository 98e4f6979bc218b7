CONSTANTS
  Letter <- MCLetter
  Foreign <- MCForeign
  Names <- MCNames
  Added <- MCAdded
  Depth = 4
  Width = 2
  Requests <- MCRequests
  Lines <- MCLines
  Cells <- MCCells
  Plain <- MCPlain
  MaxSent = 2
SPECIFICATION Spec
INVARIANTS
  ReadsWhatWasSent
  EndsOnlyOnLong
  PythonReadsAnswers
  AnswersReadTwice
  NothingHeldBack
CHECK_DEADLOCK FALSE
