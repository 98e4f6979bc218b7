SPECIFICATION Spec
CONSTANTS
  Programs = {"cli", "gui", "chat"}
  Prompt = TRUE
  MaxAsked = 4
INVARIANTS
  TypeOK
  ShowsOwnAnswer
PROPERTIES
  LagsByChanges
  EveryGetReturns
CHECK_DEADLOCK FALSE
