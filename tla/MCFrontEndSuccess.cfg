SPECIFICATION Spec
CONSTANTS
  Programs = {"gui"}
  Prompt = TRUE
  MaxAsked = 2
INVARIANTS
  SuccessIsTrue
CHECK_DEADLOCK FALSE
