SPECIFICATION LiveSpec
CONSTANTS
  Ids <- MCIds
  Budget <- MCFaults
INVARIANTS WritesPaused OutcomeIsTrue
PROPERTIES NoBlindRollback NoWorkCut OperationsSettle
CHECK_DEADLOCK FALSE
