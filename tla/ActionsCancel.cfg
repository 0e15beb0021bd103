SPECIFICATION Spec
CONSTANTS
  Runs = {r1}
  Jobs = {1}
  RunOf <- MCRunOf
  Needs <- MCAlone
  Legs <- MCAlone
  Soft = {}
  Cond <- MCIf
  Context <- MCContext
  Concurrency = 1
  Budget <- MCCancel
INVARIANT CancelStops
CHECK_DEADLOCK FALSE
