SPECIFICATION LiveSpec
CONSTANTS
  Runs = {r1}
  r1 = r1
  NoRun = NoRun
  MaxDeps = 2
  KeepImages = 1
  TimerSweeps = TRUE
  Budgets <- MCFaults
PROPERTIES RowsSettle SelfHeals NeverRevives StopHonoured
CHECK_DEADLOCK FALSE
