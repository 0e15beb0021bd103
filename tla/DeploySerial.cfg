SPECIFICATION LiveSpec
CONSTANTS
  Runs = {r1}
  r1 = r1
  NoRun = NoRun
  MaxDeps = 3
  KeepImages = 1
  TimerSweeps = FALSE
  Budgets <- MCToggle
INVARIANTS OnlyServingLives ServingImageRetained
PROPERTIES CancelTakesEffect
CHECK_DEADLOCK FALSE
