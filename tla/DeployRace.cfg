SPECIFICATION Spec
CONSTANTS
  Runs = {r1, r2}
  r1 = r1
  r2 = r2
  NoRun = NoRun
  MaxDeps = 2
  KeepImages = 1
  TimerSweeps = TRUE
  Budgets <- MCCrashDocker
INVARIANTS FailingRunNeverServes RegistrationHasOwner NeverDark
SYMMETRY RunSymmetry
CHECK_DEADLOCK FALSE
PROPERTIES SwitchesReleases
