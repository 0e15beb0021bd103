SPECIFICATION LiveSpec
CONSTANTS
  Callers = {c1, c2}
  c1 = c1
  c2 = c2
  Asks <- MCAsks
  MaxShells = 2
  Budgets <- MCBudgets
INVARIANTS ReadyWhenUsed SweepSparesWork
PROPERTIES RevokedStops
