SPECIFICATION LiveSpec
CONSTANTS
  Prs = {1, 2}
  Tips = {1, 2, 3}
  Contexts = {"build", "lint"}
  Requests = {r1, r2}
  Fires = {f1, f2}
  Hooks = {h}
  Deliveries = {1, 2}
  MaxAttempts = 2
  Limit = 1
  Budgets <- MCBudgets
INVARIANTS MergedHasLanded
PROPERTIES MergedGreen DeliveriesSettle
CHECK_DEADLOCK FALSE
