SPECIFICATION LiveSpec
CONSTANTS
  Runs = {r1}
  Jobs <- MCJobs
  RunOf <- MCRunOf
  Needs <- MCNeeds
  Legs <- MCLegs
  Soft = {2}
  Cond <- MCIf
  Context <- MCContext
  Concurrency = 2
  Budget <- MCFaults
INVARIANTS GreenRunIsGreen GreenCheckIsTrue BoxesJustified
PROPERTIES TakesTurns RunsClose EndedRunStays
CHECK_DEADLOCK FALSE
