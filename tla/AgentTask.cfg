SPECIFICATION LiveSpec
CONSTANTS
  Calls = {"build", "test", "read"}
  Id <- MCId
  Commands = {"build", "test"}
  Batches <- MCBatches
  Budget <- MCTwoTasks
INVARIANTS AtMostOnce RepliesTrue
PROPERTIES StopEndsTurn
CHECK_DEADLOCK FALSE
