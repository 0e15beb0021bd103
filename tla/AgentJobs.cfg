SPECIFICATION LiveSpec
CONSTANTS
  Items <- MCItems
  Steers = {3}
  Budget <- MCOnce
INVARIANTS RunningHasJob QueueExact OpExcludesJob
PROPERTIES StopEndsJob FollowupsAnswered
CHECK_DEADLOCK FALSE
