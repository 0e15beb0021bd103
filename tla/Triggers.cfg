SPECIFICATION Spec
CONSTANTS
  Repos = {1, 2}
  Branches = {"main", "dev", "rel"}
  Tags = {"v1", "v2"}
  Pulls <- MCPulls
  Commits = {1, 2, 3}
  Touched <- MCTouched
  Ticks = {t1, t2}
  MaxMinute = 3
  Scenes <- MCScenes
  MaxJobs = 4
  MaxMatrix = 4
INVARIANTS PushesRun HeadIsTested JobsAsWritten SchedulesFireOnce
CHECK_DEADLOCK FALSE
