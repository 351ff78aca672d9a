SPECIFICATION CommandSpec
CONSTANTS
  Procs = {"a", "b"}
  Versions = {1, 2}
  Sessions <- MCSessions
  Runs = {w1}
  MaxRuns = 1
  Tasks = {1, 2}
  Capacities = {1, 2}
  Windows = {1, 2}
  Policies <- MCPolicies
  NoPolicy = NoPolicy
  MaxPlain = 2
  MaxOwned = 1
  NoRun = NoRun
  NoTaskId = 0
INVARIANT RefusedOnlyUnfinished
CHECK_DEADLOCK FALSE
