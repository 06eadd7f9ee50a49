\* The cleanup beside bootstraps: an error of a later task takes back the earlier ones.
SPECIFICATION MCSpec
CONSTANTS
  Procs = {p1, p2}
  Creates <- MCCreates
  Script <- MCScript
  MaxDeaths = 1
  Asset = {a1}
CHECK_DEADLOCK FALSE
INVARIANT CleanupTasksAreIsolated
