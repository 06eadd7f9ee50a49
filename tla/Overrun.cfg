\* A handler that outlives its lease settles a row that has failed terminally since.
SPECIFICATION AdminSpec
CONSTANTS
  Id = {i1}
  Key = {}
  Worker = {w1, w2}
  Budgets = {3}
  NoId = NoId
  NoKey = NoKey
  MayOverrun = TRUE
CHECK_DEADLOCK FALSE
PROPERTY TerminalIsNeverRetried
