\* Handlers may outlive the lease and operators cancel with a stale status: what
\* still holds, and that every job is settled, deleted or stranded.
SPECIFICATION AdminSpec
CONSTANTS
  Id = {i1, i2}
  Key = {}
  Worker = {w1, w2}
  Budgets = {2}
  NoId = NoId
  NoKey = NoKey
  MayOverrun = TRUE
CHECK_DEADLOCK FALSE
INVARIANT ClaimsAreCounted
PROPERTIES OnlyTheRunnerUndoesCancel JobsSettleOrStrand
