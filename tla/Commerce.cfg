\* Two callers at a time, each of which goes on to other calls; three executions of
\* one support request, concurrent or one after the other.
SPECIFICATION MCSpec
CONSTANTS
  Call = {c1, c2}
  MaxOrder = 2
  MaxReport = 2
  MaxGen = 2
  V9Persist = TRUE
  MaxDay = 3
  Interval = 2
  Limit = 2
  ChargeId = {1, 2}
  Exec = {e1, e2, e3}
  MaxReturns = 2
  MaxDeletions = 1
SYMMETRY Interchangeable
CHECK_DEADLOCK FALSE
INVARIANTS PaidIsEarned OneOrderAtATime UsageIsCounted OncePerRequest HandoffIsWhole
PROPERTIES VerifiedFallsOnlyToAStaleReader CtaKeepsItsDistance
