\* Charges of two readings, and a repeat of the first.
SPECIFICATION UsageSpec
CONSTANTS
  Call = {c1, c2}
  MaxOrder = 2
  MaxReport = 2
  MaxGen = 2
  V9Persist = TRUE
  MaxDay = 3
  Interval = 2
  Limit = 2
  ChargeId = {1, 2}
  Exec = {}
  MaxReturns = 0
  MaxDeletions = 0
SYMMETRY Interchangeable
CHECK_DEADLOCK FALSE
PROPERTY DuplicatesAreRefused
