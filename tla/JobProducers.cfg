\* Three producers race over one base key, one retry token and three rows;
\* handlers finish within the lease: the strong guarantees.
SPECIFICATION ProducersSpec
CONSTANTS
  Id = {i1, i2, i3}
  BaseKey = {b1}
  Token = {t1}
  NoToken = NoToken
  Key <- EffectiveKey
  Producer = {p1, p2, p3}
  Worker = {w1, w2}
  Budgets = {1, 3}
  NoId = NoId
  NoKey = NoKey
  MayOverrun = FALSE
SYMMETRY Interchangeable
CHECK_DEADLOCK FALSE
INVARIANTS SingleExecution RowsAgree AnswersHold
PROPERTIES ImplementsBoundedRetry 
