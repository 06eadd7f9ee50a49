\* Two dates, one generation after the first; four messages at the gate, two worker
\* slots, one forced clear or deletion.
SPECIFICATION MCSpec
CONSTANTS
  Dates = {d1, d2}
  MaxGen = 2
  Request = {q1, q2, q3, q4}
  Slot = {s1, s2}
  NoOwner = NoOwner
  MaxClears = 1
SYMMETRY Interchangeable
CHECK_DEADLOCK FALSE
INVARIANTS OthersStayOut ChartIsOfTheDate DeliveryIsOfTheDate AnalyzingHasAJob OneTurnAtATime NoticesAgree
PROPERTY OverIsOver
