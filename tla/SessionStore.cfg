\* Two turns and one unguarded writer, up to the first write around the guard.
SPECIFICATION Spec
CONSTANTS
  Gen = {g1, g2, g3}
  NoGen = NoGen
  Turn = {t1, t2}
  Writer = {w1, w2}
  EraseBound = 3
SYMMETRY Interchangeable
CHECK_DEADLOCK FALSE
CONSTRAINT UntilBypassed
INVARIANTS RetiredStaysRetired ContentIsCurrent
PROPERTY OnlyCurrentTurnsPassTheCheck
