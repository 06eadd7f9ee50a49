\* Two processes, one death; three uploads, so that one is left behind beside one
\* erased and one in use.
SPECIFICATION MCSpec
CONSTANTS
  Procs = {p1, p2}
  Creates <- MCCreates
  Script <- MCScript
  MaxDeaths = 1
  Asset = {a1, a2, a3}
CHECK_DEADLOCK FALSE
INVARIANTS BootsAreSound ReportsAreTrue AssetsAgree
PROPERTIES BootsEnd DeletionsAreWhole
