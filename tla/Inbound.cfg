\* Two messages, each posted twice, and one restart.
SPECIFICATION Spec
CONSTANTS
  Msg = {m1, m2}
  Timer = {t1, t2, t3, t4}
  NoTimer = NoTimer
  Quiet = 2
  MaxWait = 3
  MaxMessages = 3
  MaxPosts = 2
  MaxDeaths = 1
CHECK_DEADLOCK FALSE
INVARIANTS BatchIsOnItsWay HandedOnce
PROPERTIES TimersWaitForQuiet ClaimedGetsThrough
