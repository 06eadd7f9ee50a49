SPECIFICATION Spec
CONSTANTS
  MaxChars = 3
  Budget = 2
  LineWidth = 2
  ShortTail = 2
  Rooms = {1, 3}
  SendRetries = 2
  Longest = 5
  LongestOfTwo = 2
CHECK_DEADLOCK FALSE
INVARIANTS NothingIsLost PagesAreShown CopiesAreExplained
