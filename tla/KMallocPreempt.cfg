SPECIFICATION PSpec
CONSTANTS
  Start = 8
  Limit = 248
  WORD = 1024
  Sizes = {1, 16, 60}
INVARIANT BackgroundFreeIsSafe
CHECK_DEADLOCK FALSE
