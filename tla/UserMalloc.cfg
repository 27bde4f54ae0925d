SPECIFICATION Spec
CONSTANTS
  Start = 8
  Limit = 208
  WORD = 1024
  Sizes = {0, 1, 16, 60, 1017}
INVARIANTS BlocksTileArea HeldIsBacked StatsExact
PROPERTY OthersUntouched
