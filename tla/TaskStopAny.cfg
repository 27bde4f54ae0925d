SPECIFICATION AnyStopSpec
CONSTANTS
  Slots = 5
  MaxPid = 5
  Stoppers = {2, 4}
INVARIANT
  UnlinkFindsRingIntact
