\* A screen of three lines of four cells, with a clock of two characters.
SPECIFICATION Spec
CONSTANTS
  VGA_WIDTH = 4
  VGA_HEIGHT = 3
  TAB_SIZE = 2
  ClockCol = 1
  ClockLen = 2
  Strings <- StringsValue
  Places <- PlacesValue
  MaxCalls = 3
INVARIANTS
  TypeOK
  EraseTakesBack
PROPERTIES
  ImplementsRoll
  ClockReturns
