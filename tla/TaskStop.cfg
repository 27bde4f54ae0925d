SPECIFICATION StopSpec
CONSTANTS
  Slots = 5
  MaxPid = 5
  Stoppers = {2}

  
PROPERTIES
  StopKills
  StopReturns
