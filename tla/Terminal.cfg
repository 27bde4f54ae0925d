\* The .user area has room for the terminal and two programs.
SPECIFICATION Spec
CONSTANTS
  Start = 8
  Limit = 224
  WORD = 1024
  Files <- FilesValue
  TerminalSize = 24
  Slack = 8
  MaxPid = 6
  Capacity = 2
  Keys = {"x", "space", "LF", "BS", "^C"}
  InputSize = 3
  MaxKeys = 6
INVARIANTS
  TypeOK
  
  LoadedIntact
  WritesInsideBuffer
  StopsNoLiveTask
  RunsWhatWasTyped
PROPERTIES
  PromptReturns
  KeysAreRead
