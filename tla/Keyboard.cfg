SPECIFICATION Spec
CONSTANTS
  KBD_BUF_SIZE = 4
  Letters = {"c"}
  Symbols = {"1"}
  Dead = {"F1"}
PROPERTY
  ImplementsQueue
