\* The three tasks of tasks_init and three more, with memory for five.
SPECIFICATION Spec
CONSTANTS
  Slots = 5
  MaxPid = 6
INVARIANTS
  RingIntact
  ZombiesOwnedOnce
  AliveIsExact
PROPERTIES
  DeadStaysDead
  ImplementsTaskTable
  NoStarvation
  ListedAreReleased
