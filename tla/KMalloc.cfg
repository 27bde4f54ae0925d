\* 1017 wraps around when it is rounded up, 984 when the size of the header is
\* added, and 600 is more than the address of the end of the heap.
SPECIFICATION Spec
CONSTANTS
  Start = 96
  Limit = 280
  WORD = 1024
  Sizes = {0, 1, 60, 600, 984, 1017}
INVARIANTS BlocksTileHeap HeldIsBacked StatsExact FreeBlocksMerged TailIsLast
CHECK_DEADLOCK FALSE
