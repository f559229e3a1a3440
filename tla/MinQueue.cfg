\* Every heap of at most seven elements, with ties.
SPECIFICATION Spec
CONSTANTS
  cmp <- ByHalf
  Elements = {1, 2, 3, 4, 5, 6, 7}
  SLOTS_PER_MALLOC = 2
  ReallocFails = TRUE
INVARIANT HeapOrder
PROPERTY ImplementsPriorityQueue
