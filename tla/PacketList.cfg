\* Lists of up to four nodes of either program, every window across the wrap;
\* the sender's may have up to two numbers missing between two packets.
SPECIFICATION Spec
CONSTANTS
  SeqMod = 8
  MAX_WINDOW_SIZE = 3
  Nodes = {n1, n2, n3, n4}
  NULL = NULL
  Copies = {0, 1}
  MallocFails = TRUE
  MaxUnlisted = 2
INVARIANT Chain
INVARIANT Sorted
PROPERTY ImplementsPacketQueue
