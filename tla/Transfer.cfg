\* A window of three and ten packets over eight sequence numbers: numbers are
\* reused while older copies are on their way, and two packets can wait in the
\* buffer of the receiver, on either side of the wrap.
SPECIFICATION Spec
CONSTANTS
  SeqMod = 8
  MAX_WINDOW_SIZE = 3
  FileLength = 9
  FwdCapacity = 2
  RevCapacity = 1
  Lifetime = 3
  Truncation = TRUE
  RETRANSMISSION_TIMER = 1
  SelectErrors = FALSE
  SendErrors = FALSE
  WriteErrors = FALSE
  ShortWrites = FALSE
  Errors = FALSE
  Impatient = TRUE
INVARIANT TypeOK
INVARIANT BufferOrdered
INVARIANT WindowBounded
INVARIANT FileIsPrefix
INVARIANT OnlyWrittenForgotten
INVARIANT DoneMeansDelivered
INVARIANT EofMeansDelivered
INVARIANT StaleRefused
INVARIANT NothingHeldBack
INVARIANT EofBranchesUnused
INVARIANT EofEndsReceiver
PROPERTY ImplementsFileTransfer
