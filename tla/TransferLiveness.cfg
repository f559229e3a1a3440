\* A file longer than the sequence numbers with two packets in flight: packet 6
\* has number 0 and may arrive while number 5 is waited for.
SPECIFICATION FairSpec
CONSTANTS
  SeqMod = 6
  MAX_WINDOW_SIZE = 2
  FileLength = 7
  FwdCapacity = 1
  RevCapacity = 1
  Lifetime = 2
  Truncation = TRUE
  RETRANSMISSION_TIMER = 1
  SelectErrors = FALSE
  SendErrors = TRUE
  WriteErrors = TRUE
  ShortWrites = FALSE
  Errors = FALSE
  Impatient = FALSE
PROPERTY TransferCompletes
