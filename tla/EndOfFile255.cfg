\* The end-of-file packet gets the last sequence number.
SPECIFICATION Spec
CONSTANTS
  SeqMod = 6
  MAX_WINDOW_SIZE = 2
  FileLength = 5
  FwdCapacity = 2
  RevCapacity = 1
  Lifetime = 2
  Truncation = TRUE
  RETRANSMISSION_TIMER = 1
  SelectErrors = FALSE
  SendErrors = FALSE
  WriteErrors = FALSE
  ShortWrites = FALSE
  Errors = FALSE
  Impatient = FALSE
INVARIANT EofEndsReceiver
