\* Up to two pieces the sender loses track of, any number of failures of the
\* receiver, and short writes; no number is used twice, so that a datagram of
\* any age may arrive.
SPECIFICATION MemSpec
CONSTANTS
  SeqMod = 8
  MAX_WINDOW_SIZE = 2
  FileLength = 4
  FwdCapacity = 2
  RevCapacity = 1
  Lifetime = 4
  Truncation = FALSE
  RETRANSMISSION_TIMER = 1
  SelectErrors = FALSE
  SendErrors = FALSE
  WriteErrors = FALSE
  ShortWrites = TRUE
  Errors = FALSE
  Impatient = TRUE
  MaxDropped = 2
INVARIANT OutputIsNumberedFile
INVARIANT DoneAccounts
INVARIANT EofAccounts
