\* Calls fail, the receiver may time out at any time, and two acknowledgements
\* on their way may arrive in either order.
SPECIFICATION Spec
CONSTANTS
  SeqMod = 6
  MAX_WINDOW_SIZE = 2
  FileLength = 7
  FwdCapacity = 2
  RevCapacity = 2
  Lifetime = 2
  Truncation = TRUE
  RETRANSMISSION_TIMER = 1
  SelectErrors = TRUE
  SendErrors = TRUE
  WriteErrors = TRUE
  ShortWrites = FALSE
  Errors = TRUE
  Impatient = TRUE
INVARIANT IInv
