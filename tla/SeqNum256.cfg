SPECIFICATION PairSpec
CONSTANTS
  SeqMod = 256
  MAX_WINDOW_SIZE = 31
  WindowSample = {1, 2, 16, 31}
INVARIANTS AckCoversExactly ReceiverWindow SenderWindow OrderOfTheFile
CHECK_DEADLOCK FALSE
