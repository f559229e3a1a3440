\* A second of three ticks, delays below and above it, jitter that wraps around
\* zero, up to three datagrams in the queue.
SPECIFICATION Spec
CONSTANTS
  SECOND = 3
  MS = 1
  DELAY_CAP = 5
  UINT = 64
  DelayOptions = {1, 4}
  JitterOptions = {0, 3}
  WriteErrors = TRUE
  QueueBound = 3
  TimeBound = 5
INVARIANT NoneOverdue
INVARIANT LessThanASecondEarly
INVARIANT NoJitterKeepsOrder
INVARIANT NoJitterWakesInTime
INVARIANT HeldBelowCap
PROPERTY LeavesBySending
