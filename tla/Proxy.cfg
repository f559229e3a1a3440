\* A sender, the same one started again on another port, a stranger, and a
\* proxy that may be started again once.
SPECIFICATION Spec
CONSTANTS
  Senders = {s1, s2}
  Strangers = {x}
  dest_addr = r
  NoAddr = none
  InboxBound = 3
  QueueBound = 2
  RestartBound = 1
INVARIANT PrivateLine
INVARIANT NoEcho
PROPERTY AnswersRelayed
