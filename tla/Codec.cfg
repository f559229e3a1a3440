\* Bytes of two values, payloads of up to two bytes: a length of 3 is too
\* large, and 1 and 2 differ only by their byte order.
SPECIFICATION Spec
CONSTANTS
  BYTE = 2
  MAX_PAYLOAD_SIZE = 2
  MAX_WINDOW_SIZE = 1
  Timestamps = {0, 1}
INVARIANT EncodedFits
INVARIANT WholeIsAccepted
INVARIANT AcceptedWasSent
INVARIANT CodecsAgree
