\* The codec of Codec.cfg against what packet_implement.h says of pkt_decode.
SPECIFICATION Spec
CONSTANTS
  BYTE = 2
  MAX_PAYLOAD_SIZE = 2
  MAX_WINDOW_SIZE = 1
  Timestamps = {0, 1}
INVARIANT DecodesAsDocumented
