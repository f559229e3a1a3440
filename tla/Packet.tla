------------------------------- MODULE Packet -------------------------------
(***************************************************************************)
(* packet_implement.c: packets, and the datagrams pkt_encode makes of them *)
(* and pkt_decode reads.                                                   *)
(*                                                                         *)
(* A datagram is its header, field by field, and its body: the bytes after *)
(* the header.  A CRC is ideal, and one cell of the body: two CRCs are the *)
(* same only if they were computed over the same bytes (CRC-32 is exact    *)
(* for one inverted byte).  htonl and ntohl of a CRC are left out.         *)
(***************************************************************************)
EXTENDS Integers, Sequences

CONSTANTS
  BYTE,              \* how many values a byte has (256)
  MAX_PAYLOAD_SIZE,  \* in bytes (512)
  MAX_WINDOW_SIZE,   \* 31: all the bits of the window field
  Timestamps         \* bound: the clock values that are told apart

ASSUME PacketAssumption ==
  /\ BYTE \in Nat \ {0, 1}
  /\ BYTE % 2 = 0             \* no byte is its own inverse
  /\ MAX_PAYLOAD_SIZE \in Nat
  /\ MAX_PAYLOAD_SIZE < BYTE * BYTE
  /\ MAX_WINDOW_SIZE \in Nat

PTYPE_DATA == 1
PTYPE_ACK  == 2
PTYPE_NACK == 3

(* The cells of a body: a byte of the payload, a CRC, a CRC of which a     *)
(* byte is inverted, and whatever else a buffer holds.                     *)
Byte(n) == <<"byte", n>>
Bytes == {Byte(n) : n \in 0 .. BYTE - 1}
Crc(x) == <<"crc", x>>
Garbled == <<"garbled">>
Junk == <<"junk">>

(* htons, and ntohs: the two bytes of a length change places.              *)
Htons(n) == ((n % BYTE) * BYTE) + (n \div BYTE)
Ntohs(n) == Htons(n)

Payloads == UNION {[1 .. n -> Bytes] : n \in 0 .. MAX_PAYLOAD_SIZE}

(* A packet as the setters leave it: set_payload keeps length and payload  *)
(* together, and no program sends one with tr set.                         *)
NewPacket(type, window, seqnum, timestamp, payload) ==
  [type |-> type, tr |-> 0, window |-> window, seqnum |-> seqnum,
   length |-> Len(payload), timestamp |-> timestamp, payload |-> payload]

-----------------------------------------------------------------------------
(* crc1 covers the header as it is sent, with tr set to 0.                 *)
HeaderCrc(d) ==
  Crc(<<d.type, d.window, d.seqnum, d.length, d.timestamp>>)

(* pkt_encode.  A packet without payload has no second CRC.                *)
Body_Slip(p) == Append(p.payload, Crc(p.payload))
Body(p) ==
  IF p.length = 0 THEN <<>> ELSE Append(p.payload, Crc(p.payload))
Fields_Slip(p) ==
  [type |-> p.type, tr |-> p.tr, window |-> p.window, seqnum |-> p.seqnum,
   length |-> p.length, timestamp |-> p.timestamp]
Fields(p) ==
  [type |-> p.type, tr |-> p.tr, window |-> p.window, seqnum |-> p.seqnum,
   length |-> Htons(p.length), timestamp |-> p.timestamp]
Encoded(p) ==
  [type |-> p.type, tr |-> p.tr, window |-> p.window, seqnum |-> p.seqnum,
   length |-> Htons(p.length), timestamp |-> p.timestamp,
   crc1 |-> HeaderCrc(Fields(p)), body |-> Body(p)]

(* The bytes it writes, and those it makes sure of: the second CRC is not  *)
(* among them, for crc2 is 0 in every packet the programs encode.          *)
Size(d) == 12 + (IF d.body = <<>> THEN 0 ELSE Len(d.body) + 3)
EncodeTotal(p) == 12 + p.length

(* The buffer send_packet and send_ack make for it.                        *)
Room_Slip(p) == 12 + p.length
Room(p) == 12 + (IF p.length # 0 THEN p.length + 4 ELSE 0)

-----------------------------------------------------------------------------
(* pkt_decode of a datagram d at the beginning of a buffer that holds      *)
(* buffer after the header.  It does not ask how much was received: it     *)
(* reads as many bytes as the length field says.                           *)
Length(d) == Ntohs(d.length)
PayloadIn(d, buffer) == SubSeq(buffer, 1, Length(d))

TypeAccepted(d) ==
  /\ d.type \in {PTYPE_DATA, PTYPE_ACK, PTYPE_NACK}
  /\ d.tr = 1 => d.type = PTYPE_DATA

PayloadAccepted(d, buffer) ==
  Length(d) # 0 =>
    buffer[Length(d) + 1] = Crc(PayloadIn(d, buffer))

Accepts_Slip(d, buffer) ==
  TypeAccepted(d) /\ Length(d) <= MAX_PAYLOAD_SIZE /\ PayloadAccepted(d, buffer)
Accepts(d, buffer) ==
  /\ TypeAccepted(d)
  /\ Length(d) <= MAX_PAYLOAD_SIZE
  /\ d.crc1 = HeaderCrc(d)
  /\ PayloadAccepted(d, buffer)

Decoded(d, buffer) ==
  [type |-> d.type, tr |-> d.tr, window |-> d.window, seqnum |-> d.seqnum,
   length |-> Length(d), timestamp |-> d.timestamp,
   payload |-> PayloadIn(d, buffer)]

-----------------------------------------------------------------------------
(* pkt_decode of inginious/format_segment/correction.c, the codec another  *)
(* program may use.  It knows how much was received, refuses a truncated   *)
(* packet, and for a length that is too large it returns 0, that is PKT_OK.*)
ReceivedPayload(d) == SubSeq(d.body, 1, Len(d.body) - 1)
CorrectionAccepts(d) ==
  /\ Len(d.body) # 1
  /\ d.tr = 0
  /\ \/ Length(d) > MAX_PAYLOAD_SIZE
     \/ /\ d.crc1 = HeaderCrc(d)
        /\ Length(d) = (IF d.body = <<>> THEN 0 ELSE Len(d.body) - 1)
        /\ d.type \in {PTYPE_DATA, PTYPE_ACK, PTYPE_NACK}
        /\ d.body # <<>> => d.body[Len(d.body)] = Crc(ReceivedPayload(d))

-----------------------------------------------------------------------------
(* What simulate_link of link_sim.c does to the bytes of a datagram.       *)

(* It cuts it after the header, if it is longer, and sets tr.              *)
CutShort(d) == [d EXCEPT !.tr = 1, !.body = <<>>]

(* Or it inverts one byte of it.  The first one holds type, tr and window. *)
Flipped(n) == BYTE - 1 - n
InvertedLengths(n) ==
  {((n \div BYTE) * BYTE) + Flipped(n % BYTE),
   (Flipped(n \div BYTE) * BYTE) + (n % BYTE)}
InvertedCell(c) == IF c[1] = "byte" THEN Byte(Flipped(c[2])) ELSE Garbled

WithInvertedByte(d) ==
  {[d EXCEPT !.type = 3 - @, !.tr = 1 - @, !.window = MAX_WINDOW_SIZE - @],
   [d EXCEPT !.seqnum = Flipped(@)],
   [d EXCEPT !.crc1 = Garbled]} \cup
  {[d EXCEPT !.length = n] : n \in InvertedLengths(d.length)} \cup
  {[d EXCEPT !.timestamp = t] : t \in Timestamps \ {d.timestamp}} \cup
  {[d EXCEPT !.body[i] = InvertedCell(@)] : i \in DOMAIN d.body}

=============================================================================
