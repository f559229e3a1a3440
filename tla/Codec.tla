------------------------------- MODULE Codec --------------------------------
(***************************************************************************)
(* Packets on their way from one of the two programs to the other: encoded *)
(* by send_packet or send_ack, altered by link_sim, received in a buffer   *)
(* on the stack that still holds what was there before, and decoded.       *)
(***************************************************************************)
EXTENDS Packet

VARIABLES
  to,       \* the program that receives: "receiver" or "sender"
  sent,     \* the packet that was encoded last
  wire,     \* its datagram, or NoDatagram
  fate,     \* a ghost: "whole", "cut" or "inverted"
  arrived,  \* the datagram received last, or NoDatagram
  buffer,   \* the receive buffer after the header
  decoded   \* what pkt_decode made of it, or Refused

vars == <<to, sent, wire, fate, arrived, buffer, decoded>>

NoDatagram == [type |-> 0]
Refused == [type |-> 0]

(* Data packets go to the receiver.  To the sender go acknowledgements,    *)
(* and the last one, of type DATA.                                         *)
DataPackets ==
  {NewPacket(PTYPE_DATA, 0, s, t, x) :
     s \in 0 .. BYTE - 1, t \in Timestamps, x \in Payloads}
Answers ==
  {NewPacket(type, w, s, t, <<>>) :
     type \in {PTYPE_DATA, PTYPE_ACK, PTYPE_NACK}, w \in 1 .. MAX_WINDOW_SIZE,
     s \in 0 .. BYTE - 1, t \in Timestamps}
PacketsTo(program) == IF program = "receiver" THEN DataPackets ELSE Answers

Places == 1 .. MAX_PAYLOAD_SIZE + 1

Init ==
  /\ to \in {"receiver", "sender"}
  /\ sent \in PacketsTo(to)
  /\ wire = NoDatagram
  /\ fate = "whole"
  /\ arrived = NoDatagram
  /\ buffer = [i \in Places |-> Junk]
  /\ decoded = Refused

-----------------------------------------------------------------------------
(* send_packet or send_ack: a packet, new or sent again, is encoded.       *)
Send(p) ==
  /\ wire = NoDatagram
  /\ Room(p) >= EncodeTotal(p)
  /\ sent' = p
  /\ wire' = Encoded(p)
  /\ fate' = "whole"
  /\ arrived' = NoDatagram
  /\ decoded' = Refused
  /\ UNCHANGED <<to, buffer>>

(* simulate_link drops the datagram, cuts it or inverts a byte of it.      *)
Lose ==
  /\ wire # NoDatagram
  /\ wire' = NoDatagram
  /\ UNCHANGED <<to, sent, fate, arrived, buffer, decoded>>

Shorten ==
  /\ wire # NoDatagram
  /\ fate = "whole"
  /\ Size(wire) > 12
  /\ wire' = CutShort(wire)
  /\ fate' = "cut"
  /\ UNCHANGED <<to, sent, arrived, buffer, decoded>>

Invert ==
  /\ wire # NoDatagram
  /\ fate = "whole"
  /\ wire' \in WithInvertedByte(wire)
  /\ fate' = "inverted"
  /\ UNCHANGED <<to, sent, arrived, buffer, decoded>>

(* read_to_list_r and check_ack up to the checks that follow pkt_decode.   *)
(* The buffer is on the stack: calls in between may have written to it.    *)
Received(d, stale) ==
  [i \in Places |-> IF i \in DOMAIN d.body THEN d.body[i] ELSE stale[i]]

Taken(p) ==
  IF to = "receiver" THEN p.type = PTYPE_DATA ELSE p.tr = 0

ActsUpon(d, held) == Accepts(d, held) /\ Taken(Decoded(d, held))

Receive ==
  /\ wire # NoDatagram
  /\ wire' = NoDatagram
  /\ arrived' = wire
  /\ \E kept \in SUBSET Places :
       buffer' = Received(wire,
                   [i \in Places |-> IF i \in kept THEN buffer[i] ELSE Junk])
  /\ \/ /\ ActsUpon(wire, buffer')
        /\ decoded' = Decoded(wire, buffer')
     \/ /\ ActsUpon(wire, buffer') => Length(wire) # 0  \* malloc() fails
        /\ decoded' = Refused
  /\ UNCHANGED <<to, sent, fate>>

Next ==
  \/ \E p \in PacketsTo(to) : Send(p)
  \/ Lose \/ Shorten \/ Invert \/ Receive

Spec == Init /\ [][Next]_vars

-----------------------------------------------------------------------------
(* pkt_encode writes no more than the buffer its caller made, although it  *)
(* makes sure of four bytes less.                                          *)
EncodedFits == wire # NoDatagram => Size(wire) <= Room(sent)

(* A packet that arrives as it was sent is accepted, whatever the buffer   *)
(* held before, by this codec and by the one of the course, unless there   *)
(* is no memory for its payload.                                           *)
WholeIsAccepted ==
  arrived # NoDatagram /\ fate = "whole" =>
    /\ ActsUpon(arrived, buffer)
    /\ CorrectionAccepts(arrived)

(* What a program acts upon was sent to it: no inverted byte is overlooked *)
(* and, but for tr, a packet is decoded to what was encoded.  Only the     *)
(* payload of a truncated packet may be another one.                       *)
AcceptedWasSent ==
  decoded # Refused =>
    /\ fate # "inverted"
    /\ \A field \in DOMAIN sent \ {"tr", "payload"} :
         decoded[field] = sent[field]
    /\ decoded.tr = 0 => decoded = sent

(* What packet_implement.h says pkt_decode verifies: the type, the CRC of  *)
(* the header, that of the payload if there is one, and that length and tr *)
(* agree with the number of bytes received.                                *)
Documented(d) ==
  /\ TypeAccepted(d)
  /\ Length(d) <= MAX_PAYLOAD_SIZE
  /\ d.crc1 = HeaderCrc(d)
  /\ IF d.tr = 1 \/ Length(d) = 0
     THEN d.body = <<>>
     ELSE /\ Len(d.body) = Length(d) + 1
          /\ d.body[Len(d.body)] = Crc(ReceivedPayload(d))

(* pkt_decode accepts the datagrams it is documented to accept, a cut one  *)
(* included, which the receiver answers with a NACK.  It does not: it      *)
(* looks for the payload that was cut off, and takes what the buffer still *)
(* holds for it.                                                           *)
DecodesAsDocumented ==
  arrived # NoDatagram => (Accepts(arrived, buffer) <=> Documented(arrived))

(* The two codecs accept the same datagrams, truncated ones and lengths    *)
(* that are too large aside.                                               *)
CodecsAgree ==
  /\ arrived # NoDatagram
  /\ arrived.tr = 0
  /\ Length(arrived) <= MAX_PAYLOAD_SIZE
  => (Accepts(arrived, buffer) <=> CorrectionAccepts(arrived))

=============================================================================
