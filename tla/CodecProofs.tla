----------------------------- MODULE CodecProofs ----------------------------
(***************************************************************************)
(* The codec for every size of a byte and of a payload: a packet that      *)
(* arrives as it was sent is decoded to itself, and one with an inverted   *)
(* byte is refused, whatever the receive buffer held before.               *)
(***************************************************************************)
EXTENDS Codec, TLAPS

Lengths == 0 .. (BYTE * BYTE) - 1

(* n is its upper byte and its lower byte, and no other two bytes are.     *)
LEMMA TwoBytes ==
  \A n \in Lengths : /\ n \div BYTE \in 0 .. BYTE - 1
                     /\ n % BYTE \in 0 .. BYTE - 1
                     /\ n = (n \div BYTE) * BYTE + (n % BYTE)
<1> SUFFICES ASSUME NEW n \in Lengths
             PROVE  /\ n \div BYTE \in 0 .. BYTE - 1
                    /\ n % BYTE \in 0 .. BYTE - 1
                    /\ n = (n \div BYTE) * BYTE + (n % BYTE)
  OBVIOUS
<1> DEFINE q == n \div BYTE
           r == n % BYTE
<1>1. BYTE \in Nat /\ BYTE >= 2 /\ n \in Nat /\ n < BYTE * BYTE
  BY PacketAssumption DEF Lengths
<1>2. q \in Nat /\ r \in 0 .. BYTE - 1 /\ n = BYTE * q + r
  BY <1>1
<1> HIDE DEF q, r
<1>3. q < BYTE
  <2> SUFFICES ASSUME q >= BYTE PROVE FALSE
    BY <1>1, <1>2
  <2>1. BYTE * q >= BYTE * BYTE
    BY <1>1, <1>2
  <2> QED BY <1>1, <1>2, <2>1
<1> QED BY <1>1, <1>2, <1>3 DEF q, r

LEMMA Joined ==
  \A a, b \in 0 .. BYTE - 1 :
    /\ a * BYTE + b \in Lengths
    /\ (a * BYTE + b) \div BYTE = a
    /\ (a * BYTE + b) % BYTE = b
<1> SUFFICES ASSUME NEW a \in 0 .. BYTE - 1, NEW b \in 0 .. BYTE - 1
             PROVE  /\ a * BYTE + b \in Lengths
                    /\ (a * BYTE + b) \div BYTE = a
                    /\ (a * BYTE + b) % BYTE = b
  OBVIOUS
<1> DEFINE n == a * BYTE + b
           q == n \div BYTE
           r == n % BYTE
<1>1. BYTE \in Nat /\ BYTE >= 2 /\ a \in Nat /\ b \in Nat /\ a <= BYTE - 1
      /\ b <= BYTE - 1
  BY PacketAssumption
<1>2. n \in Nat /\ n < BYTE * BYTE
  <2>1. a * BYTE \in Nat /\ a * BYTE <= (BYTE - 1) * BYTE
    BY <1>1
  <2>2. (BYTE - 1) * BYTE = BYTE * BYTE - BYTE /\ BYTE * BYTE \in Nat
    BY <1>1
  <2> QED BY <1>1, <2>1, <2>2
<1> HIDE DEF n
<1>3. q \in Nat /\ r \in 0 .. BYTE - 1 /\ n = BYTE * q + r
  BY <1>1, <1>2
<1> HIDE DEF q, r
<1>4. BYTE * (q - a) = b - r
  BY <1>1, <1>2, <1>3 DEF n
<1>5. q = a
  <2>1. CASE q - a >= 1
    <3>1. BYTE * (q - a) >= BYTE
      BY <1>1, <1>3, <2>1
    <3> QED BY <1>1, <1>3, <1>4, <3>1
  <2>2. CASE q - a <= -1
    <3>1. BYTE * (q - a) <= -BYTE
      BY <1>1, <1>3, <2>2
    <3> QED BY <1>1, <1>3, <1>4, <3>1
  <2> QED BY <1>1, <1>3, <2>1, <2>2
<1>6. r = b
  BY <1>1, <1>3, <1>4, <1>5
<1> QED BY <1>1, <1>2, <1>5, <1>6 DEF n, q, r, Lengths

(* ntohs undoes htons.                                                     *)
LEMMA SwappedTwice ==
  ASSUME NEW n \in Lengths
  PROVE  Htons(n) \in Lengths /\ Ntohs(Htons(n)) = n
<1>1. /\ n % BYTE \in 0 .. BYTE - 1 /\ n \div BYTE \in 0 .. BYTE - 1
      /\ n = (n \div BYTE) * BYTE + (n % BYTE)
  BY TwoBytes
<1>2. /\ Htons(n) \in Lengths /\ Htons(n) \div BYTE = n % BYTE
      /\ Htons(n) % BYTE = n \div BYTE
  BY <1>1, Joined DEF Htons
<1> QED BY <1>1, <1>2 DEF Htons, Ntohs

(* An inverted byte is another byte, so a length with one is another       *)
(* length.                                                                 *)
LEMMA FlippedIsOther ==
  ASSUME NEW n \in 0 .. BYTE - 1
  PROVE  Flipped(n) \in 0 .. BYTE - 1 /\ Flipped(n) # n
<1>1. BYTE \in Nat /\ BYTE % 2 = 0
  BY PacketAssumption
<1>2. BYTE # 2 * n + 1
  BY <1>1
<1> QED BY <1>1, <1>2 DEF Flipped

LEMMA InvertedLengthIsOther ==
  ASSUME NEW n \in Lengths, NEW other \in InvertedLengths(n)
  PROVE  other # n /\ other \in Lengths
<1> DEFINE a == n \div BYTE
           b == n % BYTE
<1>1. a \in 0 .. BYTE - 1 /\ b \in 0 .. BYTE - 1 /\ n = a * BYTE + b
  BY TwoBytes
<1>2. other = a * BYTE + Flipped(b) \/ other = Flipped(a) * BYTE + b
  BY DEF InvertedLengths
<1> HIDE DEF a, b
<1>3. CASE other = a * BYTE + Flipped(b)
  <2>1. Flipped(b) \in 0 .. BYTE - 1 /\ Flipped(b) # b
    BY <1>1, FlippedIsOther
  <2>2. /\ other % BYTE = Flipped(b) /\ n % BYTE = b
        /\ other \in Lengths
    BY <1>1, <1>3, <2>1, Joined
  <2> QED BY <2>1, <2>2
<1>4. CASE other = Flipped(a) * BYTE + b
  <2>1. Flipped(a) \in 0 .. BYTE - 1 /\ Flipped(a) # a
    BY <1>1, FlippedIsOther
  <2>2. /\ other \div BYTE = Flipped(a) /\ n \div BYTE = a
        /\ other \in Lengths
    BY <1>1, <1>4, <2>1, Joined
  <2> QED BY <2>1, <2>2
<1> QED BY <1>2, <1>3, <1>4

-----------------------------------------------------------------------------
(* The packets the programs send.                                          *)
IsPacket(p) ==
  /\ p = [type |-> p.type, tr |-> 0, window |-> p.window,
          seqnum |-> p.seqnum, length |-> p.length,
          timestamp |-> p.timestamp, payload |-> p.payload]
  /\ p.type \in {PTYPE_DATA, PTYPE_ACK, PTYPE_NACK}
  /\ p.seqnum \in 0 .. BYTE - 1
  /\ p.length \in 0 .. MAX_PAYLOAD_SIZE
  /\ p.payload \in [1 .. p.length -> Bytes]

(* A receive buffer into which the datagram d was read.                    *)
Holds(buf, d) == \A i \in DOMAIN d.body : buf[i] = d.body[i]

LEMMA SentArePackets ==
  ASSUME NEW program \in {"receiver", "sender"}, NEW p \in PacketsTo(program)
  PROVE  /\ IsPacket(p)
         /\ program = "receiver" => p.type = PTYPE_DATA
<1>0. MAX_PAYLOAD_SIZE \in Nat
  BY PacketAssumption
<1>1. CASE program = "receiver"
  <2>1. PICK s \in 0 .. BYTE - 1, t \in Timestamps, x \in Payloads :
          p = NewPacket(PTYPE_DATA, 0, s, t, x)
    BY <1>1 DEF PacketsTo, DataPackets
  <2>2. PICK n \in 0 .. MAX_PAYLOAD_SIZE : x \in [1 .. n -> Bytes]
    BY DEF Payloads
  <2>3. Len(x) = n
    BY <1>0, <2>2
  <2> QED BY <2>1, <2>2, <2>3 DEF NewPacket, IsPacket
<1>2. CASE program = "sender"
  <2>1. PICK type \in {PTYPE_DATA, PTYPE_ACK, PTYPE_NACK},
             w \in 1 .. MAX_WINDOW_SIZE, s \in 0 .. BYTE - 1, t \in Timestamps :
          p = NewPacket(type, w, s, t, <<>>)
    BY <1>2 DEF PacketsTo, Answers
  <2>2. Len(<<>>) = 0 /\ <<>> \in [1 .. 0 -> Bytes]
    OBVIOUS
  <2> QED BY <1>0, <1>2, <2>1, <2>2 DEF NewPacket, IsPacket
<1> QED BY <1>1, <1>2

LEMMA LengthSent ==
  ASSUME NEW p, IsPacket(p)
  PROVE  /\ p.length \in Lengths
         /\ Length(Encoded(p)) = p.length
<1>1. p.length \in Lengths
  BY PacketAssumption DEF IsPacket, Lengths
<1> QED BY <1>1, SwappedTwice DEF Length, Encoded

(* The body of a packet with a payload, cell by cell.                      *)
LEMMA BodySent ==
  ASSUME NEW p, IsPacket(p), p.length # 0
  PROVE  /\ DOMAIN Encoded(p).body = 1 .. p.length + 1
         /\ \A i \in 1 .. p.length : Encoded(p).body[i] = p.payload[i]
         /\ Encoded(p).body[p.length + 1] = Crc(p.payload)
<1>1. p.payload \in Seq(Bytes) /\ Len(p.payload) = p.length /\ p.length \in Nat
  BY PacketAssumption DEF IsPacket
<1>2. Encoded(p).body = Append(p.payload, Crc(p.payload))
  BY DEF Encoded, Body
<1> QED BY <1>1, <1>2

-----------------------------------------------------------------------------
(* A receive buffer, and what is read at its beginning.                    *)
IsBuffer(buf) == buf = [i \in Places |-> buf[i]]

LEMMA Beginning ==
  ASSUME NEW buf, IsBuffer(buf), NEW n \in 0 .. MAX_PAYLOAD_SIZE
  PROVE  SubSeq(buf, 1, n) = [i \in 1 .. n |-> buf[i]]
<1> DEFINE Cells == {buf[i] : i \in Places}
<1>1. MAX_PAYLOAD_SIZE \in Nat
  BY PacketAssumption
<1>2. buf \in [1 .. MAX_PAYLOAD_SIZE + 1 -> Cells]
  BY DEF IsBuffer, Places
<1>3. buf \in Seq(Cells) /\ Len(buf) = MAX_PAYLOAD_SIZE + 1
  BY <1>1, <1>2
<1> HIDE DEF Cells
<1> QED BY <1>1, <1>3

(* What is read back from a buffer that holds a packet's datagram.         *)
LEMMA PayloadHeld ==
  ASSUME NEW p, IsPacket(p), NEW buf, IsBuffer(buf), Holds(buf, Encoded(p))
  PROVE  /\ SubSeq(buf, 1, p.length) = p.payload
         /\ p.length # 0 => buf[p.length + 1] = Crc(p.payload)
<1>1. p.length \in 0 .. MAX_PAYLOAD_SIZE /\ p.payload \in [1 .. p.length -> Bytes]
  BY DEF IsPacket
<1>2. SubSeq(buf, 1, p.length) = [i \in 1 .. p.length |-> buf[i]]
  BY <1>1, Beginning
<1>3. CASE p.length = 0
  <2>1. SubSeq(buf, 1, p.length) = [i \in 1 .. 0 |-> buf[i]]
    BY <1>2, <1>3
  <2>2. [i \in 1 .. 0 |-> buf[i]] = p.payload
    BY <1>1, <1>3
  <2> QED BY <1>3, <2>1, <2>2
<1>4. CASE p.length # 0
  <2>1. /\ \A i \in 1 .. p.length : buf[i] = p.payload[i]
        /\ buf[p.length + 1] = Crc(p.payload)
    BY <1>1, <1>4, BodySent DEF Holds
  <2> QED BY <1>1, <1>2, <2>1
<1> QED BY <1>3, <1>4

(* A datagram that arrives as it was sent is decoded to its packet.        *)
LEMMA RoundTrip ==
  ASSUME NEW p, IsPacket(p), NEW buf, IsBuffer(buf), Holds(buf, Encoded(p))
  PROVE  Accepts(Encoded(p), buf) /\ Decoded(Encoded(p), buf) = p
<1>1. Length(Encoded(p)) = p.length /\ p.length \in 0 .. MAX_PAYLOAD_SIZE
  BY LengthSent DEF IsPacket
<1>2. PayloadIn(Encoded(p), buf) = p.payload
  BY <1>1, PayloadHeld DEF PayloadIn
<1>3. TypeAccepted(Encoded(p))
  BY DEF IsPacket, Encoded, TypeAccepted
<1>4. Encoded(p).crc1 = HeaderCrc(Encoded(p))
  BY DEF Encoded, HeaderCrc, Fields
<1>5. PayloadAccepted(Encoded(p), buf)
  BY <1>1, <1>2, PayloadHeld DEF PayloadAccepted
<1>6. Decoded(Encoded(p), buf) = p
  BY <1>1, <1>2 DEF Decoded, Encoded, IsPacket
<1> QED BY <1>1, <1>3, <1>4, <1>5, <1>6, PacketAssumption DEF Accepts

(* The codec of the course accepts it too.                                 *)
LEMMA CorrectionRoundTrip ==
  ASSUME NEW p, IsPacket(p)
  PROVE  CorrectionAccepts(Encoded(p))
<1> DEFINE d == Encoded(p)
<1>1. Length(d) = p.length /\ p.length \in Nat
  BY LengthSent, PacketAssumption DEF IsPacket
<1>2. /\ d.tr = 0
      /\ d.crc1 = HeaderCrc(d)
      /\ d.type \in {PTYPE_DATA, PTYPE_ACK, PTYPE_NACK}
      /\ d.body = Body(p)
  BY DEF IsPacket, Encoded, HeaderCrc, Fields
<1> HIDE DEF d
<1>3. CASE p.length = 0
  <2>1. d.body = <<>> /\ Len(d.body) = 0
    BY <1>2, <1>3 DEF Body
  <2>2. Len(d.body) # 1
    BY <2>1
  <2> QED BY <1>1, <1>2, <1>3, <2>1, <2>2, Zenon DEF CorrectionAccepts, d
<1>4. CASE p.length # 0
  <2>1. p.payload \in Seq(Bytes) /\ Len(p.payload) = p.length
    BY <1>1 DEF IsPacket
  <2>2. d.body = Append(p.payload, Crc(p.payload))
    BY <1>2, <1>4 DEF Body
  <2>3. /\ Len(d.body) = p.length + 1
        /\ d.body[Len(d.body)] = Crc(p.payload)
        /\ d.body # <<>>
    BY <1>1, <2>1, <2>2
  <2>4. ReceivedPayload(d) = p.payload
    <3> DEFINE Cells == Bytes \cup {Crc(p.payload)}
    <3>1. d.body \in Seq(Cells) /\ p.payload \in Seq(Cells)
      BY <2>1, <2>2
    <3> HIDE DEF Cells
    <3>2. SubSeq(d.body, 1, p.length) = [i \in 1 .. p.length |-> d.body[i]]
      BY <1>1, <2>3, <3>1
    <3>3. \A i \in 1 .. p.length : d.body[i] = p.payload[i]
      BY <1>1, <2>1, <2>2
    <3>4. p.payload = [i \in 1 .. p.length |-> p.payload[i]]
      BY DEF IsPacket
    <3>5. Len(d.body) - 1 = p.length
      BY <1>1, <2>3
    <3>6. SubSeq(d.body, 1, p.length) = p.payload
      BY <3>2, <3>3, <3>4
    <3> QED BY <3>5, <3>6 DEF ReceivedPayload
  <2>5. Len(d.body) # 1 /\ Length(d) = Len(d.body) - 1
    BY <1>1, <1>4, <2>3
  <2> QED BY <1>2, <2>3, <2>4, <2>5, Zenon DEF CorrectionAccepts, d
<1> QED BY <1>3, <1>4

-----------------------------------------------------------------------------
(* One inverted byte, wherever it is, makes a datagram that is refused.    *)
LEMMA OtherHeaderIsRefused ==
  ASSUME NEW p, NEW d, NEW buf, d.crc1 = Encoded(p).crc1,
         \/ d.type # p.type
         \/ d.seqnum # p.seqnum
         \/ d.length # Encoded(p).length
         \/ d.timestamp # p.timestamp
  PROVE  ~ Accepts(d, buf) /\ d.crc1 # HeaderCrc(d)
<1>1. <<d.type, d.window, d.seqnum, d.length, d.timestamp>> #
      <<p.type, p.window, p.seqnum, Htons(p.length), p.timestamp>>
  BY DEF Encoded
<1>2. d.crc1 =
        Crc(<<p.type, p.window, p.seqnum, Htons(p.length), p.timestamp>>)
  BY DEF Encoded, HeaderCrc, Fields
<1>3. d.crc1 # HeaderCrc(d)
  BY <1>1, <1>2 DEF HeaderCrc, Crc
<1> QED BY <1>3 DEF Accepts

(* The codec of the course compares the CRC with the bytes that arrived;   *)
(* these are the ones at the beginning of the buffer.                      *)
LEMMA InvertedBodyIsRefused ==
  ASSUME NEW p, IsPacket(p), p.length # 0, NEW i \in 1 .. p.length + 1,
         NEW buf, IsBuffer(buf),
         NEW d,
         d = [Encoded(p) EXCEPT !.body[i] = InvertedCell(@)],
         Holds(buf, d)
  PROVE  ~ Accepts(d, buf) /\ ~ CorrectionAccepts(d)
<1>1. /\ p.length \in 0 .. MAX_PAYLOAD_SIZE /\ p.length \in Nat
      /\ p.payload \in [1 .. p.length -> Bytes]
  BY PacketAssumption DEF IsPacket
<1>2. d.length = Encoded(p).length
      /\ d.body = [Encoded(p).body EXCEPT ![i] = InvertedCell(@)]
  BY DEF Encoded
<1>3. Length(d) = p.length
  BY <1>2, LengthSent DEF Length
<1>4. /\ DOMAIN d.body = 1 .. p.length + 1
      /\ d.body[i] = InvertedCell(Encoded(p).body[i])
      /\ \A j \in (1 .. p.length + 1) \ {i} : d.body[j] = Encoded(p).body[j]
  BY <1>2, BodySent
<1>5. \A j \in 1 .. p.length + 1 : buf[j] = d.body[j]
  BY <1>4 DEF Holds
<1>6. PayloadIn(d, buf) = [j \in 1 .. p.length |-> buf[j]]
  BY <1>1, <1>3, Beginning DEF PayloadIn
<1>7. buf[p.length + 1] # Crc(PayloadIn(d, buf))
  <2>1. CASE i = p.length + 1
    <3>1. buf[p.length + 1] = InvertedCell(Crc(p.payload))
      BY <1>1, <1>4, <1>5, <2>1, BodySent
    <3>2. InvertedCell(Crc(p.payload)) = <<"garbled">>
      BY DEF InvertedCell, Crc, Garbled
    <3>3. <<"garbled">> # Crc(PayloadIn(d, buf))
      BY DEF Crc
    <3> QED BY <3>1, <3>2, <3>3
  <2>2. CASE i \in 1 .. p.length
    <3>1. buf[p.length + 1] = Crc(p.payload)
      BY <1>1, <1>4, <1>5, <2>2, BodySent
    <3>2. buf[i] = InvertedCell(p.payload[i])
      BY <1>1, <1>4, <1>5, <2>2, BodySent
    <3>3. PICK n \in 0 .. BYTE - 1 : p.payload[i] = Byte(n)
      BY <1>1, <2>2 DEF Bytes
    <3>4. buf[i] = Byte(Flipped(n))
      BY <3>2, <3>3 DEF InvertedCell, Byte
    <3>5. Byte(Flipped(n)) # Byte(n)
      BY FlippedIsOther DEF Byte
    <3>6. PayloadIn(d, buf)[i] # p.payload[i]
      BY <1>6, <2>2, <3>3, <3>4, <3>5
    <3>7. Crc(PayloadIn(d, buf)) # Crc(p.payload)
      BY <3>6 DEF Crc
    <3> QED BY <3>1, <3>7
  <2> QED BY <1>1, <2>1, <2>2
<1>8. ~ CorrectionAccepts(d)
  <2> DEFINE n == p.length
             body == d.body
             Cells == {body[j] : j \in 1 .. n + 1}
  <2>1. body = [j \in 1 .. n + 1 |-> body[j]]
    <3>1. DOMAIN Encoded(p).body = 1 .. n + 1
      BY BodySent
    <3> QED BY <1>2, <3>1
  <2>2. body \in [1 .. n + 1 -> Cells] /\ n \in Nat
    BY <1>1, <2>1
  <2> HIDE DEF n, body, Cells
  <2>3. body \in Seq(Cells) /\ Len(body) = n + 1 /\ body # <<>>
    <3>1. body \in Seq(Cells) /\ Len(body) = n + 1
      BY <2>2
    <3> QED BY <2>2, <3>1
  <2>4. SubSeq(body, 1, n) = [j \in 1 .. n |-> body[j]]
    BY <2>2, <2>3
  <2>5. \A j \in 1 .. n : buf[j] = body[j]
    BY <1>5, <2>2 DEF n, body
  <2>6. PayloadIn(d, buf) = SubSeq(body, 1, n)
    BY <1>6, <2>4, <2>5 DEF n
  <2>7. ReceivedPayload(d) = PayloadIn(d, buf)
    <3>1. Len(body) - 1 = n
      BY <2>2, <2>3
    <3>2. ReceivedPayload(d) = SubSeq(body, 1, Len(body) - 1)
      BY DEF ReceivedPayload, body
    <3> QED BY <2>6, <3>1, <3>2
  <2>8. body[Len(body)] # Crc(ReceivedPayload(d))
    BY <1>5, <1>7, <2>2, <2>3, <2>7 DEF body, n
  <2>9. ~ (Length(d) > MAX_PAYLOAD_SIZE)
    BY <1>1, <1>3, PacketAssumption
  <2> QED BY <2>3, <2>8, <2>9 DEF CorrectionAccepts, body
<1> QED BY <1>3, <1>7, <1>8 DEF Accepts, PayloadAccepted, IsPacket

LEMMA InvertedIsRefused ==
  ASSUME NEW p, IsPacket(p), NEW d \in WithInvertedByte(Encoded(p)),
         NEW buf, IsBuffer(buf), Holds(buf, d)
  PROVE  /\ ~ Accepts(d, buf)
         /\ Length(d) <= MAX_PAYLOAD_SIZE => ~ CorrectionAccepts(d)
<1> DEFINE e == Encoded(p)
<1>1. \/ d = [e EXCEPT !.type = 3 - @, !.tr = 1 - @,
                       !.window = MAX_WINDOW_SIZE - @]
      \/ d = [e EXCEPT !.seqnum = Flipped(@)]
      \/ d = [e EXCEPT !.crc1 = Garbled]
      \/ \E n \in InvertedLengths(e.length) : d = [e EXCEPT !.length = n]
      \/ \E t \in Timestamps \ {e.timestamp} : d = [e EXCEPT !.timestamp = t]
      \/ \E i \in DOMAIN e.body : d = [e EXCEPT !.body[i] = InvertedCell(@)]
  BY DEF WithInvertedByte
<1>0. d.crc1 # HeaderCrc(d) =>
        ~ Accepts(d, buf) /\ (Length(d) <= MAX_PAYLOAD_SIZE => ~ CorrectionAccepts(d))
  <2>0. e.length \in Lengths
    <3>1. e.length = Htons(p.length)
      BY DEF Encoded
    <3> QED BY <3>1, LengthSent, SwappedTwice
  <2>1. d.length \in Lengths
    BY <1>1, <2>0, InvertedLengthIsOther DEF Encoded
  <2>2. Length(d) \in Int
    BY <2>1, SwappedTwice DEF Length, Ntohs, Lengths
  <2>3. Length(d) <= MAX_PAYLOAD_SIZE => ~ (Length(d) > MAX_PAYLOAD_SIZE)
    BY <2>2, PacketAssumption
  <2> QED BY <2>3 DEF Accepts, CorrectionAccepts
<1>2. CASE d = [e EXCEPT !.type = 3 - @, !.tr = 1 - @,
                         !.window = MAX_WINDOW_SIZE - @]
  <2>1. d.type = 3 - p.type /\ d.crc1 = e.crc1
    BY <1>2 DEF Encoded
  <2>2. d.type # p.type
    BY <2>1 DEF IsPacket, PTYPE_DATA, PTYPE_ACK, PTYPE_NACK
  <2> QED BY <1>0, <2>1, <2>2, OtherHeaderIsRefused
<1>3. CASE d = [e EXCEPT !.seqnum = Flipped(@)]
  <2>1. d.seqnum = Flipped(p.seqnum) /\ d.crc1 = e.crc1
    BY <1>3 DEF Encoded
  <2>2. d.seqnum # p.seqnum
    BY <2>1, FlippedIsOther DEF IsPacket
  <2> QED BY <1>0, <2>1, <2>2, OtherHeaderIsRefused
<1>4. CASE d = [e EXCEPT !.crc1 = Garbled]
  <2>1. d.crc1 = <<"garbled">>
    BY <1>4 DEF Encoded, Garbled
  <2>2. <<"garbled">> # HeaderCrc(d)
    BY DEF HeaderCrc, Crc
  <2> QED BY <1>0, <2>1, <2>2
<1>5. CASE \E n \in InvertedLengths(e.length) : d = [e EXCEPT !.length = n]
  <2>1. PICK n \in InvertedLengths(e.length) : d = [e EXCEPT !.length = n]
    BY <1>5
  <2>2. d.length = n /\ d.crc1 = e.crc1
    BY <2>1 DEF Encoded
  <2>3. e.length \in Lengths
    <3>1. e.length = Htons(p.length)
      BY DEF Encoded
    <3> QED BY <3>1, LengthSent, SwappedTwice
  <2>4. n # e.length
    BY <2>3, InvertedLengthIsOther
  <2> QED BY <1>0, <2>2, <2>4, OtherHeaderIsRefused
<1>6. CASE \E t \in Timestamps \ {e.timestamp} : d = [e EXCEPT !.timestamp = t]
  <2>1. PICK t \in Timestamps \ {e.timestamp} : d = [e EXCEPT !.timestamp = t]
    BY <1>6
  <2>2. d.timestamp = t /\ d.crc1 = e.crc1 /\ e.timestamp = p.timestamp
    BY <2>1 DEF Encoded
  <2>3. d.timestamp # p.timestamp
    BY <2>2
  <2> QED BY <1>0, <2>2, <2>3, OtherHeaderIsRefused
<1>7. CASE \E i \in DOMAIN e.body : d = [e EXCEPT !.body[i] = InvertedCell(@)]
  <2>1. PICK i \in DOMAIN e.body : d = [e EXCEPT !.body[i] = InvertedCell(@)]
    BY <1>7
  <2>2. p.length # 0
    <3> SUFFICES ASSUME p.length = 0 PROVE FALSE
      OBVIOUS
    <3>1. e.body = <<>>
      BY DEF Encoded, Body
    <3> QED BY <2>1, <3>1
  <2>3. i \in 1 .. p.length + 1
    BY <2>1, <2>2, BodySent
  <2> QED BY <2>1, <2>2, <2>3, InvertedBodyIsRefused
<1> QED BY <1>1, <1>2, <1>3, <1>4, <1>5, <1>6, <1>7

-----------------------------------------------------------------------------
(* The datagram on the wire, or received last, is that of the packet sent  *)
(* last, altered as fate says.                                             *)
Altered(d) ==
  /\ fate \in {"whole", "cut", "inverted"}
  /\ fate = "whole" => d = Encoded(sent)
  /\ fate = "cut" => d = CutShort(Encoded(sent)) /\ sent.length # 0
  /\ fate = "inverted" => d \in WithInvertedByte(Encoded(sent))

Sending == to \in {"receiver", "sender"} /\ sent \in PacketsTo(to)
OnTheWire == wire # NoDatagram => arrived = NoDatagram /\ Altered(wire)
InTheBuffer ==
  /\ IsBuffer(buffer)
  /\ arrived # NoDatagram => Altered(arrived) /\ Holds(buffer, arrived)
ActedUpon ==
  decoded # Refused =>
    /\ arrived # NoDatagram
    /\ ActsUpon(arrived, buffer)
    /\ decoded = Decoded(arrived, buffer)

CodecInv == Sending /\ OnTheWire /\ InTheBuffer /\ ActedUpon

(* Every alteration leaves room in the buffer, and in what was encoded.    *)
LEMMA BodyOfAltered ==
  ASSUME Sending, NEW d, Altered(d)
  PROVE  /\ DOMAIN d.body \subseteq Places
         /\ Size(d) <= Room(sent)
<1>1. IsPacket(sent) /\ sent.length \in 0 .. MAX_PAYLOAD_SIZE
      /\ MAX_PAYLOAD_SIZE \in Nat
  BY SentArePackets, PacketAssumption DEF Sending, IsPacket
<1> DEFINE body == Encoded(sent).body
<1>2. CASE sent.length = 0
  <2>1. body = <<>>
    BY <1>2 DEF Encoded, Body
  <2>2. d.body = <<>>
    <3>1. CASE fate = "inverted"
      <4>1. ~ \E i \in DOMAIN body : TRUE
        BY <2>1
      <4>2. d.body = body
        BY <3>1, <4>1 DEF Altered, WithInvertedByte, Encoded
      <4> QED BY <2>1, <4>2
    <3>2. CASE fate # "inverted"
      BY <2>1, <3>2 DEF Altered, CutShort, Encoded
    <3> QED BY <3>1, <3>2
  <2> QED BY <1>2, <2>2 DEF Size, Room
<1>3. CASE sent.length # 0
  <2>1. /\ DOMAIN body = 1 .. sent.length + 1
        /\ body = Append(sent.payload, Crc(sent.payload))
    BY <1>1, <1>3, BodySent DEF Encoded, Body
  <2>2. d.body = <<>> \/ (d.body = [i \in DOMAIN body |-> d.body[i]])
    <3>1. body = [i \in DOMAIN body |-> body[i]]
      BY <1>1, <2>1 DEF IsPacket
    <3>2. CASE fate = "inverted"
      <4>1. \/ d.body = body
            \/ \E i \in DOMAIN body : d.body = [body EXCEPT ![i] = InvertedCell(@)]
        BY <3>2 DEF Altered, WithInvertedByte, Encoded
      <4> QED BY <3>1, <4>1
    <3>3. CASE fate # "inverted"
      <4>1. d.body = body \/ d.body = <<>>
        BY <3>3 DEF Altered, CutShort, Encoded
      <4> QED BY <3>1, <4>1
    <3> QED BY <3>2, <3>3
  <2>3. CASE d.body = <<>>
    BY <1>1, <1>3, <2>3 DEF Size, Room
  <2>4. CASE d.body = [i \in DOMAIN body |-> d.body[i]]
    <3> DEFINE Cells == {d.body[i] : i \in DOMAIN body}
    <3>1. d.body \in [1 .. sent.length + 1 -> Cells]
      BY <2>1, <2>4
    <3>2. Len(d.body) = sent.length + 1 /\ DOMAIN d.body = 1 .. sent.length + 1
      BY <1>1, <3>1
    <3>3. DOMAIN d.body \subseteq Places
      BY <1>1, <3>2 DEF Places
    <3> QED BY <1>1, <1>3, <3>2, <3>3 DEF Size, Room
  <2> QED BY <2>2, <2>3, <2>4
<1> QED BY <1>2, <1>3

LEMMA CodecStart == Init => CodecInv
  BY DEF Init, CodecInv, Sending, OnTheWire, InTheBuffer, ActedUpon, IsBuffer

LEMMA CodecStep == CodecInv /\ [Next]_vars => CodecInv'
<1> SUFFICES ASSUME CodecInv, [Next]_vars PROVE CodecInv'
  OBVIOUS
<1> USE DEF CodecInv, Sending, OnTheWire, InTheBuffer, ActedUpon
<1>1. ASSUME NEW p \in PacketsTo(to), Send(p) PROVE CodecInv'
  BY <1>1 DEF Send, Altered
<1>2. ASSUME Lose PROVE CodecInv'
  BY <1>2 DEF Lose, Altered, ActsUpon, Taken
<1>3. ASSUME Shorten PROVE CodecInv'
  <2>1. wire = Encoded(sent) /\ wire' = CutShort(Encoded(sent))
    BY <1>3 DEF Shorten, Altered
  <2>2. sent.length # 0
    <3> SUFFICES ASSUME sent.length = 0 PROVE FALSE
      OBVIOUS
    <3>1. Encoded(sent).body = <<>>
      BY DEF Encoded, Body
    <3> QED BY <1>3, <2>1, <3>1 DEF Shorten, Size
  <2>3. Altered(wire)'
    BY <1>3, <2>1, <2>2 DEF Shorten, Altered
  <2> QED BY <1>3, <2>3 DEF Shorten
<1>4. ASSUME Invert PROVE CodecInv'
  <2>1. Altered(wire)'
    BY <1>4 DEF Invert, Altered
  <2> QED BY <1>4, <2>1 DEF Invert
<1>5. ASSUME Receive PROVE CodecInv'
  <2>1. Altered(wire) /\ DOMAIN wire.body \subseteq Places
    BY <1>5, BodyOfAltered DEF Receive
  <2>2. Altered(arrived)'
    BY <1>5, <2>1 DEF Receive, Altered
  <2>3. PICK kept \in SUBSET Places :
          buffer' = Received(wire,
                      [i \in Places |-> IF i \in kept THEN buffer[i] ELSE Junk])
    BY <1>5 DEF Receive
  <2>4. IsBuffer(buffer')
    BY <2>3 DEF IsBuffer, Received
  <2>5. Holds(buffer', wire)
    BY <2>1, <2>3 DEF Received, Holds
  <2>6. Sending' /\ OnTheWire'
    BY <1>5 DEF Receive
  <2>7. InTheBuffer'
    BY <1>5, <2>2, <2>4, <2>5 DEF Receive
  <2>8. ActedUpon'
    BY <1>5 DEF Receive, ActsUpon, Taken
  <2> QED BY <2>6, <2>7, <2>8
<1>6. ASSUME UNCHANGED vars PROVE CodecInv'
  BY <1>6 DEF vars, Altered, ActsUpon, Taken
<1> QED BY <1>1, <1>2, <1>3, <1>4, <1>5, <1>6 DEF Next

(* What is on the wire, and what arrived last, is the packet that was      *)
(* encoded last, whole, cut or with one byte inverted.                     *)
THEOREM CodecInvariant == Spec => []CodecInv
  BY CodecStart, CodecStep, PTL DEF Spec

(* EncodedFits: pkt_encode, which asks for four bytes less than it writes, *)
(* stays in the buffer its caller made, for every packet of the programs.  *)
THEOREM EncodingFits == Spec => []EncodedFits
<1>1. CodecInv => EncodedFits
  BY BodyOfAltered DEF CodecInv, OnTheWire, EncodedFits
<1> QED BY <1>1, CodecInvariant, PTL

(* WholeIsAccepted: what arrives as it was sent is taken, by the two       *)
(* codecs, whatever was in the buffer before.                              *)
THEOREM WholePacketsAreTaken == Spec => []WholeIsAccepted
<1>1. ASSUME CodecInv, arrived # NoDatagram, fate = "whole"
      PROVE  ActsUpon(arrived, buffer) /\ CorrectionAccepts(arrived)
  <2>1. arrived = Encoded(sent) /\ IsBuffer(buffer) /\ Holds(buffer, arrived)
    BY <1>1 DEF CodecInv, InTheBuffer, Altered
  <2>2. IsPacket(sent) /\ (to = "receiver" => sent.type = PTYPE_DATA)
    BY <1>1, SentArePackets DEF CodecInv, Sending
  <2>3. Accepts(arrived, buffer) /\ Decoded(arrived, buffer) = sent
    BY <2>1, <2>2, RoundTrip
  <2>4. Taken(sent)
    BY <2>2 DEF Taken, IsPacket
  <2> QED BY <2>1, <2>2, <2>3, <2>4, CorrectionRoundTrip DEF ActsUpon
<1> QED BY <1>1, CodecInvariant, PTL DEF WholeIsAccepted

(* CodecsAgree: of the datagrams the link makes of what the programs send, *)
(* truncated ones and lengths that are too large aside, the codec of the   *)
(* course accepts exactly those this one accepts: the ones left as sent.   *)
THEOREM CodecsAgreeOnWhole == Spec => []CodecsAgree
<1>1. ASSUME CodecInv, arrived # NoDatagram, arrived.tr = 0,
             Length(arrived) <= MAX_PAYLOAD_SIZE
      PROVE  Accepts(arrived, buffer) <=> CorrectionAccepts(arrived)
  <2>1. Altered(arrived) /\ IsBuffer(buffer) /\ Holds(buffer, arrived)
    BY <1>1 DEF CodecInv, InTheBuffer
  <2>2. IsPacket(sent)
    BY <1>1, SentArePackets DEF CodecInv, Sending
  <2>3. CASE fate = "whole"
    <3>1. arrived = Encoded(sent)
      BY <2>1, <2>3 DEF Altered
    <3>2. Accepts(arrived, buffer)
      BY <2>1, <2>2, <3>1, RoundTrip
    <3>3. CorrectionAccepts(arrived)
      BY <2>2, <3>1, CorrectionRoundTrip
    <3> QED BY <3>2, <3>3
  <2>4. CASE fate = "cut"
    <3>1. arrived.tr = 1
      BY <2>1, <2>4 DEF Altered, CutShort, Encoded
    <3> QED BY <1>1, <3>1
  <2>5. CASE fate = "inverted"
    <3>1. arrived \in WithInvertedByte(Encoded(sent))
      BY <2>1, <2>5 DEF Altered
    <3> QED BY <1>1, <2>1, <2>2, <3>1, InvertedIsRefused
  <2> QED BY <2>1, <2>3, <2>4, <2>5 DEF Altered
<1> QED BY <1>1, CodecInvariant, PTL DEF CodecsAgree

(* AcceptedWasSent: a packet a program acts upon is the one that was sent, *)
(* but for tr and, if tr is set, for its payload.                          *)
THEOREM TakenPacketsWereSent == Spec => []AcceptedWasSent
<1>1. ASSUME CodecInv, decoded # Refused
      PROVE  /\ fate # "inverted"
             /\ \A field \in DOMAIN sent \ {"tr", "payload"} :
                  decoded[field] = sent[field]
             /\ decoded.tr = 0 => decoded = sent
  <2>1. /\ Altered(arrived) /\ IsBuffer(buffer) /\ Holds(buffer, arrived)
        /\ Accepts(arrived, buffer) /\ decoded = Decoded(arrived, buffer)
    BY <1>1 DEF CodecInv, InTheBuffer, ActedUpon, ActsUpon
  <2>2. IsPacket(sent)
    BY <1>1, SentArePackets DEF CodecInv, Sending
  <2>3. fate # "inverted"
    BY <2>1, <2>2, InvertedIsRefused DEF Altered
  <2>4. CASE fate = "whole"
    <3>1. decoded = sent
      BY <2>1, <2>2, <2>4, RoundTrip DEF Altered
    <3> QED BY <2>3, <3>1
  <2>5. CASE fate = "cut"
    <3>1. arrived = CutShort(Encoded(sent))
      BY <2>1, <2>5 DEF Altered
    <3>2. Length(arrived) = sent.length
      BY <2>2, <3>1, LengthSent DEF Length, CutShort, Encoded
    <3>3. decoded = [type |-> sent.type, tr |-> 1, window |-> sent.window,
                     seqnum |-> sent.seqnum, length |-> sent.length,
                     timestamp |-> sent.timestamp,
                     payload |-> PayloadIn(arrived, buffer)]
      BY <2>1, <3>1, <3>2 DEF Decoded, CutShort, Encoded
    <3>4. DOMAIN sent = {"type", "tr", "window", "seqnum", "length",
                         "timestamp", "payload"}
      BY <2>2 DEF IsPacket
    <3> QED BY <2>3, <3>3, <3>4
  <2> QED BY <2>1, <2>3, <2>4, <2>5 DEF Altered
<1> QED BY <1>1, CodecInvariant, PTL DEF AcceptedWasSent

=============================================================================
