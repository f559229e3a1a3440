-------------------------------- MODULE Link --------------------------------
(***************************************************************************)
(* The path between the two programs: two UDP sockets, with link_sim as a  *)
(* proxy between them or without it.  A channel is the set of datagrams    *)
(* that may still arrive.  A datagram that is sent is lost, arrives as it  *)
(* is, arrives truncated, or several of these; any datagram of the set may *)
(* be the next to arrive (reordering) and may stay in the set when it does *)
(* (duplication: the sender retransmits, and UDP may duplicate).  A        *)
(* corrupted datagram is refused by pkt_decode without any effect: it is a *)
(* lost one.                                                               *)
(***************************************************************************)
EXTENDS SeqNum, FiniteSets

CONSTANTS
  FileLength,   \* how many times read() returns data before it returns 0
  FwdCapacity,  \* bound: datagrams on their way to the receiver
  RevCapacity,  \* bound: datagrams on their way to the sender
  Lifetime,     \* a datagram cannot be overtaken by more pieces than this
  Truncation    \* whether link_sim is started with a cut rate

(* A datagram lives at most Lifetime pieces.  Sequence numbers are reused  *)
(* after SeqMod pieces, so a protocol of this kind needs the bound; it is  *)
(* 223 for the real 256 and 31, and it leaves a whole window in flight.    *)
ASSUME LinkAssumption ==
  /\ FileLength \in Nat
  /\ FwdCapacity \in Nat
  /\ RevCapacity \in Nat
  /\ Lifetime \in MAX_WINDOW_SIZE .. SeqMod - MAX_WINDOW_SIZE - 2
  /\ Truncation \in BOOLEAN

(* The pieces of the file, numbered in the order the sender reads them.    *)
(* Piece FileLength is the empty one: read() returned 0, the end of file.  *)
Pieces == 0 .. FileLength
EmptyPiece == FileLength

(* pos is a ghost: in a DATA packet it stands for the payload (the piece   *)
(* carried), in an acknowledgement for the number of pieces the receiver   *)
(* had written when it sent it.  No guard of the two programs reads the    *)
(* pos of an acknowledgement.                                              *)
DataPackets == [seqnum : SeqNums, pos : Pieces, tr : {0, 1}]
AckPackets  == [type : {"ACK", "NACK", "DATA"}, seqnum : SeqNums,
                window : Windows, pos : 0 .. FileLength + 1]

VARIABLES fwd,  \* datagrams that may arrive at the receiver
          rev   \* datagrams that may arrive at the sender

linkVars == <<fwd, rev>>

LinkInit == fwd = {} /\ rev = {}

(* simulate_link cuts a datagram only if it is longer than its 12-byte     *)
(* header, so neither the empty packet nor an acknowledgement: it sets tr  *)
(* and leaves the length field as it was.                                  *)
Cut(m) == [seqnum |-> m.seqnum, pos |-> m.pos, tr |-> 1]
Outcomes(ms) ==
  ms \cup {Cut(m) : m \in {d \in ms : Truncation /\ d.pos # EmptyPiece}}

(* The datagrams still alive once the sender has read as far as offset.    *)
Live(channel, offset) == {m \in channel : m.pos + Lifetime >= offset}

(* What a channel may hold after the datagrams ms were handed to it:       *)
(* anything, old or new, may have been lost meanwhile.                     *)
Carry(channel, ms, capacity) ==
  {c \in SUBSET (channel \cup ms) : Cardinality(c) <= capacity}

FwdAfter(channel, ms) == Carry(channel, Outcomes(ms), FwdCapacity)
RevAfter(channel, ms) == Carry(channel, ms, RevCapacity)

(* A datagram arrives, and may arrive again.                               *)
Deliver(channel, m) == {channel, channel \ {m}}

=============================================================================
