------------------------------ MODULE Receiver ------------------------------
(***************************************************************************)
(* receiver.c.  wait_for_client, then a select() loop: each iteration      *)
(* handles one datagram (read_to_list_r), and 20 seconds without one end   *)
(* the program.  Each action below is one whole iteration.                 *)
(***************************************************************************)
EXTENDS Link, PacketOrder

CONSTANTS
  WriteErrors,   \* whether write() on the output file may return -1
  ShortWrites,   \* whether write() may write less than it was given
  Errors         \* whether select(), recvfrom() or connect() may fail

ASSUME ReceiverAssumption ==
  /\ WriteErrors \in BOOLEAN
  /\ ShortWrites \in BOOLEAN
  /\ Errors \in BOOLEAN

VARIABLES
  waited_seqnum,  \* the number of the next packet to write
  r_window,       \* window_size: the window it advertises
  rlist,          \* the packets received ahead of sequence, in order
  output,         \* what write() put in the output file, one item a call
  rstate          \* "wait" for a client, "run", or how the program ended:
                  \* "eof", "timeout", "noclient", "error"

rcvVars == <<waited_seqnum, r_window, rlist, output, rstate>>

BufferedPackets == [seqnum : SeqNums, pos : Pieces]

(* What a short write leaves of a piece.                                   *)
Torn == -1

RcvInit ==
  /\ waited_seqnum = 0
  /\ r_window = 1
  /\ rlist = <<>>
  /\ output = <<>>
  /\ rstate = "wait"

-----------------------------------------------------------------------------
(* window_add, after n packets written in sequence, and window_divide.     *)
WindowAdd(n) ==
  IF r_window + n <= MAX_WINDOW_SIZE THEN r_window + n ELSE MAX_WINDOW_SIZE
WindowDivide_Slip == r_window \div 2
WindowDivide == IF r_window > 1 THEN r_window \div 2 ELSE r_window

(* create_ack and send_ack.  written is the ghost pos of the datagram.     *)
Ack(type, s, window, written) ==
  [type |-> type, seqnum |-> s, window |-> window, pos |-> written]

WaitedAck == Ack("ACK", waited_seqnum, r_window, Len(output))

-----------------------------------------------------------------------------
(* write_in_sequence, on the buffer l after the insertion.                 *)

(* The first k packets of l are the next k to write.                       *)
InSequence(l, k) ==
  \A i \in 1 .. k : l[i].seqnum = (waited_seqnum + i - 1) % SeqMod

(* The loop ends with the buffer empty, at a packet that is not in         *)
(* sequence, or because write() fails, which leaves the packet in place.   *)
LoopEnds_Slip(l, k, failed) == ~failed
LoopEnds(l, k, failed) ==
  /\ k < Len(l) /\ ~failed =>
       l[k + 1].seqnum # (waited_seqnum + k) % SeqMod
  /\ failed => WriteErrors /\ k < Len(l) /\ InSequence(l, k + 1)

(* waited_seqnum after k packets were written.                             *)
Advanced_Slip(k, failed) ==
  (waited_seqnum + k + (IF failed THEN 1 ELSE 0)) % SeqMod
Advanced(k, failed) == (waited_seqnum + k) % SeqMod

(* The value -10: the last packet written is the empty one, the buffer is  *)
(* empty, and its number is waited_seqnum - 1, an int computation that     *)
(* does not wrap.                                                          *)
EofWritten_NoLength_Slip(l, k) ==
  k > 0 /\ k = Len(l) /\ l[k].seqnum = waited_seqnum' - 1
EofWritten_Slip(l, k) ==
  k > 0 /\ k = Len(l) /\ l[k].pos = EmptyPiece /\ l[k].seqnum = waited_seqnum'
EofWritten(l, k) ==
  /\ k > 0
  /\ k = Len(l)
  /\ l[k].pos = EmptyPiece
  /\ l[k].seqnum = waited_seqnum' - 1

(* The packets among the first k whose write() is short; the code goes on  *)
(* as if it had written them whole.                                        *)
ShortOnes(l, k) ==
  IF ShortWrites THEN SUBSET {i \in 1 .. k : l[i].pos # EmptyPiece} ELSE {{}}

(* One acknowledgement for each packet written, but for the last one when  *)
(* it ends the transfer: the code returns before acknowledging it.         *)
AcksOf(acked) ==
  {Ack("ACK", (waited_seqnum + i) % SeqMod, WindowAdd(i), Len(output) + i) :
     i \in 1 .. acked}

WriteInSequence(l) ==
  \E k \in 0 .. Len(l), failed \in BOOLEAN :
    /\ InSequence(l, k)
    /\ LoopEnds(l, k, failed)
    /\ waited_seqnum' = Advanced(k, failed)
    /\ rlist' = SubSeq(l, k + 1, Len(l))
    /\ \E torn \in ShortOnes(l, k) :
         output' = output \o
           [i \in 1 .. k |-> IF i \in torn THEN Torn ELSE l[i].pos]
    /\ LET acked == IF EofWritten(l, k) THEN k - 1 ELSE k IN
       /\ r_window' = WindowAdd(acked)
       /\ rev' \in RevAfter(rev, AcksOf(acked))
    /\ rstate' = IF EofWritten(l, k) THEN "eof" ELSE rstate

-----------------------------------------------------------------------------
(* wait_for_client: the first datagram is looked at, not consumed.         *)
RcvConnect ==
  /\ rstate = "wait"
  /\ fwd # {}
  /\ rstate' = "run"
  /\ UNCHANGED <<waited_seqnum, r_window, rlist, output, fwd, rev>>

(* A packet with tr = 1.  pkt_decode computes the second CRC over length   *)
(* bytes although fewer were received: over whatever the buffer holds.     *)
(* Either it refuses the packet, and nothing happens, or it does not.      *)
RcvTruncated(m) ==
  /\ rstate = "run"
  /\ m.tr = 1
  /\ fwd' \in Deliver(fwd, m)
  /\ UNCHANGED <<waited_seqnum, rlist, output, rstate>>
  /\ \/ UNCHANGED <<r_window, rev>>
     \/ /\ r_window' = WindowDivide
        /\ rev' \in RevAfter(rev,
             {Ack("NACK", m.seqnum, WindowDivide, Len(output))})

(* A packet in the window: buffered, then write_in_sequence.  An           *)
(* acknowledgement of waited_seqnum goes out at once only if the head of   *)
(* the buffer has a larger number.                                         *)
RcvInsideWindow(m) ==
  /\ rstate = "run"
  /\ m.tr = 0
  /\ RcvInWindow(m.seqnum, waited_seqnum, r_window)
  /\ fwd' \in Deliver(fwd, m)
  /\ LET p == [seqnum |-> m.seqnum, pos |-> m.pos] IN
     \E q \in 1 .. Len(rlist) + 1 :
       /\ GoesTo(rlist, p, q)
       /\ LET l == InsertedAt(rlist, p, q) IN
          IF AheadOfWaited(l[1].seqnum, waited_seqnum)
          THEN /\ rlist' = l
               /\ UNCHANGED <<waited_seqnum, r_window, output, rstate>>
               /\ rev' \in RevAfter(rev, {WaitedAck})
          ELSE WriteInSequence(l)

(* A packet out of the window.  The end-of-file packet once more is        *)
(* answered with a packet of type DATA and ends the program; any other is  *)
(* answered with the number that is waited for.                            *)
LateEof(m) == m.seqnum = waited_seqnum - 1 /\ m.pos = EmptyPiece

RcvOutsideWindow(m) ==
  /\ rstate = "run"
  /\ m.tr = 0
  /\ ~RcvInWindow(m.seqnum, waited_seqnum, r_window)
  /\ fwd' \in Deliver(fwd, m)
  /\ UNCHANGED <<waited_seqnum, r_window, rlist, output>>
  /\ IF LateEof(m)
     THEN /\ rstate' = "eof"
          /\ rev' \in RevAfter(rev,
               {Ack("DATA", waited_seqnum - 1, r_window, Len(output))})
     ELSE /\ rstate' = rstate
          /\ rev' \in RevAfter(rev, {WaitedAck})

(* select() times out after 20 seconds, in wait_for_client or in           *)
(* process_receiver, which frees the buffered packets.                     *)
RcvNoClient ==
  /\ rstate = "wait"
  /\ rstate' = "noclient"
  /\ UNCHANGED <<waited_seqnum, r_window, rlist, output, fwd, rev>>

RcvTimeout ==
  /\ rstate = "run"
  /\ rstate' = "timeout"
  /\ rlist' = <<>>
  /\ UNCHANGED <<waited_seqnum, r_window, output, fwd, rev>>

RcvError ==
  /\ Errors
  /\ rstate \in {"wait", "run"}
  /\ rstate' = "error"
  /\ UNCHANGED <<waited_seqnum, r_window, rlist, output, fwd, rev>>

RcvDatagram(m) ==
  RcvTruncated(m) \/ RcvInsideWindow(m) \/ RcvOutsideWindow(m)

=============================================================================
