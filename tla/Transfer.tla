------------------------------ MODULE Transfer ------------------------------
(***************************************************************************)
(* The whole transfer: the sender, the receiver and the link between them. *)
(***************************************************************************)
EXTENDS Sender, Receiver

(* Whether 20 seconds may pass without a datagram for the receiver while   *)
(* the sender runs (a slow standard input, a long run of losses), or only  *)
(* once the sender has stopped and nothing is on its way.                  *)
CONSTANT Impatient

ASSUME TransferAssumption == Impatient \in BOOLEAN

vars == <<linkVars, sndVars, rcvVars>>

Init == LinkInit /\ SndInit /\ RcvInit

Silence == Impatient \/ (sstate # "run" /\ fwd = {})

AckArrives == (\E m \in rev : SndAck(m)) /\ UNCHANGED rcvVars
Read       == SndRead /\ UNCHANGED rcvVars
Idle       == SndIdle /\ UNCHANGED rcvVars
SndFails   == SndSelectError /\ UNCHANGED rcvVars
Second     == Tick /\ UNCHANGED rcvVars
Connect    == RcvConnect /\ UNCHANGED sndVars
Truncated  == (\E m \in fwd : RcvTruncated(m)) /\ UNCHANGED sndVars
Inside     == (\E m \in fwd : RcvInsideWindow(m)) /\ UNCHANGED sndVars
Outside    == (\E m \in fwd : RcvOutsideWindow(m)) /\ UNCHANGED sndVars
NoClient   == Silence /\ RcvNoClient /\ UNCHANGED sndVars
Timeout    == Silence /\ RcvTimeout /\ UNCHANGED sndVars
RcvFails   == RcvError /\ UNCHANGED sndVars

(* Both programs have ended.                                               *)
Ended == sstate # "run" /\ rstate \notin {"wait", "run"} /\ UNCHANGED vars

Next ==
  \/ AckArrives \/ Read \/ Idle \/ SndFails \/ Second
  \/ Connect \/ Truncated \/ Inside \/ Outside
  \/ NoClient \/ Timeout \/ RcvFails
  \/ Ended

Spec == Init /\ [][Next]_vars

(* Fairness.  Each program runs: its loop is never blocked for ever, the   *)
(* input file is readable, seconds pass, and a select() that is to time    *)
(* out does.  The link is fair but lossy: a datagram sent again and again  *)
(* gets through once, arrives once, and the acknowledgement it triggers    *)
(* gets through once; likewise write() does not fail for ever.             *)
HeadCarried ==
  /\ AckArrives \/ Read \/ Idle
  /\ list' # <<>>
  /\ Datagram(list'[1]) \in fwd'

Answered ==
  Ack("ACK", waited_seqnum', r_window', Len(output')) \in rev'

Arrives(pos) ==
  /\ \E m \in fwd : /\ m.pos = pos /\ m.tr = 0
                    /\ RcvDatagram(m)
                    /\ fwd' = fwd \ {m}
                    /\ pos = Len(output) => output' # output
                    /\ rstate' = "eof" \/ pos > Len(output) \/ Answered
  /\ UNCHANGED sndVars

LastAckArrives ==
  /\ \E m \in rev : m.type = "ACK" /\ m.pos = Len(output) /\ SndAck(m)
  /\ UNCHANGED rcvVars

LastCopyArrives == (Truncated \/ Inside \/ Outside) /\ fwd' # fwd

Fairness ==
  /\ WF_vars(Read) /\ WF_vars(Idle) /\ WF_vars(Second)
  /\ SF_vars(Connect) /\ WF_vars(NoClient) /\ WF_vars(Timeout)
  /\ SF_vars(HeadCarried)
  /\ SF_vars(LastAckArrives) /\ SF_vars(LastCopyArrives)
  /\ \A pos \in Pieces : SF_vars(Arrives(pos))

FairSpec == Spec /\ Fairness

-----------------------------------------------------------------------------
(* Every variable keeps its type; the window the receiver advertises stays *)
(* between 1 and MAX_WINDOW_SIZE.                                          *)
TypeOK ==
  /\ fwd \subseteq DataPackets
  /\ rev \subseteq AckPackets
  /\ list \in Seq(SentPackets)
  /\ seqnum \in SeqNums
  /\ s_window \in Windows
  /\ seqnum_EOF \in BOOLEAN
  /\ offset \in 0 .. FileLength
  /\ sstate \in {"run", "done", "error"}
  /\ waited_seqnum \in SeqNums
  /\ r_window \in Windows
  /\ rlist \in Seq(BufferedPackets)
  /\ output \in Seq(Pieces \cup {Torn})
  /\ rstate \in {"wait", "run", "eof", "timeout", "noclient", "error"}

(* The first piece the sender still keeps, and whether a piece was sent.   *)
Base == offset - Len(list)
Sent(pos) == pos < offset \/ (pos = EmptyPiece /\ sstate = "done")

-----------------------------------------------------------------------------
(* The properties.                                                         *)

(* What the receiver writes is the file, piece after piece: none missing,  *)
(* none twice, none out of order, although numbers are reused every SeqMod *)
(* pieces and datagrams are lost, cut, duplicated and reordered.           *)
FileIsPrefix ==
  \A i \in DOMAIN output :
    output[i] = i - 1 \/ (ShortWrites /\ output[i] = Torn)

(* The sender drops a packet from its list only after the receiver wrote   *)
(* it, so it leaves its loop with "done" only when the whole file is       *)
(* written: packet_checked never believes a stale acknowledgement.         *)
OnlyWrittenForgotten == Base <= Len(output)
DoneMeansDelivered ==
  sstate = "done" => list = <<>> /\ Len(output) >= FileLength

(* The receiver reports the end of the file only when it wrote all of it,  *)
(* after the sender had everything acknowledged.                           *)
EofMeansDelivered ==
  rstate = "eof" => sstate = "done" /\ Len(output) = FileLength + 1

(* An old datagram is never taken for a new one: a packet that passes the  *)
(* receiver's window test carries a piece still to be written, and an      *)
(* acknowledgement that covers the oldest packet of the sender was sent    *)
(* after that packet was written.                                          *)
StaleRefused ==
  /\ \A m \in fwd :
       rstate = "run" /\ RcvInWindow(m.seqnum, waited_seqnum, r_window) =>
         m.pos \in Len(output) .. Len(output) + MAX_WINDOW_SIZE
  /\ \A m \in rev :
       m.type = "ACK" /\ list # <<>> /\ AckCovers(m.seqnum, list[1].seqnum) =>
         m.pos > Base

(* The receiver's buffer is strictly in the order of the file, across the  *)
(* wrap too, holds nothing already written, and is no longer than the      *)
(* window of the sender.                                                   *)
BufferOrdered ==
  /\ \A i, j \in DOMAIN rlist : i < j => rlist[i].pos < rlist[j].pos
  /\ \A i \in DOMAIN rlist : rlist[i].pos >= Len(output)
  /\ Len(rlist) <= MAX_WINDOW_SIZE

(* No packet waits in the buffer although it is the next one to write,     *)
(* unless write() has failed on it.                                        *)
NothingHeldBack ==
  rlist # <<>> /\ ~WriteErrors => rlist[1].pos # Len(output)

(* The sender is never more than one maximal window ahead of the output    *)
(* file, although the windows it hears of may arrive out of order.         *)
WindowBounded == offset - Len(output) <= MAX_WINDOW_SIZE

(* The branches of packet_checked, check_timeout and read_to_list_r for an *)
(* end-of-file packet in a list or for a second one never run: that packet *)
(* is sent once, after everything else was acknowledged.                   *)
EofBranchesUnused ==
  /\ \A i \in DOMAIN list : ~IsEmpty(list[i])
  /\ \A m \in fwd :
       /\ rstate = "run"
       /\ m.tr = 0
       /\ ~RcvInWindow(m.seqnum, waited_seqnum, r_window)
       => ~LateEof(m)

(* Comment of write_in_sequence, "-10 if EOF received": once it has written*)
(* the end-of-file packet the receiver is no longer waiting.               *)
EofEndsReceiver == Len(output) = FileLength + 1 => rstate # "run"

(* Both programs end, and then the whole file is written.                  *)
TransferCompletes ==
  <>[](/\ sstate = "done"
       /\ rstate \in {"eof", "timeout", "noclient"}
       /\ Len(output) >= FileLength)

(* The inductive invariant behind the properties above: all sequence       *)
(* numbers are the pieces' numbers modulo SeqMod, and the positions of the *)
(* two programs, the list, the buffer and the datagrams are related.       *)
SenderInv ==
  /\ seqnum = offset % SeqMod
  /\ Len(list) <= MAX_WINDOW_SIZE
  /\ Len(list) <= offset
  /\ \A i \in DOMAIN list : /\ list[i].pos = Base + i - 1
                            /\ list[i].seqnum = list[i].pos % SeqMod
  /\ seqnum_EOF => offset = FileLength
  /\ sstate = "done" => list = <<>> /\ seqnum_EOF

ReceiverInv ==
  /\ waited_seqnum = Len(output) % SeqMod
  /\ FileIsPrefix
  /\ \A i \in DOMAIN rlist : /\ rlist[i].pos >= Len(output)
                             /\ rlist[i].seqnum = rlist[i].pos % SeqMod
                             /\ Sent(rlist[i].pos)
  /\ \A i, j \in DOMAIN rlist : i < j => rlist[i].pos < rlist[j].pos
  /\ rstate = "eof" => Len(output) = FileLength + 1
  /\ Len(output) = FileLength + 1 /\ rstate \in {"wait", "run"} =>
       FileLength % SeqMod = SeqMod - 1

ChannelInv ==
  /\ \A m \in fwd : /\ m.seqnum = m.pos % SeqMod
                    /\ m.pos + Lifetime >= offset
                    /\ Sent(m.pos)
  /\ \A m \in rev : m.type = "ACK" => /\ m.seqnum = m.pos % SeqMod
                                      /\ m.pos + Lifetime >= offset
                                      /\ m.pos <= Len(output)

PositionInv ==
  /\ Base <= Len(output)
  /\ Len(output) <= offset \/ (sstate = "done" /\ Len(output) <= FileLength + 1)

IInv == SenderInv /\ ReceiverInv /\ ChannelInv /\ PositionInv

-----------------------------------------------------------------------------
(* The two programs together are a file transfer.                          *)
Contract == INSTANCE FileTransfer WITH
  taken <- offset,
  file  <- output,
  snd   <- sstate,
  rcv   <- IF rstate \in {"wait", "run"} THEN "run"
           ELSE IF rstate = "eof" THEN "eof" ELSE "ended"
ImplementsFileTransfer == Contract!Spec

=============================================================================
