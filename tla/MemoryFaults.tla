---------------------------- MODULE MemoryFaults ----------------------------
(***************************************************************************)
(* The transfer of module Transfer when malloc() may return NULL.  A       *)
(* failure that only loses one datagram (the packet a datagram is decoded  *)
(* into, an acknowledgement that create_ack cannot make and whose caller   *)
(* tests for NULL) is a loss of the link already.  The others are here:    *)
(* the sender goes on without a piece of the file, or without its copy of  *)
(* a packet it sent; the receiver goes on without the packet, follows a    *)
(* null pointer, or frees a packet twice.                                  *)
(***************************************************************************)
EXTENDS Transfer

CONSTANT MaxDropped   \* bound: the pieces the sender loses track of

ASSUME MemoryAssumption == MaxDropped \in Nat

(* Every piece dropped leaves the oldest packet of the list further behind *)
(* the newest one.  With one more the properties below are violated.       *)
FewDropped == MAX_WINDOW_SIZE + MaxDropped <= Behind

VARIABLES
  skipped,   \* pieces that were read, and never got a number
  unlisted   \* pieces that were sent once, and are not in the list

dropped == <<skipped, unlisted>>

-----------------------------------------------------------------------------
(* read() has consumed a piece of the file, in read_to_list.               *)
PieceRead ==
  /\ sstate = "run"
  /\ ~seqnum_EOF
  /\ HasRoom(s_window)
  /\ offset < FileLength
  /\ Cardinality(skipped \cup unlisted) < MaxDropped
  /\ offset' = offset + 1
  /\ rev' = Live(rev, offset')
  /\ UNCHANGED <<s_window, seqnum_EOF, rcvVars>>

(* pkt_new or pkt_set_payload fails, and the next piece will take the      *)
(* number this one would have had.                                         *)
Skip ==
  /\ PieceRead
  /\ skipped' = skipped \cup {offset}
  /\ UNCHANGED <<seqnum, unlisted>>
  /\ EndIteration(list, s_window, FALSE, {})

(* add_element_queue fails after the packet was sent.                      *)
NumberUsed_Slip == seqnum
NumberUsed == NextSeqnum(seqnum)
Unlisted ==
  /\ PieceRead
  /\ unlisted' = unlisted \cup {offset}
  /\ seqnum' = NumberUsed
  /\ UNCHANGED skipped
  /\ EndIteration(list, s_window, FALSE,
       {[seqnum |-> seqnum, pos |-> offset, tr |-> 0]})

-----------------------------------------------------------------------------
(* A packet in the window, in read_to_list_r.                              *)
InWindow(m) ==
  /\ rstate = "run"
  /\ m.tr = 0
  /\ RcvInWindow(m.seqnum, waited_seqnum, r_window)
  /\ fwd' \in Deliver(fwd, m)
  /\ UNCHANGED <<sndVars, dropped>>

(* add_specific_queue fails, and nobody looks at what it returned.         *)
(* write_in_sequence reads the packet of the head before it tests the head *)
(* for NULL.                                                               *)
Unbuffered(m) ==
  /\ InWindow(m)
  /\ IF rlist = <<>>
     THEN /\ rstate' = "error"
          /\ UNCHANGED <<waited_seqnum, r_window, rlist, output, rev>>
     ELSE IF AheadOfWaited(rlist[1].seqnum, waited_seqnum)
     THEN /\ rev' \in RevAfter(rev, {WaitedAck})
          /\ UNCHANGED rcvVars
     ELSE WriteInSequence(rlist)

(* create_ack returns NULL after the k-th write() of write_in_sequence,    *)
(* and send_ack follows the pointer.                                       *)
Unanswered(m) ==
  /\ InWindow(m)
  /\ \E q \in 1 .. Len(rlist) + 1 :
       LET p == [seqnum |-> m.seqnum, pos |-> m.pos]
           l == InsertedAt(rlist, p, q) IN
       /\ GoesTo(rlist, p, q)
       /\ ~AheadOfWaited(l[1].seqnum, waited_seqnum)
       /\ \E k \in 1 .. Len(l) :
            /\ InSequence(l, k)
            /\ waited_seqnum' = Advanced(k, FALSE)
            /\ ~EofWritten(l, k)
            /\ r_window' = WindowAdd(k)
            /\ rlist' = SubSeq(l, k + 1, Len(l))
            /\ rev' \in RevAfter(rev, AcksOf(k - 1))
            /\ \E torn \in ShortOnes(l, k) :
                 output' = output \o
                   [i \in 1 .. k |-> IF i \in torn THEN Torn ELSE l[i].pos]
  /\ rstate' = "error"

(* create_ack returns NULL for a packet out of the window, which was freed *)
(* and is freed again: the program is aborted, or goes on.                 *)
FreedTwice(m) ==
  /\ rstate = "run"
  /\ m.tr = 0
  /\ ~RcvInWindow(m.seqnum, waited_seqnum, r_window)
  /\ ~LateEof(m)
  /\ fwd' \in Deliver(fwd, m)
  /\ rstate' \in {rstate, "error"}
  /\ UNCHANGED <<sndVars, dropped, waited_seqnum, r_window, rlist, output, rev>>

-----------------------------------------------------------------------------
MemInit == Init /\ skipped = {} /\ unlisted = {}

MemNext ==
  \/ Next /\ UNCHANGED dropped
  \/ Skip
  \/ Unlisted
  \/ \E m \in fwd : Unbuffered(m) \/ Unanswered(m) \/ FreedTwice(m)

MemSpec == MemInit /\ [][MemNext]_<<vars, dropped>>

-----------------------------------------------------------------------------
(* The pieces that got a number, and the place of one of them in the       *)
(* output file.                                                            *)
Numbered == Pieces \ skipped
Place(pos) == Cardinality({q \in Numbered : q <= pos})
Written(pos) == Place(pos) <= Len(output)

(* Whatever allocation fails, and although write() may be short too, what  *)
(* the receiver writes is in the order of the file, nothing twice, and     *)
(* nothing is missing in between but the pieces read_to_list gave up on.   *)
OutputIsNumberedFile ==
  /\ Len(output) <= Cardinality(Numbered)
  /\ \A pos \in Numbered :
       Written(pos) => output[Place(pos)] \in {pos, Torn}

(* A sender that believes everything was acknowledged is wrong only about  *)
(* the pieces it kept no copy of.                                          *)
DoneAccounts ==
  sstate = "done" => \A pos \in Pieces \ {EmptyPiece} :
                       pos \in skipped \cup unlisted \/ Written(pos)

(* The end-of-file packet never makes the receiver stop with a packet      *)
(* missing, even one the sender forgot: its number is not the waited one.  *)
EofAccounts == rstate = "eof" => \A pos \in Numbered : Written(pos)

-----------------------------------------------------------------------------
(* The inductive invariant behind them.  Numbers are no longer positions   *)
(* modulo SeqMod: the number of a piece counts the pieces before it that   *)
(* got one.                                                                *)
Below(sk, x) == {s \in sk : s < x}
CountIn(sk, x) == x - Cardinality(Below(sk, x))
Num(x) == CountIn(skipped, x)

(* The counts the receiver may buffer while it waits for r: those of a     *)
(* whole window and, across the wrap, one more.                            *)
Near(n, r) ==
  /\ n >= r
  /\ \/ n <= r + MAX_WINDOW_SIZE
     \/ n = r + MAX_WINDOW_SIZE + 1 /\ n % SeqMod < r % SeqMod

DroppedInv ==
  /\ skipped \subseteq 0 .. offset - 1
  /\ unlisted \subseteq 0 .. offset - 1
  /\ Cardinality(skipped \cup unlisted) <= MaxDropped

(* Each piece read is in the list, or was given up on, or is written; and  *)
(* those written are before those of the list.                             *)
Accounted(l, q) ==
  \/ q \in skipped \cup unlisted
  \/ \E i \in DOMAIN l : l[i].pos = q
  \/ Num(q) < Len(output) /\ \A i \in DOMAIN l : q < l[i].pos

MemSenderInv ==
  /\ seqnum = Num(offset) % SeqMod
  /\ Len(list) <= MAX_WINDOW_SIZE
  /\ \A i \in DOMAIN list : /\ list[i].pos < offset
                            /\ list[i].pos \notin skipped
                            /\ list[i].seqnum = Num(list[i].pos) % SeqMod
  /\ \A i, j \in DOMAIN list : i < j => list[i].pos < list[j].pos
  /\ seqnum_EOF => offset = FileLength
  /\ sstate = "done" => list = <<>> /\ seqnum_EOF
  /\ \A q \in 0 .. offset - 1 : Accounted(list, q)

WrittenInPlace ==
  \A q \in Numbered : Num(q) < Len(output) => output[Num(q) + 1] \in {q, Torn}

MemReceiverInv ==
  /\ waited_seqnum = Len(output) % SeqMod
  /\ WrittenInPlace
  /\ \A i \in DOMAIN rlist : /\ Near(Num(rlist[i].pos), Len(output))
                             /\ rlist[i].pos \notin skipped
                             /\ rlist[i].seqnum = Num(rlist[i].pos) % SeqMod
                             /\ Sent(rlist[i].pos)
  /\ \A i, j \in DOMAIN rlist : i < j => rlist[i].pos < rlist[j].pos
  /\ \/ Len(output) <= Num(offset)
     \/ sstate = "done" /\ Len(output) = Num(offset) + 1
  /\ rstate = "eof" => Len(output) = Num(FileLength) + 1
  /\ Len(output) = Num(FileLength) + 1 /\ rstate \in {"wait", "run"} =>
       Num(FileLength) % SeqMod = SeqMod - 1

MemChannelInv ==
  /\ \A m \in fwd : /\ m.seqnum = Num(m.pos) % SeqMod
                    /\ Num(m.pos) + Behind >= Num(offset)
                    /\ m.pos \notin skipped
                    /\ Sent(m.pos)
  /\ \A m \in rev : m.type = "ACK" => /\ m.seqnum = m.pos % SeqMod
                                      /\ m.pos + Behind >= Num(offset)
                                      /\ m.pos <= Len(output)

(* Numbers and positions of the two programs, the list, the buffer and the *)
(* datagrams stay related, whatever read_to_list, add_specific_queue and   *)
(* create_ack drop.                                                        *)
MemInv == DroppedInv /\ MemSenderInv /\ MemReceiverInv /\ MemChannelInv

=============================================================================
