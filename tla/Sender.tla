------------------------------- MODULE Sender -------------------------------
(***************************************************************************)
(* sender.c.  The program is one select() loop: an iteration handles an    *)
(* acknowledgement, or else reads a piece of the file, or does neither,    *)
(* and then always runs final_send (once the end of the file was read) and *)
(* check_timeout.  Each action below is one whole iteration.               *)
(***************************************************************************)
EXTENDS Link, Sequences

CONSTANTS
  RETRANSMISSION_TIMER,  \* seconds after which a packet is sent again (2)
  SelectErrors,          \* whether select() may fail
  SendErrors             \* whether send() of the last packet may fail

ASSUME SenderAssumption ==
  /\ RETRANSMISSION_TIMER \in Nat \ {0}
  /\ SelectErrors \in BOOLEAN
  /\ SendErrors \in BOOLEAN

VARIABLES
  list,        \* the packets sent and not yet acknowledged, oldest first
  seqnum,      \* the number of the next packet
  s_window,    \* window_size: the last window the receiver advertised
  seqnum_EOF,  \* whether read() returned 0
  offset,      \* how many pieces read() returned: the file offset
  sstate       \* "run", or how process_sender ended: "done", "error"

sndVars == <<list, seqnum, s_window, seqnum_EOF, offset, sstate>>

(* A packet of the list, with the seconds since send_packet set its        *)
(* timestamp.  Ages beyond the timer are all alike.                        *)
Ages == 0 .. RETRANSMISSION_TIMER
SentPackets == [seqnum : SeqNums, pos : Pieces, age : Ages]
Aged(p, age) == [seqnum |-> p.seqnum, pos |-> p.pos, age |-> age]
Datagram(p) == [seqnum |-> p.seqnum, pos |-> p.pos, tr |-> 0]
IsEmpty(p) == p.pos = EmptyPiece

(* pkt_fin, which keeps the number it was given when read() returned 0.    *)
PktFin == [seqnum |-> seqnum, pos |-> EmptyPiece, tr |-> 0]

SndInit ==
  /\ list = <<>>
  /\ seqnum = 0
  /\ s_window = 1
  /\ seqnum_EOF = FALSE
  /\ offset = 0
  /\ sstate = "run"

-----------------------------------------------------------------------------
(* check_timeout walks the list from its head and stops at the first       *)
(* packet that does not fit the window.                                    *)
FitsWindow(l, window, i) ==
  \A j \in 1 .. i : SndInWindow(l[j].seqnum, l[1].seqnum, window)
Expired(l, window) ==
  {i \in DOMAIN l : /\ FitsWindow(l, window, i)
                    /\ l[i].age >= RETRANSMISSION_TIMER}
Restamped(l, expired) ==
  [i \in DOMAIN l |-> IF i \in expired THEN Aged(l[i], 0) ELSE l[i]]

(* The branch of check_timeout that ends the program because the only      *)
(* packet left is an expired end-of-file packet.                           *)
OnlyEofLeft(l, eof, expired) ==
  /\ eof
  /\ Len(l) = 1
  /\ IsEmpty(l[1])
  /\ expired = {1}

(* final_send: the list is empty, so the end-of-file packet goes out and   *)
(* the loop ends, unless send() fails, when the loop goes on and tries     *)
(* again.  The packet is sent once: nothing waits for its acknowledgement. *)
FinalSend(l, sent) ==
  /\ list' = l
  /\ \/ /\ sstate' = "done"
        /\ fwd' \in FwdAfter(Live(fwd, offset'), sent \cup {PktFin})
     \/ /\ SendErrors
        /\ sstate' = sstate
        /\ fwd' \in FwdAfter(Live(fwd, offset'), sent)

CheckTimeout(l, window, eof, sent) ==
  LET expired == Expired(l, window) IN
  IF OnlyEofLeft(l, eof, expired)
  THEN /\ list' = l
       /\ sstate' = "done"
       /\ fwd' \in FwdAfter(Live(fwd, offset'), sent)
  ELSE /\ list' = Restamped(l, expired)
       /\ sstate' = sstate
       /\ fwd' \in FwdAfter(Live(fwd, offset'),
                            sent \cup {Datagram(l[i]) : i \in expired})

(* The end of an iteration, from the list l, the window and the flag eof   *)
(* the handler left, and the datagrams it sent.                            *)
EndIteration_Slip(l, window, eof, sent) ==
  IF eof THEN FinalSend(l, sent) ELSE CheckTimeout(l, window, eof, sent)
EndIteration(l, window, eof, sent) ==
  IF eof /\ l = <<>> THEN FinalSend(l, sent)
                     ELSE CheckTimeout(l, window, eof, sent)

-----------------------------------------------------------------------------
(* packet_checked pops the packets covered by the acknowledgement, from    *)
(* the head to the first one that is not.                                  *)
IsCovered(l, ack, k) ==
  /\ \A i \in 1 .. k : AckCovers(ack, l[i].seqnum)
  /\ k < Len(l) => ~AckCovers(ack, l[k + 1].seqnum)

(* Its branch for an end-of-file packet that is the last one of the list.  *)
EofAcked(l, k) == seqnum_EOF /\ k > 0 /\ k = Len(l) /\ IsEmpty(l[k])

(* check_ack.  The window is taken from the packet before its type is      *)
(* looked at.                                                              *)
SndAck(m) ==
  /\ sstate = "run"
  /\ m \in rev
  /\ s_window' = m.window
  /\ UNCHANGED <<seqnum, seqnum_EOF, offset>>
  /\ rev' \in Deliver(rev, m)
  /\ IF m.type = "ACK"
     THEN \E k \in 0 .. Len(list) :
            /\ IsCovered(list, m.seqnum, k)
            /\ IF EofAcked(list, k)
               THEN /\ sstate' = "done"
                    /\ list' = <<list[k]>>
                    /\ fwd' = fwd
               ELSE EndIteration(SubSeq(list, k + 1, Len(list)), s_window',
                                 seqnum_EOF, {})
     ELSE EndIteration(list, s_window', seqnum_EOF, {})

(* list->size >= window_size, the first test of read_to_list.              *)
HasRoom_Slip(window) == Len(list) <= window
HasRoom(window) == Len(list) < window

(* read_to_list, when the list is not full.  A data packet is sent and     *)
(* listed; at the end of the file the packet is only kept as pkt_fin.  A   *)
(* failed first send is a lost datagram, for the packet is listed anyway.  *)
SndRead ==
  /\ sstate = "run"
  /\ ~seqnum_EOF
  /\ HasRoom(s_window)
  /\ UNCHANGED s_window
  /\ IF offset < FileLength
     THEN LET p == [seqnum |-> seqnum, pos |-> offset, age |-> 0] IN
          /\ seqnum' = NextSeqnum(seqnum)
          /\ offset' = offset + 1
          /\ seqnum_EOF' = FALSE
          /\ EndIteration(Append(list, p), s_window, FALSE, {Datagram(p)})
     ELSE /\ seqnum_EOF' = TRUE
          /\ UNCHANGED <<seqnum, offset>>
          /\ EndIteration(list, s_window, TRUE, {})
  /\ rev' = Live(rev, offset')

(* An iteration that handles nothing: select() timed out, the list is      *)
(* full, the file is at its end, read() or recv() failed, or a datagram    *)
(* arrived that pkt_decode refuses.                                        *)
SndIdle ==
  /\ sstate = "run"
  /\ UNCHANGED <<seqnum, s_window, seqnum_EOF, offset, rev>>
  /\ EndIteration(list, s_window, seqnum_EOF, {})

SndSelectError ==
  /\ SelectErrors
  /\ sstate = "run"
  /\ sstate' = "error"
  /\ UNCHANGED <<list, seqnum, s_window, seqnum_EOF, offset, fwd, rev>>

(* time(NULL) moves to the next second.                                    *)
Tick ==
  /\ sstate = "run"
  /\ \E i \in DOMAIN list : list[i].age < RETRANSMISSION_TIMER
  /\ list' = [i \in DOMAIN list |->
                IF list[i].age < RETRANSMISSION_TIMER
                THEN Aged(list[i], list[i].age + 1) ELSE list[i]]
  /\ UNCHANGED <<seqnum, s_window, seqnum_EOF, offset, sstate, fwd, rev>>

SndLoop == (\E m \in rev : SndAck(m)) \/ SndRead \/ SndIdle
SndNext == SndLoop \/ SndSelectError \/ Tick

=============================================================================
