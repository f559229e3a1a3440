------------------------------- MODULE SeqNum -------------------------------
(***************************************************************************)
(* The arithmetic of the 8-bit sequence numbers: the window tests of the   *)
(* sender and of the receiver, the test that an acknowledgement covers a   *)
(* packet, and the order in which the receiver's buffer is kept.           *)
(*                                                                         *)
(* The code writes 256 and 255; here they are SeqMod and SeqMod - 1, so    *)
(* that the protocol can be checked on a small sequence-number space.      *)
(* MAX_WINDOW_SIZE is the macro of packet_implement.h (31).                *)
(*                                                                         *)
(* A definition whose name ends in _Slip is not part of the model: it is   *)
(* the definition that follows it with one plausible mistake, and TLC must *)
(* find a property violated when it takes the place of the right one.      *)
(***************************************************************************)
EXTENDS Integers

CONSTANTS SeqMod, MAX_WINDOW_SIZE

ASSUME SeqNumAssumption ==
  /\ SeqMod \in Nat
  /\ MAX_WINDOW_SIZE \in Nat \ {0}
  /\ SeqMod >= 2 * MAX_WINDOW_SIZE + 2

SeqNums == 0 .. SeqMod - 1
Windows == 1 .. MAX_WINDOW_SIZE

(* How far behind the newest number a live one may be without being taken  *)
(* for a new one.                                                          *)
Behind == SeqMod - MAX_WINDOW_SIZE - 2

NextSeqnum(seqnum) == (seqnum + 1) % SeqMod

(* The sender's check_in_window, with window_size as a parameter.          *)
SndInWindow_Slip(seqnum, first, window) ==
  \/ seqnum >= first /\ seqnum - first < window - 1
  \/ seqnum < first  /\ (SeqMod - 1) + seqnum - first < window - 1
SndInWindow(seqnum, first, window) ==
  \/ seqnum >= first /\ seqnum - first <= window - 1
  \/ seqnum < first  /\ (SeqMod - 1) + seqnum - first <= window - 1

(* The loop condition of packet_checked: the packet seqn is acknowledged   *)
(* by ack.  The receiver acknowledges with the number it waits for.        *)
AckCovers_Slip(ack, seqn) ==
  \/ (SeqMod - 1) + ack - seqn <= MAX_WINDOW_SIZE
  \/ ack - seqn >= 0 /\ ack - seqn <= MAX_WINDOW_SIZE
AckCovers(ack, seqn) ==
  \/ (SeqMod - 1) + ack - seqn <= MAX_WINDOW_SIZE
  \/ ack - seqn > 0 /\ ack - seqn <= MAX_WINDOW_SIZE

(* The receiver's check_in_window, with its two globals as parameters.     *)
RcvInWindow_Slip(seqnum, waited, window) ==
  \/ seqnum >= waited /\ seqnum - waited <= window
  \/ seqnum < waited  /\ (SeqMod - 1) + seqnum - waited <= window + 1
RcvInWindow(seqnum, waited, window) ==
  \/ seqnum >= waited /\ seqnum - waited <= window
  \/ seqnum < waited  /\ (SeqMod - 1) + seqnum - waited <= window

(* cmp in add_specific_queue: the buffered packet comes before the new one.*)
Precedes_Slip(buffered, seqnum) == buffered < seqnum
Precedes(buffered, seqnum) ==
  \/ buffered - seqnum > MAX_WINDOW_SIZE
  \/ /\ ~(seqnum - buffered > MAX_WINDOW_SIZE)
     /\ buffered < seqnum

(* head.seqnum > waited_seqnum, the test with which write_in_sequence      *)
(* decides that the first buffered packet is not the one it waits for.     *)
AheadOfWaited(seqnum, waited) == seqnum > waited

=============================================================================
