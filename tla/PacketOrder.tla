---------------------------- MODULE PacketOrder -----------------------------
(***************************************************************************)
(* The place of a packet in a list ordered by sequence number: what the    *)
(* loop of add_specific_queue looks for, on the list as a sequence.        *)
(***************************************************************************)
EXTENDS SeqNum, Sequences

(* add_specific_queue: the packet goes before the first buffered packet    *)
(* that it does not come after, and is dropped if that one has its number. *)
GoesTo(l, p, q) ==
  /\ \A i \in 1 .. q - 1 : Precedes(l[i].seqnum, p.seqnum)
  /\ q <= Len(l) => ~Precedes(l[q].seqnum, p.seqnum)

InsertedAt(l, p, q) ==
  IF q <= Len(l) /\ l[q].seqnum = p.seqnum
  THEN l
  ELSE [i \in 1 .. Len(l) + 1 |->
          IF i < q THEN l[i] ELSE IF i = q THEN p ELSE l[i - 1]]

=============================================================================
