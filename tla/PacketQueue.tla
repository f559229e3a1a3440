---------------------------- MODULE PacketQueue -----------------------------
(***************************************************************************)
(* What a list_t promises: a sequence of packets, added at the end or at   *)
(* the place of their number, and taken from the front.  A call that finds *)
(* no memory changes nothing.                                              *)
(***************************************************************************)
EXTENDS PacketOrder

CONSTANT Packets  \* records with a seqnum

VARIABLE items

Init == items = <<>>

Add(p) == items' = Append(items, p)

AddInOrder(p) ==
  \E q \in 1 .. Len(items) + 1 :
    GoesTo(items, p, q) /\ items' = InsertedAt(items, p, q)

Pop == items # <<>> /\ items' = Tail(items)

Next == (\E p \in Packets : Add(p) \/ AddInOrder(p)) \/ Pop

Spec == Init /\ [][Next]_items

=============================================================================
