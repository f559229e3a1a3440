--------------------------- MODULE PriorityQueue ----------------------------
(***************************************************************************)
(* What a minqueue_t promises: a set of elements from which a least one is *)
(* taken.  A push may find no memory, and then changes nothing.            *)
(***************************************************************************)
CONSTANTS Elements, cmp(_, _)

VARIABLES elements,  \* in the queue
          first      \* what minq_peek returns; none if the queue is empty

IsFirst(f, set) ==
  IF set = {} THEN f = {}
  ELSE \E x \in set : f = {x} /\ \A y \in set : ~cmp(x, y)

Init == elements = {} /\ first = {}

Push ==
  /\ \E v \in Elements \ elements : elements' = elements \cup {v}
  /\ IsFirst(first', elements')

Pop ==
  /\ elements # {}
  /\ elements' = elements \ first
  /\ IsFirst(first', elements')

Next == Push \/ Pop

Spec == Init /\ [][Next]_<<elements, first>>

=============================================================================
