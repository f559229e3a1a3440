------------------------------ MODULE MinQueue ------------------------------
(***************************************************************************)
(* min_queue.c: the heap with its allocated slots, under any sequence of   *)
(* calls.  Shown to implement PriorityQueue.                               *)
(***************************************************************************)
EXTENDS MinHeap, FiniteSets

CONSTANTS
  Elements,          \* what may be pushed, each element once at a time
  SLOTS_PER_MALLOC,
  ReallocFails       \* whether realloc may return NULL

ASSUME MinQueueAssumption ==
  /\ SLOTS_PER_MALLOC \in Nat \ {0}
  /\ ReallocFails \in BOOLEAN
  /\ IsOrder(Elements)

VARIABLES e, alloc

vars == <<e, alloc>>

ElementsOf(s) == {s[k] : k \in DOMAIN s}

(* minq_new.                                                               *)
Init == e = <<>> /\ alloc = SLOTS_PER_MALLOC

minq_push ==
  \E v \in Elements \ ElementsOf(e) :
    \/ /\ Len(e) < alloc
       /\ e' = Pushed(e, v)
       /\ UNCHANGED alloc
    \/ /\ Len(e) = alloc
       /\ e' = Pushed(e, v)
       /\ alloc' = Len(e) + SLOTS_PER_MALLOC
    \/ /\ Len(e) = alloc
       /\ ReallocFails
       /\ UNCHANGED vars

minq_pop == e # <<>> /\ e' = Popped(e) /\ UNCHANGED alloc

Next == minq_push \/ minq_pop

Spec == Init /\ [][Next]_vars

-----------------------------------------------------------------------------
(* Whatever was pushed and popped, no element is greater than its children.*)
HeapOrder == IsHeap(e)

(* No element is lost or doubled by the exchanges, and minq_peek and       *)
(* minq_pop always concern one least element.                              *)
Abstract == INSTANCE PriorityQueue WITH
  elements <- ElementsOf(e),
  first    <- IF e = <<>> THEN {} ELSE {Peek(e)}
ImplementsPriorityQueue == Abstract!Spec

=============================================================================
