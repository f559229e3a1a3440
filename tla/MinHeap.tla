------------------------------ MODULE MinHeap -------------------------------
(***************************************************************************)
(* The heap of min_queue.c as functions of its array.  A heap is the       *)
(* sequence of its elements; the slot x of the C array, which begins at 0, *)
(* is element x + 1 of it.                                                 *)
(*                                                                         *)
(* With PARENT(x) = x >> 1 on an array that begins at 0, slot 0 has slot 1 *)
(* as its only child, and the slots from 1 on are a binary tree.           *)
(***************************************************************************)
EXTENDS Integers, Sequences

CONSTANT cmp(_, _)  \* whether the first element is greater than the second

PARENT(x) == x \div 2
LCHILD(x) == 2 * x

Slots(e) == 0 .. Len(e) - 1
Slot(e, x) == e[x + 1]

(* The slots from x up to the root.                                        *)
Path(x) ==
  LET up[y \in 0 .. x] == {y} \cup (IF y = 0 THEN {} ELSE up[PARENT(y)])
  IN up[x]

-----------------------------------------------------------------------------
(* minq_push: the parents that are greater than v move down one level, and *)
(* v takes the place of the last of them, slot i.                          *)
InsertsAt_Slip(e, v, i) ==
  IF Len(e) > 0 /\ cmp(Slot(e, PARENT(Len(e))), v)
  THEN i = PARENT(Len(e)) ELSE i = Len(e)
InsertsAt(e, v, i) ==
  /\ i \in Path(Len(e))
  /\ \A y \in Path(Len(e)) : y > i => cmp(Slot(e, PARENT(y)), v)
  /\ i > 0 => ~cmp(Slot(e, PARENT(i)), v)

Pushed(e, v) ==
  LET i == CHOOSE x \in 0 .. Len(e) : InsertsAt(e, v, x) IN
  [k \in 1 .. Len(e) + 1 |->
     IF k - 1 = i THEN v
     ELSE IF k - 1 > i /\ k - 1 \in Path(Len(e)) THEN Slot(e, PARENT(k - 1))
     ELSE e[k]]

(* has_child: the smaller child of slot x, or 0 if it has none.            *)
HasChild_Slip(e, x) == IF LCHILD(x) >= Len(e) THEN 0 ELSE LCHILD(x)
HasChild(e, x) ==
  LET left == LCHILD(x)
      right == LCHILD(x) + 1 IN
  IF left >= Len(e) THEN 0
  ELSE IF right < Len(e) /\ cmp(Slot(e, left), Slot(e, right)) THEN right
  ELSE left

(* minq_pop: the last element takes the place of the root, and changes     *)
(* places with its smaller child until it is not greater than it, in slot  *)
(* i.  The children it meets are those of the array before the exchanges.  *)
SinksTo(f, i) ==
  /\ \A y \in Path(i) \ {0} : /\ y = HasChild(f, PARENT(y))
                             /\ cmp(f[1], Slot(f, y))
  /\ HasChild(f, i) # 0 => ~cmp(f[1], Slot(f, HasChild(f, i)))

Sunk(f) ==
  LET i == CHOOSE x \in Slots(f) : SinksTo(f, x) IN
  [k \in 1 .. Len(f) |->
     IF k - 1 = i THEN f[1]
     ELSE IF k - 1 \in Path(i) THEN Slot(f, HasChild(f, k - 1))
     ELSE f[k]]

LastAtRoot(e) ==
  [k \in 1 .. Len(e) - 1 |-> IF k = 1 THEN e[Len(e)] ELSE e[k]]

Popped(e) == IF Len(e) = 1 THEN <<>> ELSE Sunk(LastAtRoot(e))

(* minq_peek, on a queue that is not empty.                                *)
Peek(e) == e[1]

-----------------------------------------------------------------------------
(* What minq_new expects of cmp: of two elements at most one is greater,   *)
(* and if neither is, neither is greater than what the other is not.       *)
IsOrder(set) ==
  /\ \A a, b \in set : cmp(a, b) => ~cmp(b, a)
  /\ \A a, b, c \in set : ~cmp(a, b) /\ ~cmp(b, c) => ~cmp(a, c)

(* Comment of min_queue.c, "a node in the tree is always < than its child  *)
(* nodes" (not greater, for equal ones): what minq_peek relies on.         *)
IsHeap(e) == \A x \in Slots(e) \ {0} : ~cmp(Slot(e, PARENT(x)), Slot(e, x))

=============================================================================
