--------------------------- MODULE MinQueueProofs ---------------------------
(***************************************************************************)
(* The heap of min_queue.c, for every number of elements and every order   *)
(* of them: a push and a pop keep the order of the heap, lose no element   *)
(* and double none, and a heap has a least element at its root.  So a      *)
(* minqueue_t implements a priority queue.                                 *)
(***************************************************************************)
EXTENDS MinQueue, SequenceTheorems, WellFoundedInduction, TLAPS

-----------------------------------------------------------------------------
(* A set of naturals has a least element.                                  *)
LEMMA LeastNatural ==
  ASSUME NEW T, T \subseteq Nat, T # {}
  PROVE  \E x \in T : \A y \in T : x <= y
<1> DEFINE R == OpToRel(<, Nat)
<1>1. IsWellFoundedOn(R, Nat)
  BY NatLessThanWellFounded
<1>2. \A x, y \in Nat : <<x, y>> \in R <=> x < y
  BY DEF OpToRel
<1> HIDE DEF R
<1>3. PICK x \in T : \A y \in T : ~ (<<y, x>> \in R)
  BY <1>1, WFMin
<1>4. \A y \in T : ~ (y < x)
  BY <1>2, <1>3
<1> QED BY <1>3, <1>4

LEMMA ParentIs ==
  \A x \in Nat : /\ PARENT(x) \in Nat
                 /\ x = 2 * PARENT(x) \/ x = 2 * PARENT(x) + 1
                 /\ x # 0 => PARENT(x) < x
  BY DEF PARENT

-----------------------------------------------------------------------------
(* The way from a slot to the root.  Path is defined by recursion: first,  *)
(* that there is a function with that definition, and only one.            *)
Above(g, y) == {y} \cup (IF y = 0 THEN {} ELSE g[PARENT(y)])
Climbs(g, n) == g = [y \in 0 .. n |-> Above(g, y)]

LEMMA ClimbExists == \A n \in Nat : \E g : Climbs(g, n)
<1> SUFFICES ASSUME NEW m \in Nat, ~ \E g : Climbs(g, m) PROVE FALSE
  OBVIOUS
<1> DEFINE T == {n \in Nat : ~ \E g : Climbs(g, n)}
<1>1. PICK n \in T : \A k \in T : n <= k
  <2>1. T \subseteq Nat /\ T # {}
    OBVIOUS
  <2> HIDE DEF T
  <2> QED BY <2>1, LeastNatural
<1>2. CASE n = 0
  <2> DEFINE g == [y \in 0 .. 0 |-> {0}]
  <2>1. \A y \in 0 .. 0 : Above(g, y) = {0}
    BY DEF Above
  <2> HIDE DEF g
  <2>2. Climbs(g, 0)
    BY <2>1 DEF Climbs, g
  <2> QED BY <1>1, <1>2, <2>2
<1>3. CASE n # 0
  <2>1. n - 1 \in Nat /\ ~ (n <= n - 1) /\ n \in Nat
    BY <1>3
  <2>2. PICK g : Climbs(g, n - 1)
    BY <1>1, <2>1
  <2>3. g = [y \in 0 .. n - 1 |-> Above(g, y)]
    BY <2>2 DEF Climbs
  <2> DEFINE h == [y \in 0 .. n |-> IF y = n THEN {n} \cup g[PARENT(n)] ELSE g[y]]
  <2>4. \A y \in 0 .. n - 1 : h[y] = g[y]
    OBVIOUS
  <2>5. \A y \in 0 .. n : y # 0 => PARENT(y) \in 0 .. n - 1
    BY ParentIs, <2>1
  <2>6. h[n] = {n} \cup g[PARENT(n)]
    BY <2>1
  <2>7. h = [y \in 0 .. n |-> h[y]]
    OBVIOUS
  <2> HIDE DEF h
  <2>8. ASSUME NEW y \in 0 .. n PROVE h[y] = Above(h, y)
    <3>1. CASE y = n
      BY <1>3, <2>4, <2>5, <2>6, <3>1 DEF Above
    <3>2. CASE y # n
      <4>1. y \in 0 .. n - 1
        BY <2>1, <3>2
      <4>2. g[y] = Above(g, y)
        BY <2>3, <4>1
      <4>3. y # 0 => h[PARENT(y)] = g[PARENT(y)]
        BY <2>4, <2>5
      <4> QED BY <2>4, <4>1, <4>2, <4>3 DEF Above
    <3> QED BY <3>1, <3>2
  <2>9. Climbs(h, n)
    BY <2>7, <2>8 DEF Climbs
  <2> QED BY <1>1, <2>9
<1> QED BY <1>2, <1>3

LEMMA ClimbUnique ==
  ASSUME NEW n \in Nat, NEW m \in Nat, NEW g, NEW h, Climbs(g, n), Climbs(h, m),
         NEW x \in Nat, x <= n, x <= m
  PROVE  g[x] = h[x]
<1>1. /\ \A y \in 0 .. n : g[y] = Above(g, y)
      /\ \A y \in 0 .. m : h[y] = Above(h, y)
  <2>1. \A y \in 0 .. n : g[y] = Above(g, y)
    <3> DEFINE f == [y \in 0 .. n |-> Above(g, y)]
    <3>1. \A y \in 0 .. n : f[y] = Above(g, y)
      OBVIOUS
    <3>2. g = f
      BY DEF Climbs
    <3> HIDE DEF f
    <3> QED BY <3>1, <3>2
  <2>2. \A y \in 0 .. m : h[y] = Above(h, y)
    <3> DEFINE f == [y \in 0 .. m |-> Above(h, y)]
    <3>1. \A y \in 0 .. m : f[y] = Above(h, y)
      OBVIOUS
    <3>2. h = f
      BY DEF Climbs
    <3> HIDE DEF f
    <3> QED BY <3>1, <3>2
  <2> QED BY <2>1, <2>2
<1> SUFFICES ASSUME g[x] # h[x] PROVE FALSE
  OBVIOUS
<1> DEFINE T == {y \in 0 .. x : g[y] # h[y]}
<1>2. PICK y \in T : \A z \in T : y <= z
  <2>1. T \subseteq Nat /\ T # {}
    OBVIOUS
  <2> HIDE DEF T
  <2> QED BY <2>1, LeastNatural
<1>3. y \in 0 .. x /\ y \in 0 .. n /\ y \in 0 .. m
  OBVIOUS
<1>4. y # 0 => g[PARENT(y)] = h[PARENT(y)]
  <2>1. y # 0 => PARENT(y) \in 0 .. x /\ ~ (y <= PARENT(y))
    BY <1>3, ParentIs
  <2> QED BY <1>2, <2>1
<1>5. g[y] = h[y]
  BY <1>1, <1>3, <1>4 DEF Above
<1> QED BY <1>2, <1>5

LEMMA PathStep ==
  \A x \in Nat : Path(x) = {x} \cup (IF x = 0 THEN {} ELSE Path(PARENT(x)))
<1> DEFINE up(x) == CHOOSE g : Climbs(g, x)
<1>1. \A x \in Nat : Climbs(up(x), x)
  BY ClimbExists, Zenon
<1>2. \A x \in Nat : Path(x) = up(x)[x]
  BY DEF Path, Climbs, Above
<1> HIDE DEF up
<1> SUFFICES ASSUME NEW x \in Nat
             PROVE  Path(x) = {x} \cup (IF x = 0 THEN {} ELSE Path(PARENT(x)))
  OBVIOUS
<1>3. up(x)[x] = Above(up(x), x)
  <2> DEFINE f == [y \in 0 .. x |-> Above(up(x), y)]
  <2>1. f[x] = Above(up(x), x)
    OBVIOUS
  <2>2. up(x) = f
    BY <1>1 DEF Climbs
  <2> HIDE DEF f
  <2> QED BY <2>1, <2>2
<1>4. x # 0 => up(x)[PARENT(x)] = up(PARENT(x))[PARENT(x)]
  <2>1. x # 0 => PARENT(x) \in Nat /\ PARENT(x) <= x /\ PARENT(x) <= PARENT(x)
    BY ParentIs
  <2> QED BY <1>1, <2>1, ClimbUnique
<1>5. x # 0 => Path(PARENT(x)) = up(PARENT(x))[PARENT(x)]
  BY <1>2, ParentIs
<1> QED BY <1>2, <1>3, <1>4, <1>5 DEF Above

(* The path of x goes from x to 0 by parents, and passes no slot by.       *)
LEMMA PathFacts ==
  \A x \in Nat : /\ x \in Path(x) /\ 0 \in Path(x)
                 /\ Path(x) \subseteq 0 .. x
                 /\ \A y \in Path(x) : y # 0 => PARENT(y) \in Path(x)
                 /\ \A y, z \in Path(x) : y < z => y <= PARENT(z)
<1> DEFINE Good(x) == /\ x \in Path(x) /\ 0 \in Path(x)
                      /\ Path(x) \subseteq 0 .. x
                      /\ \A y \in Path(x) : y # 0 => PARENT(y) \in Path(x)
                      /\ \A y, z \in Path(x) : y < z => y <= PARENT(z)
<1>1. SUFFICES ASSUME NEW w \in Nat, ~ Good(w) PROVE FALSE
  OBVIOUS
<1> DEFINE T == {x \in Nat : ~ Good(x)}
<1>2. PICK x \in T : \A y \in T : x <= y
  <2>1. T \subseteq Nat /\ T # {}
    BY <1>1
  <2> HIDE DEF T
  <2> QED BY <2>1, LeastNatural
<1>3. x \in Nat /\ ~ Good(x)
  OBVIOUS
<1>4. CASE x = 0
  <2>1. Path(x) = {0}
    BY <1>4, PathStep
  <2> QED BY <1>3, <1>4, <2>1
<1>5. CASE x # 0
  <2> DEFINE p == PARENT(x)
  <2>1. p \in Nat /\ p < x /\ ~ (x <= p)
    BY <1>3, <1>5, ParentIs
  <2>2. Path(x) = {x} \cup Path(p)
    BY <1>3, <1>5, PathStep
  <2>3. Good(p)
    <3> HIDE DEF Good, p
    <3> QED BY <1>2, <2>1
  <2>4. /\ p \in Path(p) /\ 0 \in Path(p)
        /\ Path(p) \subseteq 0 .. p
        /\ \A y \in Path(p) : y # 0 => PARENT(y) \in Path(p)
        /\ \A y, z \in Path(p) : y < z => y <= PARENT(z)
    BY <2>3
  <2> HIDE DEF Good
  <2>5. x \in Path(x) /\ 0 \in Path(x) /\ Path(x) \subseteq 0 .. x
    BY <2>1, <2>2, <2>4
  <2>6. \A y \in Path(x) : y # 0 => PARENT(y) \in Path(x)
    BY <2>2, <2>4
  <2>7. ASSUME NEW y \in Path(x), NEW z \in Path(x), y < z
        PROVE  y <= PARENT(z)
    <3>1. CASE z = x
      <4>1. y \in Path(p) /\ y \in 0 .. p
        BY <1>3, <2>2, <2>4, <2>7, <3>1
      <4> QED BY <2>1, <3>1, <4>1
    <3>2. CASE z # x
      <4>1. z \in Path(p) /\ z <= p /\ z \in Nat /\ y \in Nat
        BY <1>3, <2>1, <2>2, <2>4, <2>5, <3>2
      <4>2. y \in Path(p)
        BY <2>1, <2>2, <2>7, <4>1
      <4> QED BY <2>4, <2>7, <4>1, <4>2
    <3> QED BY <3>1, <3>2
  <2> QED BY <1>3, <2>5, <2>6, <2>7 DEF Good
<1> QED BY <1>4, <1>5

(* Every slot of the path but its end has a child on it.                   *)
LEMMA PathChild ==
  ASSUME NEW x \in Nat, NEW y \in Path(x), y # x
  PROVE  \E c \in Path(x) : PARENT(c) = y /\ y < c
<1>1. x \in Path(x) /\ Path(x) \subseteq 0 .. x
  BY PathFacts
<1> DEFINE T == {z \in Path(x) : y < z}
<1>2. PICK c \in T : \A z \in T : c <= z
  <2>1. T \subseteq Nat /\ T # {}
    BY <1>1
  <2> HIDE DEF T
  <2> QED BY <2>1, LeastNatural
<1>3. /\ c \in Path(x) /\ y < c /\ c \in Nat /\ y \in Nat /\ c # 0
  BY <1>1
<1>4. PARENT(c) \in Path(x) /\ PARENT(c) \in Nat /\ PARENT(c) < c /\ y <= PARENT(c)
  BY <1>3, PathFacts, ParentIs
<1>5. ~ (y < PARENT(c))
  <2>1. y < PARENT(c) => PARENT(c) \in T
    BY <1>4
  <2>2. ~ (c <= PARENT(c))
    BY <1>3, <1>4
  <2> HIDE DEF T
  <2> QED BY <1>2, <2>1, <2>2
<1> QED BY <1>3, <1>4, <1>5

-----------------------------------------------------------------------------
(* Sequences with the same elements, each as often as in the other.        *)
Rearranges(s, t) ==
  \E f \in [1 .. Len(s) -> 1 .. Len(t)] :
    /\ \A j, k \in 1 .. Len(s) : f[j] = f[k] => j = k
    /\ \A j \in 1 .. Len(t) : \E k \in 1 .. Len(s) : f[k] = j
    /\ \A k \in 1 .. Len(s) : s[k] = t[f[k]]

LEMMA RearrangedTwice ==
  ASSUME NEW s, NEW t, NEW u, Rearranges(s, t), Rearranges(t, u)
  PROVE  Rearranges(s, u)
<1>1. PICK f \in [1 .. Len(s) -> 1 .. Len(t)] :
        /\ \A j, k \in 1 .. Len(s) : f[j] = f[k] => j = k
        /\ \A j \in 1 .. Len(t) : \E k \in 1 .. Len(s) : f[k] = j
        /\ \A k \in 1 .. Len(s) : s[k] = t[f[k]]
  BY DEF Rearranges
<1>2. PICK g \in [1 .. Len(t) -> 1 .. Len(u)] :
        /\ \A j, k \in 1 .. Len(t) : g[j] = g[k] => j = k
        /\ \A j \in 1 .. Len(u) : \E k \in 1 .. Len(t) : g[k] = j
        /\ \A k \in 1 .. Len(t) : t[k] = u[g[k]]
  BY DEF Rearranges
<1> DEFINE h == [k \in 1 .. Len(s) |-> g[f[k]]]
<1>3. h \in [1 .. Len(s) -> 1 .. Len(u)]
  OBVIOUS
<1>4. \A k \in 1 .. Len(s) : h[k] = g[f[k]] /\ f[k] \in 1 .. Len(t)
  OBVIOUS
<1> HIDE DEF h
<1>5. \A j, k \in 1 .. Len(s) : h[j] = h[k] => j = k
  BY <1>1, <1>2, <1>4
<1>6. ASSUME NEW j \in 1 .. Len(u) PROVE \E k \in 1 .. Len(s) : h[k] = j
  <2>1. PICK i \in 1 .. Len(t) : g[i] = j
    BY <1>2
  <2>2. PICK k \in 1 .. Len(s) : f[k] = i
    BY <1>1
  <2> QED BY <1>4, <2>1, <2>2
<1>7. ASSUME NEW k \in 1 .. Len(s) PROVE s[k] = u[h[k]]
  <2>1. s[k] = t[f[k]] /\ f[k] \in 1 .. Len(t)
    BY <1>1
  <2>2. t[f[k]] = u[g[f[k]]]
    BY <1>2, <2>1
  <2> QED BY <1>4, <2>1, <2>2
<1> QED BY <1>3, <1>5, <1>6, <1>7 DEF Rearranges

(* What is true of all elements of one, or of the number of them, is so of *)
(* the other.                                                              *)
LEMMA RearrangedElements ==
  ASSUME NEW s, NEW t, Rearranges(s, t),
         DOMAIN s = 1 .. Len(s), DOMAIN t = 1 .. Len(t)
  PROVE  /\ ElementsOf(s) = ElementsOf(t)
         /\ (\A j, k \in DOMAIN t : t[j] = t[k] => j = k)
              => (\A j, k \in DOMAIN s : s[j] = s[k] => j = k)
<1>1. PICK f \in [1 .. Len(s) -> 1 .. Len(t)] :
        /\ \A j, k \in 1 .. Len(s) : f[j] = f[k] => j = k
        /\ \A j \in 1 .. Len(t) : \E k \in 1 .. Len(s) : f[k] = j
        /\ \A k \in 1 .. Len(s) : s[k] = t[f[k]]
  BY DEF Rearranges
<1>2. ElementsOf(s) = ElementsOf(t)
  <2>1. ASSUME NEW k \in 1 .. Len(s) PROVE s[k] \in ElementsOf(t)
    BY <1>1 DEF ElementsOf
  <2>2. ASSUME NEW j \in 1 .. Len(t) PROVE t[j] \in ElementsOf(s)
    <3>1. PICK k \in 1 .. Len(s) : f[k] = j
      BY <1>1
    <3> QED BY <1>1, <3>1 DEF ElementsOf
  <2> QED BY <2>1, <2>2 DEF ElementsOf
<1>3. (\A j, k \in DOMAIN t : t[j] = t[k] => j = k)
        => (\A j, k \in DOMAIN s : s[j] = s[k] => j = k)
  BY <1>1
<1> QED BY <1>2, <1>3

-----------------------------------------------------------------------------
(* The slots of a sequence, and what an order gives.                       *)
LEMMA SlotIn ==
  ASSUME NEW S, NEW s \in Seq(S)
  PROVE  /\ Len(s) \in Nat
         /\ Slots(s) = 0 .. Len(s) - 1
         /\ \A x \in 0 .. Len(s) - 1 : Slot(s, x) \in S
  BY DEF Slots, Slot

LEMMA OrderFacts ==
  ASSUME NEW S, IsOrder(S), NEW a \in S, NEW b \in S, NEW c \in S
  PROVE  /\ ~cmp(a, a)
         /\ cmp(a, b) => ~cmp(b, a)
         /\ ~cmp(a, b) /\ ~cmp(b, c) => ~cmp(a, c)
         /\ cmp(a, b) /\ ~cmp(c, b) => cmp(a, c)
         /\ cmp(b, a) /\ ~cmp(b, c) => cmp(c, a)
  BY DEF IsOrder

(* Arrays that a one-to-one exchange of slots turns into each other.       *)
Exchanged(g, n, r, t) ==
  /\ Len(r) = n /\ Len(t) = n
  /\ g \in [0 .. n - 1 -> 0 .. n - 1]
  /\ \A x, y \in 0 .. n - 1 : x < y => g[x] # g[y]
  /\ \A z \in 0 .. n - 1 : \E x \in 0 .. n - 1 : g[x] = z
  /\ \A x \in 0 .. n - 1 : Slot(r, x) = Slot(t, g[x])

LEMMA RearrangedSlots ==
  ASSUME NEW n \in Nat, NEW r, NEW t, NEW g, Exchanged(g, n, r, t)
  PROVE  Rearranges(r, t)
<1> USE DEF Exchanged
<1> DEFINE f == [k \in 1 .. n |-> g[k - 1] + 1]
<1>1. \A k \in 1 .. n : k - 1 \in 0 .. n - 1 /\ (k - 1) + 1 = k
  OBVIOUS
<1>2. \A k \in 1 .. n : g[k - 1] \in 0 .. n - 1
  BY <1>1
<1>3. \A x \in 0 .. n - 1 : x + 1 \in 1 .. n /\ (x + 1) - 1 = x
  OBVIOUS
<1>4. f \in [1 .. n -> 1 .. n]
  BY <1>2, <1>3
<1>5. \A k \in 1 .. n : f[k] = g[k - 1] + 1
  OBVIOUS
<1> HIDE DEF f
<1>6. \A j, k \in 1 .. n : f[j] = f[k] => j = k
  <2> SUFFICES ASSUME NEW j \in 1 .. n, NEW k \in 1 .. n, f[j] = f[k]
               PROVE  j = k
    OBVIOUS
  <2>1. g[j - 1] = g[k - 1]
    BY <1>2, <1>5
  <2>2. ~ (j - 1 < k - 1) /\ ~ (k - 1 < j - 1)
    BY <1>1, <2>1
  <2> QED BY <2>2
<1>7. \A j \in 1 .. n : \E k \in 1 .. n : f[k] = j
  <2> SUFFICES ASSUME NEW j \in 1 .. n PROVE \E k \in 1 .. n : f[k] = j
    OBVIOUS
  <2>1. PICK x \in 0 .. n - 1 : g[x] = j - 1
    BY <1>1
  <2>2. f[x + 1] = g[(x + 1) - 1] + 1 /\ (x + 1) - 1 = x
    BY <1>3, <1>5
  <2>3. f[x + 1] = j
    BY <1>1, <2>1, <2>2
  <2> QED BY <1>3, <2>3
<1>8. \A k \in 1 .. n : r[k] = t[f[k]]
  <2> SUFFICES ASSUME NEW k \in 1 .. n PROVE r[k] = t[f[k]]
    OBVIOUS
  <2>1. Slot(r, k - 1) = Slot(t, g[k - 1])
    BY <1>1
  <2>2. r[(k - 1) + 1] = t[g[k - 1] + 1]
    BY <2>1 DEF Slot
  <2> QED BY <1>1, <1>5, <2>2
<1>9. /\ f \in [1 .. Len(r) -> 1 .. Len(t)]
      /\ \A j, k \in 1 .. Len(r) : f[j] = f[k] => j = k
      /\ \A j \in 1 .. Len(t) : \E k \in 1 .. Len(r) : f[k] = j
      /\ \A k \in 1 .. Len(r) : r[k] = t[f[k]]
  BY <1>4, <1>6, <1>7, <1>8
<1> QED BY <1>9 DEF Rearranges

(* A heap has a least element at its root: there is no first slot with a   *)
(* lesser one, since its parent would have none.                           *)
LEMMA RootIsLeast ==
  ASSUME NEW S, IsOrder(S), NEW s \in Seq(S), IsHeap(s)
  PROVE  \A k \in 1 .. Len(s) : ~cmp(Peek(s), s[k])
<1>1. /\ Len(s) \in Nat /\ Slots(s) = 0 .. Len(s) - 1
      /\ \A x \in 0 .. Len(s) - 1 : Slot(s, x) \in S
  BY SlotIn
<1>2. ASSUME NEW w \in 0 .. Len(s) - 1, cmp(Slot(s, 0), Slot(s, w)) PROVE FALSE
  <2> DEFINE T == {x \in 0 .. Len(s) - 1 : cmp(Slot(s, 0), Slot(s, x))}
  <2>1. PICK x \in T : \A y \in T : x <= y
    <3>1. T \subseteq Nat /\ T # {}
      BY <1>1, <1>2
    <3> HIDE DEF T
    <3> QED BY <3>1, LeastNatural
  <2>2. x \in Nat /\ x \in 0 .. Len(s) - 1 /\ 0 \in 0 .. Len(s) - 1
    BY <1>1
  <2>3. CASE x = 0
    <3>1. cmp(Slot(s, 0), Slot(s, 0))
      BY <2>3
    <3> QED BY <1>1, <2>2, <3>1, OrderFacts
  <2>4. CASE x # 0
    <3>0. PARENT(x) \in Nat /\ PARENT(x) < x
      BY <2>2, <2>4, ParentIs
    <3>1. PARENT(x) \in 0 .. Len(s) - 1 /\ ~ (x <= PARENT(x))
      BY <1>1, <2>2, <3>0
    <3>2. ~cmp(Slot(s, 0), Slot(s, PARENT(x)))
      BY <2>1, <3>1
    <3>3. ~cmp(Slot(s, PARENT(x)), Slot(s, x))
      BY <1>1, <2>2, <2>4 DEF IsHeap
    <3>4. ~cmp(Slot(s, 0), Slot(s, x))
      BY <1>1, <2>2, <3>1, <3>2, <3>3 DEF IsOrder
    <3> QED BY <3>4
  <2> QED BY <2>3, <2>4
<1> SUFFICES ASSUME NEW k \in 1 .. Len(s) PROVE ~cmp(Peek(s), s[k])
  OBVIOUS
<1>3. k - 1 \in 0 .. Len(s) - 1 /\ Slot(s, k - 1) = s[k] /\ Slot(s, 0) = Peek(s)
  BY <1>1 DEF Slot, Peek
<1> QED BY <1>2, <1>3

-----------------------------------------------------------------------------
(* minq_push.                                                              *)

(* The loop ends: at the first slot of the path whose ancestors were not   *)
(* looked at.                                                              *)
LEMMA InsertionExists ==
  ASSUME NEW S, NEW s \in Seq(S), NEW v
  PROVE  \E i \in 0 .. Len(s) : InsertsAt(s, v, i)
<1> DEFINE P == Path(Len(s))
           T == {i \in P : \A y \in P : y > i => cmp(Slot(s, PARENT(y)), v)}
<1>1. /\ Len(s) \in Nat /\ Len(s) \in P /\ P \subseteq 0 .. Len(s)
      /\ \A y \in P : y # 0 => PARENT(y) \in P
      /\ \A y, z \in P : y < z => y <= PARENT(z)
  BY PathFacts
<1> HIDE DEF P
<1>2. PICK i \in T : \A y \in T : i <= y
  <2>1. Len(s) \in T /\ T \subseteq Nat
    <3>1. \A y \in P : ~ (y > Len(s)) /\ y \in Nat
      BY <1>1
    <3> QED BY <1>1, <3>1
  <2> HIDE DEF T
  <2> QED BY <2>1, LeastNatural
<1>3. i \in P /\ i \in Nat /\ \A y \in P : y > i => cmp(Slot(s, PARENT(y)), v)
  BY <1>1
<1>4. ASSUME i > 0, cmp(Slot(s, PARENT(i)), v) PROVE FALSE
  <2>1. PARENT(i) \in P /\ PARENT(i) \in Nat /\ ~ (i <= PARENT(i))
    BY <1>1, <1>3, <1>4, ParentIs
  <2>2. ASSUME NEW y \in P, y > PARENT(i) PROVE cmp(Slot(s, PARENT(y)), v)
    <3>1. ~ (y < i)
      BY <1>1, <1>3, <2>1, <2>2
    <3>2. y = i \/ y > i
      BY <1>1, <1>3, <3>1
    <3> QED BY <1>3, <1>4, <3>2
  <2>3. PARENT(i) \in T
    BY <2>1, <2>2
  <2> HIDE DEF T
  <2> QED BY <1>2, <2>1, <2>3
<1>5. InsertsAt(s, v, i)
  BY <1>3, <1>4 DEF InsertsAt, P
<1> QED BY <1>1, <1>3, <1>5

(* The array after the loop, which stopped at slot i.                      *)
AfterPush(s, v, i) ==
  [k \in 1 .. Len(s) + 1 |->
     IF k - 1 = i THEN v
     ELSE IF k - 1 > i /\ k - 1 \in Path(Len(s)) THEN Slot(s, PARENT(k - 1))
     ELSE s[k]]

LEMMA PushedIs ==
  ASSUME NEW S, NEW s \in Seq(S), NEW v
  PROVE  \E i \in 0 .. Len(s) : InsertsAt(s, v, i) /\ Pushed(s, v) = AfterPush(s, v, i)
<1> DEFINE i == CHOOSE x \in 0 .. Len(s) : InsertsAt(s, v, x)
<1>1. i \in 0 .. Len(s) /\ InsertsAt(s, v, i)
  BY InsertionExists
<1>2. Pushed(s, v) = AfterPush(s, v, i)
  BY DEF Pushed, AfterPush
<1> QED BY <1>1, <1>2

(* The slots after the loop, and where the slot of an element was.         *)
LEMMA PushedSlots ==
  ASSUME NEW S, NEW s \in Seq(S), NEW v \in S, NEW i \in 0 .. Len(s),
         i \in Path(Len(s))
  PROVE  /\ AfterPush(s, v, i) \in Seq(S)
         /\ Len(AfterPush(s, v, i)) = Len(s) + 1
         /\ \A x \in 0 .. Len(s) :
              Slot(AfterPush(s, v, i), x) =
                IF x = i THEN v
                ELSE IF x > i /\ x \in Path(Len(s)) THEN Slot(s, PARENT(x))
                ELSE Slot(s, x)
<1> DEFINE r == AfterPush(s, v, i)
<1>1. /\ Len(s) \in Nat /\ Len(s) \in Path(Len(s))
      /\ \A x \in 0 .. Len(s) - 1 : Slot(s, x) \in S
  BY SlotIn, PathFacts
<1>2. \A x \in 0 .. Len(s) :
        Slot(r, x) = IF x = i THEN v
                     ELSE IF x > i /\ x \in Path(Len(s)) THEN Slot(s, PARENT(x))
                     ELSE Slot(s, x)
  BY <1>1 DEF AfterPush, Slot
<1>3. ASSUME NEW k \in 1 .. Len(s) + 1 PROVE r[k] \in S
  <2>1. k - 1 \in 0 .. Len(s) /\ (k - 1) + 1 = k
    BY <1>1
  <2>2. Slot(r, k - 1) = r[k]
    BY <2>1 DEF Slot
  <2>3. k - 1 > i => PARENT(k - 1) \in 0 .. Len(s) - 1
    <3>1. k - 1 > i => k - 1 \in Nat /\ k - 1 # 0
      BY <1>1, <2>1
    <3>2. k - 1 > i => PARENT(k - 1) \in Nat /\ PARENT(k - 1) < k - 1
      BY <3>1, ParentIs
    <3> QED BY <1>1, <2>1, <3>2
  <2>4. ~ (k - 1 = i) /\ ~ (k - 1 > i /\ k - 1 \in Path(Len(s)))
          => k - 1 \in 0 .. Len(s) - 1
    BY <1>1, <2>1
  <2> HIDE DEF r
  <2> QED BY <1>1, <1>2, <2>1, <2>2, <2>3, <2>4
<1>4. DOMAIN r = 1 .. Len(s) + 1 /\ Len(s) + 1 \in Nat
  BY <1>1 DEF AfterPush
<1>5. r = [k \in 1 .. Len(s) + 1 |-> r[k]]
  BY DEF AfterPush
<1> HIDE DEF r
<1>6. r \in [1 .. Len(s) + 1 -> S]
  BY <1>3, <1>5
<1>7. r \in Seq(S) /\ Len(r) = Len(s) + 1
  BY <1>4, <1>6
<1> QED BY <1>2, <1>7 DEF r

(* The order of the heap is kept.                                          *)
LEMMA PushKeepsHeap ==
  ASSUME NEW S, IsOrder(S), NEW s \in Seq(S), NEW v \in S, IsHeap(s)
  PROVE  Pushed(s, v) \in Seq(S) /\ IsHeap(Pushed(s, v))
<1> DEFINE n == Len(s)
           P == Path(n)
<1>1. PICK i \in 0 .. n : InsertsAt(s, v, i) /\ Pushed(s, v) = AfterPush(s, v, i)
  BY PushedIs
<1> DEFINE r == AfterPush(s, v, i)
<1>2. /\ n \in Nat /\ n \in P /\ P \subseteq 0 .. n
      /\ \A y \in P : y # 0 => PARENT(y) \in P
      /\ \A y, z \in P : y < z => y <= PARENT(z)
      /\ \A x \in 0 .. n - 1 : Slot(s, x) \in S
  BY SlotIn, PathFacts
<1>3. /\ i \in P /\ i \in Nat
      /\ \A y \in P : y > i => cmp(Slot(s, PARENT(y)), v)
      /\ i > 0 => ~cmp(Slot(s, PARENT(i)), v)
  BY <1>1 DEF InsertsAt
<1>4. /\ r \in Seq(S) /\ Len(r) = n + 1
      /\ \A x \in 0 .. n :
           Slot(r, x) = IF x = i THEN v
                        ELSE IF x > i /\ x \in P THEN Slot(s, PARENT(x))
                        ELSE Slot(s, x)
  BY <1>3, PushedSlots
<1>5. \A x \in 1 .. n - 1 : ~cmp(Slot(s, PARENT(x)), Slot(s, x))
  BY <1>2 DEF IsHeap, Slots
<1>6. Slots(r) \ {0} = 1 .. n
  BY <1>2, <1>4 DEF Slots
<1>7. \A x \in 1 .. n : /\ PARENT(x) \in 0 .. n - 1
                        /\ PARENT(x) < x
                        /\ PARENT(x) # 0 => PARENT(x) \in 1 .. n - 1
  <2> SUFFICES ASSUME NEW x \in 1 .. n
               PROVE  /\ PARENT(x) \in 0 .. n - 1
                      /\ PARENT(x) < x
                      /\ PARENT(x) # 0 => PARENT(x) \in 1 .. n - 1
    OBVIOUS
  <2>1. x \in Nat /\ x # 0
    BY <1>2
  <2>2. PARENT(x) \in Nat /\ PARENT(x) < x
    BY <2>1, ParentIs
  <2> QED BY <1>2, <2>2
<1> HIDE DEF n, P, r
<1>8. ASSUME NEW x \in 1 .. n PROVE ~cmp(Slot(r, PARENT(x)), Slot(r, x))
  <2> DEFINE p == PARENT(x)
  <2>0. /\ x \in 0 .. n /\ p \in 0 .. n /\ p \in 0 .. n - 1 /\ p < x
        /\ x \in Nat /\ p \in Nat /\ x # 0
        /\ p # 0 => p \in 1 .. n - 1
    BY <1>2, <1>7
  <2>1. CASE x = i
    <3>1. Slot(r, x) = v /\ Slot(r, p) = Slot(s, p)
      BY <1>3, <1>4, <2>0, <2>1
    <3> QED BY <1>3, <2>0, <2>1, <3>1
  <2>2. CASE x > i /\ x \in P
    <3>1. Slot(r, x) = Slot(s, p) /\ p \in P /\ i <= p
      BY <1>2, <1>3, <1>4, <2>0, <2>2
    <3>2. CASE p = i
      <4>1. Slot(r, p) = v /\ cmp(Slot(s, p), v)
        BY <1>3, <1>4, <2>0, <2>2, <3>2
      <4> QED BY <1>2, <2>0, <3>1, <4>1 DEF IsOrder
    <3>3. CASE p # i
      <4>1. p > i /\ p # 0
        BY <1>3, <2>0, <3>1, <3>3
      <4>2. Slot(r, p) = Slot(s, PARENT(p))
        BY <1>4, <2>0, <3>1, <4>1
      <4> QED BY <1>5, <2>0, <3>1, <4>1, <4>2
    <3> QED BY <3>2, <3>3
  <2>3. CASE x # i /\ ~ (x > i /\ x \in P)
    <3>1. Slot(r, x) = Slot(s, x)
      BY <1>4, <2>0, <2>3
    <3>2. x \in 1 .. n - 1 /\ x \in 0 .. n - 1
      BY <1>2, <1>3, <2>0, <2>3
    <3>3. ~cmp(Slot(s, p), Slot(s, x))
      BY <1>5, <3>2
    <3>4. CASE p = i
      <4>1. Slot(r, p) = v
        BY <1>4, <2>0, <3>4
      <4>2. i # n
        BY <2>0, <3>4, <1>2
      <4>3. PICK c \in P : PARENT(c) = i /\ i < c
        BY <1>2, <1>3, <4>2, PathChild DEF P
      <4>4. cmp(Slot(s, i), v)
        BY <1>3, <4>3, <1>2
      <4>5. /\ Slot(s, i) \in S /\ Slot(s, x) \in S
            /\ ~cmp(Slot(s, i), Slot(s, x))
        BY <1>2, <2>0, <3>2, <3>3, <3>4
      <4>6. ~cmp(v, Slot(s, x))
        <5>1. ~cmp(v, Slot(s, i))
          BY <4>4, <4>5 DEF IsOrder
        <5> QED BY <4>5, <5>1 DEF IsOrder
      <4> QED BY <3>1, <3>4, <4>1, <4>6
    <3>5. CASE p > i /\ p \in P
      <4>1. Slot(r, p) = Slot(s, PARENT(p)) /\ p \in 1 .. n - 1
        BY <1>3, <1>4, <2>0, <3>5
      <4>2. ~cmp(Slot(s, PARENT(p)), Slot(s, p))
        BY <1>5, <4>1
      <4>3. PARENT(p) \in 0 .. n - 1
        <5>1. p \in 1 .. n
          BY <1>2, <4>1
        <5> QED BY <1>7, <5>1
      <4> QED BY <1>2, <2>0, <3>1, <3>2, <3>3, <4>1, <4>2, <4>3 DEF IsOrder
    <3>6. CASE p # i /\ ~ (p > i /\ p \in P)
      <4>1. Slot(r, p) = Slot(s, p)
        BY <1>4, <2>0, <3>6
      <4> QED BY <3>1, <3>3, <4>1
    <3> QED BY <3>4, <3>5, <3>6
  <2> QED BY <2>1, <2>2, <2>3
<1> QED BY <1>1, <1>4, <1>6, <1>8 DEF IsHeap, r

(* No element is lost or doubled: an element of the path comes from the    *)
(* slot above, v from the new slot, and every other stays.                 *)
LEMMA PushRearranges ==
  ASSUME NEW S, NEW s \in Seq(S), NEW v \in S
  PROVE  Rearranges(Pushed(s, v), Append(s, v))
<1> DEFINE n == Len(s)
           P == Path(n)
<1>1. PICK i \in 0 .. n : InsertsAt(s, v, i) /\ Pushed(s, v) = AfterPush(s, v, i)
  BY PushedIs
<1> DEFINE r == AfterPush(s, v, i)
           t == Append(s, v)
<1>2. /\ n \in Nat /\ n \in P /\ P \subseteq 0 .. n
      /\ \A y \in P : y # 0 => PARENT(y) \in P
      /\ \A y, z \in P : y < z => y <= PARENT(z)
  BY SlotIn, PathFacts
<1>3. i \in P /\ i \in Nat /\ i <= n
  BY <1>1, <1>2 DEF InsertsAt
<1>4. /\ Len(r) = n + 1
      /\ \A x \in 0 .. n :
           Slot(r, x) = IF x = i THEN v
                        ELSE IF x > i /\ x \in P THEN Slot(s, PARENT(x))
                        ELSE Slot(s, x)
  BY <1>3, PushedSlots
<1>5. Len(t) = n + 1 /\ t[n + 1] = v /\ \A k \in 1 .. n : t[k] = s[k]
  BY AppendProperties
<1>6. \A x \in Nat : x # 0 => PARENT(x) \in Nat /\ PARENT(x) < x
  BY ParentIs
<1> HIDE DEF n, P, r, t
<1> DEFINE from(x) == IF x = i THEN n
                      ELSE IF x > i /\ x \in P THEN PARENT(x) ELSE x
           g == [x \in 0 .. n |-> from(x)]
<1>7. ASSUME NEW x \in 0 .. n
      PROVE  from(x) \in 0 .. n /\ Slot(r, x) = t[from(x) + 1]
  <2>1. CASE x = i
    BY <1>2, <1>4, <1>5, <2>1
  <2>2. CASE x # i /\ x > i /\ x \in P
    <3>1. PARENT(x) \in 0 .. n /\ PARENT(x) + 1 \in 1 .. n
      BY <1>2, <1>3, <1>6, <2>2
    <3> QED BY <1>4, <1>5, <2>2, <3>1 DEF Slot
  <2>3. CASE x # i /\ ~ (x > i /\ x \in P)
    <3>1. x + 1 \in 1 .. n
      BY <1>2, <1>3, <2>3
    <3> QED BY <1>4, <1>5, <2>3, <3>1 DEF Slot
  <2> QED BY <2>1, <2>2, <2>3
<1>8. ASSUME NEW x \in 0 .. n, NEW y \in 0 .. n, x < y PROVE from(x) # from(y)
  <2>1. CASE x \in P /\ x >= i /\ y \in P
    <3>1. x <= PARENT(y) /\ PARENT(y) < n /\ PARENT(y) \in Nat
      BY <1>2, <1>6, <1>8, <2>1
    <3>2. x = i \/ (x # i /\ x > i /\ PARENT(x) < x /\ PARENT(x) \in Nat)
      BY <1>3, <1>6, <2>1
    <3>3. from(y) = PARENT(y)
      BY <1>3, <1>8, <2>1
    <3> QED BY <1>2, <1>3, <2>1, <3>1, <3>2, <3>3
  <2>2. CASE x \in P /\ x >= i /\ y \notin P
    <3>1. from(y) = y /\ y # n
      BY <1>2, <1>3, <1>8, <2>2
    <3>2. x # 0 => PARENT(x) < x /\ PARENT(x) \in Nat
      BY <1>6
    <3> QED BY <1>2, <1>3, <1>8, <2>2, <3>1, <3>2
  <2>3. CASE ~ (x \in P /\ x >= i)
    <3>1. from(x) = x /\ x < n /\ x # i
      BY <1>2, <1>3, <1>8, <2>3
    <3>2. CASE y = i
      BY <1>2, <3>1, <3>2
    <3>3. CASE y # i /\ y > i /\ y \in P
      <4>1. PARENT(y) \in P /\ i <= PARENT(y) /\ PARENT(y) \in Nat
        BY <1>2, <1>3, <1>6, <3>3
      <4>2. PARENT(y) # x
        BY <2>3, <4>1
      <4> QED BY <3>1, <3>3, <4>2
    <3>4. CASE y # i /\ ~ (y > i /\ y \in P)
      BY <1>8, <3>1, <3>4
    <3> QED BY <3>2, <3>3, <3>4
  <2> QED BY <2>1, <2>2, <2>3
<1>9. ASSUME NEW z \in 0 .. n PROVE \E x \in 0 .. n : from(x) = z
  <2>1. CASE z = n
    BY <1>3, <2>1
  <2>2. CASE z # n /\ z \in P /\ z >= i
    <3>1. PICK c \in P : PARENT(c) = z /\ z < c
      BY <1>2, <2>2, PathChild DEF P
    <3>2. c \in 0 .. n /\ c # i /\ c > i
      BY <1>2, <1>3, <2>2, <3>1
    <3> QED BY <3>1, <3>2
  <2>3. CASE z # n /\ ~ (z \in P /\ z >= i)
    <3>1. z # i /\ ~ (z > i /\ z \in P)
      BY <1>2, <1>3, <2>3
    <3> QED BY <3>1
  <2> QED BY <2>1, <2>2, <2>3
<1> HIDE DEF from
<1>10. g \in [0 .. n -> 0 .. n]
  BY <1>7
<1>11. \A x \in 0 .. n : g[x] = from(x)
  OBVIOUS
<1> HIDE DEF g
<1>12. /\ \A x, y \in 0 .. n : x < y => g[x] # g[y]
       /\ \A z \in 0 .. n : \E x \in 0 .. n : g[x] = z
  BY <1>8, <1>9, <1>11
<1>13. \A x \in 0 .. n : Slot(r, x) = Slot(t, g[x])
  <2> SUFFICES ASSUME NEW x \in 0 .. n PROVE Slot(r, x) = Slot(t, g[x])
    OBVIOUS
  <2>1. Slot(r, x) = t[from(x) + 1] /\ g[x] = from(x)
    BY <1>7, <1>11
  <2>2. Slot(t, g[x]) = t[g[x] + 1]
    BY DEF Slot
  <2> QED BY <2>1, <2>2
<1>14. n + 1 \in Nat /\ (n + 1) - 1 = n
  BY <1>2
<1>15. Rearranges(r, t)
  <2> DEFINE m == n + 1
  <2>1. /\ m \in Nat /\ Len(r) = m /\ Len(t) = m
        /\ g \in [0 .. m - 1 -> 0 .. m - 1]
        /\ \A x, y \in 0 .. m - 1 : x < y => g[x] # g[y]
        /\ \A z \in 0 .. m - 1 : \E x \in 0 .. m - 1 : g[x] = z
        /\ \A x \in 0 .. m - 1 : Slot(r, x) = Slot(t, g[x])
    BY <1>4, <1>5, <1>10, <1>12, <1>13, <1>14
  <2> HIDE DEF m
  <2>2. Exchanged(g, m, r, t)
    BY <2>1 DEF Exchanged
  <2> QED BY <2>1, <2>2, RearrangedSlots
<1> QED BY <1>1, <1>15 DEF r, t

-----------------------------------------------------------------------------
(* minq_pop.                                                               *)

(* The child that has_child finds, and the slots of x's children.          *)
LEMMA HasChildFacts ==
  ASSUME NEW S, IsOrder(S), NEW f \in Seq(S), NEW x \in 0 .. Len(f) - 1
  PROVE  /\ HasChild(f, x) \in 0 .. Len(f) - 1
         /\ HasChild(f, x) # 0 => PARENT(HasChild(f, x)) = x
         /\ \A z \in 1 .. Len(f) - 1 : PARENT(z) = x =>
              IF HasChild(f, x) # 0
              THEN ~cmp(Slot(f, HasChild(f, x)), Slot(f, z))
              ELSE x = 0 /\ ~cmp(Slot(f, 0), Slot(f, z))
<1> DEFINE n == Len(f)
           c == HasChild(f, x)
<1>1. /\ n \in Nat /\ x \in Nat /\ x < n
      /\ \A y \in 0 .. n - 1 : Slot(f, y) \in S
  BY SlotIn
<1>2. c = IF 2 * x >= n THEN 0
          ELSE IF 2 * x + 1 < n /\ cmp(Slot(f, 2 * x), Slot(f, 2 * x + 1))
               THEN 2 * x + 1 ELSE 2 * x
  BY DEF HasChild, LCHILD
<1> HIDE DEF n, c
<1>3. c \in 0 .. n - 1
  BY <1>1, <1>2
<1>4. c # 0 => PARENT(c) = x
  <2>1. c # 0 => c = 2 * x \/ c = 2 * x + 1
    BY <1>2
  <2>2. /\ c # 0 => c \in Nat
        /\ c # 0 => PARENT(c) \in Nat /\ (c = 2 * PARENT(c) \/ c = 2 * PARENT(c) + 1)
    BY <1>1, <1>3, ParentIs
  <2> QED BY <1>1, <2>1, <2>2
<1>5. ASSUME NEW z \in 1 .. n - 1, PARENT(z) = x
      PROVE  IF c # 0 THEN ~cmp(Slot(f, c), Slot(f, z))
             ELSE x = 0 /\ ~cmp(Slot(f, 0), Slot(f, z))
  <2>1. z \in Nat /\ z \in 0 .. n - 1 /\ (z = 2 * x \/ z = 2 * x + 1)
    <3>1. z \in Nat
      BY <1>1
    <3>2. z = 2 * PARENT(z) \/ z = 2 * PARENT(z) + 1
      BY <3>1, ParentIs
    <3> QED BY <1>1, <1>5, <3>1, <3>2
  <2>2. Slot(f, z) \in S /\ ~cmp(Slot(f, z), Slot(f, z))
    <3>1. Slot(f, z) \in S
      BY <1>1, <2>1
    <3> QED BY <3>1 DEF IsOrder
  <2>3. 2 * x \in 0 .. n - 1 /\ ~ (2 * x >= n)
    BY <1>1, <2>1
  <2>4. CASE 2 * x + 1 < n /\ cmp(Slot(f, 2 * x), Slot(f, 2 * x + 1))
    <3>1. c = 2 * x + 1 /\ c # 0 /\ 2 * x + 1 \in 0 .. n - 1
      BY <1>1, <1>2, <2>3, <2>4
    <3>2. ~cmp(Slot(f, 2 * x + 1), Slot(f, 2 * x))
      BY <1>1, <2>3, <2>4, <3>1 DEF IsOrder
    <3> QED BY <2>1, <2>2, <3>1, <3>2
  <2>5. CASE ~ (2 * x + 1 < n /\ cmp(Slot(f, 2 * x), Slot(f, 2 * x + 1)))
    <3>1. c = 2 * x
      BY <1>2, <2>3, <2>5
    <3>2. ~cmp(Slot(f, c), Slot(f, z))
      <4>1. CASE z = 2 * x
        BY <2>2, <3>1, <4>1
      <4>2. CASE z = 2 * x + 1
        BY <1>1, <2>1, <2>5, <3>1, <4>2
      <4> QED BY <2>1, <4>1, <4>2
    <3>3. c = 0 => x = 0
      BY <1>1, <3>1
    <3> QED BY <3>2, <3>3
  <2> QED BY <2>4, <2>5
<1> QED BY <1>3, <1>4, <1>5 DEF n, c

(* The loop ends: it goes down as far as the last slot it could reach.     *)
LEMMA SinkExists ==
  ASSUME NEW S, IsOrder(S), NEW f \in Seq(S), f # <<>>
  PROVE  \E i \in Slots(f) : SinksTo(f, i)
<1> DEFINE n == Len(f)
           Way(x) == \A y \in Path(x) \ {0} : /\ y = HasChild(f, PARENT(y))
                                             /\ cmp(f[1], Slot(f, y))
           R == {x \in 0 .. n - 1 : Way(x)}
           T == {k \in 0 .. n : n - k \in R}
<1>1. n \in Nat /\ n # 0 /\ Slots(f) = 0 .. n - 1
  BY SlotIn, EmptySeq
<1>2. 0 \in R
  <2>1. Path(0) = {0}
    BY PathStep
  <2> QED BY <1>1, <2>1
<1>3. PICK k \in T : \A j \in T : k <= j
  <2>1. n \in T
    BY <1>1, <1>2
  <2>2. T \subseteq Nat
    BY <1>1
  <2> HIDE DEF T
  <2> QED BY <2>1, <2>2, LeastNatural
<1> DEFINE i == n - k
           c == HasChild(f, i)
<1>4. i \in R /\ i \in 0 .. n - 1 /\ Way(i) /\ k \in Nat /\ k <= n
  BY <1>1
<1>5. ASSUME c # 0, cmp(f[1], Slot(f, c)) PROVE FALSE
  <2>1. c \in 0 .. n - 1 /\ PARENT(c) = i
    BY <1>4, <1>5, HasChildFacts
  <2>2. c \in Nat /\ i < c
    BY <1>1, <1>5, <2>1, ParentIs
  <2>3. Path(c) = {c} \cup Path(i)
    BY <1>5, <2>1, <2>2, PathStep
  <2> HIDE DEF c
  <2>4. Way(c)
    <3> SUFFICES ASSUME NEW y \in Path(c) \ {0}
                 PROVE  y = HasChild(f, PARENT(y)) /\ cmp(f[1], Slot(f, y))
      OBVIOUS
    <3>1. CASE y = c
      BY <1>5, <2>1, <3>1 DEF c
    <3>2. CASE y # c
      BY <1>4, <2>3, <3>2
    <3> QED BY <3>1, <3>2
  <2>5. c \in R
    BY <2>1, <2>4
  <2>6. n - c \in 0 .. n /\ n - (n - c) = c /\ ~ (k <= n - c)
    BY <1>1, <1>4, <2>1, <2>2
  <2> HIDE DEF R
  <2> QED BY <1>3, <2>5, <2>6
<1>6. SinksTo(f, i)
  BY <1>4, <1>5 DEF SinksTo
<1> QED BY <1>1, <1>4, <1>6

(* The array after the loop, which stopped at slot i.                      *)
AfterSink(f, i) ==
  [k \in 1 .. Len(f) |->
     IF k - 1 = i THEN f[1]
     ELSE IF k - 1 \in Path(i) THEN Slot(f, HasChild(f, k - 1))
     ELSE f[k]]

LEMMA SunkIs ==
  ASSUME NEW S, IsOrder(S), NEW f \in Seq(S), f # <<>>
  PROVE  \E i \in Slots(f) : SinksTo(f, i) /\ Sunk(f) = AfterSink(f, i)
<1> DEFINE i == CHOOSE x \in Slots(f) : SinksTo(f, x)
<1>1. i \in Slots(f) /\ SinksTo(f, i)
  BY SinkExists
<1>2. Sunk(f) = AfterSink(f, i)
  BY DEF Sunk, AfterSink
<1> QED BY <1>1, <1>2

(* The child of each slot passed is the next slot of the path.             *)
LEMMA SinkWay ==
  ASSUME NEW S, IsOrder(S), NEW f \in Seq(S), NEW i \in 0 .. Len(f) - 1,
         SinksTo(f, i)
  PROVE  \A x \in Path(i) :
           /\ x \in 0 .. i
           /\ x # i => /\ HasChild(f, x) \in Path(i)
                       /\ HasChild(f, x) \in 1 .. Len(f) - 1
                       /\ PARENT(HasChild(f, x)) = x
           /\ x # 0 => /\ PARENT(x) \in Path(i) /\ PARENT(x) \in Nat
                       /\ PARENT(x) < x
                       /\ HasChild(f, PARENT(x)) = x
                       /\ cmp(Slot(f, 0), Slot(f, x))
<1>1. /\ i \in Nat /\ Len(f) \in Nat /\ Path(i) \subseteq 0 .. i
      /\ \A y \in Path(i) : y # 0 => PARENT(y) \in Path(i)
  BY SlotIn, PathFacts
<1>2. \A y \in Path(i) : y # 0 => y = HasChild(f, PARENT(y)) /\ cmp(f[1], Slot(f, y))
  BY DEF SinksTo
<1>3. f[1] = Slot(f, 0)
  BY DEF Slot
<1> SUFFICES ASSUME NEW x \in Path(i)
             PROVE  /\ x \in 0 .. i
                    /\ x # i => /\ HasChild(f, x) \in Path(i)
                                /\ HasChild(f, x) \in 1 .. Len(f) - 1
                                /\ PARENT(HasChild(f, x)) = x
                    /\ x # 0 => /\ PARENT(x) \in Path(i) /\ PARENT(x) \in Nat
                                /\ PARENT(x) < x
                                /\ HasChild(f, PARENT(x)) = x
                                /\ cmp(Slot(f, 0), Slot(f, x))
  OBVIOUS
<1>4. ASSUME x # i
      PROVE  /\ HasChild(f, x) \in Path(i)
             /\ HasChild(f, x) \in 1 .. Len(f) - 1
             /\ PARENT(HasChild(f, x)) = x
  <2>1. PICK c \in Path(i) : PARENT(c) = x /\ x < c
    BY <1>1, <1>4, PathChild
  <2>2. c \in 1 .. Len(f) - 1 /\ c # 0
    BY <1>1, <2>1
  <2> QED BY <1>2, <2>1, <2>2
<1>5. x # 0 => PARENT(x) \in Nat /\ PARENT(x) < x
  BY <1>1, ParentIs
<1> QED BY <1>1, <1>2, <1>3, <1>4, <1>5

LEMMA SunkSlots ==
  ASSUME NEW S, IsOrder(S), NEW f \in Seq(S), NEW i \in 0 .. Len(f) - 1,
         SinksTo(f, i)
  PROVE  /\ AfterSink(f, i) \in Seq(S)
         /\ Len(AfterSink(f, i)) = Len(f)
         /\ \A x \in 0 .. Len(f) - 1 :
              Slot(AfterSink(f, i), x) =
                IF x = i THEN Slot(f, 0)
                ELSE IF x \in Path(i) THEN Slot(f, HasChild(f, x))
                ELSE Slot(f, x)
<1> DEFINE n == Len(f)
           r == AfterSink(f, i)
<1>1. /\ n \in Nat /\ \A x \in 0 .. n - 1 : Slot(f, x) \in S
      /\ 0 \in 0 .. n - 1
  BY SlotIn
<1>2. \A x \in 0 .. n - 1 :
        Slot(r, x) = IF x = i THEN Slot(f, 0)
                     ELSE IF x \in Path(i) THEN Slot(f, HasChild(f, x))
                     ELSE Slot(f, x)
  BY <1>1 DEF AfterSink, Slot
<1>3. \A x \in Path(i) : x # i => HasChild(f, x) \in 0 .. n - 1
  <2>1. \A x \in Path(i) : x # i => HasChild(f, x) \in 1 .. n - 1
    BY SinkWay
  <2> QED BY <1>1, <2>1
<1>4. DOMAIN r = 1 .. n /\ r = [k \in 1 .. n |-> r[k]]
  BY DEF AfterSink
<1> HIDE DEF n, r
<1>5. ASSUME NEW k \in 1 .. n PROVE r[k] \in S
  <2>1. k - 1 \in 0 .. n - 1 /\ (k - 1) + 1 = k
    BY <1>1
  <2>2. Slot(r, k - 1) = r[k]
    BY <2>1 DEF Slot
  <2> QED BY <1>1, <1>2, <1>3, <2>1, <2>2
<1>6. r \in [1 .. n -> S]
  BY <1>4, <1>5
<1>7. r \in Seq(S) /\ Len(r) = n
  BY <1>1, <1>4, <1>6
<1> QED BY <1>2, <1>7 DEF n, r

(* A heap whose root alone may be out of place.                            *)
HeapButRoot(f) ==
  \A x \in 1 .. Len(f) - 1 : PARENT(x) # 0 => ~cmp(Slot(f, PARENT(x)), Slot(f, x))

(* The root that sinks leaves a heap.                                      *)
LEMMA SunkIsHeap ==
  ASSUME NEW S, IsOrder(S), NEW f \in Seq(S), f # <<>>, HeapButRoot(f)
  PROVE  Sunk(f) \in Seq(S) /\ Len(Sunk(f)) = Len(f) /\ IsHeap(Sunk(f))
<1> DEFINE n == Len(f)
<1>1. PICK i \in Slots(f) : SinksTo(f, i) /\ Sunk(f) = AfterSink(f, i)
  BY SunkIs
<1> DEFINE r == AfterSink(f, i)
           v == Slot(f, 0)
           C(x) == HasChild(f, x)
<1>2. /\ n \in Nat /\ \A x \in 0 .. n - 1 : Slot(f, x) \in S
      /\ i \in 0 .. n - 1 /\ i \in Nat
  BY <1>1, SlotIn DEF Slots
<1>3. /\ r \in Seq(S) /\ Len(r) = n
      /\ \A x \in 0 .. n - 1 :
           Slot(r, x) = IF x = i THEN v
                        ELSE IF x \in Path(i) THEN Slot(f, C(x))
                        ELSE Slot(f, x)
  BY <1>1, <1>2, SunkSlots
<1>4. \A x \in Path(i) :
        /\ x \in 0 .. i
        /\ x # i => C(x) \in Path(i) /\ C(x) \in 1 .. n - 1 /\ PARENT(C(x)) = x
        /\ x # 0 => /\ PARENT(x) \in Path(i) /\ PARENT(x) \in Nat
                    /\ PARENT(x) < x /\ C(PARENT(x)) = x
                    /\ cmp(v, Slot(f, x))
  BY <1>1, <1>2, SinkWay
<1>5. \A x \in 0 .. n - 1 :
        /\ C(x) \in 0 .. n - 1
        /\ \A z \in 1 .. n - 1 : PARENT(z) = x =>
             IF C(x) # 0 THEN ~cmp(Slot(f, C(x)), Slot(f, z))
             ELSE x = 0 /\ ~cmp(v, Slot(f, z))
  BY HasChildFacts
<1>6. C(i) # 0 => ~cmp(v, Slot(f, C(i)))
  BY <1>1 DEF SinksTo, Slot
<1>7. \A x \in 1 .. n - 1 : PARENT(x) # 0 => ~cmp(Slot(f, PARENT(x)), Slot(f, x))
  BY DEF HeapButRoot
<1>8. i \in Path(i) /\ 0 \in Path(i)
  BY <1>2, PathFacts
<1>9. Slots(r) \ {0} = 1 .. n - 1
  BY <1>2, <1>3 DEF Slots
<1> HIDE DEF n, r, v, C
<1>10. v \in S
  BY <1>2 DEF v
<1>11. ASSUME NEW x \in 1 .. n - 1 PROVE ~cmp(Slot(r, PARENT(x)), Slot(r, x))
  <2> DEFINE p == PARENT(x)
  <2>1. x \in Nat /\ x # 0 /\ x \in 0 .. n - 1
    BY <1>2
  <2>2. p \in 0 .. n - 1 /\ p < x /\ p \in Nat
    <3>1. p \in Nat /\ p < x
      BY <2>1, ParentIs
    <3> QED BY <1>2, <2>1, <3>1
  <2> HIDE DEF p
  <2>3. CASE x \in Path(i)
    <3>1. p \in Path(i) /\ p # i /\ C(p) = x /\ cmp(v, Slot(f, x))
      BY <1>2, <1>4, <2>1, <2>2, <2>3 DEF p
    <3>2. Slot(r, p) = Slot(f, x)
      BY <1>3, <2>2, <3>1
    <3>3. CASE x = i
      <4>1. Slot(r, x) = v
        BY <1>3, <2>1, <3>3
      <4>2. ~cmp(Slot(f, x), v)
        BY <1>2, <1>10, <2>1, <3>1 DEF IsOrder
      <4> QED BY <3>2, <4>1, <4>2 DEF p
    <3>4. CASE x # i
      <4>1. Slot(r, x) = Slot(f, C(x)) /\ C(x) \in 1 .. n - 1 /\ PARENT(C(x)) = x
        BY <1>3, <1>4, <2>1, <2>3, <3>4
      <4>2. ~cmp(Slot(f, x), Slot(f, C(x)))
        BY <1>7, <2>1, <4>1
      <4> QED BY <3>2, <4>1, <4>2 DEF p
    <3> QED BY <3>3, <3>4
  <2>4. CASE x \notin Path(i)
    <3>1. Slot(r, x) = Slot(f, x)
      BY <1>3, <1>8, <2>1, <2>4
    <3>2. IF C(p) # 0 THEN ~cmp(Slot(f, C(p)), Slot(f, x))
          ELSE p = 0 /\ ~cmp(v, Slot(f, x))
      BY <1>5, <2>2 DEF p
    <3>3. CASE p = i
      <4>1. Slot(r, p) = v
        BY <1>3, <2>2, <3>3
      <4>2. CASE C(p) # 0
        <5>1. ~cmp(v, Slot(f, C(p))) /\ ~cmp(Slot(f, C(p)), Slot(f, x))
          BY <1>6, <3>2, <3>3, <4>2
        <5>2. Slot(f, C(p)) \in S /\ Slot(f, x) \in S
          BY <1>2, <1>5, <2>1, <2>2
        <5>3. ~cmp(v, Slot(f, x))
          BY <1>10, <5>1, <5>2 DEF IsOrder
        <5> QED BY <3>1, <4>1, <5>3 DEF p
      <4>3. CASE C(p) = 0
        BY <3>1, <3>2, <4>1, <4>3 DEF p
      <4> QED BY <4>2, <4>3
    <3>4. CASE p \in Path(i) /\ p # i
      <4>1. Slot(r, p) = Slot(f, C(p)) /\ C(p) \in 1 .. n - 1
        BY <1>3, <1>4, <2>2, <3>4
      <4>2. C(p) # 0
        BY <4>1
      <4> QED BY <3>1, <3>2, <4>1, <4>2 DEF p
    <3>5. CASE p \notin Path(i)
      <4>1. Slot(r, p) = Slot(f, p) /\ p # 0
        BY <1>3, <1>8, <2>2, <3>5
      <4>2. ~cmp(Slot(f, p), Slot(f, x))
        BY <1>7, <4>1 DEF p
      <4> QED BY <3>1, <4>1, <4>2 DEF p
    <3> QED BY <3>3, <3>4, <3>5
  <2> QED BY <2>3, <2>4
<1>12. IsHeap(r)
  BY <1>9, <1>11 DEF IsHeap
<1> QED BY <1>1, <1>3, <1>12 DEF r, n

(* The exchanges lose no element and double none.                          *)
LEMMA SunkRearranges ==
  ASSUME NEW S, IsOrder(S), NEW f \in Seq(S), f # <<>>
  PROVE  Rearranges(Sunk(f), f)
<1> DEFINE n == Len(f)
<1>1. PICK i \in Slots(f) : SinksTo(f, i) /\ Sunk(f) = AfterSink(f, i)
  BY SunkIs
<1> DEFINE r == AfterSink(f, i)
           P == Path(i)
           C(x) == HasChild(f, x)
<1>2. n \in Nat /\ i \in 0 .. n - 1 /\ i \in Nat
  BY <1>1, SlotIn DEF Slots
<1>3. /\ Len(r) = n
      /\ \A x \in 0 .. n - 1 :
           Slot(r, x) = IF x = i THEN Slot(f, 0)
                        ELSE IF x \in P THEN Slot(f, C(x)) ELSE Slot(f, x)
  BY <1>1, <1>2, SunkSlots
<1>4. \A x \in P :
        /\ x \in 0 .. i
        /\ x # i => C(x) \in P /\ C(x) \in 1 .. n - 1 /\ PARENT(C(x)) = x
        /\ x # 0 => /\ PARENT(x) \in P /\ PARENT(x) \in Nat
                    /\ PARENT(x) < x /\ C(PARENT(x)) = x
  BY <1>1, <1>2, SinkWay
<1>5. i \in P /\ 0 \in P
  BY <1>2, PathFacts
<1> HIDE DEF n, r, P, C
<1> DEFINE from(x) == IF x = i THEN 0 ELSE IF x \in P THEN C(x) ELSE x
           g == [x \in 0 .. n - 1 |-> from(x)]
<1>6. ASSUME NEW x \in 0 .. n - 1
      PROVE  from(x) \in 0 .. n - 1 /\ Slot(r, x) = Slot(f, from(x))
  BY <1>2, <1>3, <1>4
<1>7. ASSUME NEW x \in 0 .. n - 1, NEW y \in 0 .. n - 1, x < y
      PROVE  from(x) # from(y)
  <2>1. CASE x \in P /\ y \in P
    <3>1. x \in 0 .. i /\ y \in 0 .. i /\ x # i
      BY <1>2, <1>4, <1>7, <2>1
    <3>2. from(x) = C(x) /\ PARENT(C(x)) = x /\ C(x) # 0
      BY <1>4, <2>1, <3>1
    <3>3. y # i => from(y) = C(y) /\ PARENT(C(y)) = y
      BY <1>4, <2>1
    <3>4. y = i => from(y) = 0
      OBVIOUS
    <3> HIDE DEF from
    <3> QED BY <1>7, <3>2, <3>3, <3>4
  <2>2. CASE ~ (x \in P /\ y \in P)
    BY <1>4, <1>5, <1>7, <2>2
  <2> QED BY <2>1, <2>2
<1>8. ASSUME NEW z \in 0 .. n - 1 PROVE \E x \in 0 .. n - 1 : from(x) = z
  <2>1. CASE z = 0
    BY <1>2, <2>1
  <2>2. CASE z # 0 /\ z \in P
    <3>1. /\ PARENT(z) \in P /\ PARENT(z) \in Nat /\ PARENT(z) < z
          /\ C(PARENT(z)) = z /\ z \in 0 .. i
      BY <1>4, <2>2
    <3>2. PARENT(z) \in 0 .. n - 1 /\ PARENT(z) # i
      BY <1>2, <3>1
    <3> QED BY <3>1, <3>2
  <2>3. CASE z \notin P
    BY <1>5, <2>3
  <2> QED BY <2>1, <2>2, <2>3
<1> HIDE DEF from
<1>9. \A x \in 0 .. n - 1 : g[x] = from(x)
  OBVIOUS
<1>10. g \in [0 .. n - 1 -> 0 .. n - 1]
  BY <1>6
<1> HIDE DEF g
<1>11. Len(f) = n
  BY DEF n
<1>12. Exchanged(g, n, r, f)
  BY <1>3, <1>6, <1>7, <1>8, <1>9, <1>10, <1>11 DEF Exchanged
<1>13. Rearranges(r, f)
  BY <1>2, <1>12, RearrangedSlots
<1> QED BY <1>1, <1>13 DEF r

(* The last element at the root: only the root can be out of place.        *)
LEMMA LastAtRootIs ==
  ASSUME NEW S, NEW s \in Seq(S), Len(s) > 1
  PROVE  /\ LastAtRoot(s) \in Seq(S) /\ LastAtRoot(s) # <<>>
         /\ Len(LastAtRoot(s)) = Len(s) - 1
         /\ IsHeap(s) => HeapButRoot(LastAtRoot(s))
         /\ Rearranges(LastAtRoot(s), Tail(s))
<1> DEFINE n == Len(s)
           t == LastAtRoot(s)
           u == Tail(s)
<1>1. n \in Nat /\ n > 1 /\ n - 1 \in Nat
  BY SlotIn
<1>2. /\ t \in Seq(S) /\ Len(t) = n - 1
      /\ \A k \in 1 .. n - 1 : t[k] = IF k = 1 THEN s[n] ELSE s[k]
  <2>1. t = [k \in 1 .. n - 1 |-> IF k = 1 THEN s[n] ELSE s[k]]
    BY DEF LastAtRoot
  <2>2. \A k \in 1 .. n : s[k] \in S
    OBVIOUS
  <2>3. \A k \in 1 .. n - 1 : k \in 1 .. n /\ n \in 1 .. n
    BY <1>1
  <2> HIDE DEF n, t
  <2>4. t \in [1 .. n - 1 -> S] /\ DOMAIN t = 1 .. n - 1
    BY <2>1, <2>2, <2>3
  <2>5. \A k \in 1 .. n - 1 : t[k] = IF k = 1 THEN s[n] ELSE s[k]
    BY <2>1
  <2> QED BY <1>1, <2>4, <2>5
<1>3. s # <<>> /\ Len(u) = n - 1 /\ \A k \in 1 .. n - 1 : u[k] = s[k + 1]
  BY <1>1, HeadTailProperties
<1> HIDE DEF t, u
<1>4. t # <<>>
  <2>1. Len(t) # 0
    BY <1>1, <1>2
  <2> QED BY <2>1
<1>5. /\ Slot(t, 0) = Slot(s, n - 1)
      /\ \A x \in 1 .. n - 2 : Slot(t, x) = Slot(s, x)
  BY <1>1, <1>2 DEF Slot
<1>6. IsHeap(s) => HeapButRoot(t)
  <2> SUFFICES ASSUME IsHeap(s), NEW x \in 1 .. Len(t) - 1, PARENT(x) # 0
               PROVE  ~cmp(Slot(t, PARENT(x)), Slot(t, x))
    BY DEF HeapButRoot
  <2>1. x \in 1 .. n - 2 /\ x \in Nat /\ x # 0
    BY <1>1, <1>2
  <2>2. PARENT(x) \in Nat /\ PARENT(x) < x
    BY <2>1, ParentIs
  <2>3. PARENT(x) \in 1 .. n - 2
    BY <1>1, <2>1, <2>2
  <2>4. x \in Slots(s) \ {0}
    BY <1>1, <2>1 DEF Slots
  <2>5. ~cmp(Slot(s, PARENT(x)), Slot(s, x))
    BY <2>4 DEF IsHeap
  <2> QED BY <1>5, <2>1, <2>3, <2>5
<1>7. Rearranges(t, u)
  <2> DEFINE m == n - 1
             from(x) == IF x = 0 THEN m - 1 ELSE x - 1
             g == [x \in 0 .. m - 1 |-> from(x)]
  <2>1. m \in Nat /\ m > 0 /\ Len(t) = m /\ Len(u) = m
    BY <1>1, <1>2, <1>3
  <2>2. \A x \in 0 .. m - 1 : Slot(u, x) = Slot(s, x + 1)
    BY <1>1, <1>3 DEF Slot
  <2>3. \A x \in 1 .. m - 1 : Slot(t, x) = Slot(s, x)
    BY <1>5, <1>1
  <2>4. Slot(t, 0) = Slot(s, m)
    BY <1>5
  <2> HIDE DEF m
  <2>5. ASSUME NEW x \in 0 .. m - 1
        PROVE  from(x) \in 0 .. m - 1 /\ Slot(t, x) = Slot(u, from(x))
    <3>1. CASE x = 0
      <4>1. m - 1 \in 0 .. m - 1 /\ (m - 1) + 1 = m
        BY <2>1
      <4>2. Slot(u, m - 1) = Slot(s, m)
        BY <2>2, <4>1
      <4> QED BY <2>4, <3>1, <4>1, <4>2
    <3>2. CASE x # 0
      <4>1. x - 1 \in 0 .. m - 1 /\ (x - 1) + 1 = x /\ x \in 1 .. m - 1
        BY <2>1, <3>2
      <4>2. Slot(u, x - 1) = Slot(s, x)
        BY <2>2, <4>1
      <4> QED BY <2>3, <3>2, <4>1, <4>2
    <3> QED BY <3>1, <3>2
  <2>6. ASSUME NEW x \in 0 .. m - 1, NEW y \in 0 .. m - 1, x < y
        PROVE  from(x) # from(y)
    BY <2>1, <2>6
  <2>7. ASSUME NEW z \in 0 .. m - 1 PROVE \E x \in 0 .. m - 1 : from(x) = z
    <3>1. CASE z = m - 1
      <4>1. 0 \in 0 .. m - 1 /\ from(0) = z
        BY <2>1, <3>1
      <4> QED BY <4>1
    <3>2. CASE z # m - 1
      <4>1. z + 1 \in 0 .. m - 1 /\ from(z + 1) = z
        BY <2>1, <3>2
      <4> QED BY <4>1
    <3> QED BY <3>1, <3>2
  <2> HIDE DEF from
  <2>8. \A x \in 0 .. m - 1 : g[x] = from(x)
    OBVIOUS
  <2>9. g \in [0 .. m - 1 -> 0 .. m - 1]
    BY <2>5
  <2> HIDE DEF g
  <2>10. Exchanged(g, m, t, u)
    BY <2>1, <2>5, <2>6, <2>7, <2>8, <2>9 DEF Exchanged
  <2> QED BY <2>1, <2>10, RearrangedSlots
<1> QED BY <1>2, <1>4, <1>6, <1>7 DEF t, u

(* A pop takes the root away, and nothing else, and leaves a heap.         *)
LEMMA PopKeepsHeap ==
  ASSUME NEW S, IsOrder(S), NEW s \in Seq(S), s # <<>>, IsHeap(s)
  PROVE  /\ Popped(s) \in Seq(S) /\ IsHeap(Popped(s))
         /\ Len(Popped(s)) = Len(s) - 1
         /\ Rearranges(Popped(s), Tail(s))
<1>1. Len(s) \in Nat /\ Len(s) # 0
  BY EmptySeq
<1>2. CASE Len(s) = 1
  <2>1. Popped(s) = <<>> /\ Tail(s) = <<>>
    <3>1. Tail(s) \in Seq(S) /\ Len(Tail(s)) = 0
      BY <1>2, HeadTailProperties
    <3>2. Tail(s) = <<>>
      BY <3>1, EmptySeq
    <3> QED BY <1>2, <3>2 DEF Popped
  <2>2. Slots(<<>>) = {} /\ Len(<<>>) = 0
    BY DEF Slots
  <2>3. Rearranges(<<>>, <<>>)
    <3> DEFINE f == [k \in 1 .. Len(<<>>) |-> k]
    <3>1. f \in [1 .. Len(<<>>) -> 1 .. Len(<<>>)]
      OBVIOUS
    <3>2. 1 .. Len(<<>>) = {}
      BY <2>2
    <3> HIDE DEF f
    <3> QED BY <3>1, <3>2 DEF Rearranges
  <2>4. IsHeap(<<>>)
    BY <2>2 DEF IsHeap
  <2>5. <<>> \in Seq(S)
    OBVIOUS
  <2>6. Rearranges(Popped(s), Tail(s))
    BY <2>1, <2>3, Zenon
  <2>7. Len(Popped(s)) = Len(s) - 1
    BY <1>2, <2>1, <2>2
  <2> QED BY <2>1, <2>4, <2>5, <2>6, <2>7
<1>3. CASE Len(s) # 1
  <2> DEFINE t == LastAtRoot(s)
  <2>1. Len(s) > 1 /\ Popped(s) = Sunk(t)
    BY <1>1, <1>3 DEF Popped
  <2>2. /\ t \in Seq(S) /\ t # <<>> /\ HeapButRoot(t) /\ Rearranges(t, Tail(s))
        /\ Len(t) = Len(s) - 1
    BY <2>1, LastAtRootIs
  <2>3. Sunk(t) \in Seq(S) /\ IsHeap(Sunk(t)) /\ Len(Sunk(t)) = Len(t)
    BY <2>2, SunkIsHeap
  <2>4. Rearranges(Sunk(t), t)
    BY <2>2, SunkRearranges
  <2> HIDE DEF t
  <2>5. Rearranges(Sunk(t), Tail(s))
    BY <2>2, <2>4, RearrangedTwice
  <2> QED BY <2>1, <2>2, <2>3, <2>5
<1> QED BY <1>2, <1>3

-----------------------------------------------------------------------------
(* The heap keeps its order, and no element is in it twice (minq_push is   *)
(* given none that is): the second is needed for a pop to take out of the  *)
(* set of elements the one it takes out of the array.                      *)
MinQueueInv ==
  /\ e \in Seq(Elements)
  /\ IsHeap(e)
  /\ \A j, k \in DOMAIN e : e[j] = e[k] => j = k

LEMMA AppendDistinct ==
  ASSUME NEW S, NEW s \in Seq(S), NEW v \in S \ ElementsOf(s),
         \A j, k \in DOMAIN s : s[j] = s[k] => j = k
  PROVE  /\ \A j, k \in DOMAIN Append(s, v) :
              Append(s, v)[j] = Append(s, v)[k] => j = k
         /\ ElementsOf(Append(s, v)) = ElementsOf(s) \cup {v}
<1> DEFINE t == Append(s, v)
           n == Len(s)
<1>1. /\ n \in Nat /\ DOMAIN s = 1 .. n /\ DOMAIN t = 1 .. n + 1
      /\ t[n + 1] = v /\ \A k \in 1 .. n : t[k] = s[k]
  BY AppendProperties
<1>2. \A k \in 1 .. n : s[k] \in ElementsOf(s) /\ s[k] # v
  BY <1>1 DEF ElementsOf
<1> HIDE DEF t, n
<1>3. \A k \in 1 .. n + 1 : k = n + 1 \/ k \in 1 .. n
  BY <1>1
<1>4. ASSUME NEW j \in 1 .. n + 1, NEW k \in 1 .. n + 1, t[j] = t[k] PROVE j = k
  BY <1>1, <1>2, <1>3, <1>4
<1>5. ElementsOf(t) = ElementsOf(s) \cup {v}
  <2>1. \A k \in 1 .. n + 1 : t[k] \in ElementsOf(s) \cup {v}
    BY <1>1, <1>2, <1>3
  <2>2. n + 1 \in 1 .. n + 1 /\ \A k \in 1 .. n : k \in 1 .. n + 1
    BY <1>1
  <2> QED BY <1>1, <2>1, <2>2 DEF ElementsOf
<1> QED BY <1>1, <1>4, <1>5 DEF t

LEMMA TailDistinct ==
  ASSUME NEW S, NEW s \in Seq(S), s # <<>>,
         \A j, k \in DOMAIN s : s[j] = s[k] => j = k
  PROVE  /\ \A j, k \in DOMAIN Tail(s) : Tail(s)[j] = Tail(s)[k] => j = k
         /\ ElementsOf(Tail(s)) = ElementsOf(s) \ {Peek(s)}
<1> DEFINE t == Tail(s)
           n == Len(s)
<1>1. /\ n \in Nat /\ n > 0 /\ DOMAIN s = 1 .. n /\ DOMAIN t = 1 .. n - 1
      /\ \A k \in 1 .. n - 1 : t[k] = s[k + 1]
  BY HeadTailProperties, EmptySeq
<1> HIDE DEF t, n
<1>2. \A k \in 1 .. n - 1 : k + 1 \in 1 .. n /\ k + 1 # 1
  BY <1>1
<1>3. ASSUME NEW j \in 1 .. n - 1, NEW k \in 1 .. n - 1, t[j] = t[k] PROVE j = k
  <2>1. j + 1 = k + 1
    BY <1>1, <1>2, <1>3
  <2> QED BY <1>1, <2>1
<1>4. ElementsOf(t) = ElementsOf(s) \ {Peek(s)}
  <2>1. 1 \in 1 .. n
    BY <1>1
  <2>2. \A k \in 1 .. n - 1 : t[k] \in ElementsOf(s) \ {Peek(s)}
    BY <1>1, <1>2, <2>1 DEF ElementsOf, Peek
  <2>3. ASSUME NEW k \in 1 .. n, s[k] # Peek(s) PROVE s[k] \in ElementsOf(t)
    <3>1. k # 1
      BY <2>3 DEF Peek
    <3>2. k - 1 \in 1 .. n - 1 /\ (k - 1) + 1 = k
      BY <1>1, <3>1
    <3>3. t[k - 1] = s[k]
      BY <1>1, <3>2
    <3> QED BY <1>1, <3>2, <3>3 DEF ElementsOf
  <2>4. ElementsOf(t) \subseteq ElementsOf(s) \ {Peek(s)}
    BY <1>1, <2>2 DEF ElementsOf
  <2>5. ElementsOf(s) \ {Peek(s)} \subseteq ElementsOf(t)
    <3> SUFFICES ASSUME NEW x \in ElementsOf(s), x # Peek(s)
                 PROVE  x \in ElementsOf(t)
      OBVIOUS
    <3>1. PICK k \in 1 .. n : x = s[k]
      BY <1>1 DEF ElementsOf
    <3> QED BY <2>3, <3>1
  <2> QED BY <2>4, <2>5
<1> QED BY <1>1, <1>3, <1>4 DEF t

(* What a push and a pop do to the invariant and to the set of elements.   *)
LEMMA PushEffect ==
  ASSUME MinQueueInv, NEW v \in Elements \ ElementsOf(e)
  PROVE  /\ Pushed(e, v) \in Seq(Elements) /\ IsHeap(Pushed(e, v))
         /\ \A j, k \in DOMAIN Pushed(e, v) : Pushed(e, v)[j] = Pushed(e, v)[k] => j = k
         /\ ElementsOf(Pushed(e, v)) = ElementsOf(e) \cup {v}
<1>1. /\ e \in Seq(Elements) /\ IsHeap(e) /\ IsOrder(Elements)
      /\ \A j, k \in DOMAIN e : e[j] = e[k] => j = k
  BY MinQueueAssumption DEF MinQueueInv
<1>2. /\ Pushed(e, v) \in Seq(Elements) /\ IsHeap(Pushed(e, v))
      /\ Rearranges(Pushed(e, v), Append(e, v))
  BY <1>1, PushKeepsHeap, PushRearranges
<1>3. /\ \A j, k \in DOMAIN Append(e, v) : Append(e, v)[j] = Append(e, v)[k] => j = k
      /\ ElementsOf(Append(e, v)) = ElementsOf(e) \cup {v}
      /\ Append(e, v) \in Seq(Elements)
  BY <1>1, AppendDistinct
<1> DEFINE r == Pushed(e, v)
           t == Append(e, v)
<1> HIDE DEF r, t
<1>4. DOMAIN r = 1 .. Len(r) /\ DOMAIN t = 1 .. Len(t)
  BY <1>2, <1>3 DEF r, t
<1>5. Rearranges(r, t)
  BY <1>2 DEF r, t
<1>6. /\ ElementsOf(r) = ElementsOf(t)
      /\ (\A j, k \in DOMAIN t : t[j] = t[k] => j = k)
           => (\A j, k \in DOMAIN r : r[j] = r[k] => j = k)
  BY <1>4, <1>5, RearrangedElements
<1> QED BY <1>2, <1>3, <1>6 DEF r, t

LEMMA PopEffect ==
  ASSUME MinQueueInv, e # <<>>
  PROVE  /\ Popped(e) \in Seq(Elements) /\ IsHeap(Popped(e))
         /\ \A j, k \in DOMAIN Popped(e) : Popped(e)[j] = Popped(e)[k] => j = k
         /\ ElementsOf(Popped(e)) = ElementsOf(e) \ {Peek(e)}
<1>1. /\ e \in Seq(Elements) /\ IsHeap(e) /\ IsOrder(Elements)
      /\ \A j, k \in DOMAIN e : e[j] = e[k] => j = k
  BY MinQueueAssumption DEF MinQueueInv
<1>2. /\ Popped(e) \in Seq(Elements) /\ IsHeap(Popped(e))
      /\ Rearranges(Popped(e), Tail(e))
  BY <1>1, PopKeepsHeap
<1>3. /\ \A j, k \in DOMAIN Tail(e) : Tail(e)[j] = Tail(e)[k] => j = k
      /\ ElementsOf(Tail(e)) = ElementsOf(e) \ {Peek(e)}
  BY <1>1, TailDistinct
<1>4. Tail(e) \in Seq(Elements)
  BY <1>1
<1> DEFINE r == Popped(e)
           t == Tail(e)
<1> HIDE DEF r, t
<1>5. DOMAIN r = 1 .. Len(r) /\ DOMAIN t = 1 .. Len(t)
  BY <1>2, <1>4 DEF r, t
<1>6. Rearranges(r, t)
  BY <1>2 DEF r, t
<1>7. /\ ElementsOf(r) = ElementsOf(t)
      /\ (\A j, k \in DOMAIN t : t[j] = t[k] => j = k)
           => (\A j, k \in DOMAIN r : r[j] = r[k] => j = k)
  BY <1>5, <1>6, RearrangedElements
<1> QED BY <1>2, <1>3, <1>7 DEF r, t

-----------------------------------------------------------------------------
(* The array holds distinct elements and is a heap.                        *)
THEOREM MinQueueInvariant == Spec => []MinQueueInv
<1>1. Init => MinQueueInv
  BY DEF Init, MinQueueInv, IsHeap, Slots
<1>2. MinQueueInv /\ [Next]_vars => MinQueueInv'
  <2> SUFFICES ASSUME MinQueueInv, [Next]_vars PROVE MinQueueInv'
    OBVIOUS
  <2>1. CASE minq_push
    <3>1. PICK v \in Elements \ ElementsOf(e) : e' = Pushed(e, v) \/ e' = e
      BY <2>1 DEF minq_push, vars
    <3>2. CASE e' = Pushed(e, v)
      <4>1. /\ Pushed(e, v) \in Seq(Elements) /\ IsHeap(Pushed(e, v))
            /\ \A j, k \in DOMAIN Pushed(e, v) :
                 Pushed(e, v)[j] = Pushed(e, v)[k] => j = k
        BY PushEffect
      <4> QED BY <3>2, <4>1 DEF MinQueueInv, IsHeap, Slots, Slot
    <3>3. CASE e' = e
      BY <3>3 DEF MinQueueInv, IsHeap, Slots, Slot
    <3> QED BY <3>1, <3>2, <3>3
  <2>2. CASE minq_pop
    <3>1. e # <<>> /\ e' = Popped(e)
      BY <2>2 DEF minq_pop
    <3>2. /\ Popped(e) \in Seq(Elements) /\ IsHeap(Popped(e))
          /\ \A j, k \in DOMAIN Popped(e) : Popped(e)[j] = Popped(e)[k] => j = k
      BY <3>1, PopEffect
    <3> QED BY <3>1, <3>2 DEF MinQueueInv, IsHeap, Slots, Slot
  <2>3. CASE UNCHANGED vars
    BY <2>3 DEF MinQueueInv, vars, IsHeap, Slots, Slot
  <2> QED BY <2>1, <2>2, <2>3 DEF Next
<1> QED BY <1>1, <1>2, PTL DEF Spec

(* After any sequence of pushes and pops no slot of the array holds an     *)
(* element greater than those below it: what lets deliver_delayed_pkt stop *)
(* at the first datagram that is not expired.                              *)
THEOREM HeapIsOrdered == Spec => []HeapOrder
<1>1. MinQueueInv => HeapOrder
  BY DEF MinQueueInv, HeapOrder
<1> QED BY <1>1, MinQueueInvariant, PTL

(* A minqueue_t is a priority queue: a push adds its element (or nothing,  *)
(* when realloc fails), a pop removes the element minq_peek showed, and    *)
(* minq_peek shows one that no other is less than.                         *)
First == IF e = <<>> THEN {} ELSE {Peek(e)}

LEMMA FirstIsLeast ==
  MinQueueInv => Abstract!IsFirst(First, ElementsOf(e))
<1> SUFFICES ASSUME MinQueueInv PROVE Abstract!IsFirst(First, ElementsOf(e))
  OBVIOUS
<1>1. e \in Seq(Elements) /\ IsHeap(e) /\ IsOrder(Elements)
  BY MinQueueAssumption DEF MinQueueInv
<1>2. DOMAIN e = 1 .. Len(e) /\ Len(e) \in Nat
  BY <1>1
<1>3. CASE e = <<>>
  BY <1>3 DEF First, ElementsOf, Abstract!IsFirst
<1>4. CASE e # <<>>
  <2>1. 1 \in 1 .. Len(e)
    BY <1>1, <1>2, <1>4, EmptySeq
  <2>2. Peek(e) \in ElementsOf(e)
    BY <1>2, <2>1 DEF Peek, ElementsOf
  <2>3. \A k \in 1 .. Len(e) : ~cmp(Peek(e), e[k])
    BY <1>1, RootIsLeast
  <2>4. \A y \in ElementsOf(e) : ~cmp(Peek(e), y)
    BY <1>2, <2>3 DEF ElementsOf
  <2> QED BY <1>4, <2>2, <2>4 DEF First, Abstract!IsFirst
<1> QED BY <1>3, <1>4

(* minq_push, minq_pop and minq_peek are those of a priority queue: no     *)
(* element is lost or repeated, a push whose realloc() fails changes       *)
(* nothing, and the element on top is one that none is less than.          *)
THEOREM QueueRefinement == Spec => ImplementsPriorityQueue
<1>1. Init => Abstract!Init
  BY DEF Init, Abstract!Init, ElementsOf
<1>2. MinQueueInv /\ MinQueueInv' /\ [Next]_vars
        => [Abstract!Next]_<<ElementsOf(e), First>>
  <2> SUFFICES ASSUME MinQueueInv, MinQueueInv', [Next]_vars
               PROVE  [Abstract!Next]_<<ElementsOf(e), First>>
    OBVIOUS
  <2>1. Abstract!IsFirst(First, ElementsOf(e))'
    BY FirstIsLeast, PTL
  <2>2. ASSUME e' = e PROVE UNCHANGED <<ElementsOf(e), First>>
    BY <2>2 DEF ElementsOf, First, Peek
  <2>3. CASE minq_push
    <3>1. PICK v \in Elements \ ElementsOf(e) : e' = Pushed(e, v) \/ e' = e
      BY <2>3 DEF minq_push, vars
    <3>2. CASE e' = Pushed(e, v)
      <4>1. ElementsOf(Pushed(e, v)) = ElementsOf(e) \cup {v}
        BY PushEffect
      <4>2. ElementsOf(e)' = ElementsOf(e) \cup {v}
        BY <3>2, <4>1 DEF ElementsOf
      <4>3. Abstract!Push
        BY <2>1, <4>2 DEF Abstract!Push, Abstract!IsFirst, First
      <4> QED BY <4>3 DEF Abstract!Next
    <3> QED BY <2>2, <3>1, <3>2
  <2>4. CASE minq_pop
    <3>1. e # <<>> /\ e' = Popped(e)
      BY <2>4 DEF minq_pop
    <3>2. ElementsOf(Popped(e)) = ElementsOf(e) \ {Peek(e)}
      BY <3>1, PopEffect
    <3>3. ElementsOf(e)' = ElementsOf(e) \ First
      BY <3>1, <3>2 DEF ElementsOf, First
    <3>4. ElementsOf(e) # {}
      <4>1. Abstract!IsFirst(First, ElementsOf(e)) /\ First # {}
        BY <3>1, FirstIsLeast DEF First
      <4> QED BY <4>1 DEF Abstract!IsFirst
    <3>5. Abstract!Pop
      BY <2>1, <3>3, <3>4 DEF Abstract!Pop, Abstract!IsFirst, First
    <3> QED BY <3>5 DEF Abstract!Next
  <2>5. CASE UNCHANGED vars
    BY <2>2, <2>5 DEF vars
  <2> QED BY <2>3, <2>4, <2>5 DEF Next
<1>3. Abstract!Spec <=> Abstract!Init /\ [][Abstract!Next]_<<ElementsOf(e), First>>
  BY DEF Abstract!Spec, First
<1> QED BY <1>1, <1>2, <1>3, MinQueueInvariant, PTL DEF Spec, ImplementsPriorityQueue

=============================================================================
