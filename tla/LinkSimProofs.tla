---------------------------- MODULE LinkSimProofs ---------------------------
(***************************************************************************)
(* The clock of link_sim.c and its queue of delayed datagrams, for every   *)
(* delay and jitter, every number of datagrams and every time: what        *)
(* deliver_delayed_pkt leaves in the queue, what it takes out of it, in    *)
(* which order, and how long select() is told to wait.                     *)
(***************************************************************************)
EXTENDS LinkSim, FiniteSetTheorems, SequenceTheorems, TLAPS

(* The lemmas about the heap, for datagrams.  None of those used is about  *)
(* the variables of MinQueue.                                              *)
H == INSTANCE MinQueueProofs WITH
  cmp <- pkt_slot_cmp, Elements <- {}, SLOTS_PER_MALLOC <- 1,
  ReallocFails <- FALSE, e <- queue, alloc <- 1

(* What MinQueue assumes, of no element.                                   *)
LEMMA NoElements ==
  1 \in Nat \ {0} /\ FALSE \in BOOLEAN /\ H!IsOrder({})
  BY DEF H!IsOrder

-----------------------------------------------------------------------------
(* Times.                                                                  *)
Timevals == [tv_sec : Nat, tv_usec : Nat]
PktSlots == [ts : Timevals, at : Nat]

LEMMA DivMod ==
  \A n \in Nat : /\ n \div SECOND \in Nat
                 /\ n % SECOND \in 0 .. SECOND - 1
                 /\ n = SECOND * (n \div SECOND) + (n % SECOND)
  BY LinkSimAssumption

LEMMA TimevalIs ==
  \A t \in Nat : /\ Timeval(t) \in Timevals
                 /\ Timeval(t).tv_usec < SECOND
                 /\ Value(Timeval(t)) = t
  BY DivMod, LinkSimAssumption DEF Timeval, Timevals, Value

(* A date without a carry is nevertheless the sum of its parts.            *)
LEMMA ExpirationIs ==
  \A t, a \in Nat : /\ Expiration(t, a) \in Timevals
                    /\ Expiration(t, a).tv_usec < 2 * SECOND - 1
                    /\ Value(Expiration(t, a)) = t + a
<1> SUFFICES ASSUME NEW t \in Nat, NEW a \in Nat
             PROVE  /\ Expiration(t, a) \in Timevals
                    /\ Expiration(t, a).tv_usec < 2 * SECOND - 1
                    /\ Value(Expiration(t, a)) = t + a
  OBVIOUS
<1> DEFINE qt == t \div SECOND
           qa == a \div SECOND
           rt == t % SECOND
           ra == a % SECOND
<1>1. /\ qt \in Nat /\ qa \in Nat /\ rt \in 0 .. SECOND - 1 /\ ra \in 0 .. SECOND - 1
      /\ t = SECOND * qt + rt /\ a = SECOND * qa + ra
  BY DivMod
<1>2. Expiration(t, a) = [tv_sec |-> qt + qa, tv_usec |-> rt + ra]
  BY DEF Expiration
<1> HIDE DEF qt, qa, rt, ra
<1>3. SECOND \in Nat /\ SECOND > 0
  BY LinkSimAssumption
<1>4. (qt + qa) * SECOND = SECOND * qt + SECOND * qa
  BY <1>1, <1>3
<1>5. SECOND * qt \in Nat /\ SECOND * qa \in Nat
  BY <1>1, <1>3
<1>6. Value(Expiration(t, a)) = (qt + qa) * SECOND + (rt + ra)
  BY <1>2 DEF Value
<1>7. Value(Expiration(t, a)) = t + a
  BY <1>1, <1>3, <1>4, <1>5, <1>6
<1> QED BY <1>1, <1>2, <1>3, <1>7 DEF Timevals

(* One date is after another in the order of timeval_cmp: less than a      *)
(* second before it, or later.  Not after: not later, if its own           *)
(* microseconds are less than a second.                                    *)
LEMMA CmpIs ==
  ASSUME NEW a \in Timevals, NEW b \in Timevals
  PROVE  /\ TimevalCmp(a, b) /\ b.tv_usec < 2 * SECOND => Value(a) > Value(b) - SECOND
         /\ ~TimevalCmp(a, b) /\ a.tv_usec < SECOND => Value(a) <= Value(b)
<1> DEFINE x == a.tv_sec
           y == b.tv_sec
           u == a.tv_usec
           w == b.tv_usec
<1>1. x \in Nat /\ y \in Nat /\ u \in Nat /\ w \in Nat /\ SECOND \in Nat /\ SECOND > 0
  BY LinkSimAssumption DEF Timevals
<1>2. /\ TimevalCmp(a, b) <=> x > y \/ (x = y /\ u > w)
      /\ Value(a) = x * SECOND + u /\ Value(b) = y * SECOND + w
  BY DEF TimevalCmp, Value
<1> HIDE DEF x, y, u, w
<1>3. x * SECOND \in Nat /\ y * SECOND \in Nat
  BY <1>1
<1>4. x > y => x * SECOND >= y * SECOND + SECOND
  <2> SUFFICES ASSUME x > y PROVE x * SECOND >= y * SECOND + SECOND
    OBVIOUS
  <2> DEFINE d == x - y - 1
  <2>1. d \in Nat /\ x = y + 1 + d
    BY <1>1
  <2> HIDE DEF d
  <2>2. x * SECOND = y * SECOND + SECOND + d * SECOND /\ d * SECOND \in Nat
    BY <1>1, <2>1
  <2> QED BY <1>1, <1>3, <2>2
<1>5. y > x => y * SECOND >= x * SECOND + SECOND
  <2> SUFFICES ASSUME y > x PROVE y * SECOND >= x * SECOND + SECOND
    OBVIOUS
  <2> DEFINE d == y - x - 1
  <2>1. d \in Nat /\ y = x + 1 + d
    BY <1>1
  <2> HIDE DEF d
  <2>2. y * SECOND = x * SECOND + SECOND + d * SECOND /\ d * SECOND \in Nat
    BY <1>1, <2>1
  <2> QED BY <1>1, <1>3, <2>2
<1>6. TimevalCmp(a, b) /\ w < 2 * SECOND => Value(a) > Value(b) - SECOND
  BY <1>1, <1>2, <1>3, <1>4
<1>7. ~TimevalCmp(a, b) /\ u < SECOND => Value(a) <= Value(b)
  BY <1>1, <1>2, <1>3, <1>5
<1> QED BY <1>6, <1>7 DEF u, w

(* timeval_cmp is an order, also of dates without their carry.             *)
LEMMA CmpOrder ==
  \A a, b, c \in Timevals :
    /\ TimevalCmp(a, b) => ~TimevalCmp(b, a)
    /\ ~TimevalCmp(a, b) /\ ~TimevalCmp(b, c) => ~TimevalCmp(a, c)
  BY DEF Timevals, TimevalCmp

LEMMA SlotOrder == \A S \in SUBSET PktSlots : H!IsOrder(S)
  BY CmpOrder DEF PktSlots, H!IsOrder, pkt_slot_cmp

(* With one delay for all, dates are in the order of arrival.              *)
LEMMA SameDelay ==
  \A s, t, a \in Nat :
    ~TimevalCmp(Expiration(s, a), Expiration(t, a)) <=> s <= t
<1> SUFFICES ASSUME NEW s \in Nat, NEW t \in Nat, NEW a \in Nat
             PROVE  ~TimevalCmp(Expiration(s, a), Expiration(t, a)) <=> s <= t
  OBVIOUS
<1> DEFINE S == Timeval(s)
           T == Timeval(t)
<1>1. /\ S \in Timevals /\ T \in Timevals
      /\ S.tv_usec < SECOND /\ T.tv_usec < SECOND
      /\ Value(S) = s /\ Value(T) = t
  BY TimevalIs
<1>2. TimevalCmp(Expiration(s, a), Expiration(t, a)) <=> TimevalCmp(S, T)
  <2>1. /\ s \div SECOND \in Nat /\ t \div SECOND \in Nat /\ a \div SECOND \in Nat
        /\ s % SECOND \in Nat /\ t % SECOND \in Nat /\ a % SECOND \in Nat
    BY DivMod, LinkSimAssumption
  <2> QED BY <2>1 DEF TimevalCmp, Expiration, Timeval
<1>3. TimevalCmp(S, T) => ~TimevalCmp(T, S)
  BY <1>1, CmpOrder
<1>4. TimevalCmp(S, T) => t <= s /\ S # T
  BY <1>1, <1>3, CmpIs
<1>5. s = t => S = T
  OBVIOUS
<1>6. ~TimevalCmp(S, T) => s <= t
  BY <1>1, CmpIs
<1> HIDE DEF S, T
<1> QED BY <1>2, <1>4, <1>5, <1>6

-----------------------------------------------------------------------------
(* The heap of LinkSim is that of the lemmas.                              *)
LEMMA SameHeap ==
  ASSUME NEW s, NEW v
  PROVE  /\ Heap!Popped(s) = H!Popped(s)
         /\ Heap!Pushed(s, v) = H!Pushed(s, v)
         /\ Heap!Peek(s) = H!Peek(s)
         /\ Heap!IsHeap(s) <=> H!IsHeap(s)
<1>1. Heap!Peek(s) = H!Peek(s)
  BY DEF Heap!Peek, H!Peek
<1>2. Heap!IsHeap(s) <=> H!IsHeap(s)
  BY Zenon DEF Heap!IsHeap, H!IsHeap, Heap!Slots, H!Slots, Heap!Slot, H!Slot,
               Heap!PARENT, H!PARENT
<1>3. Heap!Pushed(s, v) = H!Pushed(s, v)
  BY Zenon DEF Heap!Pushed, H!Pushed, Heap!InsertsAt, H!InsertsAt,
     Heap!Path, H!Path, Heap!Slot, H!Slot, Heap!PARENT, H!PARENT
<1>4. Heap!Popped(s) = H!Popped(s)
  BY Zenon DEF Heap!Popped, H!Popped, Heap!LastAtRoot, H!LastAtRoot,
     Heap!Path, H!Path, Heap!Sunk, H!Sunk, Heap!SinksTo, H!SinksTo, Heap!HasChild, H!HasChild,
     Heap!LCHILD, H!LCHILD, Heap!Slots, H!Slots,
     Heap!Slot, H!Slot, Heap!PARENT, H!PARENT
<1> QED BY <1>1, <1>2, <1>3, <1>4

Elems(s) == {s[k] : k \in DOMAIN s}

LEMMA SeqOfElems == ASSUME NEW S, NEW s \in Seq(S) PROVE s \in Seq(Elems(s))
<1>1. /\ Len(s) \in Nat /\ DOMAIN s = 1 .. Len(s) /\ s = [k \in 1 .. Len(s) |-> s[k]]
      /\ \A k \in 1 .. Len(s) : s[k] \in Elems(s)
  BY DEF Elems
<1>2. s \in [1 .. Len(s) -> Elems(s)]
  BY <1>1
<1> QED BY <1>1, <1>2

(* What minq_push, minq_pop and minq_peek do to a queue of datagrams from  *)
(* some set.                                                               *)
LEMMA HeapPush ==
  ASSUME NEW S \in SUBSET PktSlots, NEW s \in Seq(S), NEW v \in S, Heap!IsHeap(s)
  PROVE  Heap!Pushed(s, v) \in Seq(S) /\ Heap!IsHeap(Heap!Pushed(s, v))
<1>1. H!IsOrder(S) /\ H!IsHeap(s)
  BY SlotOrder, SameHeap
<1>2. H!Pushed(s, v) \in Seq(S) /\ H!IsHeap(H!Pushed(s, v))
  BY <1>1, NoElements, H!PushKeepsHeap
<1> QED BY <1>2, SameHeap

LEMMA HeapPop ==
  ASSUME NEW S \in SUBSET PktSlots, NEW s \in Seq(S), s # <<>>, Heap!IsHeap(s)
  PROVE  /\ Heap!Popped(s) \in Seq(S) /\ Heap!IsHeap(Heap!Popped(s))
         /\ Len(Heap!Popped(s)) = Len(s) - 1
<1>1. H!IsOrder(S) /\ H!IsHeap(s)
  BY SlotOrder, SameHeap
<1>2. /\ H!Popped(s) \in Seq(S) /\ H!IsHeap(H!Popped(s))
      /\ Len(H!Popped(s)) = Len(s) - 1
  BY <1>1, NoElements, H!PopKeepsHeap
<1> QED BY <1>2, SameHeap

LEMMA HeapPeek ==
  ASSUME NEW S \in SUBSET PktSlots, NEW s \in Seq(S), Heap!IsHeap(s)
  PROVE  /\ s # <<>> => Heap!Peek(s) \in Elems(s)
         /\ \A x \in Elems(s) : ~TimevalCmp(Heap!Peek(s).ts, x.ts)
<1>1. H!IsOrder(S) /\ H!IsHeap(s)
  BY SlotOrder, SameHeap
<1>2. \A k \in 1 .. Len(s) : ~pkt_slot_cmp(H!Peek(s), s[k])
  BY <1>1, NoElements, H!RootIsLeast
<1>3. \A k \in DOMAIN s : ~pkt_slot_cmp(Heap!Peek(s), s[k])
  BY <1>2, SameHeap
<1>4. s # <<>> => 1 \in DOMAIN s
  <2>1. DOMAIN s = 1 .. Len(s) /\ Len(s) \in Nat /\ (s # <<>> => Len(s) # 0)
    OBVIOUS
  <2> QED BY <2>1
<1>5. s # <<>> => Heap!Peek(s) \in Elems(s)
  BY <1>4 DEF Heap!Peek, Elems
<1> QED BY <1>3, <1>5 DEF Elems, pkt_slot_cmp

-----------------------------------------------------------------------------
(* The queue after a number of pops.  PoppedTimes is defined by recursion: *)
(* first, that there is a function with that definition, and only one.     *)
Step(g, i) == IF i = 0 THEN queue ELSE Heap!Popped(g[i - 1])
Pops(g, n) == g = [i \in 0 .. n |-> Step(g, i)]

LEMMA PopsExist == \A n \in Nat : \E g : Pops(g, n)
<1> SUFFICES ASSUME NEW m \in Nat, ~ \E g : Pops(g, m) PROVE FALSE
  OBVIOUS
<1> DEFINE T == {n \in Nat : ~ \E g : Pops(g, n)}
<1>1. PICK n \in T : \A k \in T : n <= k
  <2>1. T \subseteq Nat /\ T # {}
    OBVIOUS
  <2> HIDE DEF T
  <2> QED BY <2>1, NoElements, H!LeastNatural
<1>2. n \in Nat /\ ~ \E g : Pops(g, n)
  OBVIOUS
<1>3. CASE n = 0
  <2> DEFINE g == [i \in 0 .. 0 |-> queue]
  <2>1. \A i \in 0 .. 0 : Step(g, i) = queue
    BY DEF Step
  <2> HIDE DEF g
  <2>2. Pops(g, 0)
    BY <2>1 DEF Pops, g
  <2> QED BY <1>2, <1>3, <2>2
<1>4. CASE n # 0
  <2>1. n - 1 \in Nat /\ ~ (n <= n - 1)
    BY <1>2, <1>4
  <2>2. PICK g : Pops(g, n - 1)
    BY <1>1, <2>1
  <2>3. g = [i \in 0 .. n - 1 |-> Step(g, i)]
    BY <2>2 DEF Pops
  <2> DEFINE h == [i \in 0 .. n |-> IF i = n THEN Heap!Popped(g[n - 1]) ELSE g[i]]
  <2>4. \A i \in 0 .. n - 1 : h[i] = g[i]
    BY <1>2
  <2>5. h[n] = Heap!Popped(g[n - 1])
    BY <1>2
  <2>6. h = [i \in 0 .. n |-> h[i]]
    OBVIOUS
  <2> HIDE DEF h
  <2>7. ASSUME NEW i \in 0 .. n PROVE h[i] = Step(h, i)
    <3>1. CASE i = n
      <4>1. h[n - 1] = g[n - 1]
        BY <2>1, <2>4
      <4> QED BY <1>4, <2>5, <3>1, <4>1 DEF Step
    <3>2. CASE i # n
      <4>1. i \in 0 .. n - 1 /\ (i # 0 => i - 1 \in 0 .. n - 1)
        BY <1>2, <3>2
      <4>2. g[i] = Step(g, i)
        BY <2>3, <4>1
      <4>3. i # 0 => h[i - 1] = g[i - 1]
        BY <2>4, <4>1
      <4> QED BY <2>4, <4>1, <4>2, <4>3 DEF Step
    <3> QED BY <3>1, <3>2
  <2>8. Pops(h, n)
    BY <2>6, <2>7 DEF Pops
  <2> QED BY <1>2, <2>8
<1> QED BY <1>3, <1>4

LEMMA PopsAre ==
  ASSUME NEW n \in Nat, NEW g, Pops(g, n)
  PROVE  \A i \in 0 .. n : g[i] = Step(g, i)
<1> DEFINE f == [i \in 0 .. n |-> Step(g, i)]
<1>1. \A i \in 0 .. n : f[i] = Step(g, i)
  OBVIOUS
<1>2. g = f
  BY DEF Pops
<1> HIDE DEF f
<1> QED BY <1>1, <1>2

LEMMA PopsUnique ==
  ASSUME NEW n \in Nat, NEW m \in Nat, NEW g, NEW h, Pops(g, n), Pops(h, m),
         NEW x \in Nat, x <= n, x <= m
  PROVE  g[x] = h[x]
<1>1. /\ \A i \in 0 .. n : g[i] = Step(g, i)
      /\ \A i \in 0 .. m : h[i] = Step(h, i)
  BY PopsAre
<1> SUFFICES ASSUME g[x] # h[x] PROVE FALSE
  OBVIOUS
<1> DEFINE T == {i \in 0 .. x : g[i] # h[i]}
<1>2. PICK i \in T : \A k \in T : i <= k
  <2>1. T \subseteq Nat /\ T # {}
    OBVIOUS
  <2> HIDE DEF T
  <2> QED BY <2>1, NoElements, H!LeastNatural
<1>3. i \in 0 .. x /\ i \in 0 .. n /\ i \in 0 .. m /\ i \in Nat
  OBVIOUS
<1>4. i # 0 => g[i - 1] = h[i - 1]
  <2>1. i # 0 => i - 1 \in 0 .. x /\ ~ (i <= i - 1)
    BY <1>3
  <2> QED BY <1>2, <2>1
<1>5. g[i] = h[i]
  BY <1>1, <1>3, <1>4 DEF Step
<1> QED BY <1>2, <1>5

LEMMA PoppedTimesIs ==
  /\ PoppedTimes(0) = queue
  /\ \A n \in Nat : PoppedTimes(n + 1) = Heap!Popped(PoppedTimes(n))
<1> DEFINE after(n) == CHOOSE g : Pops(g, n)
<1>1. \A n \in Nat : Pops(after(n), n)
  BY PopsExist, Zenon
<1>2. \A n \in Nat : PoppedTimes(n) = after(n)[n]
  BY DEF PoppedTimes, Pops, Step
<1> HIDE DEF after
<1>3. \A n \in Nat : after(n)[n] = Step(after(n), n)
  <2> SUFFICES ASSUME NEW n \in Nat PROVE after(n)[n] = Step(after(n), n)
    OBVIOUS
  <2>1. Pops(after(n), n) /\ n \in 0 .. n
    BY <1>1
  <2> QED BY <2>1, PopsAre
<1>4. PoppedTimes(0) = queue
  BY <1>2, <1>3 DEF Step
<1>5. ASSUME NEW n \in Nat PROVE PoppedTimes(n + 1) = Heap!Popped(PoppedTimes(n))
  <2>1. n + 1 \in Nat /\ n + 1 # 0 /\ (n + 1) - 1 = n /\ n <= n + 1 /\ n <= n
    OBVIOUS
  <2>2. PoppedTimes(n + 1) = Heap!Popped(after(n + 1)[n])
    BY <1>2, <1>3, <2>1 DEF Step
  <2>3. after(n + 1)[n] = after(n)[n]
    BY <1>1, <2>1, PopsUnique
  <2> QED BY <1>2, <2>2, <2>3
<1> QED BY <1>4, <1>5

-----------------------------------------------------------------------------
(* The datagrams that may be in the queue when the clock reads c, and the  *)
(* invariant: the queue holds such datagrams, in the order of a heap.      *)
HeldAt(c) == {PktSlot(t, a) : t \in 0 .. c, a \in AppliedDelays}

LinkInv ==
  /\ last_clock \in Nat
  /\ delay \in 0 .. UINT - 1
  /\ jitter \in 0 .. UINT - 1
  /\ queue \in Seq(HeldAt(last_clock))
  /\ Heap!IsHeap(queue)

(* A delay is below the cap, also one that wrapped around below zero.      *)
LEMMA DelayBelowCap == LinkInv => AppliedDelays \subseteq 0 .. DELAY_CAP - 1
<1> SUFFICES ASSUME LinkInv PROVE AppliedDelays \subseteq 0 .. DELAY_CAP - 1
  OBVIOUS
<1>1. delay \in Nat /\ jitter \in Nat /\ UINT \in Nat \ {0} /\ DELAY_CAP \in Nat \ {0}
  BY LinkSimAssumption DEF LinkInv
<1>2. \A x \in Nat : x % DELAY_CAP \in 0 .. DELAY_CAP - 1
  BY <1>1
<1>3. \A x \in Int : x % UINT \in Nat
  BY <1>1
<1>4. \A r \in 0 .. jitter - 1 : delay + r \in Int /\ delay - r \in Int
  BY <1>1
<1> QED BY <1>1, <1>2, <1>3, <1>4 DEF AppliedDelays

LEMMA HeldFacts ==
  ASSUME LinkInv, NEW c \in Nat
  PROVE  /\ HeldAt(c) \in SUBSET PktSlots
         /\ \A d \in Nat : c <= d => HeldAt(c) \subseteq HeldAt(d)
         /\ \A x \in HeldAt(c) :
              /\ x.at \in 0 .. c
              /\ x.ts \in Timevals /\ x.ts.tv_usec < 2 * SECOND
              /\ Due(x) \in x.at .. x.at + DELAY_CAP - 1
              /\ jitter = 0 => x.ts = Expiration(x.at, delay % DELAY_CAP)
<1>1. AppliedDelays \subseteq Nat /\ AppliedDelays \subseteq 0 .. DELAY_CAP - 1
  BY DelayBelowCap, LinkSimAssumption
<1>2. DELAY_CAP \in Nat /\ SECOND \in Nat
  BY LinkSimAssumption
<1>3. ASSUME NEW x \in HeldAt(c)
      PROVE  /\ x \in PktSlots
             /\ x.at \in 0 .. c
             /\ x.ts \in Timevals /\ x.ts.tv_usec < 2 * SECOND
             /\ Due(x) \in x.at .. x.at + DELAY_CAP - 1
             /\ jitter = 0 => x.ts = Expiration(x.at, delay % DELAY_CAP)
  <2>1. PICK t \in 0 .. c, a \in AppliedDelays : x = PktSlot(t, a)
    BY DEF HeldAt
  <2>2. t \in Nat /\ a \in Nat /\ a <= DELAY_CAP - 1
    BY <1>1, <1>2
  <2>3. x = [ts |-> Expiration(t, a), at |-> t]
    BY <2>1 DEF PktSlot
  <2>4. /\ Expiration(t, a) \in Timevals
        /\ Expiration(t, a).tv_usec < 2 * SECOND - 1
        /\ Expiration(t, a).tv_usec \in Nat
        /\ Value(Expiration(t, a)) = t + a
    BY <2>2, ExpirationIs DEF Timevals
  <2>5. x \in PktSlots
    BY <2>2, <2>3, <2>4 DEF PktSlots
  <2>6. Due(x) = t + a
    BY <2>3, <2>4 DEF Due
  <2>7. jitter = 0 => a = delay % DELAY_CAP
    BY DEF AppliedDelays
  <2>8. x.at = t /\ x.ts = Expiration(t, a)
    BY <2>3
  <2>9. x.ts.tv_usec < 2 * SECOND
    BY <1>2, <2>4, <2>8
  <2>10. Due(x) \in x.at .. x.at + DELAY_CAP - 1
    BY <1>2, <2>2, <2>6, <2>8
  <2> QED BY <2>4, <2>5, <2>7, <2>8, <2>9, <2>10
<1>4. \A d \in Nat : c <= d => HeldAt(c) \subseteq HeldAt(d)
  <2>1. \A d \in Nat : c <= d => 0 .. c \subseteq 0 .. d
    OBVIOUS
  <2> QED BY <2>1 DEF HeldAt
<1> QED BY <1>3, <1>4

(* What is popped of the queue remains a heap, with elements it had.       *)
LEMMA Drained ==
  ASSUME LinkInv
  PROVE  \A j \in 0 .. Len(queue) :
           /\ PoppedTimes(j) \in Seq(HeldAt(last_clock))
           /\ Heap!IsHeap(PoppedTimes(j))
           /\ Len(PoppedTimes(j)) = Len(queue) - j
           /\ \A i \in 0 .. j : PoppedTimes(j) \in Seq(Elems(PoppedTimes(i)))
<1> DEFINE Good(j) == /\ PoppedTimes(j) \in Seq(HeldAt(last_clock))
                      /\ Heap!IsHeap(PoppedTimes(j))
                      /\ Len(PoppedTimes(j)) = Len(queue) - j
                      /\ \A i \in 0 .. j : PoppedTimes(j) \in Seq(Elems(PoppedTimes(i)))
<1>1. SUFFICES ASSUME NEW m \in 0 .. Len(queue), ~ Good(m) PROVE FALSE
  OBVIOUS
<1>2. /\ queue \in Seq(HeldAt(last_clock)) /\ Heap!IsHeap(queue)
      /\ Len(queue) \in Nat /\ last_clock \in Nat
      /\ HeldAt(last_clock) \in SUBSET PktSlots
  BY HeldFacts DEF LinkInv
<1> DEFINE T == {j \in 0 .. Len(queue) : ~ Good(j)}
<1>3. PICK j \in T : \A k \in T : j <= k
  <2>1. T \subseteq Nat /\ T # {}
    BY <1>1, <1>2
  <2> HIDE DEF T
  <2> QED BY <2>1, NoElements, H!LeastNatural
<1>4. j \in 0 .. Len(queue) /\ j \in Nat /\ ~ Good(j)
  BY <1>2
<1>5. CASE j = 0
  <2>1. PoppedTimes(0) = queue
    BY PoppedTimesIs
  <2>2. queue \in Seq(Elems(queue))
    BY <1>2, SeqOfElems
  <2>3. \A i \in 0 .. 0 : i = 0
    OBVIOUS
  <2> QED BY <1>2, <1>4, <1>5, <2>1, <2>2, <2>3
<1>6. CASE j # 0
  <2> DEFINE p == j - 1
  <2>1. p \in Nat /\ p \in 0 .. Len(queue) /\ ~ (j <= p) /\ p + 1 = j
    BY <1>2, <1>4, <1>6
  <2>2. Good(p)
    <3> HIDE DEF Good, p
    <3> QED BY <1>3, <2>1
  <2>3. /\ PoppedTimes(p) \in Seq(HeldAt(last_clock))
        /\ Heap!IsHeap(PoppedTimes(p))
        /\ Len(PoppedTimes(p)) = Len(queue) - p
        /\ \A i \in 0 .. p : PoppedTimes(p) \in Seq(Elems(PoppedTimes(i)))
    BY <2>2
  <2>4. PoppedTimes(j) = Heap!Popped(PoppedTimes(p))
    BY <2>1, PoppedTimesIs
  <2>5. PoppedTimes(p) # <<>>
    <3>1. Len(PoppedTimes(p)) # 0
      BY <1>2, <1>4, <1>6, <2>3
    <3> QED BY <3>1
  <2> HIDE DEF p, Good
  <2>6. /\ PoppedTimes(j) \in Seq(HeldAt(last_clock))
        /\ Heap!IsHeap(PoppedTimes(j))
        /\ Len(PoppedTimes(j)) = Len(queue) - j
    <3>1. /\ Heap!Popped(PoppedTimes(p)) \in Seq(HeldAt(last_clock))
          /\ Heap!IsHeap(Heap!Popped(PoppedTimes(p)))
          /\ Len(Heap!Popped(PoppedTimes(p))) = Len(PoppedTimes(p)) - 1
      BY <1>2, <2>3, <2>5, HeapPop
    <3>2. (Len(queue) - p) - 1 = Len(queue) - j
      BY <1>2, <1>4, <2>1
    <3> QED BY <2>3, <2>4, <3>1, <3>2
  <2>7. ASSUME NEW i \in 0 .. j PROVE PoppedTimes(j) \in Seq(Elems(PoppedTimes(i)))
    <3>1. CASE i = j
      BY <2>6, <3>1, SeqOfElems
    <3>2. CASE i # j
      <4>1. i \in 0 .. p /\ i \in 0 .. Len(queue) /\ i \in Nat
        BY <1>2, <1>4, <2>1, <3>2
      <4>2. PoppedTimes(i) \in Seq(HeldAt(last_clock))
        <5>1. ~ (j <= i)
          BY <1>4, <3>2, <4>1
        <5>2. Good(i)
          BY <1>3, <4>1, <5>1
        <5> QED BY <5>2 DEF Good
      <4>3. Elems(PoppedTimes(i)) \in SUBSET PktSlots
        BY <1>2, <4>2 DEF Elems
      <4>4. PoppedTimes(p) \in Seq(Elems(PoppedTimes(i)))
        BY <2>3, <4>1
      <4>5. Heap!Popped(PoppedTimes(p)) \in Seq(Elems(PoppedTimes(i)))
        BY <2>3, <2>5, <4>3, <4>4, HeapPop
      <4> QED BY <2>4, <4>5
    <3> QED BY <3>1, <3>2
  <2> QED BY <1>4, <2>6, <2>7 DEF Good
<1> QED BY <1>5, <1>6

-----------------------------------------------------------------------------
(* The time out of select() is never negative, and if it is not the        *)
(* shortest one, it ends exactly when the first datagram is due.           *)
LEMMA QueueTimeoutIs ==
  ASSUME LinkInv, queue # <<>>
  PROVE  /\ QueueTimeout \in Nat
         /\ QueueTimeout > MS => last_clock + QueueTimeout = Due(Heap!Peek(queue))
<1> DEFINE a == Heap!Peek(queue).ts
           b == Timeval(last_clock)
           x == a.tv_sec
           y == b.tv_sec
           u == a.tv_usec
           w == b.tv_usec
           timeout == TimevalDiff(a, b)
<1>1. /\ SECOND \in Nat /\ SECOND > 0 /\ MS \in Nat /\ last_clock \in Nat
      /\ a \in Timevals
  <2>1. Heap!Peek(queue) \in Elems(queue)
    BY HeapPeek, HeldFacts DEF LinkInv
  <2>2. Heap!Peek(queue) \in HeldAt(last_clock)
    BY <2>1 DEF LinkInv, Elems
  <2>3. a \in Timevals
    BY <2>2, HeldFacts DEF LinkInv
  <2> QED BY <2>3, LinkSimAssumption DEF LinkInv
<1>2. b \in Timevals /\ w < SECOND /\ Value(b) = last_clock
  BY <1>1, TimevalIs
<1>3. x \in Nat /\ y \in Nat /\ u \in Nat /\ w \in Nat
  BY <1>1, <1>2 DEF Timevals
<1>4. /\ Due(Heap!Peek(queue)) = x * SECOND + u
      /\ last_clock = y * SECOND + w
  BY <1>2 DEF Due, Value
<1>5. timeout = IF u - w >= 0 THEN [tv_sec |-> x - y, tv_usec |-> u - w]
                ELSE [tv_sec  |-> x - y - 1,
                      tv_usec |-> IF x - y - 1 # 0 THEN u - w + SECOND ELSE u - w]
  BY DEF TimevalDiff
<1>6. QueueTimeout = IF timeout.tv_sec < 0 \/ (timeout.tv_sec = 0 /\ timeout.tv_usec <= 0)
                     THEN MS ELSE Value(timeout)
  BY DEF QueueTimeout
<1> HIDE DEF a, b, x, y, u, w, timeout
<1>7. /\ (x - y) * SECOND = x * SECOND - y * SECOND
      /\ (x - y - 1) * SECOND = x * SECOND - y * SECOND - SECOND
      /\ x * SECOND \in Nat /\ y * SECOND \in Nat
  BY <1>1, <1>3
<1>8. CASE timeout.tv_sec < 0 \/ (timeout.tv_sec = 0 /\ timeout.tv_usec <= 0)
  BY <1>1, <1>6, <1>8
<1>9. CASE ~ (timeout.tv_sec < 0 \/ (timeout.tv_sec = 0 /\ timeout.tv_usec <= 0))
  <2>1. QueueTimeout = Value(timeout)
    BY <1>6, <1>9
  <2>2. CASE u - w >= 0
    <3>1. timeout.tv_sec = x - y /\ timeout.tv_usec = u - w
      BY <1>5, <2>2
    <3>2. QueueTimeout = (x - y) * SECOND + (u - w)
      BY <2>1, <3>1 DEF Value
    <3>3. x - y \in Nat
      BY <1>3, <1>9, <3>1
    <3>4. (x - y) * SECOND \in Nat
      BY <1>1, <3>3
    <3>5. QueueTimeout \in Nat
      BY <1>3, <2>2, <3>2, <3>4
    <3>6. last_clock + QueueTimeout = Due(Heap!Peek(queue))
      BY <1>1, <1>3, <1>4, <1>7, <3>2
    <3> QED BY <3>5, <3>6
  <2>3. CASE ~ (u - w >= 0) /\ x - y - 1 # 0
    <3>1. timeout.tv_sec = x - y - 1 /\ timeout.tv_usec = u - w + SECOND
      BY <1>5, <2>3
    <3>2. QueueTimeout = (x - y - 1) * SECOND + (u - w + SECOND)
      BY <2>1, <3>1 DEF Value
    <3>3. x - y - 1 \in Nat
      BY <1>3, <1>9, <3>1
    <3>4. (x - y - 1) * SECOND \in Nat
      BY <1>1, <3>3
    <3>5. QueueTimeout \in Nat
      BY <1>1, <1>2, <1>3, <3>2, <3>4
    <3>6. last_clock + QueueTimeout = Due(Heap!Peek(queue))
      BY <1>1, <1>3, <1>4, <1>7, <3>2
    <3> QED BY <3>5, <3>6
  <2>4. CASE ~ (u - w >= 0) /\ x - y - 1 = 0
    <3>1. timeout.tv_sec = 0 /\ timeout.tv_usec = u - w
      BY <1>5, <2>4
    <3> QED BY <1>3, <1>9, <2>4, <3>1
  <2> QED BY <2>2, <2>3, <2>4
<1> QED BY <1>8, <1>9

(* What every iteration does, whatever arrives: the clock goes on, n       *)
(* expired datagrams leave, and one may be queued.                         *)
Iteration(n, clock) ==
  /\ n \in 0 .. Len(queue)
  /\ clock \in Nat /\ last_clock <= clock
  /\ \A i \in 0 .. n - 1 : Expired(Heap!Peek(PoppedTimes(i)), clock)
  /\ Sent(n, clock)
  /\ \/ queue' = PoppedTimes(n)
     \/ \E a \in AppliedDelays :
          queue' = Heap!Pushed(PoppedTimes(n), PktSlot(clock, a))
  /\ status' = "run" => \/ PoppedTimes(n) = <<>>
                        \/ ~Expired(Heap!Peek(PoppedTimes(n)), clock)
  /\ UNCHANGED options

LEMMA NextIs ==
  LinkInv /\ Next => (\E n, clock : Iteration(n, clock)) \/ UNCHANGED vars
<1> SUFFICES ASSUME LinkInv, Next
             PROVE  (\E n, clock : Iteration(n, clock)) \/ UNCHANGED vars
  OBVIOUS
<1>1. last_clock \in Nat /\ TimeBound \in Nat
  BY LinkSimAssumption DEF LinkInv
<1>2. \A n, clock, failed :
        Deliver(n, clock, failed) =>
          /\ \A i \in 0 .. n - 1 : Expired(Heap!Peek(PoppedTimes(i)), clock)
          /\ Sent(n, clock)
          /\ status' = "run" => \/ PoppedTimes(n) = <<>>
                                \/ ~Expired(Heap!Peek(PoppedTimes(n)), clock)
  BY DEF Deliver, Drains
<1>3. CASE Timeout
  <2>1. PICK clock \in last_clock + QueueTimeout .. TimeBound,
             n \in 0 .. Len(queue), failed \in BOOLEAN :
               Deliver(n, clock, failed) /\ queue' = PoppedTimes(n)
    BY <1>3 DEF Timeout, LeftQueued
  <2>2. QueueTimeout \in Nat
    BY <1>3, QueueTimeoutIs DEF Timeout
  <2>3. clock \in Nat /\ last_clock <= clock
    BY <1>1, <2>2
  <2>4. Iteration(n, clock)
    BY <1>2, <1>3, <2>1, <2>3 DEF Timeout, Iteration
  <2> QED BY <2>4
<1>4. CASE NotQueued
  <2>1. PICK clock \in last_clock .. TimeBound,
             n \in 0 .. Len(queue), failed \in BOOLEAN :
               Deliver(n, clock, failed) /\ queue' = PoppedTimes(n)
    BY <1>4 DEF NotQueued, LeftQueued
  <2>2. clock \in Nat /\ last_clock <= clock
    BY <1>1
  <2>3. Iteration(n, clock)
    BY <1>2, <1>4, <2>1, <2>2 DEF NotQueued, Iteration
  <2> QED BY <2>3
<1>5. CASE Queued
  <2>1. PICK clock \in last_clock .. TimeBound,
             n \in 0 .. Len(queue), failed \in BOOLEAN :
               /\ Deliver(n, clock, failed)
               /\ \E a \in AppliedDelays :
                    queue' = Heap!Pushed(PoppedTimes(n), PktSlot(clock, a))
    BY <1>5 DEF Queued, LeftQueued
  <2>2. clock \in Nat /\ last_clock <= clock
    BY <1>1
  <2>3. Iteration(n, clock)
    BY <1>2, <1>5, <2>1, <2>2 DEF Queued, Iteration
  <2> QED BY <2>3
<1>6. CASE Crash
  <2>1. PICK clock \in last_clock .. TimeBound, n \in 0 .. Len(queue) :
               /\ \A i \in 0 .. n - 1 : Expired(Heap!Peek(PoppedTimes(i)), clock)
               /\ Sent(n, clock)
               /\ queue' = PoppedTimes(n)
    BY <1>6 DEF Crash
  <2>2. clock \in Nat /\ last_clock <= clock /\ status' # "run" /\ UNCHANGED options
    BY <1>1, <1>6 DEF Crash
  <2>3. Iteration(n, clock)
    BY <2>1, <2>2 DEF Iteration
  <2> QED BY <2>3
<1>7. CASE Ended
  BY <1>7 DEF Ended
<1> QED BY <1>3, <1>4, <1>5, <1>6, <1>7 DEF Next

(* After an iteration: the queue is a heap of what was left in it and what *)
(* was queued, and the datagrams that left were the first ones in turn.    *)
LEMMA IterationIs ==
  ASSUME LinkInv, NEW n, NEW clock, Iteration(n, clock)
  PROVE  /\ n \in 0 .. Len(queue) /\ n \in Nat
         /\ PoppedTimes(n) \in Seq(HeldAt(last_clock))
         /\ HeldAt(last_clock) \subseteq HeldAt(clock)
         /\ HeldAt(clock) \in SUBSET PktSlots
         /\ queue' \in Seq(HeldAt(clock))
         /\ Heap!IsHeap(queue')
         /\ \A k \in DOMAIN queue' :
              \/ queue'[k] \in Elems(PoppedTimes(n))
              \/ \E a \in AppliedDelays : queue'[k] = PktSlot(clock, a)
         /\ DOMAIN sent' = 1 .. n
         /\ \A i \in 1 .. n :
              /\ i - 1 \in 0 .. n - 1
              /\ sent'[i] = Heap!Peek(PoppedTimes(i - 1))
              /\ sent'[i] \in Elems(PoppedTimes(i - 1))
              /\ sent'[i] \in HeldAt(last_clock)
<1> DEFINE rest == PoppedTimes(n)
<1>1. /\ n \in 0 .. Len(queue) /\ Len(queue) \in Nat /\ n \in Nat
      /\ clock \in Nat /\ last_clock \in Nat /\ last_clock <= clock
  BY DEF LinkInv, Iteration
<1>2. /\ HeldAt(clock) \in SUBSET PktSlots /\ HeldAt(last_clock) \in SUBSET PktSlots
      /\ HeldAt(last_clock) \subseteq HeldAt(clock)
  BY <1>1, HeldFacts
<1>3. /\ rest \in Seq(HeldAt(last_clock)) /\ Heap!IsHeap(rest)
      /\ rest \in Seq(Elems(rest))
  BY <1>1, Drained, SeqOfElems
<1>4. Elems(rest) \subseteq HeldAt(last_clock)
  BY <1>3 DEF Elems
<1> HIDE DEF rest
<1>5. /\ queue' \in Seq(HeldAt(clock)) /\ Heap!IsHeap(queue')
      /\ \A k \in DOMAIN queue' :
           \/ queue'[k] \in Elems(rest)
           \/ \E a \in AppliedDelays : queue'[k] = PktSlot(clock, a)
  <2>1. CASE queue' = rest
    <3>1. rest \in Seq(HeldAt(clock))
      BY <1>2, <1>3
    <3> QED BY <1>3, <2>1, <3>1 DEF Elems
  <2>2. ASSUME NEW a \in AppliedDelays,
               queue' = Heap!Pushed(rest, PktSlot(clock, a))
        PROVE  /\ queue' \in Seq(HeldAt(clock)) /\ Heap!IsHeap(queue')
               /\ \A k \in DOMAIN queue' :
                    \/ queue'[k] \in Elems(rest)
                    \/ \E b \in AppliedDelays : queue'[k] = PktSlot(clock, b)
    <3> DEFINE v == PktSlot(clock, a)
               S == Elems(rest) \cup {v}
    <3>1. v \in HeldAt(clock)
      BY <1>1 DEF HeldAt
    <3>2. S \in SUBSET PktSlots /\ S \subseteq HeldAt(clock)
      BY <1>2, <1>4, <3>1
    <3>3. rest \in Seq(S)
      BY <1>3
    <3>4. v \in S
      OBVIOUS
    <3> HIDE DEF v, S
    <3>5. Heap!Pushed(rest, v) \in Seq(S) /\ Heap!IsHeap(Heap!Pushed(rest, v))
      BY <1>3, <3>2, <3>3, <3>4, HeapPush
    <3>6. queue' \in Seq(S) /\ Heap!IsHeap(queue')
      BY <2>2, <3>5 DEF v
    <3>7. queue' \in Seq(HeldAt(clock))
      BY <3>2, <3>6
    <3>8. \A k \in DOMAIN queue' : queue'[k] \in S
      BY <3>6
    <3>9. \A k \in DOMAIN queue' : \/ queue'[k] \in Elems(rest)
                                   \/ queue'[k] = PktSlot(clock, a)
      BY <3>8 DEF S, v
    <3> QED BY <3>6, <3>7, <3>9
  <2> QED BY <2>1, <2>2 DEF Iteration, rest
<1>6. sent' = [i \in 1 .. n |-> Heap!Peek(PoppedTimes(i - 1))]
  BY DEF Iteration, Sent
<1>7. DOMAIN sent' = 1 .. n
  BY <1>6
<1>8. ASSUME NEW i \in 1 .. n
      PROVE  /\ i - 1 \in 0 .. n - 1
             /\ sent'[i] = Heap!Peek(PoppedTimes(i - 1))
             /\ sent'[i] \in Elems(PoppedTimes(i - 1))
             /\ sent'[i] \in HeldAt(last_clock)
  <2>1. i - 1 \in 0 .. n - 1 /\ i - 1 \in 0 .. Len(queue) /\ Len(queue) - (i - 1) > 0
    BY <1>1
  <2>2. /\ PoppedTimes(i - 1) \in Seq(HeldAt(last_clock))
        /\ Heap!IsHeap(PoppedTimes(i - 1))
        /\ Len(PoppedTimes(i - 1)) = Len(queue) - (i - 1)
    BY <2>1, Drained
  <2>3. PoppedTimes(i - 1) # <<>>
    BY <2>1, <2>2
  <2>4. Heap!Peek(PoppedTimes(i - 1)) \in Elems(PoppedTimes(i - 1))
    BY <1>2, <2>2, <2>3, HeapPeek
  <2>5. Elems(PoppedTimes(i - 1)) \subseteq HeldAt(last_clock)
    BY <2>2 DEF Elems
  <2> QED BY <1>6, <2>1, <2>4, <2>5
<1> QED BY <1>1, <1>2, <1>3, <1>5, <1>7, <1>8 DEF rest

(* An iteration keeps the invariant.                                       *)
LEMMA IterationKeeps ==
  ASSUME LinkInv, NEW n, NEW clock, Iteration(n, clock) PROVE LinkInv'
<1>1. /\ last_clock' = clock /\ clock \in Nat
      /\ delay' = delay /\ jitter' = jitter
  BY DEF Iteration, Sent, options
<1>2. queue' \in Seq(HeldAt(clock)) /\ Heap!IsHeap(queue')
  BY IterationIs
<1>3. AppliedDelays' = AppliedDelays
  BY <1>1 DEF AppliedDelays
<1>4. HeldAt(last_clock)' = HeldAt(clock)
  BY <1>1, <1>3 DEF HeldAt
<1>5. Heap!IsHeap(queue)'
  BY <1>2 DEF Heap!IsHeap, Heap!Slots, Heap!Slot
<1>6. (queue \in Seq(HeldAt(last_clock)))'
  BY <1>2, <1>4
<1>7. delay \in 0 .. UINT - 1 /\ jitter \in 0 .. UINT - 1
  BY DEF LinkInv
<1> QED BY <1>1, <1>5, <1>6, <1>7 DEF LinkInv

(* Every datagram in the queue has the date process_incoming_pkt gave it,  *)
(* and the queue is a heap in the order of those dates.                    *)
THEOREM LinkInvariant == Spec => []LinkInv
<1>1. Init => LinkInv
  <2> SUFFICES ASSUME Init PROVE LinkInv
    OBVIOUS
  <2>1. last_clock \in Nat
    BY LinkSimAssumption DEF Init
  <2>2. Heap!IsHeap(queue)
    BY DEF Init, Heap!IsHeap, Heap!Slots
  <2> QED BY <2>1, <2>2, LinkSimAssumption DEF Init, LinkInv
<1>2. LinkInv /\ [Next]_vars => LinkInv'
  <2> SUFFICES ASSUME LinkInv, [Next]_vars PROVE LinkInv'
    OBVIOUS
  <2>1. CASE UNCHANGED vars
    BY <2>1 DEF LinkInv, vars, HeldAt, AppliedDelays, PktSlot,
       Heap!IsHeap, Heap!Slots, Heap!Slot
  <2>2. CASE Next
    BY <2>1, <2>2, NextIs, IterationKeeps
  <2> QED BY <2>1, <2>2
<1> QED BY <1>1, <1>2, PTL DEF Spec

-----------------------------------------------------------------------------
(* After an iteration that sendto() did not stop, no datagram that is due  *)
(* is in the queue, although the dates are compared without their carry:   *)
(* the first is not expired, no other comes before it in that order, and   *)
(* what is not expired in that order is not due.                           *)
LEMMA IterationLeavesNoneOverdue ==
  ASSUME LinkInv, NEW n, NEW clock, Iteration(n, clock), status' = "run"
  PROVE  \A k \in DOMAIN queue' : Due(queue'[k]) >= clock
<1>1. clock \in Nat /\ n \in 0 .. Len(queue)
  BY DEF Iteration
<1> DEFINE rest == PoppedTimes(n)
           first == Heap!Peek(rest)
<1>2. /\ rest \in Seq(HeldAt(last_clock))
      /\ HeldAt(last_clock) \subseteq HeldAt(clock)
      /\ HeldAt(clock) \in SUBSET PktSlots
      /\ queue' \in Seq(HeldAt(clock))
      /\ \A k \in DOMAIN queue' :
           \/ queue'[k] \in Elems(rest)
           \/ \E a \in AppliedDelays : queue'[k] = PktSlot(clock, a)
  BY IterationIs
<1>3. Heap!IsHeap(rest)
  BY <1>1, Drained
<1>4. rest = <<>> \/ ~TimevalCmp(Timeval(clock), first.ts)
  BY DEF Iteration, Expired
<1> HIDE DEF rest, first
<1>5. /\ rest # <<>> => first \in Elems(rest)
      /\ \A x \in Elems(rest) : ~TimevalCmp(first.ts, x.ts)
  <2>1. HeldAt(last_clock) \in SUBSET PktSlots
    BY <1>2
  <2> QED BY <1>2, <1>3, <2>1, HeapPeek DEF first
<1> SUFFICES ASSUME NEW k \in DOMAIN queue' PROVE Due(queue'[k]) >= clock
  OBVIOUS
<1> DEFINE x == queue'[k]
<1>6. x \in HeldAt(clock)
  BY <1>2
<1>7. x.ts \in Timevals /\ x.at \in Nat /\ Due(x) >= x.at /\ Due(x) \in Nat
  <2>1. x.at \in 0 .. clock /\ x.ts \in Timevals
        /\ Due(x) \in x.at .. x.at + DELAY_CAP - 1
    BY <1>1, <1>6, HeldFacts
  <2>2. DELAY_CAP \in Nat
    BY LinkSimAssumption
  <2> QED BY <1>1, <2>1, <2>2
<1>8. CASE x \in Elems(rest)
  <2>1. rest # <<>>
    BY <1>8 DEF Elems
  <2>2. first \in HeldAt(last_clock)
    BY <1>2, <1>5, <2>1 DEF Elems
  <2>3. first.ts \in Timevals
    BY <1>2, <2>2 DEF PktSlots
  <2>4. /\ Timeval(clock) \in Timevals /\ Timeval(clock).tv_usec < SECOND
        /\ Value(Timeval(clock)) = clock
    BY <1>1, TimevalIs
  <2>5. ~TimevalCmp(Timeval(clock), first.ts) /\ ~TimevalCmp(first.ts, x.ts)
    BY <1>4, <1>5, <1>8, <2>1
  <2>6. ~TimevalCmp(Timeval(clock), x.ts)
    BY <1>7, <2>3, <2>4, <2>5, CmpOrder
  <2>7. clock <= Value(x.ts)
    BY <1>7, <2>4, <2>6, CmpIs
  <2> QED BY <1>1, <1>7, <2>7 DEF Due
<1>9. ASSUME NEW a \in AppliedDelays, x = PktSlot(clock, a) PROVE Due(x) >= clock
  <2>1. x.at = clock
    BY <1>9 DEF PktSlot
  <2> QED BY <1>7, <2>1
<1> QED BY <1>2, <1>8, <1>9

(* NoneOverdue: deliver_delayed_pkt leaves nothing in the queue that was   *)
(* due when update_time read the clock, unless sendto() must be tried      *)
(* again.                                                                  *)
THEOREM NoneIsOverdue == Spec => []NoneOverdue
<1>1. Init => NoneOverdue
  BY DEF Init, NoneOverdue
<1>2. LinkInv /\ NoneOverdue /\ [Next]_vars => NoneOverdue'
  <2> SUFFICES ASSUME LinkInv, NoneOverdue, [Next]_vars PROVE NoneOverdue'
    OBVIOUS
  <2>1. CASE UNCHANGED vars
    BY <2>1 DEF NoneOverdue, vars
  <2>2. ASSUME NEW n, NEW clock, Iteration(n, clock) PROVE NoneOverdue'
    <3>1. last_clock' = clock
      BY <2>2 DEF Iteration, Sent
    <3>2. status' = "run" => \A k \in DOMAIN queue' : Due(queue'[k]) >= clock
      BY <2>2, IterationLeavesNoneOverdue
    <3> QED BY <3>1, <3>2 DEF NoneOverdue
  <2> QED BY <2>1, <2>2, NextIs
<1> QED BY <1>1, <1>2, LinkInvariant, PTL DEF Spec

(* A datagram that leaves is expired: what a missing carry can gain is     *)
(* less than a second.                                                     *)
THEOREM LessThanASecond == Spec => []LessThanASecondEarly
<1>1. Init => LessThanASecondEarly
  BY DEF Init, LessThanASecondEarly
<1>2. LinkInv /\ LessThanASecondEarly /\ [Next]_vars => LessThanASecondEarly'
  <2> SUFFICES ASSUME LinkInv, LessThanASecondEarly, [Next]_vars
               PROVE  LessThanASecondEarly'
    OBVIOUS
  <2>1. CASE UNCHANGED vars
    BY <2>1 DEF LessThanASecondEarly, vars
  <2>2. ASSUME NEW n, NEW clock, Iteration(n, clock) PROVE LessThanASecondEarly'
    <3>1. last_clock' = clock /\ clock \in Nat /\ last_clock \in Nat
      BY <2>2 DEF Iteration, Sent, LinkInv
    <3>2. ASSUME NEW i \in DOMAIN sent' PROVE clock > Due(sent'[i]) - SECOND
      <4>1. i \in 1 .. n /\ i - 1 \in 0 .. n - 1
            /\ sent'[i] = Heap!Peek(PoppedTimes(i - 1))
            /\ sent'[i] \in HeldAt(last_clock)
        BY <2>2, <3>2, IterationIs
      <4>2. TimevalCmp(Timeval(clock), sent'[i].ts)
        BY <2>2, <4>1 DEF Iteration, Expired
      <4>3. sent'[i].ts \in Timevals /\ sent'[i].ts.tv_usec < 2 * SECOND
        BY <3>1, <4>1, HeldFacts
      <4>4. Timeval(clock) \in Timevals /\ Value(Timeval(clock)) = clock
        BY <3>1, TimevalIs
      <4>5. Value(Timeval(clock)) > Value(sent'[i].ts) - SECOND
        BY <4>2, <4>3, <4>4, CmpIs
      <4> QED BY <4>4, <4>5 DEF Due
    <3> QED BY <3>1, <3>2 DEF LessThanASecondEarly
  <2> QED BY <2>1, <2>2, NextIs
<1> QED BY <1>1, <1>2, LinkInvariant, PTL DEF Spec

(* Without jitter dates are in the order of arrival, and so is the queue:  *)
(* its first datagram is the one received first.                           *)
LEMMA EarlierFirst ==
  ASSUME LinkInv, jitter = 0,
         NEW j \in 0 .. Len(queue), NEW i \in 0 .. j, NEW x \in Elems(PoppedTimes(j))
  PROVE  /\ Heap!Peek(PoppedTimes(i)).at \in Nat /\ x.at \in Nat
         /\ Heap!Peek(PoppedTimes(i)).at <= x.at
         /\ x \in HeldAt(last_clock) /\ Heap!Peek(PoppedTimes(i)) \in HeldAt(last_clock)
<1>1. /\ last_clock \in Nat /\ Len(queue) \in Nat /\ i \in 0 .. Len(queue)
      /\ i \in Nat /\ j \in Nat
  BY DEF LinkInv
<1>2. /\ PoppedTimes(i) \in Seq(HeldAt(last_clock)) /\ Heap!IsHeap(PoppedTimes(i))
      /\ PoppedTimes(j) \in Seq(Elems(PoppedTimes(i)))
  BY <1>1, Drained
<1> DEFINE s == PoppedTimes(i)
           p == Heap!Peek(s)
           d == delay % DELAY_CAP
<1> HIDE DEF s, p, d
<1>3. x \in Elems(s)
  BY <1>2 DEF Elems, s
<1>4. s # <<>>
  BY <1>3 DEF Elems
<1>5. HeldAt(last_clock) \in SUBSET PktSlots
  BY <1>1, HeldFacts
<1>6. p \in Elems(s) /\ ~TimevalCmp(p.ts, x.ts)
  BY <1>2, <1>3, <1>4, <1>5, HeapPeek DEF p, s
<1>7. p \in HeldAt(last_clock) /\ x \in HeldAt(last_clock)
  BY <1>2, <1>3, <1>6 DEF Elems, s
<1>8. /\ p.at \in Nat /\ x.at \in Nat
      /\ p.ts = Expiration(p.at, d) /\ x.ts = Expiration(x.at, d)
  BY <1>1, <1>7, HeldFacts DEF d
<1>9. d \in Nat
  BY LinkSimAssumption DEF LinkInv, d
<1>10. p.at <= x.at
  BY <1>6, <1>8, <1>9, SameDelay
<1> QED BY <1>7, <1>8, <1>10 DEF p, s

(* NoJitterKeepsOrder: with one delay for all, the datagrams leave the     *)
(* queue in the order in which they arrived.                               *)
THEOREM NoJitterNoReordering == Spec => []NoJitterKeepsOrder
<1>1. Init => NoJitterKeepsOrder
  BY DEF Init, NoJitterKeepsOrder
<1>2. LinkInv /\ NoJitterKeepsOrder /\ [Next]_vars => NoJitterKeepsOrder'
  <2> SUFFICES ASSUME LinkInv, NoJitterKeepsOrder, [Next]_vars
               PROVE  NoJitterKeepsOrder'
    OBVIOUS
  <2>1. CASE UNCHANGED vars
    BY <2>1 DEF NoJitterKeepsOrder, vars
  <2>2. ASSUME NEW n, NEW clock, Iteration(n, clock) PROVE NoJitterKeepsOrder'
    <3> SUFFICES ASSUME jitter' = 0
                 PROVE  /\ \A i, j \in DOMAIN sent' : i < j => sent'[i].at <= sent'[j].at
                        /\ \A i \in DOMAIN sent', k \in DOMAIN queue' :
                             sent'[i].at <= queue'[k].at
      BY DEF NoJitterKeepsOrder
    <3>1. /\ jitter = 0 /\ clock \in Nat /\ last_clock \in Nat /\ last_clock <= clock
          /\ Len(queue) \in Nat
      BY <2>2 DEF Iteration, options, LinkInv
    <3>2. /\ n \in 0 .. Len(queue) /\ n \in Nat
          /\ DOMAIN sent' = 1 .. n
          /\ \A i \in 1 .. n : /\ i - 1 \in 0 .. n - 1
                               /\ sent'[i] = Heap!Peek(PoppedTimes(i - 1))
                               /\ sent'[i] \in Elems(PoppedTimes(i - 1))
                               /\ sent'[i] \in HeldAt(last_clock)
          /\ \A k \in DOMAIN queue' :
               \/ queue'[k] \in Elems(PoppedTimes(n))
               \/ \E a \in AppliedDelays : queue'[k] = PktSlot(clock, a)
      BY <2>2, IterationIs
    <3>3. ASSUME NEW i \in 1 .. n, NEW j \in 1 .. n, i < j
          PROVE  sent'[i].at <= sent'[j].at
      <4>1. j - 1 \in 0 .. Len(queue) /\ i - 1 \in 0 .. j - 1
        BY <3>1, <3>2, <3>3
      <4> QED BY <3>1, <3>2, <4>1, EarlierFirst
    <3>4. ASSUME NEW i \in 1 .. n, NEW k \in DOMAIN queue'
          PROVE  sent'[i].at <= queue'[k].at
      <4>1. i - 1 \in 0 .. n
        BY <3>2
      <4>2. CASE queue'[k] \in Elems(PoppedTimes(n))
        BY <3>1, <3>2, <4>1, <4>2, EarlierFirst
      <4>3. ASSUME NEW a \in AppliedDelays, queue'[k] = PktSlot(clock, a)
            PROVE  sent'[i].at <= queue'[k].at
        <5>1. queue'[k].at = clock
          BY <4>3 DEF PktSlot
        <5>2. sent'[i].at \in 0 .. last_clock
          BY <3>1, <3>2, HeldFacts
        <5> QED BY <3>1, <5>1, <5>2
      <4> QED BY <3>2, <4>2, <4>3
    <3> QED BY <3>2, <3>3, <3>4
  <2> QED BY <2>1, <2>2, NextIs
<1> QED BY <1>1, <1>2, LinkInvariant, PTL DEF Spec

(* Without jitter select() is not told to wait beyond the moment any       *)
(* datagram of the queue is due: its first one is due before the others,   *)
(* and a time out that is not the shortest one ends when that one is due.  *)
THEOREM NoJitterNoOversleeping == Spec => []NoJitterWakesInTime
<1>1. LinkInv => NoJitterWakesInTime
  <2> SUFFICES ASSUME LinkInv, jitter = 0, NEW k \in DOMAIN queue, QueueTimeout > MS
               PROVE  ~ (last_clock + QueueTimeout > Due(queue[k]))
    BY DEF NoJitterWakesInTime, Oversleeps
  <2> DEFINE p == Heap!Peek(queue)
             x == queue[k]
             d == delay % DELAY_CAP
  <2>1. /\ last_clock \in Nat /\ Len(queue) \in Nat /\ PoppedTimes(0) = queue
        /\ 0 \in 0 .. Len(queue) /\ 0 \in 0 .. 0
        /\ x \in Elems(queue) /\ queue # <<>>
    <3>1. last_clock \in Nat /\ Len(queue) \in Nat
      BY DEF LinkInv
    <3>2. x \in Elems(queue) /\ queue # <<>>
      BY DEF Elems
    <3> QED BY <3>1, <3>2, PoppedTimesIs
  <2>2. /\ p.at \in Nat /\ x.at \in Nat /\ p.at <= x.at
        /\ p \in HeldAt(last_clock) /\ x \in HeldAt(last_clock)
    BY <2>1, EarlierFirst
  <2>3. p.ts = Expiration(p.at, d) /\ x.ts = Expiration(x.at, d)
    BY <2>1, <2>2, HeldFacts
  <2>4. d \in Nat
    BY LinkSimAssumption DEF LinkInv
  <2> HIDE DEF p, x, d
  <2>5. Due(p) = p.at + d /\ Due(x) = x.at + d
    BY <2>2, <2>3, <2>4, ExpirationIs DEF Due
  <2>6. last_clock + QueueTimeout = Due(p)
    BY <2>1, QueueTimeoutIs DEF p
  <2>7. Due(p) <= Due(x)
    BY <2>2, <2>4, <2>5
  <2> QED BY <2>2, <2>4, <2>5, <2>6, <2>7 DEF x
<1> QED BY <1>1, LinkInvariant, PTL

(* No datagram stays in the queue for DELAY_CAP or longer: it was to leave *)
(* less than that after it arrived, and is not overdue.                    *)
THEOREM HoldIsCapped == Spec => []HeldBelowCap
<1>1. LinkInv /\ NoneOverdue => HeldBelowCap
  <2> SUFFICES ASSUME LinkInv, NoneOverdue, status = "run", NEW k \in DOMAIN queue
               PROVE  last_clock - queue[k].at < DELAY_CAP
    BY DEF HeldBelowCap
  <2>1. last_clock \in Nat /\ DELAY_CAP \in Nat /\ queue[k] \in HeldAt(last_clock)
    BY LinkSimAssumption DEF LinkInv
  <2>2. /\ queue[k].at \in 0 .. last_clock
        /\ Due(queue[k]) \in queue[k].at .. queue[k].at + DELAY_CAP - 1
    BY <2>1, HeldFacts
  <2>3. Due(queue[k]) >= last_clock
    BY DEF NoneOverdue
  <2> QED BY <2>1, <2>2, <2>3
<1> QED BY <1>1, LinkInvariant, NoneIsOverdue, PTL

-----------------------------------------------------------------------------
(* What leaves the queue was sent.  Two sequences that are rearrangements  *)
(* of each other hold as many copies of everything.                        *)
LEMMA SameCopies ==
  ASSUME NEW S, NEW s \in Seq(S), NEW t \in Seq(S), H!Rearranges(s, t)
  PROVE  Len(s) = Len(t) /\ \A x : Copies(s, x) = Copies(t, x)
<1>1. /\ Len(s) \in Nat /\ DOMAIN s = 1 .. Len(s)
      /\ Len(t) \in Nat /\ DOMAIN t = 1 .. Len(t)
  OBVIOUS
<1>2. PICK f \in [1 .. Len(s) -> 1 .. Len(t)] :
        /\ \A j, k \in 1 .. Len(s) : f[j] = f[k] => j = k
        /\ \A j \in 1 .. Len(t) : \E k \in 1 .. Len(s) : f[k] = j
        /\ \A k \in 1 .. Len(s) : s[k] = t[f[k]]
  BY DEF H!Rearranges
<1>3. /\ IsFiniteSet(1 .. Len(s)) /\ Cardinality(1 .. Len(s)) = Len(s)
      /\ IsFiniteSet(1 .. Len(t)) /\ Cardinality(1 .. Len(t)) = Len(t)
  <2>1. ASSUME NEW n \in Nat
        PROVE  IsFiniteSet(1 .. n) /\ Cardinality(1 .. n) = n
    <3>1. 1 \in Int /\ n \in Int
      OBVIOUS
    <3>2. /\ IsFiniteSet(1 .. n)
          /\ Cardinality(1 .. n) = IF 1 > n THEN 0 ELSE n - 1 + 1
      BY <3>1, FS_Interval
    <3> QED BY <3>2
  <2> QED BY <1>1, <2>1
<1>4. Len(s) = Len(t)
  <2>1. f \in Bijection(1 .. Len(s), 1 .. Len(t))
    BY <1>2 DEF Bijection, Injection, Surjection, IsInjective
  <2>2. ExistsBijection(1 .. Len(s), 1 .. Len(t))
    BY <2>1 DEF ExistsBijection
  <2> QED BY <1>3, <2>2, FS_Bijection
<1>5. ASSUME NEW x PROVE Copies(s, x) = Copies(t, x)
  <2> DEFINE A == {k \in 1 .. Len(s) : s[k] = x}
             B == {k \in 1 .. Len(t) : t[k] = x}
             g == [k \in A |-> f[k]]
  <2>1. A \in SUBSET (1 .. Len(s)) /\ g \in [A -> B]
    BY <1>2
  <2>2. \A k \in A : g[k] = f[k] /\ k \in 1 .. Len(s)
    OBVIOUS
  <2>3. \A j \in B : \E k \in A : f[k] = j
    BY <1>2
  <2>4. Copies(s, x) = Cardinality(A) /\ Copies(t, x) = Cardinality(B)
    BY <1>1 DEF Copies
  <2> HIDE DEF A, B, g
  <2>5. g \in Bijection(A, B)
    BY <1>2, <2>1, <2>2, <2>3 DEF Bijection, Injection, Surjection, IsInjective
  <2>6. ExistsBijection(A, B)
    BY <2>5 DEF ExistsBijection
  <2>7. IsFiniteSet(A)
    BY <1>3, <2>1, FS_Subset
  <2>8. Cardinality(A) = Cardinality(B)
    BY <2>6, <2>7, FS_Bijection
  <2> QED BY <2>4, <2>8
<1> QED BY <1>4, <1>5

LEMMA OneMoreCopy ==
  ASSUME NEW S, NEW s \in Seq(S), NEW v \in S
  PROVE  \A x : Copies(s, x) <= Copies(Append(s, v), x)
<1> SUFFICES ASSUME NEW x PROVE Copies(s, x) <= Copies(Append(s, v), x)
  OBVIOUS
<1> DEFINE t == Append(s, v)
           A == {k \in 1 .. Len(s) : s[k] = x}
           B == {k \in 1 .. Len(t) : t[k] = x}
<1>1. /\ Len(s) \in Nat /\ DOMAIN s = 1 .. Len(s) /\ DOMAIN t = 1 .. Len(t)
      /\ Len(t) \in Int /\ A \in SUBSET B /\ B \in SUBSET (1 .. Len(t))
  OBVIOUS
<1>2. Copies(s, x) = Cardinality(A) /\ Copies(t, x) = Cardinality(B)
  BY <1>1 DEF Copies
<1> HIDE DEF A, B
<1>3. IsFiniteSet(1 .. Len(t))
  BY <1>1, FS_Interval
<1>4. IsFiniteSet(B)
  BY <1>1, <1>3, FS_Subset
<1>5. Cardinality(A) <= Cardinality(B)
  BY <1>1, <1>4, FS_Subset
<1> QED BY <1>2, <1>5

LEMMA RearrangedAfter ==
  ASSUME NEW S, NEW u \in Seq(S), NEW s \in Seq(S), NEW t \in Seq(S),
         H!Rearranges(s, t)
  PROVE  H!Rearranges(u \o s, u \o t)
<1> DEFINE n == Len(u)
           p == u \o s
           q == u \o t
<1>1. /\ n \in Nat /\ Len(s) \in Nat /\ Len(t) \in Nat
      /\ Len(p) = n + Len(s) /\ Len(q) = n + Len(t)
      /\ \A i \in 1 .. Len(p) : p[i] = IF i <= n THEN u[i] ELSE s[i - n]
      /\ \A i \in 1 .. Len(q) : q[i] = IF i <= n THEN u[i] ELSE t[i - n]
  BY ConcatProperties
<1>2. PICK f \in [1 .. Len(s) -> 1 .. Len(t)] :
        /\ \A j, k \in 1 .. Len(s) : f[j] = f[k] => j = k
        /\ \A j \in 1 .. Len(t) : \E k \in 1 .. Len(s) : f[k] = j
        /\ \A k \in 1 .. Len(s) : s[k] = t[f[k]]
  BY DEF H!Rearranges
<1> DEFINE h == [k \in 1 .. Len(p) |-> IF k <= n THEN k ELSE n + f[k - n]]
<1> HIDE DEF n, p, q
<1>3. \A k \in 1 .. Len(p) : k > n => k - n \in 1 .. Len(s)
  BY <1>1
<1>4. \A k \in 1 .. Len(p) :
        /\ k <= n => h[k] = k
        /\ k > n => h[k] = n + f[k - n] /\ f[k - n] \in 1 .. Len(t)
  <2>1. \A k \in 1 .. Len(p) : h[k] = IF k <= n THEN k ELSE n + f[k - n]
    OBVIOUS
  <2>2. \A k \in 1 .. Len(p) : k \in Int /\ n \in Int
    BY <1>1
  <2> HIDE DEF h
  <2> QED BY <1>2, <1>3, <2>1, <2>2
<1>5. h \in [1 .. Len(p) -> 1 .. Len(q)]
  BY <1>1, <1>2, <1>3
<1> HIDE DEF h
<1>6. \A j, k \in 1 .. Len(p) : h[j] = h[k] => j = k
  <2> SUFFICES ASSUME NEW j \in 1 .. Len(p), NEW k \in 1 .. Len(p), h[j] = h[k]
               PROVE  j = k
    OBVIOUS
  <2>1. CASE j <= n \/ k <= n
    BY <1>1, <1>4, <2>1
  <2>2. CASE j > n /\ k > n
    <3>1. f[j - n] = f[k - n]
      BY <1>1, <1>4, <2>2
    <3>2. j - n = k - n
      BY <1>2, <1>3, <2>2, <3>1
    <3> QED BY <1>1, <3>2
  <2> QED BY <1>1, <2>1, <2>2
<1>7. ASSUME NEW j \in 1 .. Len(q) PROVE \E k \in 1 .. Len(p) : h[k] = j
  <2>1. CASE j <= n
    BY <1>1, <1>4, <2>1
  <2>2. CASE j > n
    <3>1. j - n \in 1 .. Len(t)
      BY <1>1, <2>2
    <3>2. PICK k \in 1 .. Len(s) : f[k] = j - n
      BY <1>2, <3>1
    <3>3. n + k \in 1 .. Len(p) /\ n + k > n /\ (n + k) - n = k
      BY <1>1
    <3>4. h[n + k] = n + f[k]
      BY <1>4, <3>3
    <3>5. h[n + k] = j
      BY <1>1, <3>2, <3>4
    <3> QED BY <3>3, <3>5
  <2> QED BY <1>1, <2>1, <2>2
<1>8. ASSUME NEW k \in 1 .. Len(p) PROVE p[k] = q[h[k]]
  <2>1. h[k] \in 1 .. Len(q)
    BY <1>5
  <2>2. CASE k <= n
    BY <1>1, <1>4, <2>1, <2>2
  <2>3. CASE k > n
    <3>1. /\ k - n \in 1 .. Len(s) /\ h[k] = n + f[k - n]
          /\ f[k - n] \in 1 .. Len(t) /\ s[k - n] = t[f[k - n]]
      BY <1>2, <1>3, <1>4, <2>3
    <3>2. p[k] = s[k - n]
      BY <1>1, <2>3
    <3>3. ~ (h[k] <= n) /\ h[k] - n = f[k - n]
      BY <1>1, <3>1
    <3>4. q[h[k]] = t[f[k - n]]
      BY <1>1, <2>1, <3>3
    <3> QED BY <3>1, <3>2, <3>4
  <2> QED BY <1>1, <2>2, <2>3
<1>9. H!Rearranges(p, q)
  BY <1>5, <1>6, <1>7, <1>8 DEF H!Rearranges
<1> QED BY <1>9 DEF p, q

(* What the first n pops take out, in that order.                          *)
Taken(n) == [i \in 1 .. n |-> Heap!Peek(PoppedTimes(i - 1))]

(* minq_push and minq_pop, on a queue of datagrams: nothing but what is    *)
(* pushed or popped is added, lost or doubled.                             *)
LEMMA HeapRearranges ==
  ASSUME NEW S \in SUBSET PktSlots, NEW s \in Seq(S), Heap!IsHeap(s)
  PROVE  /\ \A v \in S : H!Rearranges(Heap!Pushed(s, v), Append(s, v))
         /\ s # <<>> => H!Rearranges(Heap!Popped(s), Tail(s))
<1>1. H!IsOrder(S) /\ H!IsHeap(s)
  BY SlotOrder, SameHeap
<1>2. ASSUME NEW v \in S PROVE H!Rearranges(Heap!Pushed(s, v), Append(s, v))
  <2>1. H!Rearranges(H!Pushed(s, v), Append(s, v))
    BY NoElements, H!PushRearranges
  <2> QED BY <2>1, SameHeap
<1>3. ASSUME s # <<>> PROVE H!Rearranges(Heap!Popped(s), Tail(s))
  <2>1. H!Rearranges(H!Popped(s), Tail(s))
    BY <1>1, <1>3, NoElements, H!PopKeepsHeap
  <2> QED BY <2>1, SameHeap
<1> QED BY <1>2, <1>3

(* What was taken and what is left are the queue.                          *)
LEMMA TakenAndLeft ==
  ASSUME LinkInv
  PROVE  \A j \in 0 .. Len(queue) :
           /\ Taken(j) \in Seq(HeldAt(last_clock)) /\ Len(Taken(j)) = j
           /\ H!Rearranges(Taken(j) \o PoppedTimes(j), queue)
<1> DEFINE S == HeldAt(last_clock)
           Good(j) == /\ Taken(j) \in Seq(S) /\ Len(Taken(j)) = j
                      /\ H!Rearranges(Taken(j) \o PoppedTimes(j), queue)
<1>1. SUFFICES ASSUME NEW m \in 0 .. Len(queue), ~ Good(m) PROVE FALSE
  OBVIOUS
<1>2. /\ queue \in Seq(S) /\ Len(queue) \in Nat /\ S \in SUBSET PktSlots
  BY HeldFacts DEF LinkInv
<1> DEFINE T == {j \in 0 .. Len(queue) : ~ Good(j)}
<1>3. PICK j \in T : \A k \in T : j <= k
  <2>1. T \subseteq Nat /\ T # {}
    BY <1>1, <1>2
  <2> HIDE DEF T
  <2> QED BY <2>1, NoElements, H!LeastNatural
<1>4. j \in 0 .. Len(queue) /\ j \in Nat /\ ~ Good(j)
  BY <1>2
<1>5. CASE j = 0
  <2>1. PoppedTimes(0) = queue
    BY PoppedTimesIs
  <2>2. Taken(0) = <<>>
    BY DEF Taken
  <2>3. <<>> \in Seq(S) /\ Len(<<>>) = 0 /\ <<>> \o queue = queue
    BY <1>2, EmptySeq, ConcatEmptySeq
  <2>4. H!Rearranges(queue, queue)
    <3> DEFINE f == [k \in 1 .. Len(queue) |-> k]
    <3>1. /\ f \in [1 .. Len(queue) -> 1 .. Len(queue)]
          /\ \A k \in 1 .. Len(queue) : f[k] = k
      OBVIOUS
    <3> HIDE DEF f
    <3> QED BY <3>1 DEF H!Rearranges
  <2> QED BY <1>4, <1>5, <2>1, <2>2, <2>3, <2>4
<1>6. CASE j # 0
  <2> DEFINE p == j - 1
             s == PoppedTimes(p)
             u == Taken(p)
             x == Heap!Peek(s)
  <2>1. p \in Nat /\ p \in 0 .. Len(queue) /\ ~ (j <= p) /\ p + 1 = j
    BY <1>2, <1>4, <1>6
  <2>2. Good(p)
    <3> HIDE DEF Good, p
    <3> QED BY <1>3, <2>1
  <2>3. u \in Seq(S) /\ Len(u) = p /\ H!Rearranges(u \o s, queue)
    BY <2>2
  <2>4. /\ s \in Seq(S) /\ Heap!IsHeap(s) /\ Len(s) = Len(queue) - p
        /\ PoppedTimes(j) \in Seq(S)
    BY <1>4, <2>1, Drained
  <2>5. PoppedTimes(j) = Heap!Popped(s)
    BY <2>1, PoppedTimesIs
  <2>6. s # <<>> /\ Len(s) \in Nat \ {0}
    <3>1. Len(s) \in Nat \ {0}
      BY <1>2, <1>4, <1>6, <2>1, <2>4
    <3> QED BY <3>1
  <2>7. x = s[1] /\ x \in S
    BY <2>4, <2>6 DEF Heap!Peek
  <2>8. Taken(j) = Append(u, x)
    <3>1. /\ DOMAIN Taken(j) = 1 .. j /\ u = [i \in 1 .. p |-> u[i]]
          /\ \A i \in 1 .. j : Taken(j)[i] = Heap!Peek(PoppedTimes(i - 1))
          /\ \A i \in 1 .. p : u[i] = Heap!Peek(PoppedTimes(i - 1))
          /\ Taken(j) = [i \in 1 .. j |-> Taken(j)[i]]
      BY DEF Taken
    <3> HIDE DEF s, u, x, p
    <3>2. Append(u, x) = [i \in 1 .. j |-> IF i = j THEN x ELSE u[i]]
      <4>1. /\ Append(u, x) = [i \in 1 .. Len(u) + 1 |-> Append(u, x)[i]]
            /\ \A i \in 1 .. Len(u) : Append(u, x)[i] = u[i]
            /\ Append(u, x)[Len(u) + 1] = x
        BY <2>3, <2>7
      <4>2. Len(u) + 1 = j
        BY <2>1, <2>3
      <4>3. \A i \in 1 .. j : i # j => i \in 1 .. Len(u)
        BY <2>1, <2>3
      <4> QED BY <4>1, <4>2, <4>3
    <3>3. \A i \in 1 .. j : i # j => i \in 1 .. p
      BY <2>1
    <3>4. j \in 1 .. j /\ Taken(j)[j] = x
      <4>1. j \in 1 .. j /\ j - 1 = p
        BY <1>4, <1>6, <2>1
      <4> QED BY <3>1, <4>1 DEF x, s
    <3>5. \A i \in 1 .. j : Taken(j)[i] = IF i = j THEN x ELSE u[i]
      BY <3>1, <3>3, <3>4
    <3> QED BY <3>1, <3>2, <3>5
  <2> HIDE DEF s, u, p, Good
  <2> HIDE DEF x
  <2>9. Taken(j) \in Seq(S) /\ Len(Taken(j)) = j
    BY <2>1, <2>3, <2>8, <2>7
  <2>10. Tail(s) \in Seq(S) /\ Append(u, x) \o Tail(s) = u \o s
    <3>1. /\ Tail(s) \in Seq(S) /\ Len(Tail(s)) = Len(s) - 1
          /\ \A i \in 1 .. Len(Tail(s)) : Tail(s)[i] = s[i + 1]
      BY <2>4, <2>6, HeadTailProperties
    <3>2. /\ Append(u, x) \in Seq(S) /\ Len(Append(u, x)) = Len(u) + 1
          /\ \A i \in 1 .. Len(u) : Append(u, x)[i] = u[i]
          /\ Append(u, x)[Len(u) + 1] = x /\ Len(u) \in Nat
      BY <2>3, <2>7
    <3> DEFINE a == Append(u, x)
               r == Tail(s)
               l == a \o r
               q == u \o s
    <3>3. /\ l \in Seq(S) /\ Len(l) = Len(a) + Len(r)
          /\ \A i \in 1 .. Len(a) + Len(r) :
               l[i] = IF i <= Len(a) THEN a[i] ELSE r[i - Len(a)]
      BY <3>1, <3>2, ConcatProperties
    <3>4. /\ q \in Seq(S) /\ Len(q) = Len(u) + Len(s)
          /\ \A i \in 1 .. Len(u) + Len(s) :
               q[i] = IF i <= Len(u) THEN u[i] ELSE s[i - Len(u)]
      BY <2>3, <2>4, ConcatProperties
    <3> HIDE DEF a, r, l, q
    <3>5. Len(l) = Len(q) /\ Len(a) = Len(u) + 1 /\ Len(r) = Len(s) - 1
      BY <2>6, <3>1, <3>2, <3>3, <3>4 DEF a, r
    <3>6. ASSUME NEW i \in 1 .. Len(l) PROVE l[i] = q[i]
      <4>1. CASE i <= Len(u)
        <5>1. l[i] = a[i] /\ q[i] = u[i]
          BY <2>6, <3>2, <3>3, <3>4, <3>5, <4>1
        <5> QED BY <3>2, <4>1, <5>1 DEF a
      <4>2. CASE i = Len(u) + 1
        <5>1. l[i] = a[i] /\ q[i] = s[1]
          BY <2>6, <3>2, <3>3, <3>4, <3>5, <4>2
        <5> QED BY <2>7, <3>2, <4>2, <5>1 DEF a
      <4>3. CASE i > Len(u) + 1
        <5>1. l[i] = r[i - (Len(u) + 1)] /\ q[i] = s[i - Len(u)]
          BY <2>6, <3>2, <3>3, <3>4, <3>5, <4>3
        <5>2. i - (Len(u) + 1) \in 1 .. Len(r) /\ (i - (Len(u) + 1)) + 1 = i - Len(u)
          BY <2>6, <3>2, <3>3, <3>5, <4>3
        <5> QED BY <3>1, <5>1, <5>2 DEF r
      <4> QED BY <3>2, <4>1, <4>2, <4>3
    <3>7. l = q
      BY <3>3, <3>4, <3>5, <3>6, SeqEqual
    <3> QED BY <3>1, <3>7 DEF l, q, a, r
  <2>11. H!Rearranges(Heap!Popped(s), Tail(s))
    BY <1>2, <2>4, <2>6, HeapRearranges
  <2>12. H!Rearranges(Taken(j) \o PoppedTimes(j), Taken(j) \o Tail(s))
    <3>1. Heap!Popped(s) \in Seq(S)
      BY <2>4, <2>5
    <3> QED BY <2>5, <2>9, <2>10, <2>11, <3>1, RearrangedAfter
  <2>13. H!Rearranges(Taken(j) \o PoppedTimes(j), u \o s)
    BY <2>8, <2>10, <2>12
  <2>14. H!Rearranges(Taken(j) \o PoppedTimes(j), queue)
    BY <2>3, <2>13, NoElements, H!RearrangedTwice
  <2> QED BY <1>4, <2>9, <2>14 DEF Good
<1> QED BY <1>5, <1>6

(* LeavesBySending: an iteration sends what it takes out of the queue,     *)
(* each datagram once, and puts one in at most.                            *)
THEOREM NothingLostInQueue == Spec => LeavesBySending
<1> DEFINE Kept == /\ \A k \in DOMAIN queue :
                        Copies(queue, queue[k]) <= Copies(sent' \o queue', queue[k])
                   /\ Len(sent' \o queue') <= Len(queue) + 1
<1>1. LinkInv /\ [Next]_vars => [Kept]_vars
  <2> SUFFICES ASSUME LinkInv, NEW n, NEW clock, Iteration(n, clock) PROVE Kept
    BY NextIs
  <2> DEFINE rest == PoppedTimes(n)
             S == HeldAt(clock)
             w == Taken(n) \o rest
  <2>1. /\ n \in 0 .. Len(queue) /\ clock \in Nat /\ sent' = Taken(n)
        /\ last_clock \in Nat /\ last_clock <= clock
    BY DEF Iteration, Sent, Taken, LinkInv
  <2>2. HeldAt(last_clock) \subseteq S /\ S \in SUBSET PktSlots
    BY <2>1, HeldFacts
  <2>3. /\ rest \in Seq(HeldAt(last_clock)) /\ Heap!IsHeap(rest)
        /\ Taken(n) \in Seq(HeldAt(last_clock))
        /\ H!Rearranges(w, queue)
    BY <2>1, Drained, TakenAndLeft
  <2>4. rest \in Seq(S) /\ Taken(n) \in Seq(S) /\ queue \in Seq(S)
    BY <2>2, <2>3 DEF LinkInv
  <2> HIDE DEF rest, S
  <2>5. w \in Seq(S)
    BY <2>4
  <2>6. Len(w) = Len(queue) /\ \A x : Copies(w, x) = Copies(queue, x)
    BY <2>3, <2>4, <2>5, SameCopies
  <2>7. \A x : Copies(queue, x) \in Nat
    <3> SUFFICES ASSUME NEW x PROVE Copies(queue, x) \in Nat
      OBVIOUS
    <3>1. DOMAIN queue = 1 .. Len(queue) /\ Len(queue) \in Int /\ 1 \in Int
      BY <2>4
    <3>2. IsFiniteSet(1 .. Len(queue))
      BY <3>1, FS_Interval
    <3>3. IsFiniteSet({k \in DOMAIN queue : queue[k] = x})
      BY <3>1, <3>2, FS_Subset
    <3> QED BY <3>3, FS_CardinalityType DEF Copies
  <2>8. CASE queue' = rest
    <3>1. sent' \o queue' = w
      BY <2>1, <2>8
    <3>2. Len(queue) \in Nat
      BY <2>4
    <3> QED BY <2>6, <2>7, <3>1, <3>2
  <2>9. ASSUME NEW a \in AppliedDelays, queue' = Heap!Pushed(rest, PktSlot(clock, a))
        PROVE  Kept
    <3> DEFINE v == PktSlot(clock, a)
    <3>1. v \in S
      BY <2>1 DEF S, HeldAt
    <3> HIDE DEF v
    <3>2. /\ queue' \in Seq(S) /\ H!Rearranges(queue', Append(rest, v))
          /\ Append(rest, v) \in Seq(S)
      <4>1. queue' = Heap!Pushed(rest, v)
        BY <2>9 DEF v
      <4>2. Heap!Pushed(rest, v) \in Seq(S)
        BY <2>2, <2>3, <2>4, <3>1, HeapPush
      <4>3. H!Rearranges(Heap!Pushed(rest, v), Append(rest, v))
        BY <2>2, <2>3, <2>4, <3>1, HeapRearranges
      <4>4. Append(rest, v) \in Seq(S)
        BY <2>4, <3>1
      <4> QED BY <4>1, <4>2, <4>3, <4>4
    <3>3. H!Rearranges(Taken(n) \o queue', Taken(n) \o Append(rest, v))
      BY <2>4, <3>2, RearrangedAfter
    <3>4. Taken(n) \o Append(rest, v) = Append(w, v)
      BY <2>4, <3>1
    <3>5. Taken(n) \o queue' \in Seq(S) /\ Append(w, v) \in Seq(S)
      BY <2>4, <2>5, <3>1, <3>2
    <3>6. /\ Len(Taken(n) \o queue') = Len(Append(w, v))
          /\ \A x : Copies(Taken(n) \o queue', x) = Copies(Append(w, v), x)
      BY <3>3, <3>4, <3>5, SameCopies
    <3>7. \A x : Copies(w, x) <= Copies(Append(w, v), x)
      BY <2>5, <3>1, OneMoreCopy
    <3>8. Len(Append(w, v)) = Len(queue) + 1 /\ Len(queue) \in Nat
      BY <2>4, <2>5, <2>6, <3>1
    <3> HIDE DEF w
    <3>9. /\ \A x : Copies(queue, x) <= Copies(sent' \o queue', x)
          /\ Len(sent' \o queue') <= Len(queue) + 1
      BY <2>1, <2>6, <3>6, <3>7, <3>8
    <3> QED BY <3>9
  <2>10. \/ queue' = rest
         \/ \E a \in AppliedDelays : queue' = Heap!Pushed(rest, PktSlot(clock, a))
    BY DEF Iteration, rest
  <2> QED BY <2>8, <2>9, <2>10
<1> QED BY <1>1, LinkInvariant, PTL DEF Spec, LeavesBySending

=============================================================================
