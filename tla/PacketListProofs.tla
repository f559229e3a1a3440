-------------------------- MODULE PacketListProofs --------------------------
(***************************************************************************)
(* The linked list, for every number of nodes, size of the numbers and     *)
(* window: it is a NULL-terminated chain of its nodes, that of the         *)
(* receiver is in order, and both implement the sequence that the modules  *)
(* of the programs use.                                                    *)
(***************************************************************************)
EXTENDS PacketList, FiniteSetTheorems, SequenceTheorems,
        WellFoundedInduction, TLAPS

-----------------------------------------------------------------------------
(* A set of naturals has a least element: with it, what is true of a       *)
(* pointer after i steps is proved from what is true before.               *)
LEMMA LeastElement ==
  ASSUME NEW T, T \subseteq Nat, T # {}
  PROVE  \E x \in T : \A y \in T : x <= y
<1> DEFINE R == OpToRel(<, Nat)
<1>1. IsWellFoundedOn(R, Nat)
  BY NatLessThanWellFounded
<1>2. \A x, y \in Nat : <<x, y>> \in R <=> x < y
  BY DEF OpToRel
<1> HIDE DEF R
<1>3. PICK x \in T : \A y \in T : ~ (<<y, x>> \in R)
  BY <1>1, WFMin
<1>4. \A y \in T : ~ (y < x)
  BY <1>2, <1>3
<1> QED BY <1>3, <1>4

-----------------------------------------------------------------------------
(* A chain of s nodes: a, their addresses from head to tail; q, the        *)
(* packets in them.                                                        *)
IsChain(h, t, s, nodes, a, q) ==
  /\ s \in Nat
  /\ a \in [1 .. s -> Nodes]
  /\ q \in [1 .. s -> Packets]
  /\ \A i, j \in 1 .. s : a[i] = a[j] => i = j
  /\ h = IF s = 0 THEN NULL ELSE a[1]
  /\ t = IF s = 0 THEN NULL ELSE a[s]
  /\ DOMAIN nodes = {a[i] : i \in 1 .. s}
  /\ \A i \in 1 .. s :
       nodes[a[i]] = At(q[i], IF i = s THEN NULL ELSE a[i + 1])

(* A new node between the k-th and the next one.                           *)
Between(x, k, s, new) ==
  [i \in 1 .. s + 1 |-> IF i <= k THEN x[i]
                        ELSE IF i = k + 1 THEN new ELSE x[i - 1]]

(* The nodes after n was linked there.                                     *)
Linked(nodes2, nodes, s, a, k, n, p) ==
  /\ DOMAIN nodes2 = DOMAIN nodes \cup {n}
  /\ nodes2[n] = At(p, IF k = s THEN NULL ELSE a[k + 1])
  /\ \A m \in DOMAIN nodes :
       nodes2[m] = IF k > 0 /\ m = a[k] THEN At(nodes[m].packet, n)
                   ELSE nodes[m]

LEMMA ChainInserted ==
  ASSUME NEW h, NEW t, NEW s, NEW nodes, NEW a, NEW q,
         IsChain(h, t, s, nodes, a, q),
         NEW n \in Nodes \ DOMAIN nodes, NEW p \in Packets, NEW k \in 0 .. s,
         NEW h2, h2 = IF k = 0 THEN n ELSE h,
         NEW t2, t2 = IF k = s THEN n ELSE t,
         NEW nodes2, Linked(nodes2, nodes, s, a, k, n, p)
  PROVE  IsChain(h2, t2, s + 1, nodes2, Between(a, k, s, n), Between(q, k, s, p))
<1> DEFINE b == Between(a, k, s, n)
           r == Between(q, k, s, p)
<1>1. /\ s \in Nat /\ k \in Nat /\ k <= s
      /\ a \in [1 .. s -> Nodes] /\ q \in [1 .. s -> Packets]
      /\ \A i, j \in 1 .. s : a[i] = a[j] => i = j
      /\ h = IF s = 0 THEN NULL ELSE a[1]
      /\ t = IF s = 0 THEN NULL ELSE a[s]
      /\ DOMAIN nodes = {a[i] : i \in 1 .. s}
      /\ \A i \in 1 .. s :
           nodes[a[i]] = At(q[i], IF i = s THEN NULL ELSE a[i + 1])
  BY DEF IsChain
<1>1a. /\ DOMAIN nodes2 = DOMAIN nodes \cup {n}
       /\ nodes2[n] = At(p, IF k = s THEN NULL ELSE a[k + 1])
       /\ \A m \in DOMAIN nodes :
            nodes2[m] = IF k > 0 /\ m = a[k] THEN At(nodes[m].packet, n)
                        ELSE nodes[m]
  BY DEF Linked
<1>2. /\ b \in [1 .. s + 1 -> Nodes]
      /\ r \in [1 .. s + 1 -> Packets]
  BY <1>1 DEF Between
<1>3. /\ \A i \in 1 .. k : b[i] = a[i] /\ r[i] = q[i] /\ i \in 1 .. s
      /\ b[k + 1] = n /\ r[k + 1] = p
      /\ \A i \in k + 2 .. s + 1 :
           b[i] = a[i - 1] /\ r[i] = q[i - 1] /\ i - 1 \in 1 .. s
  BY <1>1 DEF Between
<1>4. \A i \in 1 .. s + 1 : i \in 1 .. k \/ i = k + 1 \/ i \in k + 2 .. s + 1
  BY <1>1
<1>5. \A i \in 1 .. s : a[i] # n
  BY <1>1
<1> HIDE DEF b, r
<1>6. \A i, j \in 1 .. s + 1 : b[i] = b[j] => i = j
  <2> SUFFICES ASSUME NEW i \in 1 .. s + 1, NEW j \in 1 .. s + 1, b[i] = b[j]
               PROVE  i = j
    OBVIOUS
  <2>1. CASE i = k + 1
    BY <1>3, <1>4, <1>5, <2>1
  <2>2. CASE j = k + 1
    BY <1>3, <1>4, <1>5, <2>2
  <2>3. CASE i # k + 1 /\ j # k + 1
    <3> DEFINE u == IF i <= k THEN i ELSE i - 1
               v == IF j <= k THEN j ELSE j - 1
    <3>1. /\ u \in 1 .. s /\ b[i] = a[u]
          /\ v \in 1 .. s /\ b[j] = a[v]
      BY <1>1, <1>3, <1>4, <2>3
    <3>2. u = v
      BY <1>1, <3>1
    <3> QED BY <1>1, <2>3, <3>2
  <2> QED BY <2>1, <2>2, <2>3
<1>7. h2 = b[1] /\ t2 = b[s + 1]
  <2>1. h2 = b[1]
    BY <1>1, <1>3
  <2>2. t2 = b[s + 1]
    BY <1>1, <1>3
  <2> QED BY <2>1, <2>2
<1>8. DOMAIN nodes2 = {b[i] : i \in 1 .. s + 1}
  <2>1. ASSUME NEW m \in DOMAIN nodes2 PROVE m \in {b[i] : i \in 1 .. s + 1}
    <3>1. CASE m = n
      BY <1>1, <1>3, <3>1
    <3>2. CASE m # n
      <4>1. PICK i \in 1 .. s : m = a[i]
        BY <1>1, <1>1a, <3>2
      <4> DEFINE j == IF i <= k THEN i ELSE i + 1
      <4>2. j \in 1 .. s + 1 /\ b[j] = m
        BY <1>1, <1>3, <4>1
      <4> QED BY <4>2
    <3> QED BY <3>1, <3>2
  <2>2. ASSUME NEW i \in 1 .. s + 1 PROVE b[i] \in DOMAIN nodes2
    <3>1. b[i] = n \/ \E j \in 1 .. s : b[i] = a[j]
      BY <1>3, <1>4
    <3>2. \A j \in 1 .. s : a[j] \in DOMAIN nodes
      BY <1>1
    <3> QED BY <1>1a, <3>1, <3>2
  <2> QED BY <2>1, <2>2
<1>9. ASSUME NEW i \in 1 .. s + 1
      PROVE  nodes2[b[i]] = At(r[i], IF i = s + 1 THEN NULL ELSE b[i + 1])
  <2>1. CASE i = k + 1
    <3>1. k # s => b[i + 1] = a[k + 1] /\ i # s + 1
      BY <1>1, <1>3, <2>1
    <3> QED BY <1>1, <1>1a, <1>3, <2>1, <3>1
  <2>2. CASE i \in 1 .. k
    <3>1. a[i] \in DOMAIN nodes /\ i \in 1 .. s
      BY <1>1, <1>3, <2>2
    <3>2. i + 1 \in 1 .. k \/ i = k
      BY <1>1, <2>2
    <3>3. CASE i = k
      <4>1. nodes2[a[i]] = At(nodes[a[i]].packet, n)
        BY <1>1, <1>1a, <3>1, <3>3
      <4>2. nodes[a[i]].packet = q[i]
        <5>1. nodes[a[i]] = At(q[i], IF i = s THEN NULL ELSE a[i + 1])
          BY <1>1, <3>1
        <5> QED BY <5>1 DEF At
      <4>3. i # s + 1 /\ b[i + 1] = n
        BY <1>1, <1>3, <3>3
      <4> QED BY <1>3, <2>2, <4>1, <4>2, <4>3
    <3>4. CASE i # k
      <4>1. i + 1 \in 1 .. k /\ i # s /\ i # s + 1 /\ b[i + 1] = a[i + 1]
        BY <1>1, <1>3, <2>2, <3>2, <3>4
      <4>2. k \in 1 .. s /\ a[i] # a[k]
        BY <1>1, <2>2, <3>1, <3>4
      <4>3. nodes2[a[i]] = nodes[a[i]]
        BY <1>1a, <3>1, <4>2
      <4> QED BY <1>1, <1>3, <2>2, <3>1, <4>1, <4>3
    <3> QED BY <3>3, <3>4
  <2>3. CASE i \in k + 2 .. s + 1
    <3>1. b[i] = a[i - 1] /\ r[i] = q[i - 1] /\ i - 1 \in 1 .. s
      BY <1>3, <2>3
    <3>2. a[i - 1] \in DOMAIN nodes
      BY <1>1, <3>1
    <3>3. ~ (k > 0 /\ a[i - 1] = a[k])
      <4>1. k > 0 => k \in 1 .. s
        BY <1>1
      <4>2. i - 1 # k
        BY <1>1, <2>3
      <4> QED BY <1>1, <3>1, <4>1, <4>2
    <3>4. nodes2[b[i]] = At(q[i - 1], IF i - 1 = s THEN NULL ELSE a[(i - 1) + 1])
      BY <1>1, <1>1a, <3>1, <3>2, <3>3
    <3>5. i # s + 1 => b[i + 1] = a[(i - 1) + 1]
      <4>1. i # s + 1 => i + 1 \in k + 2 .. s + 1 /\ (i + 1) - 1 = (i - 1) + 1
        BY <1>1, <2>3
      <4> QED BY <1>3, <4>1
    <3>6. i - 1 = s <=> i = s + 1
      BY <1>1, <2>3
    <3> QED BY <3>1, <3>4, <3>5, <3>6
  <2> QED BY <1>4, <2>1, <2>2, <2>3
<1>10. s + 1 \in Nat /\ s + 1 # 0
  BY <1>1
<1> HIDE DEF Between
<1>11. IsChain(h2, t2, s + 1, nodes2, b, r)
  BY <1>2, <1>6, <1>7, <1>8, <1>9, <1>10 DEF IsChain
<1> QED BY <1>11 DEF b, r

(* All but the first of s.                                                 *)
Rest(x, s) == [i \in 1 .. s - 1 |-> x[i + 1]]
NodesLeft(h, nodes) == [m \in DOMAIN nodes \ {h} |-> nodes[m]]

LEMMA ChainPopped ==
  ASSUME NEW h, NEW t, NEW s, NEW nodes, NEW a, NEW q,
         IsChain(h, t, s, nodes, a, q), s # 0,
         NEW h2, h2 = IF s = 1 THEN NULL ELSE nodes[h].next,
         NEW t2, t2 = IF s = 1 THEN NULL ELSE t,
         NEW nodes2, nodes2 = NodesLeft(h, nodes)
  PROVE  IsChain(h2, t2, s - 1, nodes2, Rest(a, s), Rest(q, s))
<1> DEFINE b == Rest(a, s)
           r == Rest(q, s)
<1>1. /\ s \in Nat /\ s - 1 \in Nat
      /\ a \in [1 .. s -> Nodes] /\ q \in [1 .. s -> Packets]
      /\ \A i, j \in 1 .. s : a[i] = a[j] => i = j
      /\ h = a[1]
      /\ t = a[s]
      /\ DOMAIN nodes = {a[i] : i \in 1 .. s}
      /\ \A i \in 1 .. s :
           nodes[a[i]] = At(q[i], IF i = s THEN NULL ELSE a[i + 1])
  BY DEF IsChain
<1>2. \A i \in 1 .. s - 1 :
        i + 1 \in 1 .. s /\ i \in 1 .. s /\ b[i] = a[i + 1] /\ r[i] = q[i + 1]
  BY <1>1 DEF Rest
<1>3. b \in [1 .. s - 1 -> Nodes] /\ r \in [1 .. s - 1 -> Packets]
  BY <1>1, <1>2 DEF Rest
<1> HIDE DEF b, r
<1>4. \A i, j \in 1 .. s - 1 : b[i] = b[j] => i = j
  <2> SUFFICES ASSUME NEW i \in 1 .. s - 1, NEW j \in 1 .. s - 1, b[i] = b[j]
               PROVE  i = j
    OBVIOUS
  <2>1. i + 1 = j + 1
    BY <1>1, <1>2
  <2> QED BY <2>1
<1>5. h2 = IF s - 1 = 0 THEN NULL ELSE b[1]
  <2>1. CASE s = 1
    BY <1>1, <2>1
  <2>2. CASE s # 1
    <3>1. 1 \in 1 .. s /\ 1 # s /\ b[1] = a[1 + 1] /\ s - 1 # 0
      BY <1>1, <1>2, <2>2
    <3>2. nodes[h] = At(q[1], a[1 + 1])
      BY <1>1, <3>1
    <3>3. nodes[h].next = a[1 + 1]
      BY <3>2 DEF At
    <3> QED BY <2>2, <3>1, <3>3
  <2> QED BY <2>1, <2>2
<1>6. t2 = IF s - 1 = 0 THEN NULL ELSE b[s - 1]
  <2>1. s # 1 => b[s - 1] = a[(s - 1) + 1] /\ (s - 1) + 1 = s
    BY <1>1, <1>2
  <2> QED BY <1>1, <2>1
<1>6a. /\ DOMAIN nodes2 = DOMAIN nodes \ {h}
       /\ \A m \in DOMAIN nodes2 : nodes2[m] = nodes[m]
  BY DEF NodesLeft
<1>7. DOMAIN nodes2 = {b[i] : i \in 1 .. s - 1}
  <2>1. ASSUME NEW m \in DOMAIN nodes2 PROVE m \in {b[i] : i \in 1 .. s - 1}
    <3>1. PICK j \in 1 .. s : m = a[j]
      BY <1>1, <1>6a
    <3>2. j # 1
      BY <1>1, <1>6a, <3>1
    <3>3. j - 1 \in 1 .. s - 1 /\ (j - 1) + 1 = j
      BY <1>1, <3>2
    <3> QED BY <1>2, <3>1, <3>3
  <2>2. ASSUME NEW i \in 1 .. s - 1 PROVE b[i] \in DOMAIN nodes2
    <3>1. i + 1 # 1 /\ i + 1 \in 1 .. s /\ 1 \in 1 .. s
      BY <1>1
    <3> QED BY <1>1, <1>2, <1>6a, <3>1
  <2> QED BY <2>1, <2>2
<1>8. ASSUME NEW i \in 1 .. s - 1
      PROVE  nodes2[b[i]] = At(r[i], IF i = s - 1 THEN NULL ELSE b[i + 1])
  <2>1. nodes2[b[i]] = nodes[a[i + 1]]
    BY <1>2, <1>6a, <1>7
  <2>2. nodes[a[i + 1]] = At(q[i + 1], IF i + 1 = s THEN NULL ELSE a[(i + 1) + 1])
    BY <1>1, <1>2
  <2>3. i # s - 1 => b[i + 1] = a[(i + 1) + 1]
    <3>1. i # s - 1 => i + 1 \in 1 .. s - 1
      BY <1>1
    <3> QED BY <1>2, <3>1
  <2>4. i + 1 = s <=> i = s - 1
    BY <1>1
  <2> QED BY <1>2, <2>1, <2>2, <2>3, <2>4
<1> QED BY <1>1, <1>3, <1>4, <1>5, <1>6, <1>7, <1>8 DEF IsChain, b, r

-----------------------------------------------------------------------------
(* Following the next pointers from head one meets the chain, and then     *)
(* NULL.                                                                   *)
Steps == 0 .. Cardinality(Nodes)
StepFrom(g, i) ==
  IF i = 0 THEN head
  ELSE IF g[i - 1] \notin DOMAIN node THEN NULL ELSE node[g[i - 1]].next

(* If some function satisfies the recursive definition of Follow, then     *)
(* Follow does.                                                            *)
LEMMA FollowDefined ==
  ASSUME NEW g, g = [i \in Steps |-> StepFrom(g, i)]
  PROVE  Follow = [i \in Steps |-> StepFrom(Follow, i)]
<1> DEFINE Satisfies(s) == s = [i \in Steps |-> StepFrom(s, i)]
           F == CHOOSE s : Satisfies(s)
<1>1. Satisfies(g)
  OBVIOUS
<1>2. Follow = F
  BY DEF Follow, StepFrom, Steps
<1> HIDE DEF Satisfies
<1>3. Satisfies(F)
  BY <1>1, Zenon
<1> QED BY <1>2, <1>3 DEF Satisfies

(* The length of a chain is bounded by the number of nodes.                *)
LEMMA ChainIsShort ==
  ASSUME NEW h, NEW t, NEW s, NEW nodes, NEW a, NEW q,
         IsChain(h, t, s, nodes, a, q)
  PROVE  /\ Cardinality(Nodes) \in Nat
         /\ s <= Cardinality(Nodes)
         /\ Cardinality(DOMAIN nodes) = s
<1>1. s \in Nat /\ a \in [1 .. s -> Nodes]
      /\ DOMAIN nodes = {a[i] : i \in 1 .. s}
      /\ \A i, j \in 1 .. s : a[i] = a[j] => i = j
  BY DEF IsChain
<1>2. IsFiniteSet(Nodes)
  BY PacketListAssumption
<1>3. a \in Injection(1 .. s, Nodes)
  BY <1>1 DEF Injection, IsInjective
<1>4. IsFiniteSet(1 .. s) /\ Cardinality(1 .. s) = s
  <2>1. 1 \in Int /\ s \in Int
    BY <1>1
  <2> HIDE <1>1
  <2>2. IsFiniteSet(1 .. s) /\ Cardinality(1 .. s) = IF 1 > s THEN 0 ELSE s - 1 + 1
    BY <2>1, FS_Interval, Zenon
  <2>3. (IF 1 > s THEN 0 ELSE s - 1 + 1) = s
    BY <1>1
  <2> QED BY <2>2, <2>3
<1>5. Cardinality(Nodes) \in Nat /\ s <= Cardinality(Nodes)
  <2>1. Cardinality(Nodes) \in Nat
    BY <1>2, FS_CardinalityType
  <2>2. Cardinality(1 .. s) <= Cardinality(Nodes)
    BY <1>2, <1>3, FS_Injection
  <2> QED BY <1>4, <2>1, <2>2
<1>6. Cardinality(DOMAIN nodes) = s
  <2> DEFINE D == DOMAIN nodes
  <2>1. a \in Injection(1 .. s, D) /\ a \in Surjection(1 .. s, D)
    BY <1>1 DEF Injection, Surjection, IsInjective
  <2> HIDE DEF D
  <2>2. Cardinality(1 .. s) = Cardinality(D)
    BY <1>4, <2>1, FS_Surjection
  <2> QED BY <1>4, <2>2 DEF D
<1> QED BY <1>5, <1>6

Along(a, i) == IF i < size THEN a[i + 1] ELSE NULL

LEMMA FollowChain ==
  ASSUME NEW a, NEW q, IsChain(head, tail, size, node, a, q)
  PROVE  \A i \in Steps : Follow[i] = Along(a, i)
<1> DEFINE g == [i \in Steps |-> Along(a, i)]
<1>0. Cardinality(Nodes) \in Nat /\ size <= Cardinality(Nodes)
  BY ChainIsShort
<1>1. /\ size \in Nat /\ Cardinality(Nodes) \in Nat
      /\ size <= Cardinality(Nodes)
      /\ a \in [1 .. size -> Nodes]
      /\ head = IF size = 0 THEN NULL ELSE a[1]
      /\ DOMAIN node = {a[i] : i \in 1 .. size}
      /\ \A i \in 1 .. size :
           node[a[i]] = At(q[i], IF i = size THEN NULL ELSE a[i + 1])
  BY <1>0 DEF IsChain
<1>2. NULL \notin DOMAIN node
  BY <1>1, PacketListAssumption
<1>3. ASSUME NEW f, NEW i \in Steps, i > 0 => f[i - 1] = Along(a, i - 1)
      PROVE  StepFrom(f, i) = Along(a, i)
  <2>1. CASE i = 0
    BY <1>1, <2>1 DEF StepFrom, Along, Steps
  <2>2. CASE i > 0 /\ i - 1 < size
    <3>1. i \in 1 .. size /\ f[i - 1] = a[i]
      BY <1>1, <1>3, <2>2 DEF Along, Steps
    <3>2. node[a[i]] = At(q[i], IF i = size THEN NULL ELSE a[i + 1])
      BY <1>1, <3>1
    <3>3. node[a[i]].next = IF i = size THEN NULL ELSE a[i + 1]
      BY <3>2 DEF At
    <3>4. a[i] \in DOMAIN node
      BY <1>1, <3>1
    <3>5. i < size <=> i # size
      BY <1>1, <3>1
    <3> QED BY <2>2, <3>1, <3>3, <3>4, <3>5 DEF StepFrom, Along
  <2>3. CASE i > 0 /\ ~ (i - 1 < size)
    <3>1. i \in Nat /\ ~ (i < size)
      BY <1>1, <2>3 DEF Steps
    <3> QED BY <1>2, <1>3, <2>3, <3>1 DEF StepFrom, Along
  <2>4. i \in Nat
    BY <1>1 DEF Steps
  <2> QED BY <1>1, <2>1, <2>2, <2>3, <2>4
<1>4. \A i \in Steps : i = 0 \/ (i > 0 /\ i - 1 \in Steps)
  BY <1>1 DEF Steps
<1>5. g = [i \in Steps |-> StepFrom(g, i)]
  <2>1. ASSUME NEW i \in Steps PROVE g[i] = StepFrom(g, i)
    <3>1. i > 0 => g[i - 1] = Along(a, i - 1)
      BY <1>4, <1>1 DEF Steps
    <3> HIDE DEF g
    <3>2. StepFrom(g, i) = Along(a, i)
      BY <1>3, <3>1
    <3> QED BY <3>2 DEF g
  <2>2. g = [i \in Steps |-> g[i]]
    OBVIOUS
  <2> HIDE DEF g
  <2> QED BY <2>1, <2>2
<1>6. Follow = [i \in Steps |-> StepFrom(Follow, i)]
  <2> HIDE DEF g
  <2> QED BY <1>5, FollowDefined
<1>7. \A i \in Steps : Follow[i] = StepFrom(Follow, i)
  BY <1>6
<1> SUFFICES ASSUME NEW j \in Steps, Follow[j] # Along(a, j) PROVE FALSE
  OBVIOUS
<1> DEFINE T == {i \in Steps : Follow[i] # Along(a, i)}
<1>8. T \subseteq Nat /\ T # {}
  BY <1>1 DEF Steps
<1>9. PICK i \in T : \A k \in T : i <= k
  <2> HIDE DEF T
  <2> QED BY <1>8, LeastElement
<1>10. i > 0 => Follow[i - 1] = Along(a, i - 1)
  <2>1. i > 0 => i - 1 \in Steps /\ ~ (i <= i - 1)
    BY <1>1 DEF Steps
  <2> QED BY <1>9, <2>1
<1>11. StepFrom(Follow, i) = Along(a, i)
  BY <1>3, <1>10
<1> QED BY <1>7, <1>11

(* The packets of a chain are the items of the list, and the list is a     *)
(* chain in the sense of the runs.                                         *)
LEMMA ItemsOfChain ==
  \A a, q : IsChain(head, tail, size, node, a, q) => Items = q
<1> SUFFICES ASSUME NEW a, NEW q, IsChain(head, tail, size, node, a, q)
             PROVE  Items = q
  OBVIOUS
<1>0. Cardinality(Nodes) \in Nat /\ size <= Cardinality(Nodes)
  BY ChainIsShort
<1>1. /\ size \in Nat /\ Cardinality(Nodes) \in Nat
      /\ size <= Cardinality(Nodes)
      /\ q \in [1 .. size -> Packets]
      /\ \A i \in 1 .. size :
           node[a[i]] = At(q[i], IF i = size THEN NULL ELSE a[i + 1])
  BY <1>0 DEF IsChain
<1>2. ASSUME NEW i \in 1 .. size PROVE node[Follow[i - 1]].packet = q[i]
  <2>1. i - 1 \in Steps /\ i - 1 < size /\ (i - 1) + 1 = i
    BY <1>1 DEF Steps
  <2>2. Follow[i - 1] = a[i]
    BY <2>1, FollowChain DEF Along
  <2>3. node[a[i]] = At(q[i], IF i = size THEN NULL ELSE a[i + 1])
    BY <1>1
  <2> QED BY <2>2, <2>3 DEF At
<1> QED BY <1>1, <1>2 DEF Items

LEMMA ChainOfChain ==
  ASSUME NEW a, NEW q, IsChain(head, tail, size, node, a, q)
  PROVE  Chain
<1>0. /\ Cardinality(Nodes) \in Nat
      /\ size <= Cardinality(Nodes)
      /\ Cardinality(DOMAIN node) = size
  BY ChainIsShort
<1>1. /\ size \in Nat /\ Cardinality(Nodes) \in Nat
      /\ size <= Cardinality(Nodes)
      /\ Cardinality(DOMAIN node) = size
      /\ tail = IF size = 0 THEN NULL ELSE a[size]
      /\ DOMAIN node = {a[i] : i \in 1 .. size}
  BY <1>0 DEF IsChain
<1>2. \A i \in 0 .. size - 1 : Follow[i] = a[i + 1] /\ i + 1 \in 1 .. size
  <2> SUFFICES ASSUME NEW i \in 0 .. size - 1
               PROVE  Follow[i] = a[i + 1] /\ i + 1 \in 1 .. size
    OBVIOUS
  <2>1. i \in Steps /\ i < size /\ i + 1 \in 1 .. size
    BY <1>1 DEF Steps
  <2> QED BY <2>1, FollowChain DEF Along
<1>3. Follow[size] = NULL
  <2>1. size \in Steps /\ ~ (size < size)
    BY <1>1 DEF Steps
  <2> QED BY <2>1, FollowChain DEF Along
<1>4. {Follow[i] : i \in 0 .. size - 1} = DOMAIN node
  <2>1. \A i \in 1 .. size : i - 1 \in 0 .. size - 1 /\ (i - 1) + 1 = i
    BY <1>1
  <2> QED BY <1>1, <1>2, <2>1
<1>5. size # 0 => tail = Follow[size - 1]
  <2>1. size # 0 => size - 1 \in 0 .. size - 1 /\ (size - 1) + 1 = size
    BY <1>1
  <2> QED BY <1>1, <1>2, <2>1
<1> QED BY <1>1, <1>3, <1>4, <1>5 DEF Chain

-----------------------------------------------------------------------------
(* Distance without the remainder.                                         *)
LEMMA DistanceIs ==
  \A x, y \in SeqNums :
    Distance(x, y) = IF x <= y THEN y - x ELSE y - x + SeqMod
<1> SUFFICES ASSUME NEW x \in SeqNums, NEW y \in SeqNums
             PROVE  Distance(x, y) = IF x <= y THEN y - x ELSE y - x + SeqMod
  OBVIOUS
<1> DEFINE d == y - x
           w == d \div SeqMod
           r == d % SeqMod
<1>1. /\ SeqMod \in Nat /\ SeqMod >= 2 /\ d \in Int
      /\ d < SeqMod /\ d > -SeqMod /\ (d >= 0 <=> x <= y)
  BY SeqNumAssumption DEF SeqNums
<1>2. Distance(x, y) = r
  BY DEF Distance
<1> HIDE DEF d
<1>3. w \in Int /\ r \in 0 .. SeqMod - 1 /\ d = SeqMod * w + r
  BY <1>1
<1> HIDE DEF w, r
<1>4. w = 0 \/ w = -1
  <2>1. CASE w >= 1
    <3>1. SeqMod * w >= SeqMod
      BY <1>1, <1>3, <2>1
    <3> QED BY <1>1, <1>3, <3>1
  <2>2. CASE w <= -2
    <3>1. SeqMod * w <= -2 * SeqMod
      BY <1>1, <1>3, <2>2
    <3> QED BY <1>1, <1>3, <3>1
  <2> QED BY <1>3, <2>1, <2>2
<1>5. d = r \/ d = r - SeqMod
  BY <1>1, <1>3, <1>4
<1> QED BY <1>1, <1>2, <1>3, <1>5 DEF d

(* Of numbers in one window, which begins at f, the order that             *)
(* add_specific_queue tests, and that of Sorted, is that of the distances  *)
(* from f.                                                                 *)
LEMMA OrderInWindow ==
  ASSUME NEW f \in SeqNums, NEW x \in SeqNums, NEW y \in SeqNums,
         Distance(f, x) <= MAX_WINDOW_SIZE, Distance(f, y) <= MAX_WINDOW_SIZE
  PROVE  /\ Distance(f, x) \in Nat
         /\ Distance(x, y) \in 1 .. MAX_WINDOW_SIZE
              <=> Distance(f, x) < Distance(f, y)
         /\ Precedes(x, y) <=> Distance(f, x) < Distance(f, y)
         /\ Distance(f, x) = Distance(f, y) => x = y
<1>1. /\ SeqMod \in Nat /\ MAX_WINDOW_SIZE \in Nat /\ MAX_WINDOW_SIZE >= 1
      /\ SeqMod >= 2 * MAX_WINDOW_SIZE + 2
      /\ f \in Nat /\ f < SeqMod /\ x \in Nat /\ x < SeqMod
      /\ y \in Nat /\ y < SeqMod
  BY SeqNumAssumption DEF SeqNums
<1>2. /\ Distance(f, x) = IF f <= x THEN x - f ELSE x - f + SeqMod
      /\ Distance(f, y) = IF f <= y THEN y - f ELSE y - f + SeqMod
      /\ Distance(x, y) = IF x <= y THEN y - x ELSE y - x + SeqMod
  BY DistanceIs
<1>3. Distance(x, y) \in 1 .. MAX_WINDOW_SIZE
        <=> Distance(f, x) < Distance(f, y)
  BY <1>1, <1>2
<1>4. Precedes(x, y) <=> Distance(f, x) < Distance(f, y)
  BY <1>1, <1>2 DEF Precedes
<1> QED BY <1>1, <1>2, <1>3, <1>4

-----------------------------------------------------------------------------
(* The items of a list of s packets, in order, and a packet of the same    *)
(* window.                                                                 *)
OrderedItems(q, s) ==
  \A i, j \in 1 .. s : i < j =>
    Distance(q[i].seqnum, q[j].seqnum) \in 1 .. MAX_WINDOW_SIZE

SameWindow(q, s, p) ==
  \E first \in SeqNums :
    \A x \in {q[i].seqnum : i \in 1 .. s} \cup {p.seqnum} :
      Distance(first, x) <= MAX_WINDOW_SIZE

LEMMA OrderedInserted ==
  ASSUME NEW s \in Nat, NEW q \in [1 .. s -> Packets], NEW p \in Packets,
         OrderedItems(q, s), SameWindow(q, s, p),
         NEW k \in 0 .. s,
         \A i \in 1 .. k : Precedes(q[i].seqnum, p.seqnum),
         k < s => ~Precedes(q[k + 1].seqnum, p.seqnum)
                  /\ q[k + 1].seqnum # p.seqnum
  PROVE  OrderedItems(Between(q, k, s, p), s + 1)
<1> DEFINE r == Between(q, k, s, p)
<1>1. PICK f \in SeqNums :
        \A x \in {q[i].seqnum : i \in 1 .. s} \cup {p.seqnum} :
          Distance(f, x) <= MAX_WINDOW_SIZE
  BY DEF SameWindow
<1> DEFINE far(x) == Distance(f, x.seqnum)
<1>2. /\ p.seqnum \in SeqNums /\ far(p) <= MAX_WINDOW_SIZE
      /\ \A i \in 1 .. s : /\ q[i].seqnum \in SeqNums
                           /\ far(q[i]) <= MAX_WINDOW_SIZE
  BY <1>1 DEF Packets
<1>3. /\ far(p) \in Nat
      /\ \A i \in 1 .. s : far(q[i]) \in Nat
  BY <1>2, OrderInWindow
<1>4. \A i, j \in 1 .. s : i < j => far(q[i]) < far(q[j])
  BY <1>2, OrderInWindow DEF OrderedItems
<1>5. \A i \in 1 .. k : far(q[i]) < far(p)
  <2>1. \A i \in 1 .. k : i \in 1 .. s
    OBVIOUS
  <2> QED BY <1>2, <2>1, OrderInWindow
<1>6. k < s => far(p) < far(q[k + 1])
  <2>1. k < s => k + 1 \in 1 .. s
    OBVIOUS
  <2>2. k < s => ~ (far(q[k + 1]) < far(p)) /\ far(q[k + 1]) # far(p)
    BY <1>2, <2>1, OrderInWindow
  <2> HIDE DEF far
  <2> QED BY <1>3, <2>1, <2>2
<1>7. \A i \in k + 1 .. s : far(p) < far(q[i])
  <2> SUFFICES ASSUME NEW i \in k + 1 .. s PROVE far(p) < far(q[i])
    OBVIOUS
  <2>1. k + 1 \in 1 .. s /\ i \in 1 .. s /\ k < s /\ (i = k + 1 \/ k + 1 < i)
    OBVIOUS
  <2> HIDE DEF far
  <2> QED BY <1>3, <1>4, <1>6, <2>1
<1>8. /\ \A i \in 1 .. k : r[i] = q[i] /\ i \in 1 .. s
      /\ r[k + 1] = p
      /\ \A i \in k + 2 .. s + 1 : r[i] = q[i - 1] /\ i - 1 \in k + 1 .. s
                                   /\ i - 1 \in 1 .. s
  BY DEF Between
<1>9. \A i \in 1 .. s + 1 : i \in 1 .. k \/ i = k + 1 \/ i \in k + 2 .. s + 1
  OBVIOUS
<1> HIDE DEF r
<1>10. \A i \in 1 .. s + 1 : /\ r[i].seqnum \in SeqNums
                             /\ far(r[i]) <= MAX_WINDOW_SIZE
  BY <1>2, <1>8, <1>9
<1>11. \A i, j \in 1 .. s + 1 : i < j => far(r[i]) < far(r[j])
  <2> SUFFICES ASSUME NEW i \in 1 .. s + 1, NEW j \in 1 .. s + 1, i < j
               PROVE  far(r[i]) < far(r[j])
    OBVIOUS
  <2> HIDE DEF far
  <2>1. CASE i \in 1 .. k /\ j \in 1 .. k
    BY <1>4, <1>8, <2>1
  <2>2. CASE i \in 1 .. k /\ j = k + 1
    BY <1>5, <1>8, <2>2
  <2>3. CASE i \in 1 .. k /\ j \in k + 2 .. s + 1
    <3>1. far(q[i]) < far(p) /\ far(p) < far(q[j - 1])
      BY <1>5, <1>7, <1>8, <2>3
    <3> QED BY <1>3, <1>8, <2>3, <3>1
  <2>4. CASE i = k + 1 /\ j \in k + 2 .. s + 1
    BY <1>7, <1>8, <2>4
  <2>5. CASE i \in k + 2 .. s + 1 /\ j \in k + 2 .. s + 1
    <3>1. i - 1 < j - 1
      OBVIOUS
    <3> QED BY <1>4, <1>8, <2>5, <3>1
  <2> QED BY <1>9, <2>1, <2>2, <2>3, <2>4, <2>5
<1>12. \A i, j \in 1 .. s + 1 : i < j =>
         Distance(r[i].seqnum, r[j].seqnum) \in 1 .. MAX_WINDOW_SIZE
  BY <1>10, <1>11, OrderInWindow
<1> QED BY <1>12 DEF OrderedItems, r

-----------------------------------------------------------------------------
(* The list is a chain of the packets q at the addresses a, and that of    *)
(* the receiver is in order.                                               *)
Holding(a, q) ==
  /\ IsChain(head, tail, size, node, a, q)
  /\ user = "receiver" => OrderedItems(q, size)
ListInv == \E a, q : Holding(a, q)

HoldingAfter(b, r) ==
  /\ IsChain(head', tail', size', node', b, r)
  /\ user' = "receiver" => OrderedItems(r, size')

(* What the assignments of add_element_queue and add_specific_queue do to  *)
(* a chain.                                                                *)
LEMMA ChainLinked ==
  ASSUME NEW a, NEW q, IsChain(head, tail, size, node, a, q),
         NEW n \in Nodes \ DOMAIN node, NEW p \in Packets, NEW k \in 0 .. size,
         NEW next, next = IF k = size THEN NULL ELSE a[k + 1],
         size' = size + 1,
         head' = IF k = 0 THEN n ELSE head,
         tail' = IF k = size THEN n ELSE tail,
         node' = IF k = 0 THEN Alloc(n, At(p, next))
                 ELSE [Alloc(n, At(p, next)) EXCEPT ![a[k]].next = n]
  PROVE  IsChain(head', tail', size', node',
                 Between(a, k, size, n), Between(q, k, size, p))
<1>1. /\ size \in Nat
      /\ DOMAIN node = {a[i] : i \in 1 .. size}
      /\ \A i \in 1 .. size :
           node[a[i]] = At(q[i], IF i = size THEN NULL ELSE a[i + 1])
  BY DEF IsChain
<1> DEFINE new == Alloc(n, At(p, next))
<1>2. /\ DOMAIN new = DOMAIN node \cup {n}
      /\ new[n] = At(p, next)
      /\ \A m \in DOMAIN node : new[m] = node[m]
  BY DEF Alloc
<1> HIDE DEF new
<1>3. k # 0 => a[k] \in DOMAIN node /\ a[k] # n /\ k > 0
  BY <1>1
<1>4. DOMAIN node' = DOMAIN node \cup {n}
  BY <1>2, <1>3 DEF new
<1>5. node'[n] = At(p, next)
  BY <1>2, <1>3 DEF new
<1>6. ASSUME NEW m \in DOMAIN node
      PROVE  node'[m] = IF k > 0 /\ m = a[k] THEN At(node[m].packet, n)
                        ELSE node[m]
  <2>1. CASE k = 0
    BY <1>2, <2>1 DEF new
  <2>2. CASE k # 0 /\ m = a[k]
    <3>1. node' = [new EXCEPT ![a[k]].next = n]
      BY <2>2 DEF new
    <3>2. node'[m] = [new[m] EXCEPT !.next = n]
      BY <1>2, <2>2, <3>1
    <3>3. node[m] = At(q[k], IF k = size THEN NULL ELSE a[k + 1])
      BY <1>1, <2>2
    <3>4. [node[m] EXCEPT !.next = n] = At(node[m].packet, n)
      BY <3>3 DEF At
    <3> QED BY <1>2, <1>3, <2>2, <3>2, <3>4
  <2>3. CASE k # 0 /\ m # a[k]
    <3>1. node' = [new EXCEPT ![a[k]].next = n]
      BY <2>3 DEF new
    <3> QED BY <1>2, <2>3, <3>1
  <2> QED BY <2>1, <2>2, <2>3
<1>7. IsChain(head', tail', size + 1, node',
              Between(a, k, size, n), Between(q, k, size, p))
  <2>1. Linked(node', node, size, a, k, n, p)
    BY <1>4, <1>5, <1>6 DEF Linked
  <2> QED BY <2>1, ChainInserted
<1> QED BY <1>7

(* add_element_queue appends.                                              *)
LEMMA AddStep ==
  ASSUME NEW a, NEW q, Holding(a, q), Add, UNCHANGED user
  PROVE  \E b, r : /\ HoldingAfter(b, r)
                   /\ \E p \in Packets : r = Append(q, p)
<1>1. PICK p \in Packets : AddElementQueue(p)
  BY DEF Add
<1>2. PICK n \in Nodes \ DOMAIN node :
        /\ tail' = n
        /\ size' = size + 1
        /\ IF size = 0
           THEN /\ head' = n
                /\ node' = Alloc(n, At(p, NULL))
           ELSE /\ head' = head
                /\ node' = [Alloc(n, At(p, NULL)) EXCEPT ![tail].next = n]
  BY <1>1 DEF AddElementQueue
<1>3. /\ size \in Nat /\ q \in [1 .. size -> Packets]
      /\ tail = IF size = 0 THEN NULL ELSE a[size]
      /\ IsChain(head, tail, size, node, a, q)
  BY DEF Holding, IsChain
<1> DEFINE b == Between(a, size, size, n)
           r == Between(q, size, size, p)
<1>4. size \in 0 .. size
  BY <1>3
<1>5. IsChain(head', tail', size', node', b, r)
  <2>1. node' = IF size = 0 THEN Alloc(n, At(p, NULL))
                ELSE [Alloc(n, At(p, NULL)) EXCEPT ![a[size]].next = n]
    BY <1>2, <1>3
  <2> QED BY <1>2, <1>3, <1>4, <2>1, ChainLinked
<1>6. user' # "receiver"
  BY DEF Add
<1>7. r = Append(q, p)
  <2>1. q \in Seq(Packets) /\ Len(q) = size
    BY <1>3
  <2>2. /\ Append(q, p) \in Seq(Packets)
        /\ Len(Append(q, p)) = size + 1
        /\ \A i \in 1 .. size : Append(q, p)[i] = q[i]
        /\ Append(q, p)[size + 1] = p
    BY <2>1, AppendProperties
  <2>3. r \in Seq(Packets) /\ Len(r) = size + 1
    <3>1. r \in [1 .. size + 1 -> Packets] /\ size + 1 \in Nat
      BY <1>3 DEF Between
    <3> HIDE DEF r
    <3> QED BY <3>1
  <2>4. \A i \in 1 .. size + 1 : r[i] = Append(q, p)[i]
    BY <1>3, <2>2 DEF Between
  <2> HIDE DEF r
  <2> QED BY <2>2, <2>3, <2>4, SeqEqual
<1> HIDE DEF b, r
<1>8. HoldingAfter(b, r)
  BY <1>5, <1>6 DEF HoldingAfter
<1> QED BY <1>1, <1>7, <1>8

(* add_specific_queue puts the packet at its place, or drops it.           *)
Placed(q, r) ==
  \E p \in Packets : \E k \in 1 .. Len(q) + 1 :
    GoesTo(q, p, k) /\ r = InsertedAt(q, p, k)

LEMMA AddInOrderStep ==
  ASSUME NEW a, NEW q, Holding(a, q), AddInOrder, UNCHANGED user
  PROVE  \E b, r : HoldingAfter(b, r) /\ Placed(q, r)
<1>1. PICK p \in Packets : InOneWindow(p) /\ AddSpecificQueue(p)
  BY DEF AddInOrder
<1>2. /\ size \in Nat /\ q \in [1 .. size -> Packets]
      /\ a \in [1 .. size -> Nodes]
      /\ head = IF size = 0 THEN NULL ELSE a[1]
      /\ \A i \in 1 .. size :
           node[a[i]] = At(q[i], IF i = size THEN NULL ELSE a[i + 1])
      /\ OrderedItems(q, size)
      /\ IsChain(head, tail, size, node, a, q)
  BY DEF Holding, IsChain, AddInOrder
<1>3. q \in Seq(Packets) /\ Len(q) = size
  BY <1>2
<1>4. Items = q
  BY <1>2, ItemsOfChain
<1>5. SameWindow(q, size, p)
  BY <1>1, <1>4 DEF InOneWindow, SameWindow
<1>6. /\ Cardinality(Nodes) \in Nat /\ size <= Cardinality(Nodes)
      /\ \A i \in Steps : Follow[i] = Along(a, i)
  BY <1>2, ChainIsShort, FollowChain
<1>7. NULL \notin Nodes
  BY PacketListAssumption
<1>8. PICK n \in Nodes \ DOMAIN node :
        IF size = 0
        THEN /\ head' = n
             /\ tail' = n
             /\ size' = size + 1
             /\ node' = Alloc(n, At(p, NULL))
        ELSE \E i \in 0 .. Cardinality(Nodes) :
               /\ RunnerStops(p, i)
               /\ IF Already(p, i)
                  THEN UNCHANGED list
                  ELSE Link(n, p, IF i = 0 THEN NULL ELSE Follow[i - 1], Follow[i])
  BY <1>1 DEF AddSpecificQueue
(* A new packet after k others, none of which it equals.                   *)
<1>9. ASSUME NEW k \in 0 .. size,
             \A i \in 1 .. k : Precedes(q[i].seqnum, p.seqnum),
             k < size => ~Precedes(q[k + 1].seqnum, p.seqnum)
                         /\ q[k + 1].seqnum # p.seqnum,
             IsChain(head', tail', size', node',
                     Between(a, k, size, n), Between(q, k, size, p)),
             size' = size + 1
      PROVE  \E b, r : HoldingAfter(b, r) /\ Placed(q, r)
  <2> DEFINE b == Between(a, k, size, n)
             r == Between(q, k, size, p)
  <2>1. OrderedItems(r, size + 1)
    BY <1>2, <1>5, <1>9, OrderedInserted
  <2>2. k + 1 \in 1 .. Len(q) + 1
    BY <1>2, <1>3
  <2>3. GoesTo(q, p, k + 1)
    BY <1>2, <1>3, <1>9 DEF GoesTo
  <2>4. r = InsertedAt(q, p, k + 1)
    <3>1. ~ (k + 1 <= Len(q) /\ q[k + 1].seqnum = p.seqnum)
      BY <1>2, <1>3, <1>9
    <3>2. InsertedAt(q, p, k + 1) =
            [i \in 1 .. Len(q) + 1 |->
               IF i < k + 1 THEN q[i] ELSE IF i = k + 1 THEN p ELSE q[i - 1]]
      BY <3>1 DEF InsertedAt
    <3>3. \A i \in 1 .. size + 1 : i < k + 1 <=> i <= k
      BY <1>2
    <3> QED BY <1>3, <3>2, <3>3 DEF Between
  <2> HIDE DEF b, r
  <2>5. HoldingAfter(b, r)
    BY <1>9, <2>1 DEF HoldingAfter, b, r
  <2> QED BY <2>2, <2>3, <2>4, <2>5 DEF Placed
<1>10. CASE size = 0
  <2>1. 0 \in 0 .. size
    BY <1>2
  <2>2. IsChain(head', tail', size', node',
                Between(a, 0, size, n), Between(q, 0, size, p))
    BY <1>2, <1>8, <1>10, <2>1, ChainLinked
  <2> QED BY <1>8, <1>9, <1>10, <2>1, <2>2
<1>11. CASE size # 0
  <2>1. PICK i \in Steps :
          /\ RunnerStops(p, i)
          /\ IF Already(p, i)
             THEN UNCHANGED list
             ELSE Link(n, p, IF i = 0 THEN NULL ELSE Follow[i - 1], Follow[i])
    BY <1>8, <1>11 DEF Steps
  <2>2. i \in Nat
    BY <1>6 DEF Steps
  <2>3. i <= size
    <3> SUFFICES ASSUME i > size PROVE FALSE
      BY <1>2, <2>2
    <3>1. size \in Steps /\ size \in 0 .. i - 1 /\ ~ (size < size)
      BY <1>2, <1>6, <2>2 DEF Steps
    <3>2. Follow[size] = NULL
      BY <1>6, <3>1 DEF Along
    <3> QED BY <2>1, <3>1, <3>2 DEF RunnerStops
  <2>4. i \in 0 .. size
    BY <1>2, <2>2, <2>3
  <2>5. Follow[i] = IF i = size THEN NULL ELSE a[i + 1]
    BY <1>2, <1>6, <2>2, <2>3 DEF Along
  <2>6. ASSUME NEW j \in 1 .. size
        PROVE  /\ j - 1 \in Steps
               /\ Follow[j - 1] = a[j]
               /\ a[j] # NULL
               /\ node[a[j]].packet = q[j]
    <3>1. j - 1 \in Steps /\ j - 1 < size /\ (j - 1) + 1 = j
      BY <1>2, <1>6 DEF Steps
    <3>2. Follow[j - 1] = a[j]
      BY <1>6, <3>1 DEF Along
    <3>3. node[a[j]] = At(q[j], IF j = size THEN NULL ELSE a[j + 1])
      BY <1>2
    <3>4. node[a[j]].packet = q[j]
      BY <3>3 DEF At
    <3> QED BY <1>2, <1>7, <3>1, <3>2, <3>4
  <2>7. \A j \in 1 .. i : Precedes(q[j].seqnum, p.seqnum)
    <3> SUFFICES ASSUME NEW j \in 1 .. i
                 PROVE  Precedes(q[j].seqnum, p.seqnum)
      OBVIOUS
    <3>1. j - 1 \in 0 .. i - 1 /\ j \in 1 .. size
      BY <1>2, <2>2, <2>3
    <3>2. Precedes(node[Follow[j - 1]].packet.seqnum, p.seqnum)
      BY <2>1, <3>1 DEF RunnerStops
    <3> QED BY <2>6, <3>1, <3>2
  <2>8. i < size => /\ i + 1 \in 1 .. size
                    /\ Follow[i] = a[i + 1]
                    /\ Follow[i] # NULL
                    /\ node[Follow[i]].packet = q[i + 1]
    <3>1. i < size => i + 1 \in 1 .. size /\ (i + 1) - 1 = i
      BY <1>2, <2>2
    <3> QED BY <2>6, <3>1
  <2>9. i < size => ~Precedes(q[i + 1].seqnum, p.seqnum)
    BY <2>1, <2>8 DEF RunnerStops
  <2>10. i > 0 => i \in 1 .. size
    BY <1>2, <2>2, <2>3
  <2>11. CASE Already(p, i)
    <3>1. i < size
      <4> SUFFICES ASSUME i = size PROVE FALSE
        BY <1>2, <2>2, <2>3
      <4>1. Follow[i] = NULL /\ i \in 1 .. size
        BY <1>2, <1>11, <2>5
      <4>2. node[Follow[i - 1]].packet = q[i]
        BY <2>6, <4>1
      <4>3. q[i].seqnum = p.seqnum
        BY <2>11, <4>1, <4>2 DEF Already
      <4>4. Precedes(q[i].seqnum, p.seqnum)
        BY <2>7, <4>1, <2>2
      <4>5. p.seqnum \in Nat /\ MAX_WINDOW_SIZE \in Nat
        BY SeqNumAssumption DEF Packets, SeqNums
      <4> QED BY <4>3, <4>4, <4>5 DEF Precedes
    <3>2. q[i + 1].seqnum = p.seqnum
      BY <2>8, <2>11, <3>1 DEF Already
    <3>3. GoesTo(q, p, i + 1)
      BY <1>3, <2>2, <2>7, <2>9, <3>1 DEF GoesTo
    <3>4. i + 1 \in 1 .. Len(q) + 1 /\ q = InsertedAt(q, p, i + 1)
      BY <1>2, <1>3, <2>2, <3>1, <3>2 DEF InsertedAt
    <3>5. HoldingAfter(a, q)
      BY <1>2, <2>1, <2>11 DEF HoldingAfter, list
    <3> QED BY <3>3, <3>4, <3>5 DEF Placed
  <2>12. CASE ~ Already(p, i)
    <3> DEFINE previous == IF i = 0 THEN NULL ELSE Follow[i - 1]
    <3>1. Link(n, p, previous, Follow[i])
      BY <2>1, <2>12
    <3>2. previous = IF i = 0 THEN NULL ELSE a[i]
      BY <2>2, <2>6, <2>10
    <3>3. previous = NULL <=> i = 0
      BY <2>2, <2>6, <2>10, <3>2
    <3>4. Follow[i] = NULL <=> i = size
      BY <2>2, <2>3, <2>5, <2>8, <1>2
    <3> HIDE DEF previous
    <3>5. /\ size' = size + 1
          /\ head' = IF i = 0 THEN n ELSE head
          /\ tail' = IF i = size THEN n ELSE tail
          /\ node' = IF i = 0 THEN Alloc(n, At(p, Follow[i]))
                     ELSE [Alloc(n, At(p, Follow[i])) EXCEPT ![a[i]].next = n]
      BY <3>1, <3>2, <3>3, <3>4 DEF Link, TailAfter
    <3>6. IsChain(head', tail', size', node',
                  Between(a, i, size, n), Between(q, i, size, p))
      BY <1>2, <2>4, <2>5, <3>5, ChainLinked
    <3>7. i < size => q[i + 1].seqnum # p.seqnum
      BY <2>8, <2>12 DEF Already
    <3> QED BY <1>9, <2>4, <2>7, <2>9, <3>5, <3>6, <3>7
  <2> QED BY <2>11, <2>12
<1> QED BY <1>10, <1>11

(* pop_element_queue takes the first packet.                               *)
LEMMA PopStep ==
  ASSUME NEW a, NEW q, Holding(a, q), PopElementQueue, UNCHANGED user
  PROVE  \E b, r : HoldingAfter(b, r) /\ q # <<>> /\ r = Tail(q)
<1>1. /\ size \in Nat /\ size # 0 /\ q \in [1 .. size -> Packets]
      /\ user = "receiver" => OrderedItems(q, size)
      /\ IsChain(head, tail, size, node, a, q)
  BY DEF Holding, IsChain, PopElementQueue
<1> DEFINE b == Rest(a, size)
           r == Rest(q, size)
<1>2. IsChain(head', tail', size - 1, node', b, r)
  <2>1. /\ head' = IF size = 1 THEN NULL ELSE node[head].next
        /\ tail' = IF size = 1 THEN NULL ELSE tail
        /\ node' = NodesLeft(head, node)
    BY DEF PopElementQueue, Freed, NodesLeft
  <2> QED BY <1>1, <2>1, ChainPopped
<1>3. user = "receiver" => OrderedItems(r, size - 1)
  <2> SUFFICES ASSUME user = "receiver", NEW i \in 1 .. size - 1, NEW j \in 1 .. size - 1, i < j
               PROVE  Distance(r[i].seqnum, r[j].seqnum) \in 1 .. MAX_WINDOW_SIZE
    BY DEF OrderedItems
  <2>1. i + 1 \in 1 .. size /\ j + 1 \in 1 .. size /\ i + 1 < j + 1
    BY <1>1
  <2> QED BY <1>1, <2>1 DEF OrderedItems, Rest
<1>4. q # <<>> /\ r = Tail(q)
  <2>1. q \in Seq(Packets) /\ Len(q) = size
    BY <1>1
  <2>2. q # <<>>
    BY <1>1, <2>1
  <2>3. /\ Tail(q) \in Seq(Packets)
        /\ Len(Tail(q)) = size - 1
        /\ \A i \in 1 .. size - 1 : Tail(q)[i] = q[i + 1]
    BY <2>1, <2>2, HeadTailProperties
  <2>4. r \in Seq(Packets) /\ Len(r) = size - 1
    <3>1. r \in [1 .. size - 1 -> Packets] /\ size - 1 \in Nat
      BY <1>1 DEF Rest
    <3> HIDE DEF r
    <3> QED BY <3>1
  <2>5. \A i \in 1 .. size - 1 : r[i] = Tail(q)[i]
    BY <2>3 DEF Rest
  <2> HIDE DEF r
  <2>6. r = Tail(q)
    BY <2>3, <2>4, <2>5, SeqEqual
  <2> QED BY <2>2, <2>6
<1>5. size' = size - 1
  BY DEF PopElementQueue
<1> HIDE DEF b, r
<1>6. HoldingAfter(b, r)
  BY <1>2, <1>3, <1>5 DEF HoldingAfter
<1> QED BY <1>4, <1>6

LEMMA ListStart == Init => Holding(<<>>, <<>>)
<1> SUFFICES ASSUME Init PROVE Holding(<<>>, <<>>)
  OBVIOUS
<1>1. head = NULL /\ tail = NULL /\ size = 0 /\ DOMAIN node = {}
  BY DEF Init
<1>2. <<>> \in [1 .. 0 -> Nodes] /\ <<>> \in [1 .. 0 -> Packets]
  OBVIOUS
<1>3. 1 .. 0 = {}
  OBVIOUS
<1> QED BY <1>1, <1>2, <1>3 DEF Holding, IsChain, OrderedItems

LEMMA ListStep == ListInv /\ [Next]_vars => ListInv'
<1> SUFFICES ASSUME ListInv, [Next]_vars PROVE ListInv'
  OBVIOUS
<1>1. PICK a, q : Holding(a, q)
  BY DEF ListInv
<1>2. CASE Add /\ UNCHANGED user
  BY <1>1, <1>2, AddStep DEF ListInv, Holding, HoldingAfter
<1>3. CASE AddInOrder /\ UNCHANGED user
  BY <1>1, <1>3, AddInOrderStep DEF ListInv, Holding, HoldingAfter
<1>4. CASE PopElementQueue /\ UNCHANGED user
  BY <1>1, <1>4, PopStep DEF ListInv, Holding, HoldingAfter
<1>5. CASE UNCHANGED vars
  <2>1. Holding(a, q)'
    BY <1>1, <1>5 DEF Holding, vars, list
  <2> QED BY <2>1 DEF ListInv
<1> QED BY <1>2, <1>3, <1>4, <1>5 DEF Next, NoMemory, vars

THEOREM ListInvariant == Spec => []ListInv
<1>1. Init => ListInv
  BY ListStart DEF ListInv
<1> QED BY <1>1, ListStep, PTL DEF Spec

(* Chain: whatever calls were made, and whatever malloc() returned, the    *)
(* list is a NULL-terminated chain of exactly the allocated nodes, and     *)
(* tail is its last one.                                                   *)
THEOREM ListIsChain == Spec => []Chain
<1>1. ListInv => Chain
  BY ChainOfChain DEF ListInv, Holding
<1> QED BY <1>1, ListInvariant, PTL

(* Sorted: the receiver's packets are in the order of their numbers,       *)
(* across the wrap, and no number is listed twice.                         *)
THEOREM ListIsSorted == Spec => []Sorted
<1>1. ListInv => Sorted
  BY ItemsOfChain DEF ListInv, Holding, Sorted, OrderedItems
<1> QED BY <1>1, ListInvariant, PTL

(* ImplementsPacketQueue: nyancat.c behaves as the sequence that Sender    *)
(* and Receiver take its list for.                                         *)
THEOREM ListRefinement == Spec => ImplementsPacketQueue
<1>1. Init => Items = <<>>
  BY ListStart, ItemsOfChain DEF Holding
<1>2. (\A a, q : IsChain(head, tail, size, node, a, q) => Items = q)'
  BY ItemsOfChain, PTL
<1>3. ASSUME ListInv, [Next]_vars PROVE [Queue!Next]_Items
  <2>1. PICK a, q : Holding(a, q)
    BY <1>3 DEF ListInv
  <2>2. Items = q
    BY <2>1, ItemsOfChain DEF Holding
  <2>3. \A b, r : HoldingAfter(b, r) => Items' = r
    BY <1>2 DEF HoldingAfter
  <2>4. CASE Add /\ UNCHANGED user
    <3>1. PICK b, r : /\ HoldingAfter(b, r)
                      /\ \E p \in Packets : r = Append(q, p)
      BY <2>1, <2>4, AddStep
    <3> QED BY <2>2, <2>3, <3>1 DEF Queue!Next, Queue!Add
  <2>5. CASE AddInOrder /\ UNCHANGED user
    <3>1. PICK b, r : HoldingAfter(b, r) /\ Placed(q, r)
      BY <2>1, <2>5, AddInOrderStep
    <3>2. PICK p \in Packets : \E k \in 1 .. Len(q) + 1 :
            GoesTo(q, p, k) /\ r = InsertedAt(q, p, k)
      BY <3>1 DEF Placed
    <3>3. Queue!AddInOrder(p)
      BY <2>2, <2>3, <3>1, <3>2
      DEF Queue!AddInOrder, Queue!GoesTo, Queue!InsertedAt, GoesTo, InsertedAt,
          Queue!Precedes, Precedes
    <3> QED BY <3>3 DEF Queue!Next
  <2>6. CASE PopElementQueue /\ UNCHANGED user
    <3>1. PICK b, r : HoldingAfter(b, r) /\ q # <<>> /\ r = Tail(q)
      BY <2>1, <2>6, PopStep
    <3> QED BY <2>2, <2>3, <3>1 DEF Queue!Next, Queue!Pop
  <2>7. CASE UNCHANGED vars
    <3>1. HoldingAfter(a, q)
      BY <2>1, <2>7 DEF Holding, HoldingAfter, vars, list
    <3> QED BY <2>2, <2>3, <3>1
  <2> QED BY <1>3, <2>4, <2>5, <2>6, <2>7 DEF Next, NoMemory, vars
<1> QED BY <1>1, <1>3, ListInvariant, PTL
    DEF Spec, ImplementsPacketQueue, Queue!Spec, Queue!Init

=============================================================================
