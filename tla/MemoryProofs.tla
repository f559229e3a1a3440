---------------------------- MODULE MemoryProofs -----------------------------
(***************************************************************************)
(* What is lost when malloc() fails, for every file length, number space,  *)
(* window, capacity and choice of faults, as long as few pieces are        *)
(* dropped: nothing but those.                                             *)
(*                                                                         *)
(* A piece that read_to_list gives up on gets no number, so the number of  *)
(* a piece is no longer its position modulo SeqMod, but the count of the   *)
(* pieces before it that have one.                                         *)
(***************************************************************************)
EXTENDS MemoryFaults, TransferProofs

-----------------------------------------------------------------------------
(* Counting.  The pieces of sk have no number.                             *)

(* An interval, and how long it is.                                        *)
LEMMA IntervalIs ==
  ASSUME NEW a \in Nat, NEW b \in Nat, a <= b
  PROVE  IsFiniteSet(a .. b - 1) /\ Cardinality(a .. b - 1) = b - a
<1> DEFINE c == b - 1
<1>1. a \in Int /\ c \in Int
  OBVIOUS
<1> HIDE DEF c
<1>2. /\ IsFiniteSet(a .. c)
      /\ Cardinality(a .. c) = IF a > c THEN 0 ELSE c - a + 1
  BY <1>1, FS_Interval, Zenon
<1>3. (IF a > c THEN 0 ELSE c - a + 1) = b - a
  BY DEF c
<1> QED BY <1>2, <1>3 DEF c

(* The pieces below x without a number are no more than x.                 *)
LEMMA BelowIs ==
  ASSUME NEW sk \in SUBSET Nat, NEW x \in Nat
  PROVE  /\ IsFiniteSet(Below(sk, x))
         /\ Cardinality(Below(sk, x)) \in 0 .. x
<1>1. IsFiniteSet(0 .. x - 1) /\ Cardinality(0 .. x - 1) = x - 0
  BY IntervalIs
<1>2. Below(sk, x) \in SUBSET (0 .. x - 1)
  <2>1. \A s \in sk : s \in Nat
    OBVIOUS
  <2>2. \A s \in Below(sk, x) : s \in sk /\ s < x
    BY DEF Below
  <2>3. \A s \in Nat : s < x => s \in 0 .. x - 1
    OBVIOUS
  <2>4. \A s \in Below(sk, x) : s \in 0 .. x - 1
    BY <2>1, <2>2, <2>3
  <2> QED BY <2>4
<1>3. IsFiniteSet(Below(sk, x)) /\ Cardinality(Below(sk, x)) <= x
  BY <1>1, <1>2, FS_Subset
<1>4. Cardinality(Below(sk, x)) \in Nat
  BY <1>3, FS_CardinalityType
<1> QED BY <1>3, <1>4

(* From x on, as many numbers are given as there are pieces not in sk.     *)
LEMMA CountBetween ==
  ASSUME NEW sk \in SUBSET Nat, NEW x \in Nat, NEW y \in Nat, x <= y
  PROVE  /\ IsFiniteSet((x .. y - 1) \ sk)
         /\ Cardinality((x .. y - 1) \ sk) \in 0 .. y - x
         /\ CountIn(sk, y) - CountIn(sk, x) = Cardinality((x .. y - 1) \ sk)
<1> DEFINE all == x .. y - 1
           G == all \ sk
           B == all \cap sk
<1>1. IsFiniteSet(all) /\ Cardinality(all) = y - x
  BY IntervalIs
<1>2. IsFiniteSet(G) /\ IsFiniteSet(B)
  <2>1. G \in SUBSET all /\ B \in SUBSET all
    OBVIOUS
  <2> QED BY <1>1, <2>1, FS_Subset
<1>3. Cardinality(G) \in Nat /\ Cardinality(B) \in Nat
  BY <1>2, FS_CardinalityType
<1>4. Cardinality(G) + Cardinality(B) = y - x
  <2>1. G \cup B = all /\ G \cap B = {}
    OBVIOUS
  <2>2. Cardinality(G \cup B) = Cardinality(G) + Cardinality(B) - Cardinality(G \cap B)
    BY <1>2, FS_Union
  <2> HIDE DEF G, B, all
  <2>3. Cardinality(G \cap B) = 0
    BY <2>1, FS_EmptySet
  <2>4. Cardinality(G \cup B) = y - x
    BY <1>1, <2>1
  <2> QED BY <1>3, <2>2, <2>3, <2>4
<1>5. Cardinality(Below(sk, y)) = Cardinality(Below(sk, x)) + Cardinality(B)
  <2>1. Below(sk, y) = Below(sk, x) \cup B /\ Below(sk, x) \cap B = {}
    <3>1. ASSUME NEW s \in sk
          PROVE  /\ s < y <=> s < x \/ s \in all
                 /\ ~(s < x /\ s \in all)
      <4>1. s \in Nat
        OBVIOUS
      <4> QED BY <4>1
    <3>2. \A s : /\ (s \in Below(sk, y) <=> (s \in sk /\ s < y))
                 /\ (s \in Below(sk, x) <=> (s \in sk /\ s < x))
      BY DEF Below
    <3> HIDE DEF all
    <3>3. ASSUME NEW s
          PROVE  /\ s \in Below(sk, y) <=> s \in Below(sk, x) \/ s \in B
                 /\ ~(s \in Below(sk, x) /\ s \in B)
      <4>1. CASE s \in sk
        BY <3>1, <3>2, <4>1
      <4>2. CASE s \notin sk
        BY <3>2, <4>2
      <4> QED BY <4>1, <4>2
    <3> QED BY <3>3
  <2>2. IsFiniteSet(Below(sk, x)) /\ Cardinality(Below(sk, x)) \in Nat
    BY BelowIs
  <2> HIDE DEF B
  <2>3. Cardinality(Below(sk, x) \cup B)
          = Cardinality(Below(sk, x)) + Cardinality(B)
              - Cardinality(Below(sk, x) \cap B)
    BY <1>2, <2>2, FS_Union
  <2> QED BY <1>3, <2>1, <2>2, <2>3, FS_EmptySet
<1>6. /\ Cardinality(Below(sk, x)) \in 0 .. x
      /\ Cardinality(Below(sk, y)) \in 0 .. y
  BY BelowIs
<1> HIDE DEF G, B, all
<1>7. CountIn(sk, y) - CountIn(sk, x) = Cardinality(G)
  BY <1>3, <1>4, <1>5, <1>6 DEF CountIn
<1>8. Cardinality(G) <= y - x
  BY <1>3, <1>4
<1> QED BY <1>2, <1>3, <1>7, <1>8 DEF G, all

(* A count is a number, no larger than the position.                       *)
LEMMA CountType ==
  ASSUME NEW sk \in SUBSET Nat, NEW x \in Nat
  PROVE  CountIn(sk, x) \in 0 .. x
  BY BelowIs DEF CountIn

(* The count grows with the pieces, by no more than they do, and beyond a  *)
(* piece with a number it is larger.                                       *)
LEMMA CountGrows ==
  ASSUME NEW sk \in SUBSET Nat, NEW x \in Nat, NEW y \in Nat, x <= y
  PROVE  /\ CountIn(sk, x) <= CountIn(sk, y)
         /\ CountIn(sk, y) - CountIn(sk, x) <= y - x
         /\ x < y /\ x \notin sk => CountIn(sk, x) < CountIn(sk, y)
<1> DEFINE G == (x .. y - 1) \ sk
<1>1. /\ IsFiniteSet(G) /\ Cardinality(G) \in 0 .. y - x
      /\ CountIn(sk, y) - CountIn(sk, x) = Cardinality(G)
  BY CountBetween
<1>2. CountIn(sk, x) \in Nat /\ CountIn(sk, y) \in Nat
  BY CountType
<1>3. x < y /\ x \notin sk => G # {}
  OBVIOUS
<1> HIDE DEF G
<1>4. G # {} => Cardinality(G) # 0
  BY <1>1, FS_EmptySet
<1> QED BY <1>1, <1>2, <1>3, <1>4

(* The next piece counts one more, unless this one has no number.          *)
LEMMA CountNext ==
  ASSUME NEW sk \in SUBSET Nat, NEW x \in Nat
  PROVE  CountIn(sk, x + 1) = CountIn(sk, x) + (IF x \in sk THEN 0 ELSE 1)
<1>1. x + 1 \in Nat /\ x <= x + 1 /\ x < x + 1
  OBVIOUS
<1>2. /\ CountIn(sk, x) <= CountIn(sk, x + 1)
      /\ CountIn(sk, x + 1) - CountIn(sk, x) <= (x + 1) - x
      /\ x \notin sk => CountIn(sk, x) < CountIn(sk, x + 1)
  BY <1>1, CountGrows
<1>3. CountIn(sk, x) \in Int /\ CountIn(sk, x + 1) \in Int
  BY <1>1, CountType
<1>4. CASE x \in sk
  <2>1. CountIn(sk, x + 1) - CountIn(sk, x) = Cardinality((x .. (x + 1) - 1) \ sk)
    BY <1>1, CountBetween
  <2>2. (x .. (x + 1) - 1) \ sk = {}
    BY <1>4
  <2> QED BY <1>3, <1>4, <2>1, <2>2, FS_EmptySet
<1>5. CASE x \notin sk
  BY <1>2, <1>3, <1>5
<1> QED BY <1>4, <1>5

(* Two pieces with numbers have the same count only if they are the same.  *)
LEMMA CountTells ==
  ASSUME NEW sk \in SUBSET Nat, NEW x \in Nat \ sk, NEW y \in Nat \ sk,
         CountIn(sk, x) = CountIn(sk, y)
  PROVE  x = y
<1>1. CountIn(sk, x) \in Int /\ CountIn(sk, y) \in Int
  BY CountType
<1>2. ~(x < y)
  BY <1>1, CountGrows
<1>3. ~(y < x)
  BY <1>1, CountGrows
<1> QED BY <1>2, <1>3

(* A piece that is given up on changes no count up to its own.             *)
LEMMA CountKept ==
  ASSUME NEW sk \in SUBSET Nat, NEW o \in Nat, NEW x \in Nat, x <= o
  PROVE  CountIn(sk \cup {o}, x) = CountIn(sk, x)
<1>1. Below(sk \cup {o}, x) = Below(sk, x)
  BY DEF Below
<1> QED BY <1>1 DEF CountIn

(* Every count up to that of o is the count of some piece.                 *)
LEMMA CountReached ==
  ASSUME NEW sk \in SUBSET Nat, NEW o \in Nat, NEW r \in Nat,
         r <= CountIn(sk, o)
  PROVE  \E x \in 0 .. o : CountIn(sk, x) = r
<1> DEFINE T == {x \in 0 .. o : r <= CountIn(sk, x)}
<1>1. T \in SUBSET Nat /\ o \in T
  OBVIOUS
<1>2. PICK x \in T : \A y \in T : x <= y
  <2>1. T # {}
    BY <1>1
  <2> HIDE DEF T
  <2> QED BY <1>1, <2>1, LeastNumber
<1>3. CountIn(sk, x) \in 0 .. x
  BY CountType
<1>4. CASE x = 0
  BY <1>2, <1>3, <1>4
<1>5. CASE x # 0
  <2> DEFINE y == x - 1
  <2>1. y \in Nat /\ y + 1 = x /\ y \in 0 .. o /\ ~(x <= y)
    BY <1>5
  <2>2. ~(r <= CountIn(sk, y))
    BY <1>2, <2>1
  <2>3. CountIn(sk, y) \in Int
    BY <2>1, CountType
  <2> HIDE DEF y
  <2>4. CountIn(sk, y + 1) = CountIn(sk, y) + (IF y \in sk THEN 0 ELSE 1)
    BY <2>1, CountNext
  <2>5. CountIn(sk, x) <= CountIn(sk, y) + 1
    BY <2>1, <2>3, <2>4
  <2> QED BY <1>2, <1>3, <2>2, <2>3, <2>5
<1> QED BY <1>4, <1>5

(* If the numbered pieces from x to o are all at places of a list or in a  *)
(* set, there are no more of them than places and members.                 *)
LEMMA CountBounded ==
  ASSUME NEW sk \in SUBSET Nat, NEW x \in Nat, NEW o \in Nat, x <= o,
         NEW n \in Nat, NEW at, DOMAIN at = 1 .. n,
         NEW U, IsFiniteSet(U),
         \A q \in (x .. o - 1) \ sk : q \in U \/ \E i \in 1 .. n : at[i] = q
  PROVE  CountIn(sk, o) - CountIn(sk, x) <= n + Cardinality(U)
<1> DEFINE G == (x .. o - 1) \ sk
           R == {at[i] : i \in 1 .. n}
           f == [i \in 1 .. n |-> at[i]]
<1>1. /\ IsFiniteSet(G) /\ CountIn(sk, o) - CountIn(sk, x) = Cardinality(G)
  BY CountBetween
<1>2. IsFiniteSet(R) /\ Cardinality(R) <= n
  <2>1. f \in Surjection(1 .. n, R)
    BY DEF Surjection
  <2>2. IsFiniteSet(1 .. n) /\ Cardinality(1 .. n) = n
    <3> DEFINE c == n + 1
    <3>1. c \in Nat /\ 1 \in Nat /\ 1 <= c /\ c - 1 = n
      OBVIOUS
    <3> HIDE DEF c
    <3>2. IsFiniteSet(1 .. c - 1) /\ Cardinality(1 .. c - 1) = c - 1
      BY <3>1, IntervalIs
    <3> QED BY <3>1, <3>2
  <2> HIDE DEF f, R
  <2> QED BY <2>1, <2>2, FS_Surjection
<1>3. G \in SUBSET (R \cup U)
  OBVIOUS
<1> HIDE DEF G, R
<1>4. /\ IsFiniteSet(R \cup U)
      /\ Cardinality(R \cup U) = Cardinality(R) + Cardinality(U) - Cardinality(R \cap U)
  BY <1>2, FS_Union
<1>5. IsFiniteSet(R \cap U)
  BY <1>2, FS_Intersection
<1>6. /\ Cardinality(R) \in Nat /\ Cardinality(U) \in Nat
      /\ Cardinality(R \cap U) \in Nat /\ Cardinality(G) \in Nat
  BY <1>1, <1>2, <1>5, FS_CardinalityType
<1>7. Cardinality(G) <= Cardinality(R \cup U)
  BY <1>3, <1>4, FS_Subset
<1> QED BY <1>1, <1>2, <1>4, <1>6, <1>7

-----------------------------------------------------------------------------
(* The comparisons, on counts.                                             *)

(* What an acknowledgement covers was written, however far ahead it is.    *)
LEMMA CoveredIsBehind ==
  ASSUME NEW a \in Nat, NEW h \in Nat, h - a <= Behind,
         AckCovers(a % SeqMod, h % SeqMod)
  PROVE  h < a
<1>1. CASE a <= h
  <2>1. a - h <= MAX_WINDOW_SIZE /\ ~(a > h)
    BY <1>1, Constants
  <2> QED BY <2>1, AckCoversMod
<1>2. CASE h < a
  BY <1>2
<1> QED BY <1>1, <1>2

(* The window test of the receiver accepts only counts it may buffer.      *)
LEMMA InWindowIsNear ==
  ASSUME NEW p \in Nat, NEW r \in Nat, NEW w \in Windows,
         r - p <= Behind, p - r <= Behind,
         RcvInWindow(p % SeqMod, r % SeqMod, w)
  PROVE  Near(p, r)
<1>1. p % SeqMod \in 0 .. SeqMod - 1 /\ r % SeqMod \in 0 .. SeqMod - 1
  BY ModRange DEF SeqNums
<1>2. CASE p - r <= MAX_WINDOW_SIZE
  <2>1. p >= r
    BY <1>2, RcvInWindowMod
  <2> QED BY <1>2, <2>1, Constants DEF Near
<1>3. CASE p - r > MAX_WINDOW_SIZE
  <2>1. r <= p /\ p - r < SeqMod
    BY <1>3, Constants DEF Behind
  <2>2. \/ p % SeqMod = (r % SeqMod) + (p - r)
        \/ p % SeqMod = (r % SeqMod) + (p - r) - SeqMod
    BY <2>1, ModDiff
  <2> QED BY <1>1, <1>3, <2>1, <2>2, Constants DEF RcvInWindow, Windows, Near
<1> QED BY <1>2, <1>3, Constants

(* The order of the buffer is that of the counts, across the wrap too.     *)
LEMMA NearOrder ==
  ASSUME NEW p \in Nat, NEW q \in Nat, NEW r \in Nat, Near(p, r), Near(q, r)
  PROVE  Precedes(p % SeqMod, q % SeqMod) <=> p < q
<1>1. /\ p % SeqMod \in 0 .. SeqMod - 1 /\ q % SeqMod \in 0 .. SeqMod - 1
      /\ r % SeqMod \in 0 .. SeqMod - 1
  BY ModRange DEF SeqNums
<1>2. CASE p - q <= MAX_WINDOW_SIZE /\ q - p <= MAX_WINDOW_SIZE
  BY <1>2, PrecedesMod
<1>3. CASE p - q > MAX_WINDOW_SIZE
  <2>1. q = r /\ p = r + MAX_WINDOW_SIZE + 1 /\ p % SeqMod < r % SeqMod
    BY <1>3, Constants DEF Near
  <2>2. \/ p % SeqMod = (r % SeqMod) + (p - r)
        \/ p % SeqMod = (r % SeqMod) + (p - r) - SeqMod
    <3>1. r <= p /\ p - r < SeqMod
      BY <2>1, Constants
    <3> QED BY <3>1, ModDiff
  <2> QED BY <1>1, <1>3, <2>1, <2>2, Constants DEF Precedes
<1>4. CASE q - p > MAX_WINDOW_SIZE
  <2>1. p = r /\ q = r + MAX_WINDOW_SIZE + 1 /\ q % SeqMod < r % SeqMod
    BY <1>4, Constants DEF Near
  <2>2. \/ q % SeqMod = (r % SeqMod) + (q - r)
        \/ q % SeqMod = (r % SeqMod) + (q - r) - SeqMod
    <3>1. r <= q /\ q - r < SeqMod
      BY <2>1, Constants
    <3> QED BY <3>1, ModDiff
  <2> QED BY <1>1, <1>4, <2>1, <2>2, Constants DEF Precedes
<1> QED BY <1>2, <1>3, <1>4, Constants

(* A packet near r stays near what is waited for later, until it is        *)
(* written.                                                                *)
LEMMA NearStays ==
  ASSUME NEW n \in Nat, NEW r \in Nat, NEW t \in Nat, Near(n, r), r <= t, t <= n
  PROVE  Near(n, t)
  BY Constants DEF Near

-----------------------------------------------------------------------------
(* The invariant, and what it says of the positions.                       *)

MInv == TypeOK /\ MemInv

(* What the assumptions say of the bound, and FewDropped.                  *)
LEMMA MemConstants ==
  /\ MaxDropped \in Nat
  /\ Behind \in Nat /\ Behind >= MAX_WINDOW_SIZE /\ Behind < SeqMod
  /\ Lifetime <= Behind
  /\ FewDropped => MAX_WINDOW_SIZE + MaxDropped <= Behind
  BY Constants, MemoryAssumption DEF FewDropped, Behind

(* The pieces dropped are a few of those read.                             *)
LEMMA DroppedFacts ==
  ASSUME MInv
  PROVE  /\ skipped \in SUBSET Nat /\ unlisted \in SUBSET Nat
         /\ IsFiniteSet(skipped \cup unlisted)
         /\ Cardinality(skipped \cup unlisted) <= MaxDropped
         /\ \A q \in skipped \cup unlisted : q < offset
         /\ offset \in Nat /\ offset <= FileLength
<1>1. /\ offset \in Nat /\ offset <= FileLength
      /\ skipped \subseteq 0 .. offset - 1 /\ unlisted \subseteq 0 .. offset - 1
      /\ Cardinality(skipped \cup unlisted) <= MaxDropped
  BY Constants DEF MInv, MemInv, DroppedInv, TypeOK
<1>2. skipped \cup unlisted \in SUBSET (0 .. offset - 1)
  BY <1>1
<1>3. IsFiniteSet(skipped \cup unlisted)
  <2>1. 0 \in Nat /\ 0 <= offset
    BY <1>1
  <2>2. IsFiniteSet(0 .. offset - 1)
    BY <1>1, <2>1, IntervalIs
  <2> QED BY <1>2, <2>2, FS_Subset
<1>4. \A q \in 0 .. offset - 1 : q \in Nat /\ q < offset
  BY <1>1
<1> QED BY <1>1, <1>2, <1>3, <1>4

(* A list and a few dropped pieces that hold all the numbered pieces from  *)
(* x on reach no further than a live datagram may.                         *)
LEMMA ListReaches ==
  ASSUME FewDropped, NEW sk \in SUBSET Nat, NEW U, IsFiniteSet(U),
         Cardinality(U) <= MaxDropped,
         NEW o \in Nat, NEW l \in Seq(SentPackets), Len(l) <= MAX_WINDOW_SIZE,
         NEW x \in 0 .. o,
         \A q \in (x .. o - 1) \ sk : q \in U \/ \E i \in DOMAIN l : l[i].pos = q
  PROVE  CountIn(sk, o) <= CountIn(sk, x) + Behind
<1> DEFINE n == Len(l)
           at == [i \in 1 .. n |-> l[i].pos]
<1>1. n \in Nat /\ DOMAIN l = 1 .. n /\ x \in Nat /\ x <= o
  OBVIOUS
<1>2. DOMAIN at = 1 .. n /\ \A i \in 1 .. n : at[i] = l[i].pos
  OBVIOUS
<1> HIDE DEF at
<1>3. \A q \in (x .. o - 1) \ sk : q \in U \/ \E i \in 1 .. n : at[i] = q
  BY <1>1, <1>2
<1>4. CountIn(sk, o) - CountIn(sk, x) <= n + Cardinality(U)
  <2> HIDE DEF n
  <2> QED BY <1>1, <1>2, <1>3, CountBounded
<1>5. CountIn(sk, o) \in Nat /\ CountIn(sk, x) \in Nat /\ Cardinality(U) \in Nat
  BY <1>1, CountType, FS_CardinalityType
<1> QED BY <1>1, <1>4, <1>5, MemConstants, Constants

(* Numbers grow along the file.                                            *)
LEMMA NumGrows ==
  ASSUME MInv, NEW x \in Nat, NEW y \in Nat
  PROVE  /\ Num(x) \in Nat /\ Num(x) <= x
         /\ x <= y => Num(x) <= Num(y) /\ Num(y) - Num(x) <= y - x
         /\ x < y /\ x \notin skipped => Num(x) < Num(y)
         /\ x \notin skipped /\ y \notin skipped =>
              /\ x < y <=> Num(x) < Num(y)
              /\ Num(x) = Num(y) => x = y
<1>1. skipped \in SUBSET Nat
  BY DroppedFacts
<1> DEFINE N(z) == CountIn(skipped, z)
<1>2. N(x) \in 0 .. x /\ N(y) \in 0 .. y
  BY <1>1, CountType
<1>3. x <= y => /\ N(x) <= N(y) /\ N(y) - N(x) <= y - x
                /\ x < y /\ x \notin skipped => N(x) < N(y)
  BY <1>1, CountGrows
<1>4. y <= x => /\ N(y) <= N(x)
                /\ y < x /\ y \notin skipped => N(y) < N(x)
  BY <1>1, CountGrows
<1> HIDE DEF N
<1>5. /\ N(x) \in Nat /\ N(x) <= x
      /\ x <= y => N(x) <= N(y) /\ N(y) - N(x) <= y - x
      /\ x < y /\ x \notin skipped => N(x) < N(y)
  BY <1>2, <1>3
<1>6. x \notin skipped /\ y \notin skipped =>
        /\ x < y <=> N(x) < N(y)
        /\ N(x) = N(y) => x = y
  BY <1>2, <1>3, <1>4
<1> QED BY <1>5, <1>6 DEF N, Num

(* The positions of the two programs, and how far a number that was sent   *)
(* may be ahead of the output file.                                        *)
LEMMA MemPositions ==
  ASSUME FewDropped, MInv
  PROVE  /\ Len(output) \in Nat /\ offset \in Nat /\ offset <= FileLength
         /\ Num(offset) \in Nat /\ Num(FileLength) \in Nat
         /\ Num(offset) <= Num(FileLength)
         /\ Num(offset) <= Len(output) + Behind
         /\ \/ Len(output) <= Num(offset)
            \/ Len(output) = Num(offset) + 1 /\ offset = FileLength
         /\ \A pos \in Pieces : /\ Num(pos) \in Nat
                                /\ Sent(pos) => Num(pos) <= Num(offset)
                                /\ Num(pos) <= Num(FileLength)
<1>1. /\ offset \in Nat /\ offset <= FileLength /\ Len(output) \in Nat
      /\ FileLength \in Nat
      /\ list \in Seq(SentPackets)
  BY Constants DEF MInv, TypeOK
<1>2. /\ Num(offset) \in Nat /\ Num(FileLength) \in Nat
      /\ Num(offset) <= Num(FileLength)
  BY <1>1, NumGrows
<1>3. sstate = "done" => offset = FileLength
  BY DEF MInv, MemInv, MemSenderInv
<1>4. \/ Len(output) <= Num(offset)
      \/ Len(output) = Num(offset) + 1 /\ offset = FileLength
  BY <1>3 DEF MInv, MemInv, MemReceiverInv
<1>5. ASSUME NEW pos \in Pieces
      PROVE  /\ Num(pos) \in Nat
             /\ Sent(pos) => Num(pos) <= Num(offset)
             /\ Num(pos) <= Num(FileLength)
  <2>1. pos \in Nat /\ pos <= FileLength
    BY Constants DEF Pieces
  <2>2. Sent(pos) => pos <= offset
    BY <1>1, <1>3, <2>1 DEF Sent, EmptyPiece
  <2> QED BY <1>1, <2>1, <2>2, NumGrows
<1>6. Num(offset) <= Len(output) + Behind
  <2>1. CASE Num(offset) <= Len(output)
    BY <1>1, <1>2, <2>1, MemConstants
  <2>2. CASE ~(Num(offset) <= Len(output))
    <3>1. skipped \in SUBSET Nat /\ Len(output) <= CountIn(skipped, offset)
      BY <1>1, <1>2, <2>2, DroppedFacts DEF Num
    <3>2. PICK x \in 0 .. offset : CountIn(skipped, x) = Len(output)
      BY <1>1, <3>1, CountReached
    <3>3. ASSUME NEW q \in (x .. offset - 1) \ skipped
          PROVE  \/ q \in skipped \cup unlisted
                 \/ \E i \in DOMAIN list : list[i].pos = q
      <4>1. x \in Nat /\ q \in Nat /\ x <= q /\ q \in 0 .. offset - 1
        BY <1>1
      <4>2. Num(x) <= Num(q) /\ Num(x) = Len(output) /\ Num(q) \in Nat
        BY <3>2, <4>1, NumGrows DEF Num
      <4>3. ~(Num(q) < Len(output))
        BY <1>1, <4>2
      <4>4. Accounted(list, q)
        BY <4>1 DEF MInv, MemInv, MemSenderInv
      <4> QED BY <4>3, <4>4 DEF Accounted
    <3>4. Len(list) <= MAX_WINDOW_SIZE
      BY DEF MInv, MemInv, MemSenderInv
    <3>5. CountIn(skipped, offset) <= CountIn(skipped, x) + Behind
      BY <1>1, <3>1, <3>3, <3>4, DroppedFacts, ListReaches
    <3> QED BY <3>2, <3>5 DEF Num
  <2> QED BY <2>1, <2>2
<1> QED BY <1>1, <1>2, <1>4, <1>5, <1>6

-----------------------------------------------------------------------------
(* The steps of the sender.                                                *)

(* What the invariant says of one datagram.                                *)
MemData(m) ==
  /\ m \in DataPackets
  /\ m.seqnum = Num(m.pos) % SeqMod
  /\ Num(m.pos) + Behind >= Num(offset)
  /\ m.pos \notin skipped
  /\ Sent(m.pos)
MemAck(m) ==
  /\ m \in AckPackets
  /\ m.type = "ACK" => /\ m.seqnum = m.pos % SeqMod
                       /\ m.pos + Behind >= Num(offset)
                       /\ m.pos <= Len(output)

(* The channels are good when each of their datagrams is.                  *)
LEMMA MemChannels ==
  (fwd \subseteq DataPackets /\ rev \subseteq AckPackets /\ MemChannelInv)
    <=> (\A m \in fwd : MemData(m)) /\ (\A m \in rev : MemAck(m))
  BY DEF MemChannelInv, MemData, MemAck

(* The pieces of a list before the end of file are not the empty one.      *)
LEMMA NoEofListed ==
  ASSUME NEW l \in Seq(SentPackets), NEW o \in Nat, o <= FileLength,
         \A i \in DOMAIN l : l[i].pos < o
  PROVE  \A i \in DOMAIN l : ~IsEmpty(l[i]) /\ l[i].pos \in Pieces /\ l[i].pos \in Nat
<1>1. \A i \in DOMAIN l : l[i] \in SentPackets
  OBVIOUS
<1>2. \A p \in SentPackets : p.pos \in Pieces /\ p.pos \in Nat
  BY Constants DEF SentPackets, Pieces
<1> QED BY <1>1, <1>2, Constants DEF IsEmpty, EmptyPiece

(* What a handler of the sender leaves when it may give up on a piece: the *)
(* list l, the datagrams it sent, the pieces sk without a number and those *)
(* of un that were sent once and are not listed.                           *)
Leaves(l, sent, sk, un) ==
  /\ sk \subseteq 0 .. offset' - 1
  /\ un \subseteq 0 .. offset' - 1
  /\ Cardinality(sk \cup un) <= MaxDropped
  /\ \A x \in 0 .. offset : CountIn(sk, x) = Num(x)
  /\ \A x \in 0 .. offset - 1 : x \in sk <=> x \in skipped
  /\ seqnum' = CountIn(sk, offset') % SeqMod
  /\ Len(l) <= MAX_WINDOW_SIZE
  /\ \A i \in DOMAIN l : /\ l[i].pos < offset'
                         /\ l[i].pos \notin sk
                         /\ l[i].seqnum = CountIn(sk, l[i].pos) % SeqMod
  /\ \A i, j \in DOMAIN l : i < j => l[i].pos < l[j].pos
  /\ \A q \in 0 .. offset' - 1 :
       \/ q \in sk \cup un
       \/ \E i \in DOMAIN l : l[i].pos = q
       \/ CountIn(sk, q) < Len(output) /\ \A i \in DOMAIN l : q < l[i].pos
  /\ \A m \in sent : /\ m.pos < offset'
                     /\ m.pos \notin sk
                     /\ m.seqnum = CountIn(sk, m.pos) % SeqMod
                     /\ CountIn(sk, m.pos) + Behind >= CountIn(sk, offset')
  /\ rev' \subseteq rev
  /\ \A m \in rev' : m.type = "ACK" => m.pos + Behind >= CountIn(sk, offset')

(* Where a position from x on is.                                          *)
LEMMA FromStart ==
  ASSUME NEW x \in Nat, NEW o \in Nat, NEW q \in x .. o - 1
  PROVE  q \in 0 .. o - 1 /\ ~(q < x)
  OBVIOUS

(* What a handler leaves out is a finite set.                              *)
LEMMA LeavesFinite ==
  ASSUME NEW l, NEW sent, NEW sk, NEW un, Leaves(l, sent, sk, un), offset' \in Nat
  PROVE  sk \in SUBSET Nat /\ IsFiniteSet(sk \cup un)
<1>1. sk \cup un \in SUBSET (0 .. offset' - 1)
  BY DEF Leaves
<1>2. 0 \in Nat /\ 0 <= offset'
  OBVIOUS
<1>3. IsFiniteSet(0 .. offset' - 1)
  BY <1>2, IntervalIs
<1>4. \A z \in 0 .. offset' - 1 : z \in Nat
  OBVIOUS
<1>5. IsFiniteSet(sk \cup un)
  BY <1>1, <1>3, FS_Subset
<1> QED BY <1>1, <1>4, <1>5

(* All packets of the list may be sent again.                              *)
LEMMA LeavesReach ==
  ASSUME FewDropped, offset' \in Nat, offset' <= FileLength,
         NEW l \in Seq(SentPackets), NEW sent, NEW sk, NEW un,
         Leaves(l, sent, sk, un), NEW i \in DOMAIN l
  PROVE  CountIn(sk, l[i].pos) + Behind >= CountIn(sk, offset')
<1> DEFINE x == l[1].pos
           U == sk \cup un
<1>1. /\ Len(l) \in Nat /\ DOMAIN l = 1 .. Len(l) /\ Len(l) <= MAX_WINDOW_SIZE
      /\ \A j \in DOMAIN l : l[j].pos < offset'
      /\ \A j, k \in DOMAIN l : j < k => l[j].pos < l[k].pos
  BY DEF Leaves
<1>2. \A j \in DOMAIN l : l[j].pos \in Nat
  BY <1>1, NoEofListed
<1>3. 1 \in DOMAIN l /\ i \in 1 .. Len(l)
  BY <1>1
<1>4. x \in 0 .. offset' /\ x \in Nat /\ x <= l[i].pos
  BY <1>1, <1>2, <1>3
<1>5. ASSUME NEW q \in (x .. offset' - 1) \ sk
      PROVE  q \in U \/ \E j \in DOMAIN l : l[j].pos = q
  <2>1. q \in x .. offset' - 1
    OBVIOUS
  <2>2. \/ q \in U
        \/ \E j \in DOMAIN l : l[j].pos = q
        \/ \A j \in DOMAIN l : q < l[j].pos
    <3> HIDE DEF x, U
    <3>1. q \in 0 .. offset' - 1
      <4>1. x \in Nat
        BY <1>4
      <4> QED BY <2>1, <4>1, FromStart
    <3>2. /\ \A z \in 0 .. offset' - 1 :
               \/ z \in sk \cup un
               \/ \E j \in DOMAIN l : l[j].pos = z
               \/ CountIn(sk, z) < Len(output) /\ \A j \in DOMAIN l : z < l[j].pos
      BY DEF Leaves
    <3> QED BY <3>1, <3>2 DEF U
  <2>3. ~(q < x)
    <3> HIDE DEF x
    <3>1. x \in Nat
      BY <1>4
    <3> QED BY <2>1, <3>1, FromStart
  <2> QED BY <1>3, <2>2, <2>3
<1>6. /\ sk \in SUBSET Nat /\ IsFiniteSet(U) /\ Cardinality(U) <= MaxDropped
  BY LeavesFinite DEF Leaves
<1> HIDE DEF x, U
<1>7. CountIn(sk, offset') <= CountIn(sk, x) + Behind
  BY <1>1, <1>4, <1>5, <1>6, ListReaches
<1>8. CountIn(sk, x) <= CountIn(sk, l[i].pos)
  BY <1>2, <1>4, <1>6, CountGrows
<1>9. /\ CountIn(sk, offset') \in Nat /\ CountIn(sk, x) \in Nat
      /\ CountIn(sk, l[i].pos) \in Nat
  BY <1>2, <1>4, <1>6, CountType
<1> QED BY <1>7, <1>8, <1>9, MemConstants

(* From there the end of the iteration keeps the invariant.                *)
LEMMA MemSenderStep ==
  ASSUME FewDropped, MInv, UNCHANGED rcvVars, sstate = "run",
         NEW l \in Seq(SentPackets), NEW window, NEW eof \in BOOLEAN,
         NEW sent \in SUBSET DataPackets,
         EndIteration(l, window, eof, sent),
         s_window' \in Windows,
         seqnum_EOF' = eof,
         offset' \in Nat, offset <= offset', offset' <= FileLength,
         eof => offset' = FileLength /\ seqnum' = seqnum,
         NEW sk, skipped' = sk, NEW un, unlisted' = un,
         Leaves(l, sent, sk, un)
  PROVE  MInv'
<1>0. \A i \in DOMAIN l : l[i].pos < offset'
  BY DEF Leaves
<1>1. /\ Len(l) \in Nat /\ DOMAIN l = 1 .. Len(l)
      /\ \A i \in 1 .. Len(l) : l[i] \in SentPackets
      /\ offset \in Nat /\ FileLength \in Nat /\ Len(output) \in Nat
  BY MemPositions, Constants
<1>2. /\ \A i \in DOMAIN l : ~IsEmpty(l[i])
      /\ \A i \in DOMAIN l : l[i].pos \in Pieces /\ l[i].pos \in Nat
  BY <1>0, NoEofListed
<1> DEFINE resent == {Datagram(l[i]) : i \in DOMAIN l}
<1>3. /\ list' \in Seq(SentPackets)
      /\ Len(list') = Len(l)
      /\ \A i \in DOMAIN l : /\ list'[i].pos = l[i].pos
                             /\ list'[i].seqnum = l[i].seqnum
      /\ \/ /\ sstate' = sstate
            /\ fwd' \subseteq Live(fwd, offset') \cup Outcomes(sent \cup resent)
         \/ /\ sstate' = "done"
            /\ l = <<>>
            /\ eof
            /\ fwd' \subseteq Live(fwd, offset') \cup Outcomes(sent \cup {PktFin})
  BY <1>2, EndIterationEffect
<1>9. sk \in SUBSET Nat
  BY LeavesFinite
<1>12. \A i \in DOMAIN l :
         CountIn(sk, l[i].pos) + Behind >= CountIn(sk, offset')
  BY LeavesReach
<1> SUFFICES
      ASSUME sk \subseteq 0 .. offset' - 1, un \subseteq 0 .. offset' - 1,
             Cardinality(sk \cup un) <= MaxDropped,
             \A x \in 0 .. offset : CountIn(sk, x) = Num(x),
             \A x \in 0 .. offset - 1 : x \in sk <=> x \in skipped,
             seqnum' = CountIn(sk, offset') % SeqMod,
             Len(l) <= MAX_WINDOW_SIZE,
             \A i \in DOMAIN l :
               /\ l[i].pos < offset'
               /\ l[i].pos \notin sk
               /\ l[i].seqnum = CountIn(sk, l[i].pos) % SeqMod,
             \A i, j \in DOMAIN l : i < j => l[i].pos < l[j].pos,
             \A q \in 0 .. offset' - 1 :
               \/ q \in sk \cup un
               \/ \E i \in DOMAIN l : l[i].pos = q
               \/ /\ CountIn(sk, q) < Len(output)
                  /\ \A i \in DOMAIN l : q < l[i].pos,
             \A m \in sent :
               /\ m.pos < offset'
               /\ m.pos \notin sk
               /\ m.seqnum = CountIn(sk, m.pos) % SeqMod
               /\ CountIn(sk, m.pos) + Behind >= CountIn(sk, offset'),
             rev' \subseteq rev,
             \A m \in rev' :
               m.type = "ACK" => m.pos + Behind >= CountIn(sk, offset')
      PROVE  MInv'
  BY DEF Leaves
<1>4. DOMAIN list' = DOMAIN l
  BY <1>1, <1>3
<1>5. UNCHANGED <<waited_seqnum, r_window, rlist, output, rstate>>
  BY DEF rcvVars
<1>6. sstate' \in {"run", "done"} /\ (sstate' = "done" => l = <<>> /\ eof)
  BY <1>3
<1>7. \A pos \in Int : Sent(pos) => Sent(pos)'
  BY <1>1, <1>5 DEF Sent
<1>8. \A pos \in Pieces : Sent(pos) => /\ pos \in 0 .. offset - 1
                                       /\ Num(pos) = CountIn(sk, pos)
                                       /\ pos \in sk <=> pos \in skipped
  <2> SUFFICES ASSUME NEW pos \in Pieces, Sent(pos)
               PROVE  pos \in 0 .. offset - 1
    BY <1>1
  <2>1. pos < offset
    BY DEF Sent
  <2> QED BY <2>1, <1>1 DEF Pieces
<1>10. DroppedInv'
  BY DEF DroppedInv
<1>11. \A x \in Nat : CountIn(sk, x) \in Nat
  BY <1>9, CountType
<1>13. \A m \in resent : /\ m \in DataPackets
                         /\ m.pos < offset'
                         /\ m.pos \notin sk
                         /\ m.seqnum = CountIn(sk, m.pos) % SeqMod
                         /\ CountIn(sk, m.pos) + Behind >= CountIn(sk, offset')
  <2> SUFFICES ASSUME NEW i \in DOMAIN l
               PROVE  LET m == Datagram(l[i]) IN
                      /\ m \in DataPackets
                      /\ m.pos < offset'
                      /\ m.pos \notin sk
                      /\ m.seqnum = CountIn(sk, m.pos) % SeqMod
                      /\ CountIn(sk, m.pos) + Behind >= CountIn(sk, offset')
    OBVIOUS
  <2>1. l[i] \in SentPackets
    BY <1>1
  <2>2. Datagram(l[i]) \in DataPackets
    BY <2>1 DEF Datagram, DataPackets, SentPackets
  <2>3. Datagram(l[i]).pos = l[i].pos /\ Datagram(l[i]).seqnum = l[i].seqnum
    BY DEF Datagram
  <2> QED BY <1>12, <2>2, <2>3
<1> HIDE DEF resent
<1>14. ASSUME NEW m \in fwd'
       PROVE  /\ m \in DataPackets
              /\ m.seqnum = CountIn(sk, m.pos) % SeqMod
              /\ CountIn(sk, m.pos) + Behind >= CountIn(sk, offset')
              /\ m.pos \notin sk
              /\ Sent(m.pos)'
  <2>1. CASE m \in Live(fwd, offset')
    <3>1. m \in fwd /\ m.pos + Lifetime >= offset'
      BY <2>1 DEF Live
    <3>2. MemData(m)
      BY <3>1, MemChannels DEF MInv, MemInv, TypeOK
    <3>3. m.pos \in Pieces /\ m.pos \in Nat
      BY <3>2, Constants DEF MemData, DataPackets, Pieces
    <3>4. /\ m.pos \in 0 .. offset - 1 /\ Num(m.pos) = CountIn(sk, m.pos)
          /\ m.pos \in sk <=> m.pos \in skipped
      BY <3>2, <3>3, <1>8 DEF MemData
    <3>5. CountIn(sk, m.pos) + Behind >= CountIn(sk, offset')
      <4>1. CountIn(sk, offset') - CountIn(sk, m.pos) <= offset' - m.pos
        BY <1>1, <1>9, <3>3, <3>4, CountGrows
      <4>2. CountIn(sk, offset') \in Nat /\ CountIn(sk, m.pos) \in Nat
        BY <1>11, <3>3
      <4> QED BY <3>1, <3>3, <4>1, <4>2, MemConstants, Constants
    <3> QED BY <3>2, <3>3, <3>4, <3>5, <1>7 DEF MemData
  <2>2. CASE sstate' = sstate /\ m \in Outcomes(sent \cup resent)
    <3>1. sent \cup resent \in SUBSET DataPackets
      BY <1>13
    <3>2. /\ m \in DataPackets
          /\ \E d \in sent \cup resent : m.pos = d.pos /\ m.seqnum = d.seqnum
      BY <2>2, <3>1, OutcomesKeep
    <3>3. /\ m.pos < offset'
          /\ m.pos \notin sk
          /\ m.seqnum = CountIn(sk, m.pos) % SeqMod
          /\ CountIn(sk, m.pos) + Behind >= CountIn(sk, offset')
      BY <3>2, <1>13
    <3> QED BY <3>2, <3>3 DEF Sent
  <2>3. CASE /\ sstate' = "done" /\ eof
             /\ m \in Outcomes(sent \cup {PktFin})
    <3>1. /\ PktFin \in DataPackets
          /\ PktFin.pos = FileLength
          /\ PktFin.seqnum = seqnum
      BY Constants DEF PktFin, DataPackets, MInv, TypeOK, Pieces, EmptyPiece
    <3>2. seqnum = CountIn(sk, FileLength) % SeqMod /\ offset' = FileLength
      BY <2>3
    <3>3. /\ m \in DataPackets
          /\ \E d \in sent \cup {PktFin} : m.pos = d.pos /\ m.seqnum = d.seqnum
      BY <2>3, <3>1, OutcomesKeep
    <3>4. CountIn(sk, FileLength) + Behind >= CountIn(sk, FileLength)
      BY <1>1, <1>11, MemConstants
    <3>5. /\ m.seqnum = CountIn(sk, m.pos) % SeqMod
          /\ CountIn(sk, m.pos) + Behind >= CountIn(sk, offset')
          /\ m.pos \notin sk
          /\ m.pos < offset' \/ m.pos = FileLength
      BY <3>1, <3>2, <3>3, <3>4
    <3> QED BY <3>3, <3>5, <2>3 DEF Sent, EmptyPiece
  <2> QED BY <1>3, <2>1, <2>2, <2>3
<1>15. ASSUME NEW m \in rev'
       PROVE  /\ m \in AckPackets
              /\ m.type = "ACK" => /\ m.seqnum = m.pos % SeqMod
                                   /\ m.pos + Behind >= CountIn(sk, offset')
                                   /\ m.pos <= Len(output)
  <2>1. m \in rev /\ (m.type = "ACK" => m.pos + Behind >= CountIn(sk, offset'))
    OBVIOUS
  <2>2. MemAck(m)
    BY <2>1, MemChannels DEF MInv, MemInv, TypeOK
  <2> QED BY <2>1, <2>2 DEF MemAck
<1>16. fwd' \subseteq DataPackets /\ rev' \subseteq AckPackets /\ MemChannelInv'
  BY <1>5, <1>14, <1>15 DEF MemChannelInv, Num
<1>17. TypeOK'
  <2>1. seqnum' \in SeqNums
    BY <1>11, ModRange
  <2> QED BY <1>3, <1>5, <1>6, <1>16, <2>1, <1>1 DEF MInv, TypeOK
<1>18. MemSenderInv'
  <2>1. \A i \in DOMAIN list' : /\ list'[i].pos < offset'
                                /\ list'[i].pos \notin sk
                                /\ list'[i].seqnum = CountIn(sk, list'[i].pos) % SeqMod
    BY <1>3, <1>4
  <2>2. \A i, j \in DOMAIN list' : i < j => list'[i].pos < list'[j].pos
    BY <1>3, <1>4
  <2>3. sstate' = "done" => list' = <<>> /\ seqnum_EOF'
    <3>1. sstate' = "done" => Len(list') = 0 /\ eof
      BY <1>3, <1>6
    <3>2. Len(list') = 0 => list' = <<>>
      BY <1>3
    <3> QED BY <3>1, <3>2
  <2>4. \A q \in 0 .. offset' - 1 :
          \/ q \in sk \cup un
          \/ \E i \in DOMAIN list' : list'[i].pos = q
          \/ /\ CountIn(sk, q) < Len(output')
             /\ \A i \in DOMAIN list' : q < list'[i].pos
    BY <1>3, <1>4, <1>5
  <2>5. Len(list') <= MAX_WINDOW_SIZE
    BY <1>3
  <2> QED BY <2>1, <2>2, <2>3, <2>4, <2>5 DEF MemSenderInv, Accounted, Num
<1>19. MemReceiverInv'
  <2>1. MemReceiverInv
    BY DEF MInv, MemInv
  <2>2. \A i \in DOMAIN rlist : rlist[i].pos \in Pieces /\ rlist[i].pos \in Int
    BY BufferTypes DEF MInv, TypeOK, Pieces
  <2>3. CountIn(sk, offset) = Num(offset) /\ CountIn(sk, offset) <= CountIn(sk, offset')
    <3>1. offset \in 0 .. offset
      BY <1>1
    <3>2. CountIn(sk, offset) <= CountIn(sk, offset')
      BY <1>1, <1>9, CountGrows
    <3> QED BY <3>1, <3>2
  <2>4. Len(output) <= CountIn(sk, offset')
    BY <2>1, <2>3, <1>1, <1>11 DEF MemReceiverInv
  <2>5. CountIn(sk, offset') <= CountIn(sk, FileLength)
    BY <1>1, <1>9, CountGrows
  <2>6. ~(Len(output) = CountIn(sk, FileLength) + 1)
    BY <2>4, <2>5, <1>1, <1>11
  <2>7. rstate # "eof"
    <3>1. rstate = "eof" => Len(output) = Num(FileLength) + 1
      BY <2>1 DEF MemReceiverInv
    <3>2. Len(output) <= Num(offset) /\ Num(offset) <= Num(FileLength)
      BY <2>1, MemPositions DEF MemReceiverInv
    <3>3. Num(FileLength) \in Nat /\ Num(offset) \in Nat
      BY MemPositions
    <3> QED BY <3>1, <3>2, <3>3, <1>1
  <2>8. \A i \in DOMAIN rlist :
          /\ Near(CountIn(sk, rlist[i].pos), Len(output))
          /\ rlist[i].pos \notin sk
          /\ rlist[i].seqnum = CountIn(sk, rlist[i].pos) % SeqMod
          /\ Sent(rlist[i].pos)'
    <3> SUFFICES ASSUME NEW i \in DOMAIN rlist
                 PROVE  /\ Near(CountIn(sk, rlist[i].pos), Len(output))
                        /\ rlist[i].pos \notin sk
                        /\ rlist[i].seqnum = CountIn(sk, rlist[i].pos) % SeqMod
                        /\ Sent(rlist[i].pos)'
      OBVIOUS
    <3> DEFINE pos == rlist[i].pos
    <3>1. /\ Near(Num(pos), Len(output)) /\ pos \notin skipped
          /\ rlist[i].seqnum = Num(pos) % SeqMod /\ Sent(pos)
      BY <2>1 DEF MemReceiverInv
    <3>2. pos \in Pieces /\ pos \in Int
      BY <2>2
    <3>3. rlist'[i].pos = pos
      BY <1>5
    <3> HIDE DEF pos
    <3>4. Num(pos) = CountIn(sk, pos) /\ pos \notin sk
      BY <1>8, <3>1, <3>2
    <3>5. pos < offset' \/ (pos = EmptyPiece /\ sstate' = "done")
      BY <1>7, <3>1, <3>2 DEF Sent
    <3> QED BY <3>1, <3>4, <3>5, <1>5 DEF pos, Sent
  <2>9. ASSUME NEW q \in Pieces \ sk, CountIn(sk, q) < Len(output)
        PROVE  output[CountIn(sk, q) + 1] \in {q, Torn}
    <3>1. q \in Nat
      BY <1>1 DEF Pieces
    <3>2. q < offset
      <4>1. offset <= q => CountIn(sk, offset) <= CountIn(sk, q)
        BY <1>1, <1>9, <3>1, CountGrows
      <4>2. Len(output) <= CountIn(sk, offset)
        BY <2>1, <2>3 DEF MemReceiverInv
      <4> QED BY <2>9, <3>1, <4>1, <4>2, <1>1, <1>11
    <3>3. q \in 0 .. offset - 1 /\ q \in 0 .. offset
      BY <1>1, <3>1, <3>2
    <3>4. CountIn(sk, q) = Num(q) /\ q \in Numbered
      BY <3>3 DEF Numbered
    <3>5. WrittenInPlace
      BY <2>1 DEF MemReceiverInv
    <3> QED BY <2>9, <3>4, <3>5 DEF WrittenInPlace
  <2>10. WrittenInPlace'
    BY <1>5, <2>9 DEF WrittenInPlace, Numbered, Num
  <2>11. waited_seqnum = Len(output) % SeqMod
         /\ \A i, j \in DOMAIN rlist : i < j => rlist[i].pos < rlist[j].pos
    BY <2>1 DEF MemReceiverInv
  <2> QED BY <2>4, <2>6, <2>7, <2>8, <2>10, <2>11, <1>5 DEF MemReceiverInv, Num
<1> QED BY <1>10, <1>16, <1>17, <1>18, <1>19 DEF MInv, MemInv

(* What the invariant says of the list.                                    *)
LEMMA MemListFacts ==
  ASSUME FewDropped, MInv
  PROVE  /\ list \in Seq(SentPackets) /\ Len(list) \in Nat
         /\ DOMAIN list = 1 .. Len(list)
         /\ Len(list) <= MAX_WINDOW_SIZE
         /\ \A i \in DOMAIN list : /\ list[i].pos \in Pieces
                                   /\ list[i].pos \in Nat
                                   /\ ~IsEmpty(list[i])
                                   /\ list[i].pos < offset
                                   /\ list[i].pos \notin skipped
                                   /\ list[i].seqnum = Num(list[i].pos) % SeqMod
         /\ \A i, j \in DOMAIN list : i < j => list[i].pos < list[j].pos
         /\ \A q \in 0 .. offset - 1 : Accounted(list, q)
         /\ seqnum = Num(offset) % SeqMod
         /\ seqnum_EOF \in BOOLEAN
         /\ seqnum_EOF => offset = FileLength
         /\ s_window \in Windows
<1>1. TypeOK /\ MemSenderInv
  BY DEF MInv, MemInv
<1>2. list \in Seq(SentPackets) /\ Len(list) \in Nat /\ DOMAIN list = 1 .. Len(list)
  BY <1>1 DEF TypeOK
<1>3. \A i \in DOMAIN list : list[i].pos < offset
  BY <1>1 DEF MemSenderInv
<1>4. \A i \in DOMAIN list : /\ ~IsEmpty(list[i])
                             /\ list[i].pos \in Pieces /\ list[i].pos \in Nat
  <2>1. offset \in Nat /\ offset <= FileLength
    BY MemPositions
  <2> QED BY <1>2, <1>3, <2>1, NoEofListed
<1> QED BY <1>1, <1>2, <1>4 DEF MemSenderInv, TypeOK

(* The acknowledgements on their way to the sender.                        *)
LEMMA MemRevFacts ==
  ASSUME MInv, NEW m \in rev
  PROVE  /\ m.window \in Windows
         /\ m.pos \in Nat
         /\ m.type = "ACK" => /\ m.seqnum = m.pos % SeqMod
                              /\ m.pos + Behind >= Num(offset)
                              /\ m.pos <= Len(output)
<1>1. MemAck(m)
  BY MemChannels DEF MInv, MemInv, TypeOK
<1>2. m.window \in Windows /\ m.pos \in Nat
  BY <1>1, Constants DEF MemAck, AckPackets
<1> QED BY <1>1, <1>2 DEF MemAck

(* A handler that reads nothing, and leaves the list without its first k   *)
(* packets, which were written.                                            *)
LEMMA LeavesRest ==
  ASSUME FewDropped, MInv, UNCHANGED <<seqnum, offset>>, rev' \subseteq rev,
         NEW k \in 0 .. Len(list), NEW l \in Seq(SentPackets),
         Len(l) = Len(list) - k,
         \A i \in 1 .. Len(list) - k : l[i] = list[k + i],
         \A i \in 1 .. k : Num(list[i].pos) < Len(output)
  PROVE  Leaves(l, {}, skipped, unlisted)
<1>1. /\ Len(list) \in Nat /\ k \in Nat
      /\ DOMAIN l = 1 .. Len(list) - k
  BY MemListFacts
<1>2. ASSUME NEW i \in DOMAIN l
      PROVE  l[i] = list[k + i] /\ k + i \in DOMAIN list
  <2>1. i \in 1 .. Len(list) - k
    BY <1>1
  <2>2. DOMAIN list = 1 .. Len(list) /\ Len(list) \in Nat
    BY MemListFacts
  <2>3. k + i \in 1 .. Len(list)
    BY <1>1, <2>1, <2>2
  <2> QED BY <2>1, <2>2, <2>3
<1>3. /\ skipped \subseteq 0 .. offset' - 1 /\ unlisted \subseteq 0 .. offset' - 1
      /\ Cardinality(skipped \cup unlisted) <= MaxDropped
  BY DEF MInv, MemInv, DroppedInv
<1>4. \A i \in DOMAIN l : /\ l[i].pos < offset'
                          /\ l[i].pos \notin skipped
                          /\ l[i].seqnum = Num(l[i].pos) % SeqMod
  BY <1>2, MemListFacts
<1>5. ASSUME NEW i \in DOMAIN l, NEW j \in DOMAIN l, i < j
      PROVE  l[i].pos < l[j].pos
  <2>1. k + i \in DOMAIN list /\ k + j \in DOMAIN list /\ k + i < k + j
    BY <1>1, <1>2, <1>5
  <2>2. list[k + i].pos < list[k + j].pos
    BY <2>1, MemListFacts
  <2> QED BY <1>2, <2>2
<1>6. ASSUME NEW q \in 0 .. offset' - 1
      PROVE  \/ q \in skipped \cup unlisted
             \/ \E i \in DOMAIN l : l[i].pos = q
             \/ Num(q) < Len(output) /\ \A i \in DOMAIN l : q < l[i].pos
  <2>1. Accounted(list, q)
    BY MemListFacts
  <2>2. CASE \E i \in DOMAIN list : list[i].pos = q
    <3>1. PICK i \in DOMAIN list : list[i].pos = q
      BY <2>2
    <3>2. i \in 1 .. Len(list)
      BY MemListFacts
    <3>3. CASE i <= k
      <4>1. i \in 1 .. k
        BY <3>2, <3>3, <1>1
      <4>2. Num(q) < Len(output)
        BY <3>1, <4>1
      <4>3. ASSUME NEW j \in DOMAIN l
            PROVE  q < l[j].pos
        <5>1. k + j \in DOMAIN list /\ i < k + j /\ l[j] = list[k + j]
          BY <1>1, <1>2, <3>2, <3>3
        <5>2. list[i].pos < list[k + j].pos
          BY <5>1, MemListFacts
        <5> QED BY <3>1, <5>1, <5>2
      <4> QED BY <4>2, <4>3
    <3>4. CASE ~(i <= k)
      <4> DEFINE j == i - k
      <4>1. j \in DOMAIN l /\ k + j = i /\ j \in 1 .. Len(list) - k
        BY <1>1, <3>2, <3>4
      <4> HIDE DEF j
      <4>2. l[j].pos = q
        BY <3>1, <4>1
      <4> QED BY <4>1, <4>2
    <3> QED BY <3>3, <3>4
  <2>3. CASE Num(q) < Len(output) /\ \A i \in DOMAIN list : q < list[i].pos
    BY <1>2, <2>3
  <2> QED BY <2>1, <2>2, <2>3 DEF Accounted
<1>7. \A m \in rev' : m.type = "ACK" => m.pos + Behind >= Num(offset')
  BY MemRevFacts
<1>8. seqnum' = Num(offset') % SeqMod /\ Len(l) <= MAX_WINDOW_SIZE
  <2>1. Len(l) <= MAX_WINDOW_SIZE
    BY <1>1, MemListFacts, Constants
  <2> QED BY <2>1, MemListFacts
<1> QED BY <1>3, <1>4, <1>5, <1>6, <1>7, <1>8 DEF Leaves, Num

(* packet_checked pops only packets the receiver has written.              *)
LEMMA MemPopsWritten ==
  ASSUME FewDropped, MInv, NEW m \in rev, m.type = "ACK",
         NEW k \in 0 .. Len(list), IsCovered(list, m.seqnum, k),
         NEW i \in 1 .. k
  PROVE  Num(list[i].pos) < Len(output)
<1> DEFINE a == m.pos
           h == Num(list[i].pos)
<1>1. i \in DOMAIN list
  BY MemListFacts
<1>2. list[i].pos \in Pieces /\ list[i].pos < offset /\ list[i].seqnum = h % SeqMod
  BY <1>1, MemListFacts
<1>3. h \in Nat /\ h <= Num(offset) /\ Num(offset) \in Nat
  BY <1>2, MemPositions DEF Sent
<1>4. /\ a \in Nat /\ m.seqnum = a % SeqMod
      /\ a + Behind >= Num(offset) /\ a <= Len(output)
  BY MemRevFacts
<1>5. AckCovers(a % SeqMod, h % SeqMod)
  BY <1>2, <1>4 DEF IsCovered
<1> HIDE DEF a, h
<1>6. h < a
  BY <1>3, <1>4, <1>5, MemConstants, CoveredIsBehind
<1>7. h < Len(output)
  BY <1>3, <1>4, <1>6, MemPositions
<1> QED BY <1>7 DEF h

(* The sender's iterations that read nothing.                              *)
LEMMA MemQuietStep ==
  ASSUME FewDropped, MInv, UNCHANGED rcvVars, UNCHANGED dropped,
         sstate = "run", UNCHANGED <<seqnum, seqnum_EOF, offset>>,
         s_window' \in Windows, rev' \subseteq rev,
         NEW k \in 0 .. Len(list), NEW l \in Seq(SentPackets),
         Len(l) = Len(list) - k,
         \A i \in 1 .. Len(list) - k : l[i] = list[k + i],
         \A i \in 1 .. k : Num(list[i].pos) < Len(output),
         EndIteration(l, s_window', seqnum_EOF, {})
  PROVE  MInv'
<1>1. Leaves(l, {}, skipped, unlisted)
  BY LeavesRest
<1>2. /\ skipped' = skipped /\ unlisted' = unlisted
      /\ seqnum_EOF \in BOOLEAN /\ seqnum_EOF' = seqnum_EOF
      /\ offset' \in Nat /\ offset <= offset' /\ offset' <= FileLength
      /\ seqnum_EOF => offset' = FileLength /\ seqnum' = seqnum
  BY MemListFacts, MemPositions DEF dropped
<1>3. {} \in SUBSET DataPackets
  OBVIOUS
<1> QED BY <1>1, <1>2, <1>3, MemSenderStep

(* check_ack.                                                              *)
LEMMA MemAckStep ==
  ASSUME FewDropped, MInv, UNCHANGED rcvVars, UNCHANGED dropped,
         NEW m \in rev, SndAck(m)
  PROVE  MInv'
<1>1. /\ sstate = "run"
      /\ s_window' = m.window
      /\ UNCHANGED <<seqnum, seqnum_EOF, offset>>
      /\ rev' \subseteq rev
  BY DEF SndAck, Deliver
<1>2. s_window' \in Windows
  BY <1>1, MemRevFacts
<1>3. CASE m.type = "ACK"
  <2>1. PICK k \in 0 .. Len(list) :
          /\ IsCovered(list, m.seqnum, k)
          /\ IF EofAcked(list, k)
             THEN /\ sstate' = "done"
                  /\ list' = <<list[k]>>
                  /\ fwd' = fwd
             ELSE EndIteration(SubSeq(list, k + 1, Len(list)), s_window',
                               seqnum_EOF, {})
    BY <1>3 DEF SndAck
  <2>2. ~EofAcked(list, k)
    <3>1. EofAcked(list, k) => k \in DOMAIN list
      BY MemListFacts DEF EofAcked
    <3> QED BY <3>1, MemListFacts DEF EofAcked
  <2> DEFINE l == SubSeq(list, k + 1, Len(list))
  <2>3. /\ l \in Seq(SentPackets)
        /\ Len(l) = Len(list) - k
        /\ \A i \in 1 .. Len(list) - k : l[i] = list[k + i]
    BY MemListFacts, WithoutFirst
  <2>4. EndIteration(l, s_window', seqnum_EOF, {})
    BY <2>1, <2>2
  <2> HIDE DEF l
  <2>5. \A i \in 1 .. k : Num(list[i].pos) < Len(output)
    BY <1>3, <2>1, MemPopsWritten
  <2> QED BY <1>1, <1>2, <2>3, <2>4, <2>5, MemQuietStep
<1>4. CASE m.type # "ACK"
  <2>1. EndIteration(list, s_window', seqnum_EOF, {})
    BY <1>4 DEF SndAck
  <2>2. /\ 0 \in 0 .. Len(list) /\ list \in Seq(SentPackets)
        /\ Len(list) = Len(list) - 0
        /\ \A i \in 1 .. Len(list) - 0 : list[i] = list[0 + i]
        /\ \A i \in 1 .. 0 : Num(list[i].pos) < Len(output)
    BY MemListFacts
  <2> QED BY <1>1, <1>2, <2>1, <2>2, MemQuietStep
<1> QED BY <1>3, <1>4

(* An iteration that only runs final_send and check_timeout.               *)
LEMMA MemIdleStep ==
  ASSUME FewDropped, MInv, UNCHANGED rcvVars, UNCHANGED dropped, SndIdle
  PROVE  MInv'
<1>1. /\ sstate = "run" /\ UNCHANGED <<seqnum, seqnum_EOF, offset>>
      /\ s_window' = s_window /\ rev' \subseteq rev
      /\ EndIteration(list, s_window', seqnum_EOF, {})
  BY DEF SndIdle
<1>2. /\ 0 \in 0 .. Len(list) /\ list \in Seq(SentPackets)
      /\ Len(list) = Len(list) - 0
      /\ \A i \in 1 .. Len(list) - 0 : list[i] = list[0 + i]
      /\ \A i \in 1 .. 0 : Num(list[i].pos) < Len(output)
      /\ s_window' \in Windows
  BY <1>1, MemListFacts
<1> QED BY <1>1, <1>2, MemQuietStep

(* The places of a list that is at most one longer.                        *)
LEMMA OneLonger ==
  ASSUME NEW n \in Nat, NEW k \in Nat, k = n \/ k = n + 1
  PROVE  /\ \A i \in 1 .. k : i \in 1 .. n \/ (i = n + 1 /\ k = n + 1)
         /\ \A i \in 1 .. n : i \in 1 .. k
         /\ \A i, j \in 1 .. k : i < j => i \in 1 .. n
  OBVIOUS

(* One more piece was read, and it is the last of the list, or dropped.    *)
OneMore(l, sent, sk, un) ==
  /\ offset < FileLength
  /\ offset' = offset + 1
  /\ rev' = Live(rev, offset')
  /\ sk = skipped \/ sk = skipped \cup {offset}
  /\ un = unlisted \/ un = unlisted \cup {offset}
  /\ Cardinality(sk \cup un) <= MaxDropped
  /\ seqnum' = CountIn(sk, offset') % SeqMod
  /\ Len(l) <= MAX_WINDOW_SIZE
  /\ Len(l) = Len(list) \/ Len(l) = Len(list) + 1
  /\ \A i \in 1 .. Len(list) : l[i] = list[i]
  /\ Len(l) = Len(list) + 1 => /\ l[Len(list) + 1].pos = offset
                               /\ l[Len(list) + 1].seqnum = seqnum
                               /\ sk = skipped
  /\ Len(l) = Len(list) => offset \in sk \cup un
  /\ \A m \in sent : m.pos = offset /\ m.seqnum = seqnum /\ sk = skipped

LEMMA LeavesOneMore ==
  ASSUME FewDropped, MInv, NEW l \in Seq(SentPackets), NEW sent, NEW sk, NEW un,
         OneMore(l, sent, sk, un)
  PROVE  Leaves(l, sent, sk, un)
<1>1. /\ offset \in Nat /\ Len(list) \in Nat /\ DOMAIN list = 1 .. Len(list)
      /\ DOMAIN l = 1 .. Len(l) /\ Len(l) \in Nat
      /\ Num(offset) \in Nat /\ seqnum = Num(offset) % SeqMod
  BY MemListFacts, MemPositions
<1>2. skipped \in SUBSET Nat /\ \A q \in skipped \cup unlisted : q < offset
  BY DroppedFacts
<1>20. /\ offset' = offset + 1
       /\ sk = skipped \/ sk = skipped \cup {offset}
       /\ un = unlisted \/ un = unlisted \cup {offset}
  BY DEF OneMore
<1>21. /\ Len(l) = Len(list) \/ Len(l) = Len(list) + 1
       /\ \A i \in 1 .. Len(list) : l[i] = list[i]
  BY DEF OneMore
<1>23. /\ DOMAIN l = 1 .. Len(l)
       /\ Len(l) = Len(list) \/ Len(l) = Len(list) + 1
  BY <1>1, <1>21
<1>24. /\ \A i \in DOMAIN l :
            i \in 1 .. Len(list) \/ (i = Len(list) + 1 /\ Len(l) = Len(list) + 1)
       /\ \A i \in 1 .. Len(list) : i \in DOMAIN l
       /\ \A i, j \in DOMAIN l : i < j => i \in 1 .. Len(list)
  <2> DEFINE n == Len(list)
             k == Len(l)
  <2>1. n \in Nat /\ k \in Nat /\ (k = n \/ k = n + 1) /\ DOMAIN l = 1 .. k
    BY <1>1, <1>23
  <2> HIDE DEF n, k
  <2>2. /\ \A i \in 1 .. k : i \in 1 .. n \/ (i = n + 1 /\ k = n + 1)
        /\ \A i \in 1 .. n : i \in 1 .. k
        /\ \A i, j \in 1 .. k : i < j => i \in 1 .. n
    BY <2>1, OneLonger
  <2> QED BY <2>1, <2>2 DEF n, k
<1>22. Len(l) = Len(list) + 1 => /\ l[Len(list) + 1].pos = offset
                                /\ l[Len(list) + 1].seqnum = seqnum
                                /\ sk = skipped
  BY DEF OneMore
<1>3. offset \notin skipped
  BY <1>1, <1>2
<1>4. sk \in SUBSET Nat
  BY <1>1, <1>2, <1>20
<1>5. /\ skipped \subseteq 0 .. offset - 1 /\ unlisted \subseteq 0 .. offset - 1
  BY DEF MInv, MemInv, DroppedInv
<1>6. sk \subseteq 0 .. offset' - 1 /\ un \subseteq 0 .. offset' - 1
  <2>1. \A q \in 0 .. offset - 1 : q \in 0 .. offset' - 1
    BY <1>1, <1>20
  <2>2. offset \in 0 .. offset' - 1
    BY <1>1, <1>20
  <2> QED BY <1>5, <1>20, <2>1, <2>2
<1>7. ASSUME NEW x \in 0 .. offset
      PROVE  CountIn(sk, x) = Num(x)
  <2>1. x \in Nat /\ x <= offset
    BY <1>1
  <2>2. CountIn(skipped \cup {offset}, x) = CountIn(skipped, x)
    BY <1>1, <1>2, <2>1, CountKept
  <2> QED BY <1>20, <2>2 DEF Num
<1>8. \A x \in 0 .. offset - 1 : x \in sk <=> x \in skipped
  <2>1. \A x \in 0 .. offset - 1 : x # offset
    BY <1>1
  <2> QED BY <1>20, <2>1
<1>9. /\ CountIn(sk, offset') \in Nat
      /\ CountIn(sk, offset') <= Num(offset) + 1
      /\ CountIn(sk, offset') <= offset'
  <2>1. CountIn(sk, offset + 1) = CountIn(sk, offset) + (IF offset \in sk THEN 0 ELSE 1)
    BY <1>1, <1>4, CountNext
  <2>2. CountIn(sk, offset) = Num(offset)
    BY <1>1, <1>7
  <2>3. offset' \in Nat
    BY <1>1, <1>20
  <2>4. CountIn(sk, offset') \in 0 .. offset'
    BY <1>4, <2>3, CountType
  <2>5. CountIn(sk, offset') = CountIn(sk, offset + 1)
    BY <1>20
  <2> QED BY <1>1, <2>1, <2>2, <2>3, <2>4, <2>5
<1>10. \A i \in 1 .. Len(list) :
         /\ list[i].pos \in Nat /\ list[i].pos < offset
         /\ list[i].pos \notin skipped
         /\ list[i].seqnum = Num(list[i].pos) % SeqMod
  BY <1>1, MemListFacts
<1>11. ASSUME NEW i \in DOMAIN l
       PROVE  i \in 1 .. Len(list) \/ (i = Len(list) + 1 /\ Len(l) = Len(list) + 1)
  BY <1>24
<1>12. ASSUME NEW i \in DOMAIN l
       PROVE  /\ l[i].pos < offset'
              /\ l[i].pos \notin sk
              /\ l[i].seqnum = CountIn(sk, l[i].pos) % SeqMod
              /\ l[i].pos \in Nat
  <2>1. CASE i \in 1 .. Len(list)
    <3> DEFINE pos == list[i].pos
    <3>1. /\ pos \in Nat /\ pos < offset /\ pos \notin skipped
          /\ list[i].seqnum = Num(pos) % SeqMod /\ l[i] = list[i]
      BY <1>10, <1>21, <2>1
    <3>2. l[i].pos = pos /\ l[i].seqnum = Num(pos) % SeqMod
      BY <3>1
    <3> HIDE DEF pos
    <3>3. pos \in 0 .. offset /\ pos # offset /\ pos < offset'
      BY <1>1, <1>20, <3>1
    <3>4. CountIn(sk, pos) = Num(pos) /\ pos \notin sk
      BY <1>7, <1>20, <3>1, <3>3
    <3> QED BY <3>1, <3>2, <3>3, <3>4
  <2>2. CASE i = Len(list) + 1 /\ Len(l) = Len(list) + 1
    <3>1. l[i].pos = offset /\ l[i].seqnum = seqnum /\ sk = skipped
      BY <1>22, <2>2
    <3>2. CountIn(sk, offset) = Num(offset) /\ offset < offset'
      BY <1>1, <1>7, <1>20
    <3> QED BY <1>1, <1>3, <3>1, <3>2
  <2> QED BY <1>11, <2>1, <2>2
<1>13. ASSUME NEW i \in DOMAIN l, NEW j \in DOMAIN l, i < j
       PROVE  l[i].pos < l[j].pos
  <2>1. i \in 1 .. Len(list)
    BY <1>13, <1>24
  <2>2. l[i] = list[i] /\ list[i].pos < offset
    BY <1>10, <1>21, <2>1
  <2>3. CASE j \in 1 .. Len(list)
    <3>1. l[j] = list[j]
      BY <1>21, <2>3
    <3>2. list[i].pos < list[j].pos
      BY <1>1, <1>13, <2>1, <2>3, MemListFacts
    <3> QED BY <2>2, <3>1, <3>2
  <2>4. CASE j = Len(list) + 1 /\ Len(l) = Len(list) + 1
    BY <1>22, <2>2, <2>4
  <2> QED BY <1>11, <2>3, <2>4
<1>14. ASSUME NEW q \in 0 .. offset' - 1
       PROVE  \/ q \in sk \cup un
              \/ \E i \in DOMAIN l : l[i].pos = q
              \/ CountIn(sk, q) < Len(output) /\ \A i \in DOMAIN l : q < l[i].pos
  <2>1. CASE q = offset
    <3>1. CASE Len(l) = Len(list)
      BY <2>1, <3>1 DEF OneMore
    <3>2. CASE Len(l) = Len(list) + 1
      <4>1. Len(list) + 1 \in DOMAIN l
        BY <1>1, <3>2
      <4> QED BY <1>22, <2>1, <3>2, <4>1
    <3> QED BY <1>21, <3>1, <3>2
  <2>2. CASE q # offset
    <3>1. q \in 0 .. offset - 1 /\ q \in 0 .. offset /\ q < offset
      BY <1>1, <1>20, <2>2
    <3>2. Accounted(list, q) /\ CountIn(sk, q) = Num(q)
      BY <1>7, <3>1, MemListFacts
    <3>3. CASE q \in skipped \cup unlisted
      BY <1>20, <3>3
    <3>4. CASE \E i \in DOMAIN list : list[i].pos = q
      <4>1. PICK i \in DOMAIN list : list[i].pos = q
        BY <3>4
      <4>2. i \in 1 .. Len(list) /\ i \in DOMAIN l
        BY <1>1, <1>24
      <4> QED BY <1>21, <4>1, <4>2
    <3>5. CASE Num(q) < Len(output) /\ \A i \in DOMAIN list : q < list[i].pos
      <4> SUFFICES ASSUME NEW i \in DOMAIN l PROVE q < l[i].pos
        BY <3>2, <3>5
      <4>1. CASE i \in 1 .. Len(list)
        BY <1>1, <1>21, <3>5, <4>1
      <4>2. CASE i = Len(list) + 1 /\ Len(l) = Len(list) + 1
        BY <1>22, <3>1, <4>2
      <4> QED BY <1>11, <4>1, <4>2
    <3> QED BY <3>2, <3>3, <3>4, <3>5 DEF Accounted
  <2> QED BY <2>1, <2>2
<1>15. ASSUME NEW m \in sent
       PROVE  /\ m.pos < offset'
              /\ m.pos \notin sk
              /\ m.seqnum = CountIn(sk, m.pos) % SeqMod
              /\ CountIn(sk, m.pos) + Behind >= CountIn(sk, offset')
  <2>1. m.pos = offset /\ m.seqnum = seqnum /\ sk = skipped
    BY DEF OneMore
  <2>2. CountIn(sk, offset) = Num(offset) /\ offset < offset'
    BY <1>1, <1>7, <1>20
  <2>3. Num(offset) + Behind >= CountIn(sk, offset')
    BY <1>1, <1>9, MemConstants, Constants
  <2> QED BY <1>1, <1>3, <2>1, <2>2, <2>3
<1>16. ASSUME NEW m \in rev', m.type = "ACK"
       PROVE  m \in rev /\ m.pos + Behind >= CountIn(sk, offset')
  <2>1. m \in rev /\ m.pos + Lifetime >= offset'
    BY <1>16 DEF OneMore, Live
  <2>2. m.pos \in Nat
    BY <2>1, MemRevFacts
  <2>3. offset' \in Nat
    BY <1>1, <1>20
  <2> QED BY <1>9, <2>1, <2>2, <2>3, MemConstants, Constants
<1>17. /\ rev' \subseteq rev
       /\ Cardinality(sk \cup un) <= MaxDropped
       /\ seqnum' = CountIn(sk, offset') % SeqMod
       /\ Len(l) <= MAX_WINDOW_SIZE
  BY DEF OneMore, Live
<1> QED BY <1>6, <1>7, <1>8, <1>12, <1>13, <1>14, <1>15, <1>16, <1>17 DEF Leaves

(* read_to_list, when the file is at its end.                              *)
LEMMA MemEofStep ==
  ASSUME FewDropped, MInv, UNCHANGED rcvVars, UNCHANGED dropped,
         SndRead, ~(offset < FileLength)
  PROVE  MInv'
<1>1. /\ sstate = "run"
      /\ s_window' = s_window
      /\ rev' \subseteq rev
      /\ seqnum_EOF' = TRUE
      /\ UNCHANGED <<seqnum, offset>>
      /\ EndIteration(list, s_window, TRUE, {})
  BY DEF SndRead, Live
<1>2. /\ 0 \in 0 .. Len(list) /\ list \in Seq(SentPackets)
      /\ Len(list) = Len(list) - 0
      /\ \A i \in 1 .. Len(list) - 0 : list[i] = list[0 + i]
      /\ \A i \in 1 .. 0 : Num(list[i].pos) < Len(output)
      /\ s_window' \in Windows
  BY <1>1, MemListFacts
<1>3. Leaves(list, {}, skipped, unlisted)
  BY <1>1, <1>2, LeavesRest
<1>4. /\ skipped' = skipped /\ unlisted' = unlisted
      /\ offset' \in Nat /\ offset <= offset' /\ offset' <= FileLength
      /\ offset' = FileLength
  BY <1>1, MemPositions, Constants DEF dropped
<1>5. {} \in SUBSET DataPackets
  OBVIOUS
<1> QED BY <1>1, <1>2, <1>3, <1>4, <1>5, MemSenderStep

(* The number of the next piece, when this one has a number.               *)
LEMMA NumberIsUsed ==
  ASSUME FewDropped, MInv, seqnum' = NextSeqnum(seqnum), offset' = offset + 1
  PROVE  seqnum' = CountIn(skipped, offset') % SeqMod
<1>1. offset \in Nat /\ Num(offset) \in Nat /\ seqnum = Num(offset) % SeqMod
  BY MemPositions, MemListFacts
<1>2. skipped \in SUBSET Nat /\ \A q \in skipped \cup unlisted : q < offset
  BY DroppedFacts
<1>3. offset \notin skipped
  BY <1>1, <1>2
<1>4. CountIn(skipped, offset + 1) = Num(offset) + 1
  BY <1>1, <1>2, <1>3, CountNext DEF Num
<1>5. NextSeqnum(Num(offset) % SeqMod) = (Num(offset) + 1) % SeqMod
  BY <1>1, NextSeqnumMod
<1> QED BY <1>1, <1>4, <1>5

(* read_to_list, when it reads a piece, sends it and lists it.             *)
LEMMA MemReadStep ==
  ASSUME FewDropped, MInv, UNCHANGED rcvVars, UNCHANGED dropped,
         SndRead, offset < FileLength
  PROVE  MInv'
<1> DEFINE p == [seqnum |-> seqnum, pos |-> offset, age |-> 0]
           l == Append(list, p)
<1>1. /\ sstate = "run" /\ HasRoom(s_window)
      /\ s_window' = s_window
      /\ seqnum' = NextSeqnum(seqnum)
      /\ offset' = offset + 1
      /\ seqnum_EOF' = FALSE
      /\ EndIteration(l, s_window, FALSE, {Datagram(p)})
      /\ rev' = Live(rev, offset')
  BY DEF SndRead
<1>2. /\ list \in Seq(SentPackets) /\ Len(list) \in Nat
      /\ offset \in Nat /\ s_window \in Windows
      /\ seqnum \in SeqNums
  <2>1. seqnum \in SeqNums
    BY DEF MInv, TypeOK
  <2> QED BY <2>1, MemListFacts, MemPositions
<1>3. /\ p \in SentPackets /\ p.pos = offset /\ p.seqnum = seqnum
      /\ Datagram(p) \in DataPackets
      /\ Datagram(p).pos = offset /\ Datagram(p).seqnum = seqnum
  BY <1>2, Constants DEF SentPackets, DataPackets, Datagram, Ages, Pieces
<1> HIDE DEF p
<1>4. /\ l \in Seq(SentPackets)
      /\ Len(l) = Len(list) + 1
      /\ \A i \in 1 .. Len(list) : l[i] = list[i]
      /\ l[Len(list) + 1] = p
  BY <1>2, <1>3
<1> HIDE DEF l
<1>5. Len(l) <= MAX_WINDOW_SIZE /\ Len(l) # Len(list)
  BY <1>1, <1>2, <1>4, Constants DEF HasRoom, Windows
<1>6. seqnum' = CountIn(skipped, offset') % SeqMod
  BY <1>1, NumberIsUsed
<1>7. Cardinality(skipped \cup unlisted) <= MaxDropped
  BY DroppedFacts
<1>8. \A m \in {Datagram(p)} : m.pos = offset /\ m.seqnum = seqnum
  BY <1>3
<1>9. Leaves(l, {Datagram(p)}, skipped, unlisted)
  <2>1. OneMore(l, {Datagram(p)}, skipped, unlisted)
    BY <1>1, <1>3, <1>4, <1>5, <1>6, <1>7, <1>8 DEF OneMore
  <2> QED BY <1>4, <2>1, LeavesOneMore
<1>10. /\ skipped' = skipped /\ unlisted' = unlisted
       /\ offset' \in Nat /\ offset <= offset' /\ offset' <= FileLength
       /\ {Datagram(p)} \in SUBSET DataPackets
       /\ s_window' \in Windows
  BY <1>1, <1>2, <1>3, Constants DEF dropped
<1> QED BY <1>1, <1>4, <1>9, <1>10, MemSenderStep

(* One more dropped piece is still few enough.                             *)
LEMMA DropsOneMore ==
  ASSUME FewDropped, MInv, Cardinality(skipped \cup unlisted) < MaxDropped
  PROVE  /\ Cardinality((skipped \cup {offset}) \cup unlisted) <= MaxDropped
         /\ Cardinality(skipped \cup (unlisted \cup {offset})) <= MaxDropped
<1> DEFINE D == skipped \cup unlisted
<1>1. IsFiniteSet(D)
  BY DroppedFacts
<1>2. /\ (skipped \cup {offset}) \cup unlisted = D \cup {offset}
      /\ skipped \cup (unlisted \cup {offset}) = D \cup {offset}
  OBVIOUS
<1>3. Cardinality(D) < MaxDropped
  OBVIOUS
<1> HIDE DEF D
<1>4. Cardinality(D) \in Nat
  BY <1>1, FS_CardinalityType
<1>5. Cardinality(D \cup {offset}) =
        IF offset \in D THEN Cardinality(D) ELSE Cardinality(D) + 1
  BY <1>1, FS_AddElement
<1>6. Cardinality(D \cup {offset}) <= MaxDropped
  BY <1>3, <1>4, <1>5, MemConstants
<1> QED BY <1>2, <1>6

(* A piece that is read and then given up on.                              *)
LEMMA MemSkipStep ==
  ASSUME FewDropped, MInv, Skip
  PROVE  MInv'
<1> DEFINE sk == skipped \cup {offset}
<1>1. /\ sstate = "run" /\ ~seqnum_EOF /\ offset < FileLength
      /\ Cardinality(skipped \cup unlisted) < MaxDropped
      /\ offset' = offset + 1
      /\ rev' = Live(rev, offset')
      /\ s_window' = s_window /\ seqnum_EOF' = seqnum_EOF
      /\ UNCHANGED rcvVars
      /\ skipped' = sk /\ seqnum' = seqnum /\ unlisted' = unlisted
      /\ EndIteration(list, s_window, FALSE, {})
  BY DEF Skip, PieceRead
<1>2. /\ list \in Seq(SentPackets) /\ Len(list) \in Nat
      /\ Len(list) <= MAX_WINDOW_SIZE
      /\ offset \in Nat /\ s_window \in Windows
      /\ Num(offset) \in Nat /\ seqnum = Num(offset) % SeqMod
      /\ seqnum_EOF' = FALSE
  BY <1>1, MemListFacts, MemPositions
<1>3. skipped \in SUBSET Nat /\ sk \in SUBSET Nat /\ offset \in sk
  BY <1>2, DroppedFacts
<1>4. seqnum' = CountIn(sk, offset') % SeqMod
  <2>1. CountIn(sk, offset) = Num(offset)
    <3>1. offset <= offset
      BY <1>2
    <3> QED BY <1>2, <1>3, <3>1, CountKept DEF Num
  <2> HIDE DEF sk
  <2>2. CountIn(sk, offset + 1) = CountIn(sk, offset)
    <3>1. CountIn(sk, offset + 1) = CountIn(sk, offset) + 0
      BY <1>2, <1>3, CountNext
    <3> QED BY <1>2, <2>1, <3>1
  <2> QED BY <1>1, <1>2, <2>1, <2>2
<1>5. Cardinality(sk \cup unlisted) <= MaxDropped
  BY <1>1, DropsOneMore
<1>6. Leaves(list, {}, sk, unlisted)
  <2>1. Len(list) # Len(list) + 1
    BY <1>2
  <2>2. OneMore(list, {}, sk, unlisted)
    BY <1>1, <1>2, <1>3, <1>4, <1>5, <2>1 DEF OneMore
  <2> HIDE DEF sk
  <2> QED BY <1>2, <2>2, LeavesOneMore
<1>7. /\ offset' \in Nat /\ offset <= offset' /\ offset' <= FileLength
      /\ {} \in SUBSET DataPackets
      /\ s_window' \in Windows
  BY <1>1, <1>2, Constants
<1> HIDE DEF sk
<1> QED BY <1>1, <1>2, <1>6, <1>7, MemSenderStep

(* A piece that is sent, but not listed.                                   *)
LEMMA MemUnlistedStep ==
  ASSUME FewDropped, MInv, Unlisted
  PROVE  MInv'
<1> DEFINE un == unlisted \cup {offset}
           d == [seqnum |-> seqnum, pos |-> offset, tr |-> 0]
<1>1. /\ sstate = "run" /\ ~seqnum_EOF /\ offset < FileLength
      /\ Cardinality(skipped \cup unlisted) < MaxDropped
      /\ offset' = offset + 1
      /\ rev' = Live(rev, offset')
      /\ s_window' = s_window /\ seqnum_EOF' = seqnum_EOF
      /\ UNCHANGED rcvVars
      /\ skipped' = skipped /\ seqnum' = NextSeqnum(seqnum) /\ unlisted' = un
      /\ EndIteration(list, s_window, FALSE, {d})
  BY DEF Unlisted, PieceRead, NumberUsed
<1>2. /\ list \in Seq(SentPackets) /\ Len(list) \in Nat
      /\ Len(list) <= MAX_WINDOW_SIZE
      /\ offset \in Nat /\ s_window \in Windows
      /\ seqnum_EOF' = FALSE /\ offset \in un /\ seqnum \in SeqNums
  <2>1. seqnum \in SeqNums
    BY DEF MInv, TypeOK
  <2> QED BY <1>1, <2>1, MemListFacts, MemPositions
<1>3. d.pos = offset /\ d.seqnum = seqnum /\ d \in DataPackets
  BY <1>1, <1>2, Constants DEF DataPackets, Pieces
<1>4. seqnum' = CountIn(skipped, offset') % SeqMod
  BY <1>1, NumberIsUsed
<1>5. Cardinality(skipped \cup un) <= MaxDropped
  BY <1>1, DropsOneMore
<1>6. Leaves(list, {d}, skipped, un)
  <2>1. Len(list) # Len(list) + 1
    BY <1>2
  <2>2. OneMore(list, {d}, skipped, un)
    BY <1>1, <1>2, <1>3, <1>4, <1>5, <2>1 DEF OneMore
  <2> HIDE DEF un, d
  <2> QED BY <1>2, <2>2, LeavesOneMore
<1>7. /\ offset' \in Nat /\ offset <= offset' /\ offset' <= FileLength
      /\ {d} \in SUBSET DataPackets
      /\ s_window' \in Windows
  BY <1>1, <1>2, <1>3, Constants
<1> HIDE DEF un, d
<1> QED BY <1>1, <1>2, <1>6, <1>7, MemSenderStep

(* A failed select() and the clock leave everything but the state of the   *)
(* program and the ages as it was.                                         *)
LEMMA MemSndOtherStep ==
  ASSUME FewDropped, MInv, UNCHANGED rcvVars, UNCHANGED dropped,
         SndSelectError \/ Tick
  PROVE  MInv'
<1>1. /\ sstate = "run"
      /\ UNCHANGED <<seqnum, s_window, seqnum_EOF, offset, fwd, rev>>
      /\ UNCHANGED <<waited_seqnum, r_window, rlist, output, rstate>>
      /\ UNCHANGED <<skipped, unlisted>>
      /\ sstate' \in {"run", "error"}
  BY DEF SndSelectError, Tick, rcvVars, dropped
<1>2. /\ list \in Seq(SentPackets) /\ Len(list) \in Nat
      /\ DOMAIN list = 1 .. Len(list)
      /\ \A i \in 1 .. Len(list) : list[i] \in SentPackets
  BY MemListFacts
<1>3. /\ list' \in Seq(SentPackets) /\ Len(list') = Len(list)
      /\ DOMAIN list' = DOMAIN list
      /\ \A i \in DOMAIN list : /\ list'[i].pos = list[i].pos
                                /\ list'[i].seqnum = list[i].seqnum
  <2>1. CASE SndSelectError
    BY <1>2, <2>1 DEF SndSelectError
  <2>2. CASE Tick
    BY <1>2, <2>2, TickKeepsPackets
  <2> QED BY <2>1, <2>2
<1>4. \A pos \in Int : Sent(pos) => Sent(pos)'
  BY <1>1 DEF Sent
<1>5. TypeOK /\ DroppedInv /\ MemSenderInv /\ MemReceiverInv /\ MemChannelInv
  BY DEF MInv, MemInv
<1>6. TypeOK' /\ DroppedInv'
  BY <1>1, <1>3, <1>5 DEF TypeOK, DroppedInv
<1>7. \A x : Num(x)' = Num(x)
  BY <1>1 DEF Num
<1>8. MemSenderInv'
  <2>1. \A i \in DOMAIN list' : /\ list'[i].pos < offset
                                /\ list'[i].pos \notin skipped
                                /\ list'[i].seqnum = Num(list'[i].pos) % SeqMod
    BY <1>3, <1>5 DEF MemSenderInv
  <2>2. \A i, j \in DOMAIN list' : i < j => list'[i].pos < list'[j].pos
    BY <1>3, <1>5 DEF MemSenderInv
  <2>3. ASSUME NEW q \in 0 .. offset - 1
        PROVE  Accounted(list, q)'
    <3>1. Accounted(list, q)
      BY <1>5 DEF MemSenderInv
    <3> QED BY <1>1, <1>3, <1>7, <3>1 DEF Accounted
  <2>4. /\ seqnum = Num(offset) % SeqMod
        /\ Len(list') <= MAX_WINDOW_SIZE
        /\ seqnum_EOF => offset = FileLength
    BY <1>3, <1>5 DEF MemSenderInv
  <2> QED BY <1>1, <1>7, <2>1, <2>2, <2>3, <2>4 DEF MemSenderInv, Accounted
<1>9. MemReceiverInv'
  <2>1. \A i \in DOMAIN rlist : rlist[i].pos \in Int
    BY <1>5, BufferTypes DEF TypeOK
  <2>2. (\A i \in DOMAIN rlist : Sent(rlist[i].pos))'
    BY <1>1, <1>4, <1>5, <2>1 DEF MemReceiverInv
  <2>3. WrittenInPlace'
    BY <1>1, <1>5, <1>7 DEF MemReceiverInv, WrittenInPlace, Numbered
  <2> QED BY <1>1, <1>5, <1>7, <2>2, <2>3 DEF MemReceiverInv
<1>10. MemChannelInv'
  <2>1. \A m \in fwd : m.pos \in Int
    BY <1>5, Constants DEF TypeOK, DataPackets, Pieces
  <2> QED BY <1>1, <1>4, <1>5, <1>7, <2>1 DEF MemChannelInv
<1> QED BY <1>6, <1>8, <1>9, <1>10 DEF MInv, MemInv

-----------------------------------------------------------------------------
(* The steps of the receiver.                                              *)

(* One iteration of the receiver keeps the invariant if what it writes is  *)
(* in its place, what it keeps is in order, and what it acknowledges is    *)
(* what it has written.                                                    *)
LEMMA MemReceiverStep ==
  ASSUME FewDropped, MInv, UNCHANGED sndVars, UNCHANGED dropped,
         fwd' \subseteq fwd,
         r_window' \in Windows,
         rlist' \in Seq(BufferedPackets),
         output' \in Seq(Pieces \cup {Torn}),
         rstate' \in {"wait", "run", "eof", "timeout", "noclient", "error"},
         Len(output) <= Len(output'),
         \/ Len(output') <= Num(offset)
         \/ sstate = "done" /\ Len(output') = Num(offset) + 1,
         waited_seqnum' = Len(output') % SeqMod,
         \A q \in Numbered :
           Num(q) < Len(output') => output'[Num(q) + 1] \in {q, Torn},
         \A i \in DOMAIN rlist' : /\ Near(Num(rlist'[i].pos), Len(output'))
                                  /\ rlist'[i].pos \notin skipped
                                  /\ rlist'[i].seqnum = Num(rlist'[i].pos) % SeqMod
                                  /\ Sent(rlist'[i].pos),
         \A i, j \in DOMAIN rlist' : i < j => rlist'[i].pos < rlist'[j].pos,
         rstate' = "eof" => Len(output') = Num(FileLength) + 1,
         Len(output') = Num(FileLength) + 1 /\ rstate' \in {"wait", "run"} =>
           Num(FileLength) % SeqMod = SeqMod - 1,
         \A m \in rev' : m \in rev \/
           (m \in AckPackets /\ (m.type = "ACK" =>
                                   /\ m.seqnum = m.pos % SeqMod
                                   /\ m.pos + Behind >= Num(offset)
                                   /\ m.pos <= Len(output')))
  PROVE  MInv'
<1>1. /\ UNCHANGED <<list, seqnum, s_window, seqnum_EOF, offset, sstate>>
      /\ UNCHANGED <<skipped, unlisted>>
  BY DEF sndVars, dropped
<1>2. \A pos : Sent(pos) => Sent(pos)'
  BY <1>1 DEF Sent
<1>3. Len(output) \in Nat /\ Len(output') \in Nat
  BY MemPositions
<1>4. \A x : Num(x)' = Num(x)
  BY <1>1 DEF Num
<1>5. ASSUME NEW m \in fwd'
      PROVE  MemData(m)'
  <2>1. MemData(m)
    BY MemChannels DEF MInv, MemInv, TypeOK
  <2> QED BY <2>1, <1>1, <1>2, <1>4 DEF MemData
<1>6. ASSUME NEW m \in rev'
      PROVE  MemAck(m)'
  <2>1. CASE m \in rev
    <3>1. MemAck(m)
      BY <2>1, MemChannels DEF MInv, MemInv, TypeOK
    <3>2. m.pos \in Nat
      BY <2>1, MemRevFacts
    <3>3. m.pos <= Len(output) => m.pos <= Len(output')
      BY <1>3, <3>2
    <3> QED BY <3>1, <3>3, <1>1, <1>4 DEF MemAck
  <2>2. CASE m \notin rev
    BY <2>2, <1>1, <1>4 DEF MemAck
  <2> QED BY <2>1, <2>2
<1>7. fwd' \subseteq DataPackets /\ rev' \subseteq AckPackets /\ MemChannelInv'
  BY <1>5, <1>6 DEF MemChannelInv, MemData, MemAck
<1>8. TypeOK' /\ DroppedInv'
  <2>1. waited_seqnum' \in SeqNums
    BY <1>3, ModRange
  <2>2. TypeOK'
    BY <1>1, <1>7, <2>1 DEF MInv, TypeOK
  <2>3. DroppedInv'
    BY <1>1 DEF MInv, MemInv, DroppedInv
  <2> QED BY <2>2, <2>3
<1>9. MemSenderInv'
  <2>1. MemSenderInv
    BY DEF MInv, MemInv
  <2>2. ASSUME NEW q \in 0 .. offset - 1
        PROVE  Accounted(list, q)'
    <3>1. Accounted(list, q) /\ q \in Nat
      BY <2>1 DEF MemSenderInv
    <3>2. Num(q) \in Nat
      BY <3>1, NumGrows
    <3>3. Num(q) < Len(output) => Num(q) < Len(output')
      BY <1>3, <3>2
    <3> QED BY <1>1, <1>4, <3>1, <3>3 DEF Accounted
  <2> QED BY <1>1, <1>4, <2>1, <2>2 DEF MemSenderInv
<1>10. MemReceiverInv'
  <2>1. (\A i \in DOMAIN rlist : Sent(rlist[i].pos))'
    BY <1>2
  <2>2. WrittenInPlace'
    BY <1>1, <1>4 DEF WrittenInPlace, Numbered
  <2> QED BY <1>1, <1>4, <2>1, <2>2 DEF MemReceiverInv
<1> QED BY <1>7, <1>8, <1>9, <1>10 DEF MInv, MemInv

(* The pieces of a buffer, after the new packet went in, that the receiver *)
(* may still write.                                                        *)
MemOrdered(l) ==
  /\ \A i \in DOMAIN l : /\ Near(Num(l[i].pos), Len(output))
                         /\ l[i].pos \notin skipped
                         /\ l[i].seqnum = Num(l[i].pos) % SeqMod
                         /\ Sent(l[i].pos)
  /\ Increasing(l)

(* What the invariant says of the receiver.                                *)
LEMMA MemReceiverFacts ==
  ASSUME FewDropped, MInv
  PROVE  /\ r_window \in Windows
         /\ rlist \in Seq(BufferedPackets)
         /\ output \in Seq(Pieces \cup {Torn}) /\ Len(output) \in Nat
         /\ rstate \in {"wait", "run", "eof", "timeout", "noclient", "error"}
         /\ waited_seqnum = Len(output) % SeqMod
         /\ waited_seqnum \in SeqNums
         /\ WrittenInPlace
         /\ MemOrdered(rlist)
         /\ rstate = "eof" => Len(output) = Num(FileLength) + 1
         /\ Len(output) = Num(FileLength) + 1 /\ rstate \in {"wait", "run"} =>
              Num(FileLength) % SeqMod = SeqMod - 1
         /\ \/ Len(output) <= Num(offset)
            \/ sstate = "done" /\ Len(output) = Num(offset) + 1
         /\ sstate = "done" => offset = FileLength
<1>1. TypeOK /\ MemReceiverInv /\ MemSenderInv
  BY DEF MInv, MemInv
<1>2. MemOrdered(rlist)
  BY <1>1 DEF MemReceiverInv, MemOrdered, Increasing
<1>3. Len(output) \in Nat
  BY MemPositions
<1> QED BY <1>1, <1>2, <1>3 DEF TypeOK, MemReceiverInv, MemSenderInv

(* What the invariant says of a datagram for the receiver.                 *)
LEMMA MemFwdFacts ==
  ASSUME FewDropped, MInv, NEW m \in fwd
  PROVE  /\ m.pos \in Pieces /\ m.pos \in Nat
         /\ Num(m.pos) \in Nat
         /\ m.seqnum = Num(m.pos) % SeqMod
         /\ m.seqnum \in SeqNums
         /\ m.pos \notin skipped
         /\ Sent(m.pos)
         /\ Num(m.pos) + Behind >= Num(offset)
         /\ Num(m.pos) <= Num(offset)
<1>1. MemData(m)
  BY MemChannels DEF MInv, MemInv, TypeOK
<1>2. m.pos \in Pieces /\ m.pos \in Nat /\ m.seqnum \in SeqNums
  BY <1>1, Constants DEF MemData, DataPackets, Pieces
<1>3. Num(m.pos) \in Nat /\ Num(m.pos) <= Num(offset)
  BY <1>1, <1>2, MemPositions DEF MemData
<1> QED BY <1>1, <1>2, <1>3 DEF MemData

(* When the receiver waits for number 0 after the end of the file, it      *)
(* refuses a datagram that is one further behind than others may be.       *)
LEMMA FarBehind ==
  ASSUME NEW n \in Nat, NEW r \in Nat, NEW w \in Windows,
         r - n = Behind + 1, r % SeqMod = 0
  PROVE  ~RcvInWindow(n % SeqMod, r % SeqMod, w)
<1> DEFINE a == n % SeqMod
           b == r % SeqMod
<1>1. n <= r /\ r - n < SeqMod /\ r - n = SeqMod - MAX_WINDOW_SIZE - 1
  BY Constants DEF Behind
<1>2. b = a + (r - n) \/ b = a + (r - n) - SeqMod
  BY <1>1, ModDiff
<1>3. a \in 0 .. SeqMod - 1 /\ b = 0
  BY ModRange DEF SeqNums
<1> HIDE DEF a, b
<1>4. a > MAX_WINDOW_SIZE
  BY <1>1, <1>2, <1>3, Constants
<1>5. ~RcvInWindow(a, b, w)
  BY <1>3, <1>4, Constants DEF RcvInWindow, Windows
<1> QED BY <1>5 DEF a, b

(* The number after SeqMod - 1 is 0.                                       *)
LEMMA WrapsToZero ==
  ASSUME NEW n \in Nat, n % SeqMod = SeqMod - 1
  PROVE  (n + 1) % SeqMod = 0
<1> DEFINE a == n % SeqMod
           b == (n + 1) % SeqMod
<1>1. b = a + 1 \/ b = a + 1 - SeqMod
  BY ModNext
<1>2. n + 1 \in Nat
  OBVIOUS
<1>3. a = SeqMod - 1 /\ b \in 0 .. SeqMod - 1
  BY <1>2, ModRange DEF SeqNums
<1> HIDE DEF a, b
<1>4. b = 0
  BY <1>1, <1>3, Constants
<1> QED BY <1>4 DEF b

(* The window test of the receiver accepts only packets it may buffer.     *)
LEMMA AcceptedIsNear ==
  ASSUME FewDropped, MInv, rstate = "run", NEW m \in fwd,
         RcvInWindow(m.seqnum, waited_seqnum, r_window)
  PROVE  Near(Num(m.pos), Len(output))
<1> DEFINE n == Num(m.pos)
           r == Len(output)
           o == Num(offset)
<1>1. n \in Nat /\ m.seqnum = n % SeqMod /\ n + Behind >= o /\ n <= o
  BY MemFwdFacts
<1>2. /\ r \in Nat /\ o \in Nat /\ o <= r + Behind
      /\ r <= o \/ (r = o + 1 /\ offset = FileLength)
  BY MemPositions
<1>3. r_window \in Windows /\ waited_seqnum = r % SeqMod
  BY MemReceiverFacts
<1>4. RcvInWindow(n % SeqMod, r % SeqMod, r_window)
  BY <1>1, <1>3
<1>5. r = o + 1 /\ offset = FileLength => o % SeqMod = SeqMod - 1
  BY MemReceiverFacts
<1> HIDE DEF n, r, o
<1>6. Behind \in Nat
  BY MemConstants
<1>7. CASE r - n <= Behind
  <2>1. n - r <= Behind
    BY <1>1, <1>2, <1>6
  <2>2. Near(n, r)
    BY <1>1, <1>2, <1>3, <1>4, <1>7, <2>1, InWindowIsNear
  <2> QED BY <2>2 DEF n, r
<1>8. CASE ~(r - n <= Behind)
  <2>1. r = o + 1 /\ offset = FileLength /\ r - n = Behind + 1
    BY <1>1, <1>2, <1>6, <1>8
  <2>2. r % SeqMod = 0
    BY <1>2, <1>5, <2>1, WrapsToZero
  <2> QED BY <1>1, <1>2, <1>3, <1>4, <2>1, <2>2, FarBehind
<1> QED BY <1>7, <1>8

(* add_specific_queue puts a packet of the window at its place.            *)
LEMMA MemInsertion ==
  ASSUME FewDropped, MInv, NEW p \in BufferedPackets,
         Near(Num(p.pos), Len(output)), p.pos \notin skipped,
         p.seqnum = Num(p.pos) % SeqMod, Sent(p.pos),
         NEW q \in 1 .. Len(rlist) + 1, GoesTo(rlist, p, q)
  PROVE  /\ InsertedAt(rlist, p, q) \in Seq(BufferedPackets)
         /\ Len(InsertedAt(rlist, p, q)) >= 1
         /\ MemOrdered(InsertedAt(rlist, p, q))
<1> DEFINE l == InsertedAt(rlist, p, q)
<1>1. /\ rlist \in Seq(BufferedPackets)
      /\ Len(rlist) \in Nat /\ DOMAIN rlist = 1 .. Len(rlist)
      /\ \A i \in DOMAIN rlist : rlist[i].pos \in Nat
  BY MemReceiverFacts, BufferTypes
<1>2. MemOrdered(rlist) /\ Increasing(rlist) /\ Len(output) \in Nat
  BY MemReceiverFacts DEF MemOrdered
<1>3. p.pos \in Nat /\ Num(p.pos) \in Nat
  <2>1. p.pos \in Nat
    BY Constants DEF BufferedPackets, Pieces
  <2> QED BY <2>1, NumGrows
<1>4. ASSUME NEW i \in DOMAIN rlist
      PROVE  /\ Precedes(rlist[i].seqnum, p.seqnum) <=> rlist[i].pos < p.pos
             /\ rlist[i].pos = p.pos => rlist[i].seqnum = p.seqnum
  <2> DEFINE x == rlist[i].pos
  <2>1. /\ Near(Num(x), Len(output)) /\ x \notin skipped
        /\ rlist[i].seqnum = Num(x) % SeqMod /\ x \in Nat
    BY <1>1, <1>2 DEF MemOrdered
  <2> HIDE DEF x
  <2>2. Num(x) \in Nat
    BY <2>1, NumGrows
  <2>3. Precedes(rlist[i].seqnum, p.seqnum) <=> Num(x) < Num(p.pos)
    BY <1>2, <1>3, <2>1, <2>2, NearOrder
  <2>4. x < p.pos <=> Num(x) < Num(p.pos)
    BY <1>3, <2>1, NumGrows
  <2> QED BY <2>1, <2>3, <2>4 DEF x
<1>5. \A i \in 1 .. q - 1 : rlist[i].pos < p.pos
  <2>1. \A i \in 1 .. q - 1 : i \in DOMAIN rlist
    BY <1>1
  <2> QED BY <1>4, <2>1 DEF GoesTo
<1>6. q <= Len(rlist) /\ rlist[q].seqnum # p.seqnum => rlist[q].pos > p.pos
  <2> SUFFICES ASSUME q <= Len(rlist), rlist[q].seqnum # p.seqnum
               PROVE  rlist[q].pos > p.pos
    OBVIOUS
  <2>1. q \in DOMAIN rlist /\ ~Precedes(rlist[q].seqnum, p.seqnum)
    BY <1>1 DEF GoesTo
  <2>2. ~(rlist[q].pos < p.pos) /\ rlist[q].pos # p.pos
    BY <1>4, <2>1
  <2> QED BY <1>1, <1>3, <2>1, <2>2
<1>7. /\ l \in Seq(BufferedPackets) /\ Len(l) >= 1 /\ Increasing(l)
      /\ \A i \in DOMAIN l : l[i] = p \/ \E j \in DOMAIN rlist : l[i] = rlist[j]
  BY <1>1, <1>2, <1>5, <1>6, InsertionIsOrdered
<1> HIDE DEF l
<1>8. ASSUME NEW i \in DOMAIN l
      PROVE  /\ Near(Num(l[i].pos), Len(output))
             /\ l[i].pos \notin skipped
             /\ l[i].seqnum = Num(l[i].pos) % SeqMod
             /\ Sent(l[i].pos)
  <2>1. CASE l[i] = p
    BY <2>1
  <2>2. CASE \E j \in DOMAIN rlist : l[i] = rlist[j]
    BY <2>2, <1>2 DEF MemOrdered
  <2> QED BY <2>1, <2>2, <1>7
<1> QED BY <1>7, <1>8 DEF MemOrdered, l

(* What the order of a buffer says of its counts.                          *)
LEMMA MemOrderedCounts ==
  ASSUME FewDropped, MInv, NEW l \in Seq(BufferedPackets), MemOrdered(l)
  PROVE  /\ DOMAIN l = 1 .. Len(l) /\ Len(l) \in Nat
         /\ \A i \in DOMAIN l : /\ l[i].pos \in Nat /\ l[i].pos \in Pieces
                                /\ Num(l[i].pos) \in Nat
                                /\ Len(output) <= Num(l[i].pos)
                                /\ Num(l[i].pos) <= Len(output) + MAX_WINDOW_SIZE + 1
         /\ \A i, j \in DOMAIN l : i < j => Num(l[i].pos) < Num(l[j].pos)
<1>1. /\ DOMAIN l = 1 .. Len(l) /\ Len(l) \in Nat
      /\ \A i \in DOMAIN l : l[i].pos \in Nat /\ l[i].pos \in Pieces
  <2>1. \A p \in BufferedPackets : p.pos \in Pieces
    BY DEF BufferedPackets
  <2> QED BY <2>1, BufferTypes
<1>2. Len(output) \in Nat
  BY MemPositions
<1>3. ASSUME NEW i \in DOMAIN l
      PROVE  /\ Num(l[i].pos) \in Nat
             /\ Len(output) <= Num(l[i].pos)
             /\ Num(l[i].pos) <= Len(output) + MAX_WINDOW_SIZE + 1
  <2>1. Near(Num(l[i].pos), Len(output))
    BY DEF MemOrdered
  <2>2. Num(l[i].pos) \in Nat
    BY <1>1, NumGrows
  <2> QED BY <1>2, <2>1, <2>2, Constants DEF Near
<1>4. ASSUME NEW i \in DOMAIN l, NEW j \in DOMAIN l, i < j
      PROVE  Num(l[i].pos) < Num(l[j].pos)
  <2>1. l[i].pos < l[j].pos /\ l[i].pos \notin skipped
    BY <1>4 DEF MemOrdered, Increasing
  <2>2. l[i].pos \in Nat /\ l[j].pos \in Nat
    BY <1>1
  <2> QED BY <2>1, <2>2, NumGrows
<1> QED BY <1>1, <1>3, <1>4

(* The packets that are in sequence are the next numbered pieces.          *)
LEMMA MemInSequence ==
  ASSUME FewDropped, MInv, NEW l \in Seq(BufferedPackets), MemOrdered(l),
         NEW k \in 0 .. Len(l), InSequence(l, k)
  PROVE  \A i \in 1 .. k : Num(l[i].pos) = Len(output) + i - 1
<1> DEFINE Wrong == {i \in 1 .. k : Num(l[i].pos) # Len(output) + i - 1}
<1>1. Wrong \in SUBSET Nat /\ Wrong \subseteq 1 .. k
  OBVIOUS
<1>2. /\ DOMAIN l = 1 .. Len(l) /\ Len(l) \in Nat /\ Len(output) \in Nat
      /\ \A i \in DOMAIN l : Num(l[i].pos) \in Nat
  BY MemOrderedCounts, MemPositions
<1>3. ASSUME NEW i \in Wrong, \A j \in Wrong : i <= j
      PROVE  FALSE
  <2> DEFINE r == Len(output)
             x == Num(l[i].pos)
             e == i - 1
  <2>1. i \in 1 .. k /\ i \in DOMAIN l /\ i \in Nat /\ x # r + i - 1
    BY <1>1, <1>2
  <2>2. x \in Nat /\ r \in Nat /\ e \in Nat
    BY <1>2, <2>1
  <2>3. x >= r + e
    <3>1. CASE i = 1
      BY <2>1, <2>2, <3>1, MemOrderedCounts
    <3>2. CASE i # 1
      <4>1. e \in 1 .. k /\ e \in DOMAIN l /\ e \notin Wrong /\ e < i
        BY <1>1, <1>2, <1>3, <2>1, <3>2
      <4>2. Num(l[e].pos) = r + e - 1
        BY <4>1
      <4>3. Num(l[e].pos) < x
        BY <2>1, <4>1, MemOrderedCounts
      <4> HIDE DEF r, x, e
      <4> QED BY <2>2, <4>2, <4>3
    <3> QED BY <3>1, <3>2
  <2>4. x <= r + MAX_WINDOW_SIZE + 1
    BY <2>1, MemOrderedCounts
  <2>5. x % SeqMod = (r + e) % SeqMod
    <3>1. waited_seqnum = r % SeqMod
      BY MemReceiverFacts
    <3>2. l[i].seqnum = (waited_seqnum + i - 1) % SeqMod
      BY <2>1 DEF InSequence
    <3>3. waited_seqnum \in Int
      BY MemReceiverFacts, Constants DEF SeqNums
    <3>4. waited_seqnum + i - 1 = waited_seqnum + e
      BY <2>1, <3>3
    <3>5. l[i].seqnum = x % SeqMod
      BY <2>1 DEF MemOrdered
    <3> HIDE DEF r, x, e
    <3>6. ((r % SeqMod) + e) % SeqMod = (r + e) % SeqMod
      BY <2>2, ModPlus
    <3> QED BY <3>1, <3>2, <3>4, <3>5, <3>6
  <2>6. r + i - 1 = r + e
    BY <2>1, <2>2
  <2> HIDE DEF r, x, e
  <2>7. x - (r + e) < SeqMod /\ (r + e) - x < SeqMod /\ r + e \in Nat
    BY <2>2, <2>3, <2>4, Constants
  <2>8. x = r + e
    BY <2>2, <2>5, <2>7, SameNumber
  <2> QED BY <2>1, <2>6, <2>8
<1>4. Wrong = {}
  BY <1>1, <1>3, LeastNumber
<1> QED BY <1>4

(* An acknowledgement of a number the receiver has written up to.          *)
LEMMA MemAckIsGood ==
  ASSUME FewDropped, MInv, NEW i \in Nat,
         Len(output) + i <= FileLength + 1, NEW w \in Windows,
         NEW m, m = Ack("ACK", (waited_seqnum + i) % SeqMod, w, Len(output) + i)
  PROVE  /\ m \in AckPackets
         /\ m.seqnum = m.pos % SeqMod
         /\ m.pos + Behind >= Num(offset)
         /\ m.pos = Len(output) + i
<1> DEFINE r == Len(output)
<1>1. /\ r \in Nat /\ waited_seqnum = r % SeqMod
      /\ Num(offset) \in Nat /\ Num(offset) <= r + Behind
  BY MemPositions, MemReceiverFacts
<1> HIDE DEF r
<1>2. (waited_seqnum + i) % SeqMod = (r + i) % SeqMod /\ r + i \in Nat
  BY <1>1, ModPlus
<1>3. (r + i) % SeqMod \in SeqNums
  BY <1>2, ModRange
<1>4. m = [type |-> "ACK", seqnum |-> (r + i) % SeqMod, window |-> w, pos |-> r + i]
  BY <1>2 DEF Ack, r
<1>5. r + i \in 0 .. FileLength + 1
  BY <1>2, Constants DEF r
<1>6. m \in AckPackets
  BY <1>3, <1>4, <1>5 DEF AckPackets
<1>7. r + i + Behind >= Num(offset)
  BY <1>1, MemConstants
<1> QED BY <1>4, <1>6, <1>7 DEF r

(* write_in_sequence writes the first k packets of l, acknowledges some,   *)
(* and goes on, or ends, or follows a null pointer.                        *)
Writes(l, k, torn, acked) ==
  /\ InSequence(l, k)
  /\ waited_seqnum' = (waited_seqnum + k) % SeqMod
  /\ rlist' = SubSeq(l, k + 1, Len(l))
  /\ output' = output \o [i \in 1 .. k |-> IF i \in torn THEN Torn ELSE l[i].pos]
  /\ rev' \in RevAfter(rev, AcksOf(acked))
  /\ rstate' \in {"run", "eof", "error"}
  /\ rstate' = "eof" => EofWritten(l, k)
  /\ rstate' = "run" => ~EofWritten(l, k)

(* How far it writes.                                                      *)
LEMMA WritesNumbered ==
  ASSUME FewDropped, MInv, NEW l \in Seq(BufferedPackets), MemOrdered(l),
         NEW k \in 0 .. Len(l), InSequence(l, k)
  PROVE  /\ \/ Len(output) + k <= Num(offset)
            \/ sstate = "done" /\ Len(output) + k = Num(offset) + 1
         /\ Len(output) + k <= FileLength + 1
         /\ k > 0 => /\ k \in DOMAIN l
                     /\ Num(l[k].pos) = Len(output) + k - 1
         /\ k > 0 /\ Len(output) + k = Num(FileLength) + 1 => l[k].pos = FileLength
<1> DEFINE r == Len(output)
           pos == l[k].pos
<1>1. /\ r \in Nat /\ Len(l) \in Nat /\ k \in Nat /\ DOMAIN l = 1 .. Len(l)
      /\ offset \in Nat /\ offset <= FileLength /\ FileLength \in Nat
      /\ Num(offset) \in Nat /\ Num(FileLength) \in Nat
  BY MemPositions, MemOrderedCounts, Constants
<1>2. /\ Num(offset) <= offset
      /\ \/ r <= Num(offset)
         \/ sstate = "done" /\ r = Num(offset) + 1
      /\ sstate = "done" => offset = FileLength
  BY <1>1, NumGrows, MemReceiverFacts
<1>3. FileLength \notin skipped
  <2>1. \A q \in skipped : q < offset
    BY DroppedFacts
  <2> QED BY <1>1, <2>1
<1>4. k > 0 => k \in DOMAIN l /\ Num(pos) = r + k - 1
  <2> SUFFICES ASSUME k > 0 PROVE k \in DOMAIN l /\ Num(pos) = r + k - 1
    OBVIOUS
  <2>1. k \in 1 .. k /\ k \in DOMAIN l
    BY <1>1
  <2> QED BY <2>1, MemInSequence
<1>5. k > 0 => pos \in Nat /\ pos \notin skipped /\ Sent(pos)
  <2> SUFFICES ASSUME k > 0 PROVE pos \in Nat /\ pos \notin skipped /\ Sent(pos)
    OBVIOUS
  <2>1. k \in DOMAIN l
    BY <1>4
  <2>2. pos \in Nat
    BY <2>1, MemOrderedCounts
  <2> QED BY <2>1, <2>2 DEF MemOrdered
<1> HIDE DEF r, pos
<1>6. \/ r + k <= Num(offset)
      \/ sstate = "done" /\ r + k = Num(offset) + 1
  <2>1. CASE k = 0
    BY <1>1, <1>2, <2>1
  <2>2. CASE k > 0 /\ pos < offset
    <3>1. Num(pos) < Num(offset)
      BY <1>1, <1>5, <2>2, NumGrows
    <3> QED BY <1>1, <1>4, <2>2, <3>1
  <2>3. CASE k > 0 /\ pos = FileLength /\ sstate = "done"
    BY <1>1, <1>2, <1>4, <2>3
  <2> QED BY <1>1, <1>5, <2>1, <2>2, <2>3 DEF Sent, EmptyPiece
<1>7. r + k <= FileLength + 1
  BY <1>1, <1>2, <1>6
<1>8. k > 0 /\ r + k = Num(FileLength) + 1 => pos = FileLength
  <2> SUFFICES ASSUME k > 0, r + k = Num(FileLength) + 1 PROVE pos = FileLength
    OBVIOUS
  <2>1. Num(pos) = Num(FileLength)
    BY <1>1, <1>4
  <2> QED BY <1>1, <1>3, <1>5, <2>1, NumGrows
<1> QED BY <1>4, <1>6, <1>7, <1>8 DEF r, pos

(* What it writes is in its place.                                         *)
LEMMA WritesInPlace ==
  ASSUME FewDropped, MInv, NEW l \in Seq(BufferedPackets), MemOrdered(l),
         NEW k \in 0 .. Len(l), NEW torn \in ShortOnes(l, k), NEW acked,
         Writes(l, k, torn, acked)
  PROVE  /\ output' \in Seq(Pieces \cup {Torn})
         /\ Len(output') = Len(output) + k
         /\ \A q \in Numbered :
              Num(q) < Len(output) + k => output'[Num(q) + 1] \in {q, Torn}
<1> DEFINE r == Len(output)
<1>1. output \in Seq(Pieces \cup {Torn}) /\ r \in Nat /\ WrittenInPlace
      /\ k \in Nat /\ Len(l) \in Nat /\ DOMAIN l = 1 .. Len(l)
  BY MemReceiverFacts, MemOrderedCounts
<1>2. /\ output' \in Seq(Pieces \cup {Torn})
      /\ Len(output') = r + k
      /\ \A i \in 1 .. r : output'[i] = output[i]
      /\ \A i \in 1 .. k : \/ output'[r + i] = l[i].pos
                           \/ ShortWrites /\ output'[r + i] = Torn
  <2>1. output' = output \o
          [i \in 1 .. k |-> IF i \in torn THEN Torn ELSE l[i].pos]
    BY DEF Writes
  <2> QED BY <1>1, <2>1, WrittenIsAppended
<1>3. \A i \in 1 .. k : Num(l[i].pos) = r + i - 1
  <2>1. InSequence(l, k)
    BY DEF Writes
  <2> QED BY <2>1, MemInSequence
<1>4. ASSUME NEW q \in Numbered, Num(q) < r + k
      PROVE  output'[Num(q) + 1] \in {q, Torn}
  <2> DEFINE n == Num(q)
  <2>1. q \in Nat /\ q \notin skipped
    BY Constants DEF Numbered, Pieces
  <2>2. n \in Nat
    BY <2>1, NumGrows
  <2>3. CASE n < r
    <3>1. output[n + 1] \in {q, Torn}
      BY <1>1, <2>3 DEF WrittenInPlace
    <3> HIDE DEF n, r
    <3>2. n + 1 \in 1 .. r
      BY <1>1, <2>2, <2>3
    <3>3. output'[n + 1] = output[n + 1]
      BY <1>2, <3>2
    <3> QED BY <3>1, <3>3 DEF n
  <2>4. CASE ~(n < r)
    <3> DEFINE j == n - r + 1
    <3> HIDE DEF r
    <3>1. j \in 1 .. k /\ r + j - 1 = n /\ r + j = n + 1
      BY <1>1, <1>4, <2>2, <2>4
    <3> HIDE DEF j
    <3>2. Num(l[j].pos) = n
      BY <1>3, <3>1
    <3>3. j \in DOMAIN l
      BY <1>1, <3>1
    <3>4. l[j].pos \in Nat /\ l[j].pos \notin skipped
      <4>1. l[j].pos \in Nat
        BY <3>3, MemOrderedCounts
      <4> QED BY <3>3, <4>1 DEF MemOrdered
    <3>5. l[j].pos = q
      BY <2>1, <3>2, <3>4, NumGrows
    <3>6. output'[r + j] \in {l[j].pos, Torn}
      BY <1>2, <3>1
    <3> HIDE DEF n
    <3> QED BY <3>1, <3>5, <3>6 DEF n
  <2> QED BY <2>3, <2>4
<1> QED BY <1>2, <1>4 DEF r

(* What it leaves in the buffer is still to be written.                    *)
LEMMA WritesLeave ==
  ASSUME FewDropped, MInv, NEW l \in Seq(BufferedPackets), MemOrdered(l),
         NEW k \in 0 .. Len(l), InSequence(l, k),
         rlist' = SubSeq(l, k + 1, Len(l))
  PROVE  /\ rlist' \in Seq(BufferedPackets)
         /\ \A i \in DOMAIN rlist' :
              /\ Near(Num(rlist'[i].pos), Len(output) + k)
              /\ rlist'[i].pos \notin skipped
              /\ rlist'[i].seqnum = Num(rlist'[i].pos) % SeqMod
              /\ Sent(rlist'[i].pos)
         /\ \A i, j \in DOMAIN rlist' : i < j => rlist'[i].pos < rlist'[j].pos
<1>1. /\ DOMAIN l = 1 .. Len(l) /\ Len(l) \in Nat /\ k \in Nat
      /\ Len(output) \in Nat
  BY MemOrderedCounts, MemPositions
<1>2. /\ rlist' \in Seq(BufferedPackets)
      /\ Len(rlist') = Len(l) - k
      /\ \A i \in 1 .. Len(l) - k : rlist'[i] = l[k + i]
  BY <1>1, WithoutFirst
<1>3. ASSUME NEW i \in DOMAIN rlist'
      PROVE  rlist'[i] = l[k + i] /\ k + i \in DOMAIN l /\ i \in Nat /\ i > 0
  <2>1. i \in 1 .. Len(l) - k
    <3>1. DOMAIN rlist' = 1 .. Len(rlist')
      BY <1>2
    <3> QED BY <1>2, <3>1
  <2>2. k + i \in 1 .. Len(l) /\ i \in Nat /\ i > 0
    BY <1>1, <2>1
  <2> QED BY <1>1, <1>2, <2>1, <2>2
<1>4. ASSUME NEW i \in DOMAIN rlist'
      PROVE  /\ Near(Num(rlist'[i].pos), Len(output) + k)
             /\ rlist'[i].pos \notin skipped
             /\ rlist'[i].seqnum = Num(rlist'[i].pos) % SeqMod
             /\ Sent(rlist'[i].pos)
  <2> DEFINE pos == l[k + i].pos
             r == Len(output)
  <2>1. rlist'[i] = l[k + i] /\ k + i \in DOMAIN l /\ i \in Nat /\ i > 0
    BY <1>3
  <2>2. /\ Near(Num(pos), r) /\ pos \notin skipped
        /\ l[k + i].seqnum = Num(pos) % SeqMod /\ Sent(pos)
    BY <2>1 DEF MemOrdered
  <2>3. Num(pos) \in Nat /\ Num(pos) >= r
    BY <2>1, MemOrderedCounts
  <2>4. Num(pos) >= r + k
    <3>1. CASE k = 0
      BY <1>1, <2>3, <3>1
    <3>2. CASE k > 0
      <4>1. k \in 1 .. k /\ k \in DOMAIN l /\ k < k + i
        BY <1>1, <2>1, <3>2
      <4>2. Num(l[k].pos) = r + k - 1
        BY <4>1, MemInSequence
      <4>3. Num(l[k].pos) < Num(pos)
        BY <2>1, <4>1, MemOrderedCounts
      <4> HIDE DEF r, pos
      <4> QED BY <1>1, <2>3, <4>2, <4>3 DEF r
    <3> QED BY <1>1, <3>1, <3>2
  <2> HIDE DEF pos, r
  <2>5. r \in Nat /\ r + k \in Nat /\ r <= r + k
    BY <1>1 DEF r
  <2>6. Near(Num(pos), r + k)
    BY <2>2, <2>3, <2>4, <2>5, NearStays
  <2> QED BY <2>1, <2>2, <2>6 DEF pos, r
<1>5. ASSUME NEW i \in DOMAIN rlist', NEW j \in DOMAIN rlist', i < j
      PROVE  rlist'[i].pos < rlist'[j].pos
  <2>1. /\ rlist'[i] = l[k + i] /\ k + i \in DOMAIN l
        /\ rlist'[j] = l[k + j] /\ k + j \in DOMAIN l
        /\ k + i < k + j
    BY <1>1, <1>3, <1>5
  <2> QED BY <2>1 DEF MemOrdered, Increasing
<1> QED BY <1>2, <1>4, <1>5

(* write_in_sequence keeps the invariant.                                  *)
LEMMA MemWriteStep ==
  ASSUME FewDropped, MInv, UNCHANGED sndVars, UNCHANGED dropped,
         fwd' \subseteq fwd, rstate = "run",
         NEW l \in Seq(BufferedPackets), MemOrdered(l),
         NEW k \in 0 .. Len(l), NEW torn \in ShortOnes(l, k),
         NEW acked \in 0 .. k, Writes(l, k, torn, acked),
         r_window' \in Windows
  PROVE  MInv'
<1> DEFINE r == Len(output)
<1>1. /\ InSequence(l, k)
      /\ waited_seqnum' = (waited_seqnum + k) % SeqMod
      /\ rlist' = SubSeq(l, k + 1, Len(l))
      /\ rev' \in RevAfter(rev, AcksOf(acked))
      /\ rstate' \in {"run", "eof", "error"}
      /\ rstate' = "eof" => EofWritten(l, k)
      /\ rstate' = "run" => ~EofWritten(l, k)
  BY DEF Writes
<1>2. r \in Nat /\ k \in Nat /\ waited_seqnum = r % SeqMod /\ Len(l) \in Nat
  BY MemReceiverFacts, MemOrderedCounts
<1>3. /\ output' \in Seq(Pieces \cup {Torn})
      /\ Len(output') = r + k
      /\ \A q \in Numbered :
           Num(q) < r + k => output'[Num(q) + 1] \in {q, Torn}
  BY WritesInPlace
<1>4. /\ \/ r + k <= Num(offset)
         \/ sstate = "done" /\ r + k = Num(offset) + 1
      /\ r + k <= FileLength + 1
      /\ k > 0 => k \in DOMAIN l /\ Num(l[k].pos) = r + k - 1
      /\ k > 0 /\ r + k = Num(FileLength) + 1 => l[k].pos = FileLength
  BY <1>1, WritesNumbered
<1>5. /\ rlist' \in Seq(BufferedPackets)
      /\ \A i \in DOMAIN rlist' : /\ Near(Num(rlist'[i].pos), r + k)
                                  /\ rlist'[i].pos \notin skipped
                                  /\ rlist'[i].seqnum = Num(rlist'[i].pos) % SeqMod
                                  /\ Sent(rlist'[i].pos)
      /\ \A i, j \in DOMAIN rlist' : i < j => rlist'[i].pos < rlist'[j].pos
  BY <1>1, WritesLeave
<1>6. waited_seqnum' = (r + k) % SeqMod
  BY <1>1, <1>2, ModPlus
<1>7. Num(FileLength) \in Nat /\ FileLength \in Nat
  BY MemPositions, Constants
<1>8. rstate' = "eof" => r + k = Num(FileLength) + 1
  <2> SUFFICES ASSUME EofWritten(l, k) PROVE r + k = Num(FileLength) + 1
    BY <1>1
  <2>1. k > 0 /\ l[k].pos = FileLength
    BY DEF EofWritten, EmptyPiece
  <2>2. Num(FileLength) = r + k - 1
    BY <1>4, <2>1
  <2> HIDE DEF r
  <2> QED BY <1>2, <1>7, <2>2
<1>9. r + k = Num(FileLength) + 1 /\ rstate' \in {"wait", "run"} =>
        Num(FileLength) % SeqMod = SeqMod - 1
  <2> SUFFICES ASSUME r + k = Num(FileLength) + 1, rstate' = "run"
               PROVE  Num(FileLength) % SeqMod = SeqMod - 1
    BY <1>1
  <2>1. CASE k = 0
    <3>1. r = Num(FileLength) + 1
      BY <1>2, <2>1
    <3> QED BY <3>1, MemReceiverFacts
  <2>2. CASE k > 0
    <3> DEFINE n == Num(FileLength)
    <3>1. k \in DOMAIN l /\ l[k].pos = FileLength /\ k \in 1 .. Len(l)
      BY <1>2, <1>4, <2>2
    <3>2. l[k].seqnum = n % SeqMod /\ Increasing(l)
      BY <3>1 DEF MemOrdered
    <3>3. waited_seqnum' = (n + 1) % SeqMod /\ ~EofWritten(l, k) /\ n \in Nat
      BY <1>1, <1>6, <1>7
    <3> HIDE DEF n
    <3>4. n % SeqMod = SeqMod - 1
      BY <3>1, <3>2, <3>3, EndOfFileWritten
    <3> QED BY <3>4 DEF n
  <2> QED BY <1>2, <2>1, <2>2
<1>10. ASSUME NEW m \in rev'
       PROVE  m \in rev \/
                (m \in AckPackets /\ (m.type = "ACK" =>
                                        /\ m.seqnum = m.pos % SeqMod
                                        /\ m.pos + Behind >= Num(offset)
                                        /\ m.pos <= r + k))
  <2>1. m \in rev \/ m \in AcksOf(acked)
    BY <1>1, CarrySubset DEF RevAfter
  <2>2. CASE m \in AcksOf(acked)
    <3>1. PICK i \in 1 .. acked :
            m = Ack("ACK", (waited_seqnum + i) % SeqMod, WindowAdd(i), r + i)
      BY <2>2 DEF AcksOf
    <3>2. i \in Nat /\ r + i <= r + k /\ r + i <= FileLength + 1
      <4> HIDE DEF r
      <4>1. i \in Nat /\ i <= k
        BY <1>2
      <4> QED BY <1>2, <1>4, <1>7, <4>1
    <3>3. WindowAdd(i) \in Windows
      <4>1. r_window \in Windows
        BY MemReceiverFacts
      <4> QED BY <3>2, <4>1, Constants DEF WindowAdd, Windows
    <3>4. /\ m \in AckPackets
          /\ m.seqnum = m.pos % SeqMod
          /\ m.pos + Behind >= Num(offset)
          /\ m.pos = r + i
      BY <3>1, <3>2, <3>3, MemAckIsGood
    <3> HIDE DEF r
    <3> QED BY <3>2, <3>4
  <2> QED BY <2>1, <2>2
<1>11. r <= r + k
  BY <1>2
<1>12. /\ rstate' \in {"wait", "run", "eof", "timeout", "noclient", "error"}
  BY <1>1
<1>13. /\ Len(output) <= Len(output')
       /\ \/ Len(output') <= Num(offset)
          \/ sstate = "done" /\ Len(output') = Num(offset) + 1
       /\ waited_seqnum' = Len(output') % SeqMod
       /\ rstate' = "eof" => Len(output') = Num(FileLength) + 1
       /\ Len(output') = Num(FileLength) + 1 /\ rstate' \in {"wait", "run"} =>
            Num(FileLength) % SeqMod = SeqMod - 1
  BY <1>3, <1>4, <1>6, <1>8, <1>9, <1>11
<1>14. /\ output' \in Seq(Pieces \cup {Torn})
       /\ \A q \in Numbered :
            Num(q) < Len(output') => output'[Num(q) + 1] \in {q, Torn}
  BY <1>3
<1>15. \A i \in DOMAIN rlist' : /\ Near(Num(rlist'[i].pos), Len(output'))
                                /\ rlist'[i].pos \notin skipped
                                /\ rlist'[i].seqnum = Num(rlist'[i].pos) % SeqMod
                                /\ Sent(rlist'[i].pos)
  BY <1>3, <1>5
<1>16. \A m \in rev' : m \in rev \/
         (m \in AckPackets /\ (m.type = "ACK" =>
                                 /\ m.seqnum = m.pos % SeqMod
                                 /\ m.pos + Behind >= Num(offset)
                                 /\ m.pos <= Len(output')))
  BY <1>3, <1>10
<1> HIDE DEF r
<1> QED BY <1>5, <1>12, <1>13, <1>14, <1>15, <1>16, MemReceiverStep

(* A step that writes nothing and keeps the buffer or replaces it, and     *)
(* that sends only acknowledgements of what is written.                    *)
LEMMA MemNothingWritten ==
  ASSUME FewDropped, MInv, UNCHANGED sndVars, UNCHANGED dropped,
         fwd' \subseteq fwd,
         UNCHANGED <<waited_seqnum, output>>,
         r_window' \in Windows,
         rlist' \in Seq(BufferedPackets), MemOrdered(rlist'),
         rstate' \in {"wait", "run", "timeout", "noclient", "error"},
         rstate' \in {"wait", "run"} => rstate \in {"wait", "run"},
         \A m \in rev' : m \in rev \/ m = WaitedAck
           \/ (m \in AckPackets /\ m.type # "ACK")
  PROVE  MInv'
<1>1. /\ Len(output) \in Nat /\ waited_seqnum = Len(output) % SeqMod
      /\ r_window \in Windows
  BY MemReceiverFacts
<1>2. ASSUME NEW m, m = WaitedAck
      PROVE  /\ m \in AckPackets
             /\ m.seqnum = m.pos % SeqMod
             /\ m.pos + Behind >= Num(offset)
             /\ m.pos <= Len(output)
  <2>1. Len(output) <= FileLength + 1
    <3>1. offset \in Nat /\ offset <= FileLength /\ Num(offset) \in Nat
      BY MemPositions
    <3>2. Num(offset) <= offset
      BY <3>1, NumGrows
    <3>3. Len(output) <= Num(offset) \/ Len(output) = Num(offset) + 1
      BY MemPositions
    <3> QED BY <1>1, <3>1, <3>2, <3>3, Constants
  <2>2. waited_seqnum \in SeqNums
    BY MemReceiverFacts
  <2>3. m = [type |-> "ACK", seqnum |-> waited_seqnum, window |-> r_window,
             pos |-> Len(output)]
    BY <1>2 DEF WaitedAck, Ack
  <2>4. m \in AckPackets
    <3>1. Len(output) \in 0 .. FileLength + 1
      BY <1>1, <2>1
    <3> QED BY <1>1, <2>2, <2>3, <3>1 DEF AckPackets
  <2>5. Len(output) + Behind >= Num(offset) /\ Len(output) <= Len(output)
    BY <1>1, MemPositions, MemConstants
  <2> QED BY <1>1, <2>3, <2>4, <2>5
<1>3. /\ output' \in Seq(Pieces \cup {Torn})
      /\ Len(output') = Len(output) /\ Len(output) <= Len(output')
      /\ waited_seqnum' = Len(output') % SeqMod
      /\ \/ Len(output') <= Num(offset)
         \/ sstate = "done" /\ Len(output') = Num(offset) + 1
      /\ Len(output') = Num(FileLength) + 1 /\ rstate' \in {"wait", "run"} =>
           Num(FileLength) % SeqMod = SeqMod - 1
  BY <1>1, MemReceiverFacts
<1>4. \A q \in Numbered :
        Num(q) < Len(output') => output'[Num(q) + 1] \in {q, Torn}
  BY MemReceiverFacts DEF WrittenInPlace
<1>5. /\ \A i \in DOMAIN rlist' : /\ Near(Num(rlist'[i].pos), Len(output'))
                                  /\ rlist'[i].pos \notin skipped
                                  /\ rlist'[i].seqnum = Num(rlist'[i].pos) % SeqMod
                                  /\ Sent(rlist'[i].pos)
      /\ \A i, j \in DOMAIN rlist' : i < j => rlist'[i].pos < rlist'[j].pos
  BY <1>3 DEF MemOrdered, Increasing
<1>6. \A m \in rev' : m \in rev \/
        (m \in AckPackets /\ (m.type = "ACK" =>
                                /\ m.seqnum = m.pos % SeqMod
                                /\ m.pos + Behind >= Num(offset)
                                /\ m.pos <= Len(output')))
  BY <1>2, <1>3
<1>7. /\ rstate' \in {"wait", "run", "eof", "timeout", "noclient", "error"}
      /\ rstate' # "eof"
  OBVIOUS
<1> QED BY <1>3, <1>4, <1>5, <1>6, <1>7, MemReceiverStep

(* wait_for_client, the time out and the errors of the receiver.           *)
LEMMA MemRcvOtherStep ==
  ASSUME FewDropped, MInv, UNCHANGED sndVars, UNCHANGED dropped,
         RcvConnect \/ RcvNoClient \/ RcvTimeout \/ RcvError
  PROVE  MInv'
<1>1. /\ UNCHANGED <<waited_seqnum, r_window, output, fwd, rev>>
      /\ rlist' = rlist \/ rlist' = <<>>
      /\ rstate' \in {"run", "noclient", "timeout", "error"}
      /\ rstate \in {"wait", "run"}
  BY DEF RcvConnect, RcvNoClient, RcvTimeout, RcvError
<1>2. rlist' \in Seq(BufferedPackets) /\ MemOrdered(rlist')
  <2>1. <<>> \in Seq(BufferedPackets) /\ MemOrdered(<<>>)
    BY DEF MemOrdered, Increasing
  <2> QED BY <1>1, <2>1, MemReceiverFacts
<1> QED BY <1>1, <1>2, MemReceiverFacts, MemNothingWritten

(* A truncated packet, refused or answered with a NACK.                    *)
LEMMA MemTruncatedStep ==
  ASSUME FewDropped, MInv, UNCHANGED sndVars, UNCHANGED dropped,
         NEW m \in fwd, RcvTruncated(m)
  PROVE  MInv'
<1>1. /\ rstate = "run" /\ fwd' \subseteq fwd
      /\ UNCHANGED <<waited_seqnum, rlist, output, rstate>>
  BY DEF RcvTruncated, Deliver
<1>2. /\ MemOrdered(rlist') /\ rlist' \in Seq(BufferedPackets)
      /\ r_window \in Windows
  BY <1>1, MemReceiverFacts
<1>3. CASE UNCHANGED <<r_window, rev>>
  BY <1>1, <1>2, <1>3, MemNothingWritten
<1>4. CASE /\ r_window' = WindowDivide
           /\ rev' \in RevAfter(rev,
                {Ack("NACK", m.seqnum, WindowDivide, Len(output))})
  <2> DEFINE a == Ack("NACK", m.seqnum, WindowDivide, Len(output))
  <2>1. WindowDivide \in Windows
    BY <1>2, Constants DEF WindowDivide, Windows
  <2>2. a \in AckPackets /\ a.type # "ACK"
    <3>1. Len(output) \in 0 .. FileLength + 1
      <4>1. /\ offset \in Nat /\ offset <= FileLength /\ Num(offset) \in Nat
            /\ Len(output) \in Nat
            /\ Len(output) <= Num(offset) \/ Len(output) = Num(offset) + 1
        BY MemPositions
      <4>2. Num(offset) <= offset
        BY <4>1, NumGrows
      <4> QED BY <4>1, <4>2, Constants
    <3>2. m.seqnum \in SeqNums
      BY MemFwdFacts
    <3> QED BY <2>1, <3>1, <3>2 DEF Ack, AckPackets
  <2> HIDE DEF a
  <2>3. rev' \subseteq rev \cup {a}
    BY <1>4, CarrySubset DEF RevAfter, a
  <2> QED BY <1>1, <1>2, <1>4, <2>1, <2>2, <2>3, MemNothingWritten
<1> QED BY <1>3, <1>4 DEF RcvTruncated

(* write_in_sequence, when every acknowledgement can be made.              *)
LEMMA MemWriteInSequence ==
  ASSUME FewDropped, MInv, UNCHANGED sndVars, UNCHANGED dropped,
         fwd' \subseteq fwd, rstate = "run",
         NEW l \in Seq(BufferedPackets), MemOrdered(l), WriteInSequence(l)
  PROVE  MInv'
<1>1. PICK k \in 0 .. Len(l), failed \in BOOLEAN :
        /\ InSequence(l, k)
        /\ waited_seqnum' = Advanced(k, failed)
        /\ rlist' = SubSeq(l, k + 1, Len(l))
        /\ \E torn \in ShortOnes(l, k) :
             output' = output \o
               [i \in 1 .. k |-> IF i \in torn THEN Torn ELSE l[i].pos]
        /\ LET acked == IF EofWritten(l, k) THEN k - 1 ELSE k IN
           /\ r_window' = WindowAdd(acked)
           /\ rev' \in RevAfter(rev, AcksOf(acked))
        /\ rstate' = IF EofWritten(l, k) THEN "eof" ELSE rstate
  BY DEF WriteInSequence
<1>2. PICK torn \in ShortOnes(l, k) :
        output' = output \o
          [i \in 1 .. k |-> IF i \in torn THEN Torn ELSE l[i].pos]
  BY <1>1
<1>3. k \in Nat /\ r_window \in Windows
  BY MemReceiverFacts, MemOrderedCounts
<1>4. PICK acked \in 0 .. k :
         r_window' = WindowAdd(acked) /\ rev' \in RevAfter(rev, AcksOf(acked))
  <2>1. CASE EofWritten(l, k)
    <3>1. k - 1 \in 0 .. k
      BY <1>3, <2>1 DEF EofWritten
    <3> QED BY <1>1, <2>1, <3>1
  <2>2. CASE ~EofWritten(l, k)
    BY <1>1, <1>3, <2>2
  <2> QED BY <2>1, <2>2
<1>5. r_window' \in Windows
  BY <1>3, <1>4, Constants DEF WindowAdd, Windows
<1>6. Writes(l, k, torn, acked)
  BY <1>1, <1>2, <1>4 DEF Writes, Advanced
<1> QED BY <1>5, <1>6, MemWriteStep

(* The packet a datagram is decoded into, and where it may go.             *)
LEMMA MemDecoded ==
  ASSUME FewDropped, MInv, rstate = "run", NEW m \in fwd,
         RcvInWindow(m.seqnum, waited_seqnum, r_window),
         NEW p, p = [seqnum |-> m.seqnum, pos |-> m.pos],
         NEW q \in 1 .. Len(rlist) + 1, GoesTo(rlist, p, q)
  PROVE  /\ InsertedAt(rlist, p, q) \in Seq(BufferedPackets)
         /\ Len(InsertedAt(rlist, p, q)) >= 1
         /\ MemOrdered(InsertedAt(rlist, p, q))
<1>1. Near(Num(m.pos), Len(output))
  BY AcceptedIsNear
<1>2. /\ p.pos = m.pos /\ p.seqnum = m.seqnum
      /\ p \in BufferedPackets
  BY MemFwdFacts DEF BufferedPackets
<1>3. /\ p.pos \notin skipped
      /\ p.seqnum = Num(p.pos) % SeqMod /\ Sent(p.pos)
      /\ Near(Num(p.pos), Len(output))
  BY <1>1, <1>2, MemFwdFacts
<1> QED BY <1>2, <1>3, MemInsertion

(* A packet in the window.                                                 *)
LEMMA MemInsideStep ==
  ASSUME FewDropped, MInv, UNCHANGED sndVars, UNCHANGED dropped,
         NEW m \in fwd, RcvInsideWindow(m)
  PROVE  MInv'
<1> DEFINE p == [seqnum |-> m.seqnum, pos |-> m.pos]
<1>1. /\ rstate = "run" /\ fwd' \subseteq fwd
      /\ RcvInWindow(m.seqnum, waited_seqnum, r_window)
  BY DEF RcvInsideWindow, Deliver
<1>2. PICK q \in 1 .. Len(rlist) + 1 :
        /\ GoesTo(rlist, p, q)
        /\ LET l == InsertedAt(rlist, p, q) IN
           IF AheadOfWaited(l[1].seqnum, waited_seqnum)
           THEN /\ rlist' = l
                /\ UNCHANGED <<waited_seqnum, r_window, output, rstate>>
                /\ rev' \in RevAfter(rev, {WaitedAck})
           ELSE WriteInSequence(l)
  BY DEF RcvInsideWindow
<1> DEFINE l == InsertedAt(rlist, p, q)
<1>3. l \in Seq(BufferedPackets) /\ MemOrdered(l)
  BY <1>1, <1>2, MemDecoded
<1>4. CASE /\ rlist' = l
           /\ UNCHANGED <<waited_seqnum, r_window, output, rstate>>
           /\ rev' \in RevAfter(rev, {WaitedAck})
  <2>1. rev' \subseteq rev \cup {WaitedAck}
    BY <1>4, CarrySubset DEF RevAfter
  <2>2. rlist' \in Seq(BufferedPackets) /\ MemOrdered(rlist')
    BY <1>3, <1>4
  <2>3. r_window' \in Windows
    BY <1>4, MemReceiverFacts
  <2> HIDE DEF l, p
  <2> QED BY <1>1, <1>4, <2>1, <2>2, <2>3, MemNothingWritten
<1>5. CASE WriteInSequence(l)
  <2> HIDE DEF l, p
  <2> QED BY <1>1, <1>3, <1>5, MemWriteInSequence
<1> QED BY <1>2, <1>4, <1>5

(* A late end-of-file packet would mean that it was written before, when   *)
(* its number is the last one, and then the test does not recognise it.    *)
LEMMA MemNoLateEof ==
  ASSUME FewDropped, MInv, rstate = "run", NEW m \in fwd
  PROVE  ~LateEof(m)
<1> SUFFICES ASSUME m.seqnum = waited_seqnum - 1, m.pos = EmptyPiece
             PROVE  FALSE
  BY DEF LateEof
<1> DEFINE n == Num(FileLength)
           r == Len(output)
           a == n % SeqMod
           b == r % SeqMod
<1>1. m.seqnum = a /\ Sent(FileLength)
  BY MemFwdFacts DEF EmptyPiece
<1>2. offset \in Nat /\ offset <= FileLength /\ sstate = "done" => offset = FileLength
  BY MemPositions, MemReceiverFacts
<1>3. offset = FileLength
  <2>1. FileLength < offset \/ sstate = "done"
    BY <1>1 DEF Sent
  <2> QED BY <1>2, <2>1, MemPositions, MemReceiverFacts, Constants
<1>4. /\ r \in Nat /\ n \in Nat /\ n <= r + Behind
      /\ r <= n \/ r = n + 1
  BY <1>3, MemPositions
<1>5. waited_seqnum = b /\ a = b - 1
  BY <1>1, MemReceiverFacts
<1>6. r = n + 1 => a = SeqMod - 1
  BY MemReceiverFacts
<1>7. a \in 0 .. SeqMod - 1 /\ b \in 0 .. SeqMod - 1
  BY <1>4, ModRange DEF SeqNums
<1> HIDE DEF n, r
<1>8. r <= n => a = b + (n - r) \/ a = b + (n - r) - SeqMod
  <2>1. r <= n => n - r < SeqMod
    BY <1>4, MemConstants, Constants
  <2> QED BY <1>4, <2>1, ModDiff
<1>9. CASE r <= n
  <2>1. n - r \in Nat /\ n - r < SeqMod - 1
    BY <1>4, <1>9, Constants DEF Behind
  <2> DEFINE d == n - r
  <2>2. d \in Nat /\ d < SeqMod - 1 /\ (a = b + d \/ a = b + d - SeqMod)
    BY <1>8, <1>9, <2>1
  <2> HIDE DEF a, b, d
  <2> QED BY <1>5, <1>7, <2>2, Constants
<1> HIDE DEF a, b
<1>10. CASE r = n + 1
  BY <1>5, <1>6, <1>7, <1>10, Constants
<1> QED BY <1>4, <1>9, <1>10

(* A packet out of the window.                                             *)
LEMMA MemOutsideStep ==
  ASSUME FewDropped, MInv, UNCHANGED sndVars, UNCHANGED dropped,
         NEW m \in fwd, RcvOutsideWindow(m)
  PROVE  MInv'
<1>1. /\ rstate = "run" /\ fwd' \subseteq fwd
      /\ UNCHANGED <<waited_seqnum, r_window, rlist, output>>
  BY DEF RcvOutsideWindow, Deliver
<1>2. rstate' = rstate /\ rev' \in RevAfter(rev, {WaitedAck})
  BY <1>1, MemNoLateEof DEF RcvOutsideWindow
<1>3. rev' \subseteq rev \cup {WaitedAck}
  BY <1>2, CarrySubset DEF RevAfter
<1>4. /\ MemOrdered(rlist') /\ rlist' \in Seq(BufferedPackets)
      /\ r_window' \in Windows
  BY <1>1, MemReceiverFacts
<1> QED BY <1>1, <1>2, <1>3, <1>4, MemNothingWritten

(* A packet of the window that cannot be buffered.                         *)
LEMMA MemUnbufferedStep ==
  ASSUME FewDropped, MInv, NEW m \in fwd, Unbuffered(m)
  PROVE  MInv'
<1>1. /\ rstate = "run" /\ fwd' \subseteq fwd
      /\ UNCHANGED sndVars /\ UNCHANGED dropped
  BY DEF Unbuffered, InWindow, Deliver
<1>2. /\ MemOrdered(rlist) /\ rlist \in Seq(BufferedPackets)
      /\ r_window \in Windows
  BY MemReceiverFacts
<1>3. CASE /\ rstate' = "error"
           /\ UNCHANGED <<waited_seqnum, r_window, rlist, output, rev>>
  BY <1>1, <1>2, <1>3, MemNothingWritten
<1>4. CASE rev' \in RevAfter(rev, {WaitedAck}) /\ UNCHANGED rcvVars
  <2>1. rev' \subseteq rev \cup {WaitedAck}
    BY <1>4, CarrySubset DEF RevAfter
  <2>2. UNCHANGED <<waited_seqnum, r_window, rlist, output, rstate>>
    BY <1>4 DEF rcvVars
  <2> QED BY <1>1, <1>2, <2>1, <2>2, MemNothingWritten
<1>5. CASE WriteInSequence(rlist)
  BY <1>1, <1>2, <1>5, MemWriteInSequence
<1> QED BY <1>3, <1>4, <1>5 DEF Unbuffered

(* A packet whose acknowledgement cannot be made.                          *)
LEMMA MemUnansweredStep ==
  ASSUME FewDropped, MInv, NEW m \in fwd, Unanswered(m)
  PROVE  MInv'
<1> DEFINE p == [seqnum |-> m.seqnum, pos |-> m.pos]
<1>1. /\ rstate = "run" /\ fwd' \subseteq fwd
      /\ UNCHANGED sndVars /\ UNCHANGED dropped
      /\ RcvInWindow(m.seqnum, waited_seqnum, r_window)
      /\ rstate' = "error"
  BY DEF Unanswered, InWindow, Deliver
<1>2. PICK q \in 1 .. Len(rlist) + 1 :
        /\ GoesTo(rlist, p, q)
        /\ LET l == InsertedAt(rlist, p, q) IN
           \E k \in 1 .. Len(l) :
             /\ InSequence(l, k)
             /\ waited_seqnum' = Advanced(k, FALSE)
             /\ r_window' = WindowAdd(k)
             /\ rlist' = SubSeq(l, k + 1, Len(l))
             /\ rev' \in RevAfter(rev, AcksOf(k - 1))
             /\ \E torn \in ShortOnes(l, k) :
                  output' = output \o
                    [i \in 1 .. k |-> IF i \in torn THEN Torn ELSE l[i].pos]
  BY DEF Unanswered
<1> DEFINE l == InsertedAt(rlist, p, q)
<1>3. l \in Seq(BufferedPackets) /\ MemOrdered(l)
  BY <1>1, <1>2, MemDecoded
<1>4. PICK k \in 1 .. Len(l) :
        /\ InSequence(l, k)
        /\ waited_seqnum' = Advanced(k, FALSE)
        /\ r_window' = WindowAdd(k)
        /\ rlist' = SubSeq(l, k + 1, Len(l))
        /\ rev' \in RevAfter(rev, AcksOf(k - 1))
        /\ \E torn \in ShortOnes(l, k) :
             output' = output \o
               [i \in 1 .. k |-> IF i \in torn THEN Torn ELSE l[i].pos]
  BY <1>2
<1> HIDE DEF l, p
<1>5. PICK torn \in ShortOnes(l, k) :
        output' = output \o
          [i \in 1 .. k |-> IF i \in torn THEN Torn ELSE l[i].pos]
  BY <1>4
<1>6. /\ k \in 0 .. Len(l) /\ k - 1 \in 0 .. k /\ k \in Nat
      /\ r_window \in Windows
  BY <1>3, MemReceiverFacts
<1>7. r_window' \in Windows
  BY <1>4, <1>6, Constants DEF WindowAdd, Windows
<1>8. Writes(l, k, torn, k - 1)
  BY <1>1, <1>4, <1>5 DEF Writes, Advanced
<1> QED BY <1>1, <1>3, <1>6, <1>7, <1>8, MemWriteStep

(* A packet out of the window that is freed twice.                         *)
LEMMA MemFreedTwiceStep ==
  ASSUME FewDropped, MInv, NEW m \in fwd, FreedTwice(m)
  PROVE  MInv'
<1>1. /\ rstate = "run" /\ fwd' \subseteq fwd
      /\ UNCHANGED sndVars /\ UNCHANGED dropped
      /\ UNCHANGED <<waited_seqnum, r_window, rlist, output, rev>>
      /\ rstate' \in {"run", "error"}
  BY DEF FreedTwice, Deliver
<1>2. /\ MemOrdered(rlist) /\ rlist \in Seq(BufferedPackets)
      /\ r_window \in Windows
  BY MemReceiverFacts
<1> QED BY <1>1, <1>2, MemNothingWritten

-----------------------------------------------------------------------------
(* The invariant holds in every reachable state.                           *)
LEMMA MemInitInv == MemInit => MInv
<1> SUFFICES ASSUME MemInit
             PROVE  MInv
  OBVIOUS
<1>1. Init /\ skipped = {} /\ unlisted = {}
  BY DEF MemInit
<1>2. TypeOK
  BY <1>1, InitInv DEF Inv
<1>3. /\ offset = 0 /\ seqnum = 0 /\ list = <<>> /\ Len(list) = 0 /\ ~seqnum_EOF
      /\ sstate = "run" /\ DOMAIN list = {}
      /\ waited_seqnum = 0 /\ rlist = <<>> /\ DOMAIN rlist = {}
      /\ output = <<>> /\ Len(output) = 0 /\ rstate = "wait"
      /\ fwd = {} /\ rev = {}
  BY <1>1 DEF Init, LinkInit, SndInit, RcvInit
<1>4. 0 \in Nat /\ 0 % SeqMod = 0 /\ MAX_WINDOW_SIZE \in Nat
      /\ MaxDropped \in Nat /\ FileLength \in Nat
  BY Constants, MemConstants
<1>5. Cardinality({}) = 0
  BY FS_EmptySet
<1>6. Num(0) = 0
  <2>1. CountIn({}, 0) \in 0 .. 0
    BY <1>4, CountType
  <2> QED BY <1>1, <2>1 DEF Num
<1>7. \A q \in Pieces : Num(q) \in Nat
  <2>1. ASSUME NEW q \in Nat
        PROVE  CountIn({}, q) \in Nat
    BY CountType
  <2> QED BY <1>1, <1>4, <2>1 DEF Num, Pieces
<1>8. DroppedInv
  BY <1>1, <1>4, <1>5 DEF DroppedInv
<1>9. MemSenderInv
  BY <1>3, <1>4, <1>6 DEF MemSenderInv
<1>10. MemReceiverInv
  <2>1. WrittenInPlace
    BY <1>3, <1>7 DEF WrittenInPlace, Numbered
  <2>2. Num(FileLength) \in Nat
    BY <1>4, <1>7 DEF Pieces
  <2>3. Len(output) # Num(FileLength) + 1
    BY <1>3, <2>2
  <2> QED BY <1>3, <1>4, <1>6, <2>1, <2>3 DEF MemReceiverInv
<1>11. MemChannelInv
  BY <1>3 DEF MemChannelInv
<1> QED BY <1>2, <1>8, <1>9, <1>10, <1>11 DEF MInv, MemInv

(* A step that changes nothing.                                            *)
LEMMA MemStutter ==
  ASSUME MInv, UNCHANGED vars, UNCHANGED dropped
  PROVE  MInv'
<1>1. UNCHANGED <<fwd, rev, list, seqnum, s_window, seqnum_EOF, offset,
                  sstate, waited_seqnum, r_window, rlist, output, rstate,
                  skipped, unlisted>>
  BY DEF vars, linkVars, sndVars, rcvVars, dropped
<1>2. TypeOK'
  BY <1>1 DEF MInv, TypeOK
<1>3. \A x : Num(x)' = Num(x) /\ Sent(x)' = Sent(x)
  BY <1>1 DEF Num, Sent
<1>4. DroppedInv' /\ MemSenderInv'
  BY <1>1, <1>3 DEF MInv, MemInv, DroppedInv, MemSenderInv, Accounted, Num
<1>5. MemReceiverInv' /\ MemChannelInv'
  BY <1>1, <1>3
     DEF MInv, MemInv, MemReceiverInv, MemChannelInv, WrittenInPlace, Numbered,
         Num, Sent
<1> QED BY <1>2, <1>4, <1>5 DEF MInv, MemInv

(* Every iteration of either loop keeps it.                                *)
LEMMA MemNextInv ==
  ASSUME FewDropped, MInv, [MemNext]_<<vars, dropped>>
  PROVE  MInv'
<1>1. CASE Next /\ UNCHANGED dropped
  <2>1. CASE AckArrives
    BY <1>1, <2>1, MemAckStep DEF AckArrives
  <2>2. CASE Read
    <3>1. CASE offset < FileLength
      BY <1>1, <2>2, <3>1, MemReadStep DEF Read
    <3>2. CASE ~(offset < FileLength)
      BY <1>1, <2>2, <3>2, MemEofStep DEF Read
    <3> QED BY <3>1, <3>2
  <2>3. CASE Idle
    BY <1>1, <2>3, MemIdleStep DEF Idle
  <2>4. CASE SndFails \/ Second
    BY <1>1, <2>4, MemSndOtherStep DEF SndFails, Second
  <2>5. CASE Connect \/ NoClient \/ Timeout \/ RcvFails
    BY <1>1, <2>5, MemRcvOtherStep DEF Connect, NoClient, Timeout, RcvFails
  <2>6. CASE Truncated
    BY <1>1, <2>6, MemTruncatedStep DEF Truncated
  <2>7. CASE Inside
    BY <1>1, <2>7, MemInsideStep DEF Inside
  <2>8. CASE Outside
    BY <1>1, <2>8, MemOutsideStep DEF Outside
  <2>9. CASE Ended
    BY <1>1, <2>9, MemStutter DEF Ended
  <2> QED
    BY <1>1, <2>1, <2>2, <2>3, <2>4, <2>5, <2>6, <2>7, <2>8, <2>9 DEF Next
<1>2. CASE Skip
  BY <1>2, MemSkipStep
<1>3. CASE Unlisted
  BY <1>3, MemUnlistedStep
<1>4. CASE \E m \in fwd : Unbuffered(m) \/ Unanswered(m) \/ FreedTwice(m)
  BY <1>4, MemUnbufferedStep, MemUnansweredStep, MemFreedTwiceStep
<1>5. CASE UNCHANGED <<vars, dropped>>
  BY <1>5, MemStutter
<1> QED BY <1>1, <1>2, <1>3, <1>4, <1>5 DEF MemNext

(* The types and the invariant hold in every reachable state.              *)
LEMMA MemInvariance ==
  ASSUME FewDropped
  PROVE  MemSpec => []MInv
<1>1. MInv /\ [MemNext]_<<vars, dropped>> => MInv'
  BY MemNextInv
<1> QED BY <1>1, MemInitInv, PTL DEF MemSpec

-----------------------------------------------------------------------------
(* The properties.                                                         *)

(* The pieces that got a number, up to pos, are one more than those before *)
(* it.                                                                     *)
LEMMA PlaceIs ==
  ASSUME MInv, NEW pos \in Numbered
  PROVE  Place(pos) = Num(pos) + 1
<1>1. pos \in Nat /\ pos <= FileLength /\ pos \notin skipped /\ FileLength \in Nat
  BY Constants DEF Numbered, Pieces
<1>2. skipped \in SUBSET Nat
  BY DroppedFacts
<1> DEFINE y == pos + 1
<1>3. y \in Nat /\ 0 \in Nat /\ 0 <= y
  BY <1>1
<1>4. {q \in Numbered : q <= pos} = (0 .. y - 1) \ skipped
  <2>1. ASSUME NEW q
        PROVE  q \in Pieces /\ q <= pos <=> q \in 0 .. y - 1
    BY <1>1 DEF Pieces
  <2> HIDE DEF y
  <2> QED BY <2>1 DEF Numbered
<1>5. CountIn(skipped, y) = Num(pos) + 1
  BY <1>1, <1>2, CountNext DEF Num
<1> HIDE DEF y
<1>6. CountIn(skipped, y) - CountIn(skipped, 0) = Cardinality((0 .. y - 1) \ skipped)
  BY <1>2, <1>3, CountBetween
<1>7. CountIn(skipped, 0) = 0 /\ CountIn(skipped, y) \in Int
  <2>1. CountIn(skipped, 0) \in 0 .. 0 /\ CountIn(skipped, y) \in 0 .. y
    BY <1>2, <1>3, CountType
  <2> QED BY <1>3, <2>1
<1>8. Cardinality((0 .. y - 1) \ skipped) = Num(pos) + 1
  BY <1>5, <1>6, <1>7
<1> QED BY <1>4, <1>8 DEF Place

(* The end-of-file packet has the last place.                              *)
LEMMA NumberedIs ==
  ASSUME MInv
  PROVE  /\ EmptyPiece \in Numbered
         /\ Cardinality(Numbered) = Num(FileLength) + 1
<1>1. FileLength \in Nat /\ offset \in Nat /\ offset <= FileLength
      /\ \A q \in skipped \cup unlisted : q < offset
  BY Constants, DroppedFacts
<1>2. EmptyPiece \in Numbered
  <2>1. FileLength \notin skipped
    BY <1>1
  <2> QED BY <1>1, <2>1 DEF Numbered, Pieces, EmptyPiece
<1>3. {q \in Numbered : q <= EmptyPiece} = Numbered
  <2>1. \A q \in Numbered : q <= EmptyPiece
    BY <1>1 DEF Numbered, Pieces, EmptyPiece
  <2> QED BY <2>1
<1> QED BY <1>2, <1>3, PlaceIs DEF Place, EmptyPiece

(* What is written, in counts.                                             *)
LEMMA WrittenIs ==
  ASSUME FewDropped, MInv, NEW pos \in Numbered
  PROVE  /\ Num(pos) \in Nat
         /\ Written(pos) <=> Num(pos) < Len(output)
         /\ Num(pos) <= Num(FileLength)
<1>1. pos \in Pieces
  BY DEF Numbered
<1>2. Num(pos) \in Nat /\ Len(output) \in Nat /\ Num(pos) <= Num(FileLength)
  BY <1>1, MemPositions
<1> QED BY <1>2, PlaceIs DEF Written

(* The inductive invariant, for every number of pieces dropped that the    *)
(* numbers have room for: the list and the pieces dropped account for all  *)
(* that is not written, so no number in use comes back too early.          *)
THEOREM MemInvHolds ==
  ASSUME FewDropped
  PROVE  MemSpec => []MemInv
<1>1. MInv => MemInv
  BY DEF MInv
<1> QED BY <1>1, MemInvariance, PTL

(* Whatever allocation fails, what the receiver writes is the numbered     *)
(* pieces of the file in their order, none missing and none twice.         *)
THEOREM OutputIsNumbered ==
  ASSUME FewDropped
  PROVE  MemSpec => []OutputIsNumberedFile
<1>1. MInv => OutputIsNumberedFile
  <2> SUFFICES ASSUME MInv
               PROVE  OutputIsNumberedFile
    OBVIOUS
  <2>1. Len(output) <= Cardinality(Numbered)
    <3>1. /\ Len(output) \in Nat /\ Num(offset) \in Nat /\ Num(FileLength) \in Nat
          /\ Num(offset) <= Num(FileLength)
          /\ Len(output) <= Num(offset) \/ Len(output) = Num(offset) + 1
      BY MemPositions
    <3> QED BY <3>1, NumberedIs
  <2>2. ASSUME NEW pos \in Numbered, Written(pos)
        PROVE  output[Place(pos)] \in {pos, Torn}
    <3>1. Num(pos) < Len(output)
      BY <2>2, WrittenIs
    <3>2. output[Num(pos) + 1] \in {pos, Torn}
      BY <3>1 DEF MInv, MemInv, MemReceiverInv, WrittenInPlace
    <3> QED BY <3>2, PlaceIs
  <2> QED BY <2>1, <2>2 DEF OutputIsNumberedFile
<1> QED BY <1>1, MemInvariance, PTL

(* A sender that stops because all it listed was acknowledged leaves out   *)
(* only pieces that it gave up on.                                         *)
THEOREM DoneAccountsForAll ==
  ASSUME FewDropped
  PROVE  MemSpec => []DoneAccounts
<1>1. MInv => DoneAccounts
  <2> SUFFICES ASSUME MInv, sstate = "done",
                      NEW pos \in Pieces \ {EmptyPiece},
                      pos \notin skipped \cup unlisted
               PROVE  Written(pos)
    BY DEF DoneAccounts
  <2>1. list = <<>> /\ offset = FileLength
    BY DEF MInv, MemInv, MemSenderInv
  <2>2. pos \in 0 .. offset - 1
    BY <2>1, Constants DEF Pieces, EmptyPiece
  <2>3. Accounted(list, pos)
    BY <2>2 DEF MInv, MemInv, MemSenderInv
  <2>4. DOMAIN list = {}
    BY <2>1
  <2>5. Num(pos) < Len(output)
    BY <2>3, <2>4 DEF Accounted
  <2>6. pos \in Numbered
    BY DEF Numbered
  <2> QED BY <2>5, <2>6, WrittenIs
<1> QED BY <1>1, MemInvariance, PTL

(* A receiver that stops on the end-of-file packet has written every piece *)
(* that got a number, those the sender did not keep included.              *)
THEOREM EofAccountsForAll ==
  ASSUME FewDropped
  PROVE  MemSpec => []EofAccounts
<1>1. MInv => EofAccounts
  <2> SUFFICES ASSUME MInv, rstate = "eof", NEW pos \in Numbered
               PROVE  Written(pos)
    BY DEF EofAccounts
  <2>1. Len(output) = Num(FileLength) + 1
    BY DEF MInv, MemInv, MemReceiverInv
  <2>2. Num(pos) \in Nat /\ Num(FileLength) \in Nat /\ Num(pos) <= Num(FileLength)
    BY WrittenIs, MemPositions
  <2> QED BY <2>1, <2>2, WrittenIs
<1> QED BY <1>1, MemInvariance, PTL

=============================================================================
