---------------------------- MODULE SeqNumProofs ----------------------------
(***************************************************************************)
(* The operators of SeqNum, for every size of the sequence-number space    *)
(* and of the window: on the numbers of two pieces that are not too far    *)
(* apart they decide what they are meant to decide about the pieces.       *)
(***************************************************************************)
EXTENDS SeqNumPairs, TLAPS

(* The remainder is a sequence number.                                     *)
LEMMA ModRange == \A n \in Nat : n % SeqMod \in SeqNums
  BY SeqNumAssumption DEF SeqNums

(* A number is its quotient times SeqMod plus its remainder.               *)
LEMMA DivMod ==
  \A n \in Nat : n \div SeqMod \in Nat
                 /\ n = SeqMod * (n \div SeqMod) + (n % SeqMod)
  BY SeqNumAssumption

(* Numbers less than SeqMod apart have remainders as far apart, up to one  *)
(* wrap from SeqMod - 1 to 0.                                              *)
LEMMA ModDiff ==
  \A a, b \in Nat : a <= b /\ b - a < SeqMod =>
    \/ b % SeqMod = (a % SeqMod) + (b - a)
    \/ b % SeqMod = (a % SeqMod) + (b - a) - SeqMod
<1> SUFFICES ASSUME NEW a \in Nat, NEW b \in Nat, a <= b, b - a < SeqMod
             PROVE  \/ b % SeqMod = (a % SeqMod) + (b - a)
                    \/ b % SeqMod = (a % SeqMod) + (b - a) - SeqMod
  OBVIOUS
<1> DEFINE qa == a \div SeqMod
           qb == b \div SeqMod
           ra == a % SeqMod
           rb == b % SeqMod
<1>1. /\ a = SeqMod * qa + ra /\ b = SeqMod * qb + rb
      /\ qa \in Nat /\ qb \in Nat
      /\ ra \in 0 .. SeqMod - 1 /\ rb \in 0 .. SeqMod - 1
  BY DivMod, ModRange DEF SeqNums
<1> HIDE DEF qa, qb, ra, rb
<1>2. SeqMod * (qb - qa) = (b - a) + ra - rb
  BY <1>1, SeqNumAssumption
<1>3. qb - qa \in {0, 1}
  <2>1. CASE qb - qa >= 2
    <3>1. SeqMod * (qb - qa) >= 2 * SeqMod
      BY <2>1, <1>1, SeqNumAssumption
    <3> QED BY <3>1, <1>2, <1>1, SeqNumAssumption
  <2>2. CASE qb - qa <= -1
    <3>1. SeqMod * (qb - qa) <= -SeqMod
      BY <2>2, <1>1, SeqNumAssumption
    <3> QED BY <3>1, <1>2, <1>1, SeqNumAssumption
  <2> QED BY <2>1, <2>2, <1>1
<1>4. CASE qb - qa = 0
  BY <1>4, <1>2, <1>1, SeqNumAssumption DEF ra, rb
<1>5. CASE qb - qa = 1
  BY <1>5, <1>2, <1>1, SeqNumAssumption DEF ra, rb
<1> QED BY <1>3, <1>4, <1>5

(* The remainders of two numbers that follow each other.                   *)
LEMMA ModNext ==
  \A n \in Nat : \/ (n + 1) % SeqMod = (n % SeqMod) + 1
                 \/ (n + 1) % SeqMod = (n % SeqMod) + 1 - SeqMod
<1> SUFFICES ASSUME NEW n \in Nat
             PROVE  \/ (n + 1) % SeqMod = (n % SeqMod) + 1
                    \/ (n + 1) % SeqMod = (n % SeqMod) + 1 - SeqMod
  OBVIOUS
<1> DEFINE m == n + 1
<1>1. m \in Nat /\ n <= m /\ m - n < SeqMod /\ m - n = 1
  BY SeqNumAssumption
<1>2. n % SeqMod \in Int
  BY SeqNumAssumption
<1> HIDE DEF m
<1>3. \/ m % SeqMod = (n % SeqMod) + (m - n)
      \/ m % SeqMod = (n % SeqMod) + (m - n) - SeqMod
  BY <1>1, ModDiff
<1>4. \/ m % SeqMod = (n % SeqMod) + 1
      \/ m % SeqMod = (n % SeqMod) + 1 - SeqMod
  BY <1>1, <1>2, <1>3
<1> QED BY <1>4 DEF m

(* A number between 0 and SeqMod - 1 that differs from n by a multiple of  *)
(* SeqMod is the remainder of n.                                           *)
LEMMA ModUnique ==
  \A n, q \in Nat : \A r \in SeqNums : n = SeqMod * q + r => n % SeqMod = r
<1> SUFFICES ASSUME NEW n \in Nat, NEW q \in Nat, NEW r \in SeqNums,
                    n = SeqMod * q + r
             PROVE  n % SeqMod = r
  OBVIOUS
<1> DEFINE qn == n \div SeqMod
           rn == n % SeqMod
<1>1. n = SeqMod * qn + rn /\ qn \in Nat /\ rn \in 0 .. SeqMod - 1
  BY DivMod, ModRange DEF SeqNums
<1> HIDE DEF qn, rn
<1>2. SeqMod * (q - qn) = rn - r /\ r \in 0 .. SeqMod - 1
  BY <1>1, SeqNumAssumption DEF SeqNums
<1>3. q = qn
  <2>1. CASE q - qn >= 1
    <3>1. SeqMod * (q - qn) >= SeqMod
      BY <2>1, <1>1, SeqNumAssumption
    <3> QED BY <3>1, <1>1, <1>2, SeqNumAssumption
  <2>2. CASE q - qn <= -1
    <3>1. SeqMod * (q - qn) <= -SeqMod
      BY <2>2, <1>1, SeqNumAssumption
    <3> QED BY <3>1, <1>1, <1>2, SeqNumAssumption
  <2> QED BY <2>1, <2>2, <1>1
<1>4. rn = r
  BY <1>1, <1>2, <1>3, SeqNumAssumption
<1> QED BY <1>4 DEF rn

(* Counting k further modulo SeqMod is counting k further.                 *)
LEMMA ModPlus ==
  \A n, k \in Nat : ((n % SeqMod) + k) % SeqMod = (n + k) % SeqMod
<1> SUFFICES ASSUME NEW n \in Nat, NEW k \in Nat
             PROVE  ((n % SeqMod) + k) % SeqMod = (n + k) % SeqMod
  OBVIOUS
<1> DEFINE qn == n \div SeqMod
           rn == n % SeqMod
           qm == (rn + k) \div SeqMod
           rm == (rn + k) % SeqMod
<1>1. n = SeqMod * qn + rn /\ qn \in Nat /\ rn \in SeqNums
  BY DivMod, ModRange
<1>2. rn + k \in Nat
  BY <1>1, SeqNumAssumption DEF SeqNums
<1>3. rn + k = SeqMod * qm + rm /\ qm \in Nat /\ rm \in SeqNums
  BY <1>2, DivMod, ModRange
<1> HIDE DEF qn, rn, qm, rm
<1>4. n + k = SeqMod * (qn + qm) + rm /\ qn + qm \in Nat
  BY <1>1, <1>3, SeqNumAssumption DEF SeqNums
<1>5. (n + k) % SeqMod = rm
  BY <1>3, <1>4, ModUnique
<1> QED BY <1>5 DEF rm, rn

(* The number after that of a piece is that of the next piece.             *)
LEMMA NextSeqnumMod == \A n \in Nat : NextSeqnum(n % SeqMod) = (n + 1) % SeqMod
  BY ModPlus DEF NextSeqnum

(* Pieces less than SeqMod apart with the same number are the same.        *)
LEMMA SameNumber ==
  \A p, q \in Nat : p - q < SeqMod /\ q - p < SeqMod /\ p % SeqMod = q % SeqMod
                      => p = q
<1> SUFFICES ASSUME NEW p \in Nat, NEW q \in Nat, p - q < SeqMod,
                    q - p < SeqMod, p % SeqMod = q % SeqMod
             PROVE  p = q
  OBVIOUS
<1>1. p % SeqMod \in 0 .. SeqMod - 1
  BY ModRange DEF SeqNums
<1>2. CASE p <= q
  <2>1. \/ q % SeqMod = (p % SeqMod) + (q - p)
        \/ q % SeqMod = (p % SeqMod) + (q - p) - SeqMod
    BY <1>2, ModDiff
  <2> QED BY <1>1, <1>2, <2>1, SeqNumAssumption
<1>3. CASE q <= p
  <2>1. \/ p % SeqMod = (q % SeqMod) + (p - q)
        \/ p % SeqMod = (q % SeqMod) + (p - q) - SeqMod
    BY <1>3, ModDiff
  <2> QED BY <1>1, <1>3, <2>1, SeqNumAssumption
<1> QED BY <1>2, <1>3

(* packet_checked: an acknowledgement of all pieces before a covers piece  *)
(* h exactly if a is one to a whole window ahead of h, as long as it is no *)
(* more than Behind older.                                                 *)
THEOREM AckCoversMod ==
  \A a, h \in Nat : h - a <= Behind /\ a - h <= MAX_WINDOW_SIZE =>
    (AckCovers(a % SeqMod, h % SeqMod) <=> a > h)
<1> SUFFICES ASSUME NEW a \in Nat, NEW h \in Nat,
                    h - a <= Behind, a - h <= MAX_WINDOW_SIZE
             PROVE  AckCovers(a % SeqMod, h % SeqMod) <=> a > h
  OBVIOUS
<1>1. a % SeqMod \in 0 .. SeqMod - 1 /\ h % SeqMod \in 0 .. SeqMod - 1
  BY ModRange DEF SeqNums
<1>2. CASE h <= a
  <2>0. a - h < SeqMod
    BY SeqNumAssumption
  <2>1. \/ a % SeqMod = (h % SeqMod) + (a - h)
        \/ a % SeqMod = (h % SeqMod) + (a - h) - SeqMod
    BY <1>2, <2>0, ModDiff
  <2> QED BY <1>1, <1>2, <2>1, SeqNumAssumption DEF AckCovers
<1>3. CASE a < h
  <2>0. h - a < SeqMod
    BY SeqNumAssumption DEF Behind
  <2>1. \/ h % SeqMod = (a % SeqMod) + (h - a)
        \/ h % SeqMod = (a % SeqMod) + (h - a) - SeqMod
    BY <1>3, <2>0, ModDiff
  <2> QED BY <1>1, <1>3, <2>1, SeqNumAssumption DEF AckCovers, Behind
<1> QED BY <1>2, <1>3

(* The receiver's check_in_window accepts no piece it has already written, *)
(* as long as it is no more than Behind older, accepts its window, and no  *)
(* more than two packets beyond it.                                        *)
THEOREM RcvInWindowMod ==
  \A p, r \in Nat, w \in Windows :
    r - p <= Behind /\ p - r <= MAX_WINDOW_SIZE =>
      /\ RcvInWindow(p % SeqMod, r % SeqMod, w) => p >= r
      /\ p >= r /\ p - r <= w => RcvInWindow(p % SeqMod, r % SeqMod, w)
      /\ RcvInWindow(p % SeqMod, r % SeqMod, w) => p - r <= w + 1
<1> SUFFICES ASSUME NEW p \in Nat, NEW r \in Nat, NEW w \in Windows,
                    r - p <= Behind, p - r <= MAX_WINDOW_SIZE
             PROVE  /\ RcvInWindow(p % SeqMod, r % SeqMod, w) => p >= r
                    /\ p >= r /\ p - r <= w
                         => RcvInWindow(p % SeqMod, r % SeqMod, w)
                    /\ RcvInWindow(p % SeqMod, r % SeqMod, w)
                         => p - r <= w + 1
  OBVIOUS
<1>1. p % SeqMod \in 0 .. SeqMod - 1 /\ r % SeqMod \in 0 .. SeqMod - 1
  BY ModRange DEF SeqNums
<1>2. CASE r <= p
  <2>0. p - r < SeqMod
    BY SeqNumAssumption
  <2>1. \/ p % SeqMod = (r % SeqMod) + (p - r)
        \/ p % SeqMod = (r % SeqMod) + (p - r) - SeqMod
    BY <1>2, <2>0, ModDiff
  <2> QED BY <1>1, <1>2, <2>1, SeqNumAssumption DEF RcvInWindow, Windows
<1>3. CASE p < r
  <2>0. r - p < SeqMod
    BY SeqNumAssumption DEF Behind
  <2>1. \/ r % SeqMod = (p % SeqMod) + (r - p)
        \/ r % SeqMod = (p % SeqMod) + (r - p) - SeqMod
    BY <1>3, <2>0, ModDiff
  <2> QED BY <1>1, <1>3, <2>1, SeqNumAssumption
             DEF RcvInWindow, Windows, Behind
<1> QED BY <1>2, <1>3

(* add_specific_queue compares two pieces of a window as the file does.    *)
THEOREM PrecedesMod ==
  \A p, q \in Nat : p - q <= MAX_WINDOW_SIZE /\ q - p <= MAX_WINDOW_SIZE =>
    (Precedes(p % SeqMod, q % SeqMod) <=> p < q)
<1> SUFFICES ASSUME NEW p \in Nat, NEW q \in Nat,
                    p - q <= MAX_WINDOW_SIZE, q - p <= MAX_WINDOW_SIZE
             PROVE  Precedes(p % SeqMod, q % SeqMod) <=> p < q
  OBVIOUS
<1>1. p % SeqMod \in 0 .. SeqMod - 1 /\ q % SeqMod \in 0 .. SeqMod - 1
  BY ModRange DEF SeqNums
<1>2. CASE q <= p
  <2>0. p - q < SeqMod
    BY SeqNumAssumption
  <2>1. \/ p % SeqMod = (q % SeqMod) + (p - q)
        \/ p % SeqMod = (q % SeqMod) + (p - q) - SeqMod
    BY <1>2, <2>0, ModDiff
  <2> QED BY <1>1, <1>2, <2>1, SeqNumAssumption DEF Precedes
<1>3. CASE p < q
  <2>0. q - p < SeqMod
    BY SeqNumAssumption
  <2>1. \/ q % SeqMod = (p % SeqMod) + (q - p)
        \/ q % SeqMod = (p % SeqMod) + (q - p) - SeqMod
    BY <1>3, <2>0, ModDiff
  <2> QED BY <1>1, <1>3, <2>1, SeqNumAssumption DEF Precedes
<1> QED BY <1>2, <1>3

(* The sender's check_in_window accepts its window, and at most one packet *)
(* more, of those no further ahead than a whole window.                    *)
THEOREM SndInWindowMod ==
  \A p, h \in Nat, w \in Windows : h <= p /\ p - h <= MAX_WINDOW_SIZE =>
    /\ p - h < w => SndInWindow(p % SeqMod, h % SeqMod, w)
    /\ SndInWindow(p % SeqMod, h % SeqMod, w) => p - h <= w
<1> SUFFICES ASSUME NEW p \in Nat, NEW h \in Nat, NEW w \in Windows,
                    h <= p, p - h <= MAX_WINDOW_SIZE
             PROVE  /\ p - h < w => SndInWindow(p % SeqMod, h % SeqMod, w)
                    /\ SndInWindow(p % SeqMod, h % SeqMod, w) => p - h <= w
  OBVIOUS
<1>1. p % SeqMod \in 0 .. SeqMod - 1 /\ h % SeqMod \in 0 .. SeqMod - 1
  BY ModRange DEF SeqNums
<1>2. p - h < SeqMod
  BY SeqNumAssumption
<1>3. \/ p % SeqMod = (h % SeqMod) + (p - h)
      \/ p % SeqMod = (h % SeqMod) + (p - h) - SeqMod
  BY <1>2, ModDiff
<1> QED BY <1>1, <1>3, SeqNumAssumption DEF SndInWindow, Windows

-----------------------------------------------------------------------------
(* The pairs of live numbers of module SeqNumPairs.                        *)
PairInv ==
  /\ firstNumber \in SeqNums
  /\ gap \in -Behind .. MAX_WINDOW_SIZE
  /\ windowSize \in Windows

LEMMA PairInvariant == PairSpec => []PairInv
<1>1. PairInit => PairInv
  BY SeqNumAssumption, WindowSampleAssumption
     DEF PairInit, PairInv, Behind
<1>2. PairInv /\ [PairNext]_pairVars => PairInv'
  BY SeqNumAssumption DEF PairInv, PairNext, pairVars, Behind
<1> QED BY <1>1, <1>2, PTL DEF PairSpec

(* The two numbers are those of two pieces of a long enough file.          *)
LEMMA PairOfPieces ==
  ASSUME PairInv
  PROVE  \E h, p \in Nat :
           /\ h % SeqMod = firstNumber /\ p % SeqMod = Other
           /\ p - h = gap /\ gap \in Int /\ -gap <= Behind
           /\ gap <= MAX_WINDOW_SIZE
<1> DEFINE h == firstNumber + SeqMod
           p == firstNumber + SeqMod + gap
<1>1. /\ h \in Nat /\ p \in Nat /\ p - h = gap /\ gap \in Int
      /\ -gap <= Behind /\ gap <= MAX_WINDOW_SIZE
  BY SeqNumAssumption DEF PairInv, SeqNums, Behind
<1>2. h % SeqMod = firstNumber
  <2>1. h = SeqMod * 1 + firstNumber /\ firstNumber \in SeqNums
    BY SeqNumAssumption DEF PairInv, SeqNums
  <2> HIDE DEF h
  <2> QED BY <1>1, <2>1, ModUnique
<1>3. p % SeqMod = Other
  BY DEF Other
<1> HIDE DEF h, p
<1> QED BY <1>1, <1>2, <1>3

(* AckCoversExactly: packet_checked, for any two numbers alive together.   *)
THEOREM AcksCoverExactly == PairSpec => []AckCoversExactly
<1>1. PairInv => AckCoversExactly
  <2> SUFFICES ASSUME PairInv PROVE AckCoversExactly
    OBVIOUS
  <2>1. PICK h, p \in Nat :
          /\ h % SeqMod = firstNumber /\ p % SeqMod = Other
          /\ p - h = gap /\ gap \in Int /\ -gap <= Behind
          /\ gap <= MAX_WINDOW_SIZE
    BY PairOfPieces
  <2>2. AckCovers(Other, firstNumber) <=> p > h
    <3>1. h - p <= Behind /\ p - h <= MAX_WINDOW_SIZE
      BY <2>1
    <3> QED BY <2>1, <3>1, AckCoversMod
  <2> QED BY <2>1, <2>2, SeqNumAssumption DEF AckCoversExactly
<1> QED BY <1>1, PairInvariant, PTL

(* ReceiverWindow: the receiver's check_in_window, which subtracts 255     *)
(* where 256 is meant, takes at most two packets too many.                 *)
THEOREM ReceiverWindowIsNearlyExact == PairSpec => []ReceiverWindow
<1>1. PairInv => ReceiverWindow
  <2> SUFFICES ASSUME PairInv PROVE ReceiverWindow
    OBVIOUS
  <2>1. PICK h, p \in Nat :
          /\ h % SeqMod = firstNumber /\ p % SeqMod = Other
          /\ p - h = gap /\ gap \in Int /\ -gap <= Behind
          /\ gap <= MAX_WINDOW_SIZE
    BY PairOfPieces
  <2>2. windowSize \in Windows /\ windowSize \in Nat
    BY DEF PairInv, Windows
  <2>3. /\ RcvOther => p >= h
        /\ p >= h /\ p - h <= windowSize => RcvOther
        /\ RcvOther => p - h <= windowSize + 1
    <3>1. h - p <= Behind /\ p - h <= MAX_WINDOW_SIZE
      BY <2>1
    <3> QED BY <2>1, <2>2, <3>1, RcvInWindowMod DEF RcvOther
  <2> QED BY <2>1, <2>2, <2>3 DEF ReceiverWindow
<1> QED BY <1>1, PairInvariant, PTL

(* SenderWindow: the sender's check_in_window, one packet too many at the  *)
(* most.                                                                   *)
THEOREM SenderWindowIsNearlyExact == PairSpec => []SenderWindow
<1>1. PairInv => SenderWindow
  <2> SUFFICES ASSUME PairInv, gap >= 0
               PROVE  /\ gap < windowSize => SndOther
                      /\ SndOther => gap <= windowSize
    BY DEF SenderWindow
  <2>1. PICK h, p \in Nat :
          /\ h % SeqMod = firstNumber /\ p % SeqMod = Other
          /\ p - h = gap /\ gap \in Int /\ -gap <= Behind
          /\ gap <= MAX_WINDOW_SIZE
    BY PairOfPieces
  <2>2. windowSize \in Windows
    BY DEF PairInv
  <2>3. h <= p /\ p - h <= MAX_WINDOW_SIZE
    BY <2>1
  <2>4. /\ p - h < windowSize => SndOther
        /\ SndOther => p - h <= windowSize
    BY <2>1, <2>2, <2>3, SndInWindowMod DEF SndOther
  <2> QED BY <2>1, <2>4
<1> QED BY <1>1, PairInvariant, PTL

(* OrderOfTheFile: add_specific_queue, for any two numbers of a window.    *)
THEOREM OrderIsThatOfTheFile == PairSpec => []OrderOfTheFile
<1>1. PairInv => OrderOfTheFile
  <2> SUFFICES ASSUME PairInv, -gap <= MAX_WINDOW_SIZE
               PROVE  Precedes(firstNumber, Other) <=> gap > 0
    BY DEF OrderOfTheFile
  <2>1. PICK h, p \in Nat :
          /\ h % SeqMod = firstNumber /\ p % SeqMod = Other
          /\ p - h = gap /\ gap \in Int /\ -gap <= Behind
          /\ gap <= MAX_WINDOW_SIZE
    BY PairOfPieces
  <2>2. p - h <= MAX_WINDOW_SIZE /\ h - p <= MAX_WINDOW_SIZE
    BY <2>1
  <2>3. Precedes(firstNumber, Other) <=> h < p
    BY <2>1, <2>2, PrecedesMod
  <2> QED BY <2>1, <2>3
<1> QED BY <1>1, PairInvariant, PTL

=============================================================================
