----------------------------- MODULE SeqNumPairs -----------------------------
(***************************************************************************)
(* Two sequence numbers that can be alive at the same time: every number   *)
(* firstNumber that a window may start at, and every gap, behind or ahead  *)
(* of it, to another live packet.                                          *)
(***************************************************************************)
EXTENDS SeqNum

CONSTANT WindowSample  \* the window sizes tried

ASSUME WindowSampleAssumption == WindowSample \subseteq Windows

VARIABLES firstNumber, gap, windowSize

pairVars == <<firstNumber, gap, windowSize>>

Other == (firstNumber + SeqMod + gap) % SeqMod
RcvOther == RcvInWindow(Other, firstNumber, windowSize)
SndOther == SndInWindow(Other, firstNumber, windowSize)

PairInit ==
  /\ firstNumber \in SeqNums
  /\ gap = -Behind
  /\ windowSize \in WindowSample

PairNext ==
  /\ gap < MAX_WINDOW_SIZE
  /\ gap' = gap + 1
  /\ UNCHANGED <<firstNumber, windowSize>>

PairSpec == PairInit /\ [][PairNext]_pairVars

(* packet_checked removes a packet for an acknowledgement ahead of it by   *)
(* at most a window, and for no older one.                                 *)
AckCoversExactly ==
  AckCovers(Other, firstNumber) <=> gap \in 1 .. MAX_WINDOW_SIZE

(* The receiver accepts every packet of its window and nothing older; it   *)
(* accepts one or two packets more than the window, never three.           *)
ReceiverWindow ==
  /\ gap \in 0 .. windowSize => RcvOther
  /\ RcvOther => gap \in 0 .. windowSize + 1

(* The sender's test accepts the window, and at most one packet more.      *)
SenderWindow ==
  gap >= 0 =>
    /\ gap < windowSize => SndOther
    /\ SndOther => gap <= windowSize

(* add_specific_queue orders any two packets of a window as the file does. *)
OrderOfTheFile ==
  -gap <= MAX_WINDOW_SIZE => (Precedes(firstNumber, Other) <=> gap > 0)

=============================================================================
