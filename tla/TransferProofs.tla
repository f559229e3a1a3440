--------------------------- MODULE TransferProofs ----------------------------
(***************************************************************************)
(* The safety of the transfer, for every file length, sequence-number      *)
(* space, window, capacity of the link and choice of faults; and that the  *)
(* two programs implement FileTransfer.                                    *)
(*                                                                         *)
(* First, facts about sequences and sets.  Then each action of sender.c    *)
(* and of receiver.c is shown to keep the inductive invariant, and the     *)
(* properties are derived from it.  Last, the receiver's buffer: its order *)
(* and its length follow from the inductive invariant; that nothing is     *)
(* held back in it is an invariant of its own.                             *)
(***************************************************************************)
EXTENDS Transfer, SeqNumProofs, SequenceTheorems, WellFoundedInduction,
        FiniteSetTheorems

-----------------------------------------------------------------------------
(* Constants, sets and sequences.                                          *)

(* What the assumptions say of the numbers.                                *)
LEMMA Constants ==
  /\ SeqMod \in Nat /\ MAX_WINDOW_SIZE \in Nat /\ MAX_WINDOW_SIZE >= 1
  /\ SeqMod >= 2 * MAX_WINDOW_SIZE + 2
  /\ FileLength \in Nat
  /\ Lifetime \in Nat /\ Lifetime >= MAX_WINDOW_SIZE
  /\ Lifetime <= SeqMod - MAX_WINDOW_SIZE - 2
  /\ RETRANSMISSION_TIMER \in Nat /\ RETRANSMISSION_TIMER >= 1
  BY SeqNumAssumption, LinkAssumption, SenderAssumption

(* A set of natural numbers that is not empty has a least element.         *)
LEMMA LeastNumber ==
  ASSUME NEW T \in SUBSET Nat, T # {}
  PROVE  \E x \in T : \A y \in T : x <= y
<1>1. PICK x \in T : \A y \in T : ~ (<<y, x>> \in OpToRel(<, Nat))
  BY WFMin, NatLessThanWellFounded
<1>2. \A y \in T : ~(y < x)
  BY <1>1 DEF OpToRel
<1> QED BY <1>2

(* A function on 1 .. n is a sequence of length n.                         *)
LEMMA FunctionIsSequence ==
  ASSUME NEW S, NEW n \in Nat, NEW f \in [1 .. n -> S]
  PROVE  f \in Seq(S) /\ Len(f) = n
  OBVIOUS

(* What is left of a sequence without its first k elements.                *)
LEMMA WithoutFirst ==
  ASSUME NEW S, NEW l \in Seq(S), NEW k \in 0 .. Len(l)
  PROVE  /\ SubSeq(l, k + 1, Len(l)) \in Seq(S)
         /\ Len(SubSeq(l, k + 1, Len(l))) = Len(l) - k
         /\ \A i \in 1 .. Len(l) - k : SubSeq(l, k + 1, Len(l))[i] = l[k + i]
<1>1. \A i \in k + 1 .. Len(l) : l[i] \in S
  OBVIOUS
<1> QED BY <1>1, SubSeqProperties

(* A channel only gets what was sent.                                      *)
LEMMA CarrySubset ==
  ASSUME NEW channel, NEW ms, NEW capacity, NEW c \in Carry(channel, ms, capacity)
  PROVE  c \subseteq channel \cup ms
  BY DEF Carry

(* A datagram that arrives is one that was sent, up to its tr bit.         *)
LEMMA OutcomesKeep ==
  ASSUME NEW ms \in SUBSET DataPackets, NEW m \in Outcomes(ms)
  PROVE  /\ m \in DataPackets
         /\ \E d \in ms : m.pos = d.pos /\ m.seqnum = d.seqnum
<1>1. CASE m \in ms
  BY <1>1
<1>2. CASE m \notin ms
  <2>1. PICK d \in ms : m = Cut(d)
    BY <1>2 DEF Outcomes
  <2>2. /\ m.pos = d.pos /\ m.seqnum = d.seqnum
        /\ m \in DataPackets
    BY <2>1 DEF Cut, DataPackets
  <2> QED BY <2>1, <2>2
<1> QED BY <1>1, <1>2

(* The elements of a buffer are packets.                                   *)
LEMMA BufferTypes ==
  ASSUME NEW l \in Seq(BufferedPackets)
  PROVE  /\ DOMAIN l = 1 .. Len(l) /\ Len(l) \in Nat
         /\ \A i \in DOMAIN l : /\ l[i] \in BufferedPackets
                                /\ l[i].pos \in Nat /\ l[i].pos <= FileLength
<1>1. \A i \in DOMAIN l : l[i] \in BufferedPackets
  OBVIOUS
<1>2. \A p \in BufferedPackets : p.pos \in Nat /\ p.pos <= FileLength
  BY Constants DEF BufferedPackets, Pieces
<1> QED BY <1>1, <1>2

-----------------------------------------------------------------------------
(* The steps of the sender.                                                *)

Inv == TypeOK /\ IInv

(* What the invariant says of one datagram.                                *)
GoodData(m) ==
  /\ m \in DataPackets
  /\ m.seqnum = m.pos % SeqMod
  /\ m.pos + Lifetime >= offset
  /\ Sent(m.pos)
GoodAck(m) ==
  /\ m \in AckPackets
  /\ m.type = "ACK" => /\ m.seqnum = m.pos % SeqMod
                       /\ m.pos + Lifetime >= offset
                       /\ m.pos <= Len(output)

(* The channels are good when each of their datagrams is.                  *)
LEMMA ChannelsAreGood ==
  (fwd \subseteq DataPackets /\ rev \subseteq AckPackets /\ ChannelInv)
    <=> (\A m \in fwd : GoodData(m)) /\ (\A m \in rev : GoodAck(m))
  BY DEF ChannelInv, GoodData, GoodAck

(* The end of an iteration keeps the numbers and the pieces of the list it *)
(* is given; it ends the program only if there is nothing left to send.    *)
LEMMA EndIterationEffect ==
  ASSUME NEW l \in Seq(SentPackets), NEW window, NEW eof \in BOOLEAN, NEW sent,
         \A i \in DOMAIN l : ~IsEmpty(l[i]),
         EndIteration(l, window, eof, sent)
  PROVE  /\ list' \in Seq(SentPackets)
         /\ Len(list') = Len(l)
         /\ \A i \in DOMAIN l : /\ list'[i].pos = l[i].pos
                                /\ list'[i].seqnum = l[i].seqnum
         /\ \/ /\ sstate' = sstate
               /\ fwd' \subseteq Live(fwd, offset') \cup
                    Outcomes(sent \cup {Datagram(l[i]) : i \in DOMAIN l})
            \/ /\ sstate' = "done"
               /\ l = <<>>
               /\ eof
               /\ fwd' \subseteq Live(fwd, offset') \cup
                                 Outcomes(sent \cup {PktFin})
<1>1. CASE eof /\ l = <<>>
  <2>1. FinalSend(l, sent)
    BY <1>1 DEF EndIteration
  <2>2. list' = l
    BY <2>1 DEF FinalSend
  <2>3. {Datagram(l[i]) : i \in DOMAIN l} = {}
    BY <1>1
  <2>4. CASE sstate' = "done" /\ fwd' \in FwdAfter(Live(fwd, offset'), sent \cup {PktFin})
    BY <1>1, <2>2, <2>4, CarrySubset DEF FwdAfter
  <2>5. CASE sstate' = sstate /\ fwd' \in FwdAfter(Live(fwd, offset'), sent)
    <3>1. sent \cup {Datagram(l[i]) : i \in DOMAIN l} = sent
      BY <2>3
    <3> QED BY <2>2, <2>5, <3>1, CarrySubset DEF FwdAfter
  <2> QED BY <2>1, <2>4, <2>5 DEF FinalSend
<1>2. CASE ~(eof /\ l = <<>>)
  <2> DEFINE expired == Expired(l, window)
  <2>1. CheckTimeout(l, window, eof, sent)
    BY <1>2 DEF EndIteration
  <2>2. ~OnlyEofLeft(l, eof, expired)
    BY DEF OnlyEofLeft
  <2>3. /\ list' = Restamped(l, expired)
        /\ sstate' = sstate
        /\ fwd' \in FwdAfter(Live(fwd, offset'),
                             sent \cup {Datagram(l[i]) : i \in expired})
    BY <2>1, <2>2 DEF CheckTimeout
  <2>4. expired \subseteq DOMAIN l
    BY DEF Expired
  <2> HIDE DEF expired
  <2>5. fwd' \subseteq Live(fwd, offset') \cup
                       Outcomes(sent \cup {Datagram(l[i]) : i \in expired})
    BY <2>3, CarrySubset DEF FwdAfter
  <2>6. Outcomes(sent \cup {Datagram(l[i]) : i \in expired}) \subseteq
          Outcomes(sent \cup {Datagram(l[i]) : i \in DOMAIN l})
    BY <2>4 DEF Outcomes
  <2>7. \A i \in 1 .. Len(l) : l[i] \in SentPackets
    OBVIOUS
  <2>8. \A i \in 1 .. Len(l) : Aged(l[i], 0) \in SentPackets
    BY <2>7, Constants DEF SentPackets, Ages, Aged
  <2>9. /\ list' \in Seq(SentPackets)
        /\ Len(list') = Len(l)
        /\ \A i \in 1 .. Len(l) :
             list'[i] = IF i \in expired THEN Aged(l[i], 0) ELSE l[i]
    BY <2>3, <2>7, <2>8 DEF Restamped
  <2>10. \A i \in 1 .. Len(l) : /\ list'[i].pos = l[i].pos
                                /\ list'[i].seqnum = l[i].seqnum
    <3> SUFFICES ASSUME NEW i \in 1 .. Len(l)
                 PROVE  list'[i].pos = l[i].pos /\ list'[i].seqnum = l[i].seqnum
      OBVIOUS
    <3>1. list'[i] = IF i \in expired THEN Aged(l[i], 0) ELSE l[i]
      BY <2>9
    <3>2. Aged(l[i], 0).pos = l[i].pos /\ Aged(l[i], 0).seqnum = l[i].seqnum
      BY DEF Aged
    <3> QED BY <3>1, <3>2
  <2>11. fwd' \subseteq Live(fwd, offset') \cup
                        Outcomes(sent \cup {Datagram(l[i]) : i \in DOMAIN l})
    BY <2>5, <2>6
  <2> QED BY <2>3, <2>9, <2>10, <2>11
<1> QED BY <1>1, <1>2

(* A list of packets numbered up to the offset holds data packets only.    *)
LEMMA NoEmptyPacket ==
  ASSUME NEW l \in Seq(SentPackets), NEW n \in Nat, n <= FileLength,
         \A i \in DOMAIN l : l[i].pos = n - Len(l) + i - 1
  PROVE  \A i \in DOMAIN l : l[i].pos < n /\ ~IsEmpty(l[i])
  BY Constants DEF IsEmpty, EmptyPiece

(* One iteration of the sender: if its handler leaves a list of the last   *)
(* pieces read, that begins at a piece already written or at the next one  *)
(* to write, then the whole iteration keeps the invariant.                 *)
LEMMA SenderStep ==
  ASSUME Inv, UNCHANGED rcvVars, sstate = "run",
         NEW l \in Seq(SentPackets), NEW window, NEW eof \in BOOLEAN,
         NEW sent \in SUBSET DataPackets,
         EndIteration(l, window, eof, sent),
         s_window' \in Windows,
         seqnum_EOF' = eof,
         offset' \in Nat, offset <= offset', offset' <= FileLength,
         seqnum' = offset' % SeqMod,
         eof => offset' = FileLength /\ seqnum' = seqnum,
         Len(l) <= MAX_WINDOW_SIZE, Len(l) <= offset',
         offset' - Len(l) <= Len(output),
         \A i \in DOMAIN l : /\ l[i].pos = offset' - Len(l) + i - 1
                             /\ l[i].seqnum = l[i].pos % SeqMod,
         \A m \in sent : /\ m.pos < offset'
                         /\ m.pos + Lifetime >= offset'
                         /\ m.seqnum = m.pos % SeqMod,
         rev' \subseteq rev,
         \A m \in rev' : m.type = "ACK" => m.pos + Lifetime >= offset'
  PROVE  Inv'
<1>1. /\ Len(l) \in Nat /\ DOMAIN l = 1 .. Len(l)
      /\ \A i \in 1 .. Len(l) : l[i] \in SentPackets
  OBVIOUS
<1>2. \A i \in DOMAIN l : l[i].pos < offset' /\ ~IsEmpty(l[i])
  BY NoEmptyPacket
<1> DEFINE resent == {Datagram(l[i]) : i \in DOMAIN l}
<1>3. /\ list' \in Seq(SentPackets)
      /\ Len(list') = Len(l)
      /\ \A i \in DOMAIN l : /\ list'[i].pos = l[i].pos
                             /\ list'[i].seqnum = l[i].seqnum
      /\ \/ /\ sstate' = sstate
            /\ fwd' \subseteq Live(fwd, offset') \cup Outcomes(sent \cup resent)
         \/ /\ sstate' = "done"
            /\ l = <<>>
            /\ eof
            /\ fwd' \subseteq Live(fwd, offset') \cup Outcomes(sent \cup {PktFin})
  BY <1>2, EndIterationEffect
<1>4. /\ UNCHANGED <<waited_seqnum, r_window, rlist, output, rstate>>
      /\ Len(output) \in Nat /\ offset \in Nat
  BY DEF rcvVars, Inv, TypeOK
<1>5. sstate' \in {"run", "done"} /\ (sstate' = "done" => l = <<>> /\ eof)
  BY <1>3
<1>6. \A pos \in Int : Sent(pos) => Sent(pos)'
  BY <1>4 DEF Sent
<1>7. \A m \in resent : /\ m \in DataPackets
                        /\ m.pos < offset'
                        /\ m.pos + Lifetime >= offset'
                        /\ m.seqnum = m.pos % SeqMod
  <2> SUFFICES ASSUME NEW i \in DOMAIN l
               PROVE  LET m == Datagram(l[i]) IN
                      /\ m \in DataPackets
                      /\ m.pos < offset'
                      /\ m.pos + Lifetime >= offset'
                      /\ m.seqnum = m.pos % SeqMod
    OBVIOUS
  <2>1. l[i] \in SentPackets /\ l[i].pos = offset' - Len(l) + i - 1 /\ i \in 1 .. Len(l)
    BY <1>1
  <2>2. l[i].pos < offset' /\ l[i].pos + Lifetime >= offset'
    BY <2>1, <1>1, Constants
  <2>3. Datagram(l[i]) \in DataPackets
    BY <2>1 DEF Datagram, DataPackets, SentPackets
  <2>4. Datagram(l[i]).pos = l[i].pos /\ Datagram(l[i]).seqnum = l[i].seqnum
    BY DEF Datagram
  <2>5. l[i].seqnum = l[i].pos % SeqMod
    OBVIOUS
  <2> QED BY <2>2, <2>3, <2>4, <2>5
<1> HIDE DEF resent
<1>8. ASSUME NEW m \in fwd'
      PROVE  GoodData(m)'
  <2>1. CASE m \in Live(fwd, offset')
    <3>1. m \in fwd /\ m.pos + Lifetime >= offset'
      BY <2>1 DEF Live
    <3>2. GoodData(m)
      BY <3>1, ChannelsAreGood DEF Inv, IInv, TypeOK
    <3>3. m.pos \in Int
      BY <3>2, Constants DEF GoodData, DataPackets, Pieces
    <3> QED BY <3>1, <3>2, <3>3, <1>6 DEF GoodData
  <2>2. CASE sstate' = sstate /\ m \in Outcomes(sent \cup resent)
    <3>1. sent \cup resent \in SUBSET DataPackets
      BY <1>7
    <3>2. /\ m \in DataPackets
          /\ \E d \in sent \cup resent : m.pos = d.pos /\ m.seqnum = d.seqnum
      BY <2>2, <3>1, OutcomesKeep
    <3>3. /\ m.pos < offset' /\ m.pos + Lifetime >= offset'
          /\ m.seqnum = m.pos % SeqMod
      BY <3>2, <1>7
    <3> QED BY <3>2, <3>3 DEF GoodData, Sent
  <2>3. CASE /\ sstate' = "done" /\ eof
             /\ m \in Outcomes(sent \cup {PktFin})
    <3>1. /\ PktFin \in DataPackets
          /\ PktFin.pos = FileLength
          /\ PktFin.seqnum = seqnum
      BY Constants DEF PktFin, DataPackets, Inv, TypeOK, Pieces, EmptyPiece
    <3>2. seqnum = FileLength % SeqMod /\ offset' = FileLength
      BY <2>3
    <3>3. /\ m \in DataPackets
          /\ \E d \in sent \cup {PktFin} : m.pos = d.pos /\ m.seqnum = d.seqnum
      BY <2>3, <3>1, OutcomesKeep
    <3>4. /\ m.pos + Lifetime >= offset' /\ m.seqnum = m.pos % SeqMod
          /\ m.pos < offset' \/ m.pos = FileLength
      BY <3>1, <3>2, <3>3, Constants
    <3> QED BY <3>3, <3>4, <2>3 DEF GoodData, Sent, EmptyPiece
  <2> QED BY <1>3, <2>1, <2>2, <2>3
<1>9. ASSUME NEW m \in rev'
      PROVE  GoodAck(m)'
  <2>1. m \in rev /\ (m.type = "ACK" => m.pos + Lifetime >= offset')
    OBVIOUS
  <2>2. GoodAck(m)
    BY <2>1, ChannelsAreGood DEF Inv, IInv, TypeOK
  <2> QED BY <2>1, <2>2, <1>4 DEF GoodAck
<1>10. fwd' \subseteq DataPackets /\ rev' \subseteq AckPackets /\ ChannelInv'
  BY <1>8, <1>9 DEF ChannelInv, GoodData, GoodAck
<1>11. TypeOK'
  <2>1. seqnum' \in SeqNums
    BY ModRange
  <2> QED BY <1>3, <1>4, <1>5, <1>10, <2>1, Constants DEF Inv, TypeOK
<1>12. SenderInv'
  <2>1. Base' = offset' - Len(l)
    BY <1>3 DEF Base
  <2>2. DOMAIN list' = DOMAIN l
    BY <1>1, <1>3
  <2>3. \A i \in DOMAIN list' : /\ list'[i].pos = Base' + i - 1
                                /\ list'[i].seqnum = list'[i].pos % SeqMod
    BY <1>3, <2>1, <2>2
  <2>4. sstate' = "done" => list' = <<>> /\ seqnum_EOF'
    <3>1. sstate' = "done" => Len(list') = 0 /\ eof
      BY <1>3, <1>5
    <3>2. Len(list') = 0 => list' = <<>>
      BY <1>3
    <3> QED BY <3>1, <3>2
  <2>5. Len(list') <= MAX_WINDOW_SIZE /\ Len(list') <= offset'
    BY <1>3
  <2>6. seqnum_EOF' => offset' = FileLength
    OBVIOUS
  <2> QED BY <2>3, <2>4, <2>5, <2>6 DEF SenderInv
<1>13. ReceiverInv'
  <2>1. ReceiverInv
    BY DEF Inv, IInv
  <2>2. \A i \in DOMAIN rlist : rlist[i].pos \in Int
    BY BufferTypes DEF Inv, TypeOK
  <2>3. \A i \in DOMAIN rlist : Sent(rlist[i].pos)
    BY <2>1 DEF ReceiverInv
  <2>4. (\A i \in DOMAIN rlist : Sent(rlist[i].pos))'
    BY <2>2, <2>3, <1>4 DEF Sent
  <2>5. FileIsPrefix'
    BY <2>1, <1>4 DEF ReceiverInv, FileIsPrefix
  <2> QED BY <2>1, <2>4, <2>5, <1>4 DEF ReceiverInv
<1>14. PositionInv'
  <2>1. PositionInv /\ Base' = offset' - Len(l)
    BY <1>3 DEF Inv, IInv, Base
  <2> QED BY <2>1, <1>4 DEF PositionInv
<1> QED BY <1>11, <1>12, <1>13, <1>10, <1>14 DEF Inv, IInv

(* What the invariant says of the list, for SenderStep.                    *)
LEMMA ListFacts ==
  ASSUME Inv, sstate = "run"
  PROVE  /\ list \in Seq(SentPackets) /\ Len(list) \in Nat
         /\ DOMAIN list = 1 .. Len(list)
         /\ offset \in Nat /\ offset <= FileLength
         /\ Len(list) <= MAX_WINDOW_SIZE /\ Len(list) <= offset
         /\ Len(output) \in Nat
         /\ offset - Len(list) <= Len(output) /\ Len(output) <= offset
         /\ \A i \in DOMAIN list : /\ list[i].pos = offset - Len(list) + i - 1
                                   /\ list[i].seqnum = list[i].pos % SeqMod
         /\ seqnum = offset % SeqMod
         /\ seqnum_EOF \in BOOLEAN
         /\ seqnum_EOF => offset = FileLength
         /\ s_window \in Windows
<1>1. /\ TypeOK /\ SenderInv /\ PositionInv
  BY DEF Inv, IInv
<1>2. /\ list \in Seq(SentPackets)
      /\ offset \in Nat /\ offset <= FileLength
      /\ Len(output) \in Nat
      /\ seqnum_EOF \in BOOLEAN
      /\ s_window \in Windows
  BY <1>1, Constants DEF TypeOK
<1>3. /\ Len(list) \in Nat
      /\ DOMAIN list = 1 .. Len(list)
  BY <1>2
<1>4. /\ Len(list) <= MAX_WINDOW_SIZE /\ Len(list) <= offset
      /\ seqnum = offset % SeqMod
      /\ seqnum_EOF => offset = FileLength
      /\ \A i \in DOMAIN list : /\ list[i].pos = offset - Len(list) + i - 1
                                /\ list[i].seqnum = list[i].pos % SeqMod
  BY <1>1 DEF SenderInv, Base
<1>5. offset - Len(list) <= Len(output) /\ Len(output) <= offset
  BY <1>1 DEF PositionInv, Base
<1> QED BY <1>2, <1>3, <1>4, <1>5

(* The datagrams on their way to the sender, for SenderStep.               *)
LEMMA RevFacts ==
  ASSUME Inv, NEW m \in rev, m.type = "ACK"
  PROVE  /\ m.seqnum = m.pos % SeqMod
         /\ m.pos \in Nat
         /\ m.pos + Lifetime >= offset
         /\ m.pos <= Len(output)
<1>1. m \in AckPackets
  BY DEF Inv, TypeOK
<1>2. m.pos \in Nat
  BY <1>1, Constants DEF AckPackets
<1> QED BY <1>2 DEF Inv, IInv, ChannelInv

(* packet_checked pops only packets the receiver has written.              *)
LEMMA PopsWritten ==
  ASSUME Inv, sstate = "run", NEW m \in rev, m.type = "ACK",
         NEW k \in 0 .. Len(list), IsCovered(list, m.seqnum, k)
  PROVE  offset - (Len(list) - k) <= Len(output)
<1>1. CASE k = 0
  BY <1>1, ListFacts
<1>2. CASE k # 0
  <2> DEFINE h == offset - Len(list) + k - 1
  <2>1. /\ k \in 1 .. Len(list)
        /\ h \in Nat
        /\ AckCovers(m.seqnum, list[k].seqnum)
        /\ list[k].seqnum = h % SeqMod
    BY <1>2, ListFacts DEF IsCovered
  <2>2. /\ m.seqnum = m.pos % SeqMod
        /\ m.pos \in Nat
        /\ m.pos + Lifetime >= offset
        /\ m.pos <= Len(output)
    BY RevFacts
  <2>3. /\ offset \in Nat /\ Len(list) \in Nat /\ Len(output) \in Nat
        /\ Len(list) <= MAX_WINDOW_SIZE
        /\ Len(output) <= offset
    BY ListFacts
  <2>4. h - m.pos <= Behind /\ m.pos - h <= MAX_WINDOW_SIZE
    <3>1. h \in Nat /\ h < offset /\ offset <= h + MAX_WINDOW_SIZE
      BY <2>1, <2>3, Constants
    <3>2. /\ m.pos \in Nat /\ m.pos <= offset
          /\ offset <= m.pos + Lifetime
      BY <2>2, <2>3
    <3> DEFINE q == m.pos
    <3>3. ASSUME NEW x \in Nat, NEW y \in Nat, NEW o \in Nat,
                 x < o, o <= x + MAX_WINDOW_SIZE, y <= o, o <= y + Lifetime
          PROVE  x - y <= Behind /\ y - x <= MAX_WINDOW_SIZE
      BY <3>3, Constants DEF Behind
    <3> HIDE DEF h, q
    <3> QED BY <2>3, <3>1, <3>2, <3>3
  <2>5. m.pos > h
    <3> HIDE DEF h
    <3> QED BY <2>1, <2>2, <2>4, AckCoversMod
  <2> QED BY <2>1, <2>2, <2>5, ListFacts
<1> QED BY <1>1, <1>2

(* check_ack keeps the invariant: what it pops was written.                *)
LEMMA SndAckStep ==
  ASSUME Inv, UNCHANGED rcvVars, NEW m \in rev, SndAck(m)
  PROVE  Inv'
<1>1. /\ sstate = "run"
      /\ s_window' = m.window
      /\ UNCHANGED <<seqnum, seqnum_EOF, offset>>
      /\ rev' \subseteq rev
  BY DEF SndAck, Deliver
<1>2. s_window' \in Windows
  BY <1>1 DEF Inv, TypeOK, AckPackets
<1>5. \A d \in rev' : d.type = "ACK" => d.pos + Lifetime >= offset'
  BY <1>1, RevFacts
<1>6. /\ list \in Seq(SentPackets) /\ Len(list) \in Nat
      /\ DOMAIN list = 1 .. Len(list)
      /\ offset \in Nat /\ offset <= FileLength
      /\ Len(list) <= MAX_WINDOW_SIZE /\ Len(list) <= offset
      /\ offset - Len(list) <= Len(output)
      /\ \A i \in DOMAIN list : /\ list[i].pos = offset - Len(list) + i - 1
                                /\ list[i].seqnum = list[i].pos % SeqMod
  BY <1>1, ListFacts
<1>7. /\ seqnum_EOF \in BOOLEAN /\ seqnum_EOF' = seqnum_EOF
      /\ offset' = offset /\ offset' \in Nat
      /\ offset <= offset' /\ offset' <= FileLength
      /\ seqnum' = offset' % SeqMod
      /\ seqnum_EOF => offset' = FileLength /\ seqnum' = seqnum
  BY <1>1, ListFacts
<1>8. {} \in SUBSET DataPackets
  OBVIOUS
<1>3. CASE m.type = "ACK"
  <2>1. PICK k \in 0 .. Len(list) :
          /\ IsCovered(list, m.seqnum, k)
          /\ IF EofAcked(list, k)
             THEN /\ sstate' = "done"
                  /\ list' = <<list[k]>>
                  /\ fwd' = fwd
             ELSE EndIteration(SubSeq(list, k + 1, Len(list)), s_window',
                               seqnum_EOF, {})
    BY <1>3 DEF SndAck
  <2>2. ~EofAcked(list, k)
    <3>1. \A i \in DOMAIN list : ~IsEmpty(list[i])
      BY <1>6, NoEmptyPacket
    <3>2. EofAcked(list, k) => k \in DOMAIN list
      BY <1>6, <2>1 DEF EofAcked
    <3> QED BY <3>1, <3>2 DEF EofAcked
  <2> DEFINE l == SubSeq(list, k + 1, Len(list))
  <2>3. /\ l \in Seq(SentPackets)
        /\ Len(l) = Len(list) - k
        /\ \A i \in 1 .. Len(list) - k : l[i] = list[k + i]
    BY <1>6, WithoutFirst
  <2>4. EndIteration(l, s_window', seqnum_EOF, {})
    BY <2>1, <2>2
  <2> HIDE DEF l
  <2>5. DOMAIN l = 1 .. Len(list) - k
    BY <2>3, <1>6
  <2>6. \A i \in DOMAIN l : /\ l[i].pos = offset - Len(l) + i - 1
                            /\ l[i].seqnum = l[i].pos % SeqMod
    <3> SUFFICES ASSUME NEW i \in DOMAIN l
                 PROVE  /\ l[i].pos = offset - Len(l) + i - 1
                        /\ l[i].seqnum = l[i].pos % SeqMod
      OBVIOUS
    <3>1. l[i] = list[k + i] /\ k + i \in DOMAIN list
      BY <1>6, <2>3, <2>5
    <3> QED BY <1>6, <2>3, <3>1, <2>5
  <2>7. offset - Len(l) <= Len(output)
    BY <1>1, <1>3, <2>1, <2>3, PopsWritten
  <2>8. Len(l) <= MAX_WINDOW_SIZE /\ Len(l) <= offset
    BY <1>6, <2>3, Constants
  <2>9. /\ Len(l) <= offset'
        /\ offset' - Len(l) <= Len(output)
        /\ \A i \in DOMAIN l : /\ l[i].pos = offset' - Len(l) + i - 1
                               /\ l[i].seqnum = l[i].pos % SeqMod
    BY <1>7, <2>6, <2>7, <2>8
  <2> QED
    BY <1>1, <1>2, <1>5, <1>7, <1>8, <2>3, <2>4, <2>8, <2>9, SenderStep
<1>4. CASE m.type # "ACK"
  <2>1. EndIteration(list, s_window', seqnum_EOF, {})
    BY <1>4 DEF SndAck
  <2>2. /\ Len(list) <= offset'
        /\ offset' - Len(list) <= Len(output)
        /\ \A i \in DOMAIN list : /\ list[i].pos = offset' - Len(list) + i - 1
                                  /\ list[i].seqnum = list[i].pos % SeqMod
    BY <1>6, <1>7
  <2> QED BY <1>1, <1>2, <1>5, <1>6, <1>7, <1>8, <2>1, <2>2, SenderStep
<1> QED BY <1>3, <1>4

(* read_to_list sends the piece it reads and lists it, or keeps pkt_fin.   *)
LEMMA SndReadStep ==
  ASSUME Inv, UNCHANGED rcvVars, SndRead
  PROVE  Inv'
<1>1. /\ sstate = "run" /\ HasRoom(s_window)
      /\ s_window' = s_window
      /\ rev' = Live(rev, offset')
  BY DEF SndRead
<1>2. /\ list \in Seq(SentPackets) /\ Len(list) \in Nat
      /\ DOMAIN list = 1 .. Len(list)
      /\ offset \in Nat /\ offset <= FileLength
      /\ Len(list) <= MAX_WINDOW_SIZE /\ Len(list) <= offset
      /\ Len(output) \in Nat
      /\ offset - Len(list) <= Len(output)
      /\ \A i \in DOMAIN list : /\ list[i].pos = offset - Len(list) + i - 1
                                /\ list[i].seqnum = list[i].pos % SeqMod
      /\ seqnum = offset % SeqMod
      /\ s_window \in Windows
  BY <1>1, ListFacts
<1>3. /\ rev' \subseteq rev
      /\ \A d \in rev' : d.type = "ACK" => d.pos + Lifetime >= offset'
  BY <1>1 DEF Live
<1>4. CASE offset < FileLength
  <2> DEFINE p == [seqnum |-> seqnum, pos |-> offset, age |-> 0]
             l == Append(list, p)
  <2>1. /\ seqnum' = NextSeqnum(seqnum)
        /\ offset' = offset + 1
        /\ seqnum_EOF' = FALSE
        /\ EndIteration(l, s_window, FALSE, {Datagram(p)})
    BY <1>4 DEF SndRead
  <2>2. /\ p \in SentPackets
        /\ p.pos = offset /\ p.seqnum = offset % SeqMod
        /\ Datagram(p) \in DataPackets
        /\ Datagram(p).pos = offset /\ Datagram(p).seqnum = offset % SeqMod
    BY <1>2, Constants, ModRange
    DEF SentPackets, DataPackets, Datagram, Ages, Pieces, SeqNums
  <2> HIDE DEF p
  <2>3. /\ l \in Seq(SentPackets)
        /\ Len(l) = Len(list) + 1 /\ DOMAIN l = 1 .. Len(list) + 1
        /\ \A i \in 1 .. Len(list) : l[i] = list[i]
        /\ l[Len(list) + 1] = p
    BY <1>2, <2>2
  <2> HIDE DEF l
  <2>4. Len(l) <= MAX_WINDOW_SIZE
    BY <1>1, <1>2, <2>3, Constants DEF HasRoom, Windows
  <2>5. \A i \in DOMAIN l : /\ l[i].pos = offset' - Len(l) + i - 1
                            /\ l[i].seqnum = l[i].pos % SeqMod
    <3> SUFFICES ASSUME NEW i \in DOMAIN l
                 PROVE  /\ l[i].pos = offset' - Len(l) + i - 1
                        /\ l[i].seqnum = l[i].pos % SeqMod
      OBVIOUS
    <3>1. i \in 1 .. Len(list) + 1 /\ offset' - Len(l) = offset - Len(list)
      BY <1>2, <2>1, <2>3
    <3>2. CASE i \in 1 .. Len(list)
      BY <1>2, <2>3, <3>1, <3>2
    <3>3. CASE i = Len(list) + 1
      BY <1>2, <2>2, <2>3, <3>1, <3>3
    <3> QED BY <3>1, <3>2, <3>3, <1>2
  <2>6. /\ offset' \in Nat /\ offset <= offset' /\ offset' <= FileLength
        /\ Len(l) <= offset' /\ offset' - Len(l) <= Len(output)
    BY <1>2, <1>4, <2>1, <2>3, Constants
  <2>7. seqnum' = offset' % SeqMod
    BY <1>2, <2>1, NextSeqnumMod
  <2>8. /\ {Datagram(p)} \in SUBSET DataPackets
        /\ \A m \in {Datagram(p)} : /\ m.pos < offset'
                                   /\ m.pos + Lifetime >= offset'
                                   /\ m.seqnum = m.pos % SeqMod
    BY <1>2, <2>1, <2>2, Constants
  <2> QED
    BY <1>1, <1>2, <1>3, <2>1, <2>3, <2>4, <2>5, <2>6, <2>7, <2>8, SenderStep
<1>5. CASE ~(offset < FileLength)
  <2>1. /\ seqnum_EOF' = TRUE
        /\ seqnum' = seqnum /\ offset' = offset
        /\ EndIteration(list, s_window, TRUE, {})
    BY <1>5 DEF SndRead
  <2>2. /\ offset' \in Nat /\ offset <= offset' /\ offset' = FileLength
        /\ seqnum' = offset' % SeqMod
        /\ Len(list) <= offset' /\ offset' - Len(list) <= Len(output)
        /\ \A i \in DOMAIN list : /\ list[i].pos = offset' - Len(list) + i - 1
                                  /\ list[i].seqnum = list[i].pos % SeqMod
    BY <1>2, <1>5, <2>1, Constants
  <2>3. {} \in SUBSET DataPackets
    OBVIOUS
  <2> QED BY <1>1, <1>2, <1>3, <2>1, <2>2, <2>3, Constants, SenderStep
<1> QED BY <1>4, <1>5

(* So does an iteration that only runs final_send and check_timeout.       *)
LEMMA SndIdleStep ==
  ASSUME Inv, UNCHANGED rcvVars, SndIdle
  PROVE  Inv'
<1>1. /\ sstate = "run"
      /\ seqnum' = seqnum /\ s_window' = s_window
      /\ seqnum_EOF' = seqnum_EOF /\ offset' = offset /\ rev' = rev
      /\ EndIteration(list, s_window, seqnum_EOF, {})
  BY DEF SndIdle
<1>2. /\ list \in Seq(SentPackets) /\ Len(list) \in Nat
      /\ offset' \in Nat /\ offset <= offset' /\ offset' <= FileLength
      /\ Len(list) <= MAX_WINDOW_SIZE /\ Len(list) <= offset'
      /\ offset' - Len(list) <= Len(output)
      /\ \A i \in DOMAIN list : /\ list[i].pos = offset' - Len(list) + i - 1
                                /\ list[i].seqnum = list[i].pos % SeqMod
      /\ seqnum' = offset' % SeqMod
      /\ seqnum_EOF \in BOOLEAN
      /\ seqnum_EOF => offset' = FileLength /\ seqnum' = seqnum
      /\ s_window' \in Windows
  BY <1>1, ListFacts
<1>3. \A d \in rev' : d.type = "ACK" => d.pos + Lifetime >= offset'
  BY <1>1, RevFacts
<1>4. {} \in SUBSET DataPackets
  OBVIOUS
<1> QED BY <1>1, <1>2, <1>3, <1>4, SenderStep

(* The clock changes the ages only.                                        *)
LEMMA TickKeepsPackets ==
  ASSUME list \in Seq(SentPackets), Tick
  PROVE  /\ list' \in Seq(SentPackets) /\ Len(list') = Len(list)
         /\ \A i \in 1 .. Len(list) : /\ list'[i].pos = list[i].pos
                                      /\ list'[i].seqnum = list[i].seqnum
<1>1. /\ Len(list) \in Nat /\ DOMAIN list = 1 .. Len(list)
      /\ \A i \in 1 .. Len(list) : list[i] \in SentPackets
  OBVIOUS
<1>2. list' = [i \in DOMAIN list |->
                 IF list[i].age < RETRANSMISSION_TIMER
                 THEN Aged(list[i], list[i].age + 1) ELSE list[i]]
  BY DEF Tick
<1>3. \A p \in SentPackets :
        p.age < RETRANSMISSION_TIMER => Aged(p, p.age + 1) \in SentPackets
  BY Constants DEF SentPackets, Ages, Aged
<1>4. \A p \in SentPackets : \A a : /\ Aged(p, a).pos = p.pos
                                   /\ Aged(p, a).seqnum = p.seqnum
  BY DEF Aged
<1> HIDE DEF Aged
<1>5. /\ Len(list') = Len(list) /\ DOMAIN list' = 1 .. Len(list)
      /\ \A i \in 1 .. Len(list) : list'[i] =
            IF list[i].age < RETRANSMISSION_TIMER
            THEN Aged(list[i], list[i].age + 1) ELSE list[i]
  BY <1>1, <1>2
<1>6. \A i \in 1 .. Len(list) : /\ list'[i] \in SentPackets
                               /\ list'[i].pos = list[i].pos
                               /\ list'[i].seqnum = list[i].seqnum
  BY <1>1, <1>3, <1>4, <1>5
<1> QED BY <1>1, <1>2, <1>5, <1>6

(* A failed select() and the clock leave everything but the state of the   *)
(* program and the ages as it was.                                         *)
LEMMA SndOtherStep ==
  ASSUME Inv, UNCHANGED rcvVars, SndSelectError \/ Tick
  PROVE  Inv'
<1>1. /\ sstate = "run"
      /\ UNCHANGED <<seqnum, s_window, seqnum_EOF, offset, fwd, rev>>
      /\ UNCHANGED <<waited_seqnum, r_window, rlist, output, rstate>>
      /\ sstate' \in {"run", "error"}
  BY DEF SndSelectError, Tick, rcvVars
<1>2. /\ list \in Seq(SentPackets) /\ Len(list) \in Nat
      /\ DOMAIN list = 1 .. Len(list)
      /\ \A i \in 1 .. Len(list) : list[i] \in SentPackets
  BY <1>1, ListFacts
<1>3. /\ list' \in Seq(SentPackets) /\ Len(list') = Len(list)
      /\ \A i \in 1 .. Len(list) : /\ list'[i].pos = list[i].pos
                                   /\ list'[i].seqnum = list[i].seqnum
  <2>1. CASE SndSelectError
    BY <1>2, <2>1 DEF SndSelectError
  <2>2. CASE Tick
    BY <1>2, <2>2, TickKeepsPackets
  <2> QED BY <2>1, <2>2
<1>4. \A pos \in Int : Sent(pos) => Sent(pos)'
  BY <1>1 DEF Sent
<1>5. TypeOK'
  BY <1>1, <1>3 DEF Inv, TypeOK
<1>6. SenderInv'
  <2>1. DOMAIN list' = DOMAIN list /\ Base' = Base
    BY <1>1, <1>2, <1>3 DEF Base
  <2>2. SenderInv
    BY DEF Inv, IInv
  <2> QED BY <1>1, <1>2, <1>3, <2>1, <2>2 DEF SenderInv
<1>7. ReceiverInv'
  <2>1. ReceiverInv
    BY DEF Inv, IInv
  <2>2. \A i \in DOMAIN rlist : rlist[i].pos \in Int
    BY BufferTypes DEF Inv, TypeOK
  <2>3. (\A i \in DOMAIN rlist : Sent(rlist[i].pos))'
    BY <2>1, <2>2, <1>1, <1>4 DEF ReceiverInv
  <2>4. FileIsPrefix'
    BY <2>1, <1>1 DEF ReceiverInv, FileIsPrefix
  <2> QED BY <2>1, <2>3, <2>4, <1>1 DEF ReceiverInv
<1>8. ChannelInv'
  <2>1. \A m \in fwd : m.pos \in Int
    BY Constants DEF Inv, TypeOK, DataPackets, Pieces
  <2> QED BY <2>1, <1>1, <1>4 DEF Inv, IInv, ChannelInv
<1>9. PositionInv'
  BY <1>1, <1>3 DEF Inv, IInv, PositionInv, Base
<1> QED BY <1>5, <1>6, <1>7, <1>8, <1>9 DEF Inv, IInv

-----------------------------------------------------------------------------
(* The steps of the receiver.                                              *)

(* The positions of the two programs, and how far a piece that was sent    *)
(* may be ahead of the output file.                                        *)
LEMMA Positions ==
  ASSUME Inv
  PROVE  /\ Len(output) \in Nat /\ offset \in Nat
         /\ Len(output) <= FileLength + 1
         /\ Len(output) <= offset \/ Len(output) = FileLength + 1
         /\ Len(output) <= offset + 1
         /\ offset <= FileLength
         /\ offset <= Len(output) + MAX_WINDOW_SIZE
         /\ \A pos \in Int : Sent(pos) => pos <= Len(output) + MAX_WINDOW_SIZE
         /\ Sent(EmptyPiece) => /\ offset = FileLength
                                /\ FileLength <= Len(output)
<1>1. /\ Len(output) \in Nat /\ offset \in Nat /\ Len(list) \in Nat
      /\ offset <= FileLength
  BY Constants DEF Inv, TypeOK
<1>2. /\ offset - Len(list) <= Len(output)
      /\ Len(list) <= MAX_WINDOW_SIZE
      /\ sstate = "done" => list = <<>> /\ offset = FileLength
      /\ Len(output) <= offset
           \/ (sstate = "done" /\ Len(output) <= FileLength + 1)
  BY DEF Inv, IInv, PositionInv, SenderInv, Base
<1>3. offset <= Len(output) + MAX_WINDOW_SIZE
  BY <1>1, <1>2, Constants
<1>4. sstate = "done" => offset = FileLength /\ FileLength <= Len(output)
  <2>1. list = <<>> => Len(list) = 0
    OBVIOUS
  <2> QED BY <1>1, <1>2, <2>1
<1>7. Len(output) <= offset \/ Len(output) = FileLength + 1
  BY <1>1, <1>2, Constants
<1>5. Sent(EmptyPiece) => offset = FileLength /\ FileLength <= Len(output)
  BY <1>1, <1>4, Constants DEF Sent, EmptyPiece
<1>6. \A pos \in Int : Sent(pos) => pos <= Len(output) + MAX_WINDOW_SIZE
  BY <1>1, <1>3, <1>4, Constants DEF Sent, EmptyPiece
<1> QED BY <1>1, <1>2, <1>3, <1>4, <1>5, <1>6, <1>7, Constants

(* One iteration of the receiver keeps the invariant if what it writes     *)
(* continues the file, what it keeps is in order, and what it acknowledges *)
(* is what it has written.                                                 *)
LEMMA ReceiverStep ==
  ASSUME Inv, UNCHANGED sndVars, fwd' \subseteq fwd,
         r_window' \in Windows,
         rlist' \in Seq(BufferedPackets),
         output' \in Seq(Pieces \cup {Torn}),
         rstate' \in {"wait", "run", "eof", "timeout", "noclient", "error"},
         Len(output) <= Len(output'),
         Len(output') <= offset
           \/ (sstate = "done" /\ Len(output') <= FileLength + 1),
         waited_seqnum' = Len(output') % SeqMod,
         FileIsPrefix',
         \A i \in DOMAIN rlist' : /\ rlist'[i].pos >= Len(output')
                                  /\ rlist'[i].seqnum = rlist'[i].pos % SeqMod
                                  /\ Sent(rlist'[i].pos),
         \A i, j \in DOMAIN rlist' : i < j => rlist'[i].pos < rlist'[j].pos,
         rstate' = "eof" => Len(output') = FileLength + 1,
         Len(output') = FileLength + 1 /\ rstate' \in {"wait", "run"} =>
           FileLength % SeqMod = SeqMod - 1,
         \A m \in rev' : m \in rev \/
           (m \in AckPackets /\ (m.type = "ACK" =>
                                   /\ m.seqnum = m.pos % SeqMod
                                   /\ m.pos + Lifetime >= offset
                                   /\ m.pos <= Len(output')))
  PROVE  Inv'
<1>1. UNCHANGED <<list, seqnum, s_window, seqnum_EOF, offset, sstate>>
  BY DEF sndVars
<1>2. \A pos \in Int : Sent(pos) => Sent(pos)'
  BY <1>1 DEF Sent
<1>3. /\ Len(output) \in Nat /\ Len(output') \in Nat /\ offset \in Nat
  BY Positions
<1>4. ASSUME NEW m \in fwd'
      PROVE  GoodData(m)'
  <2>1. GoodData(m)
    BY ChannelsAreGood DEF Inv, IInv, TypeOK
  <2>2. m.pos \in Int
    BY <2>1, Constants DEF GoodData, DataPackets, Pieces
  <2> QED BY <2>1, <2>2, <1>1, <1>2 DEF GoodData
<1>5. ASSUME NEW m \in rev'
      PROVE  GoodAck(m)'
  <2>1. CASE m \in rev
    <3>1. GoodAck(m)
      BY <2>1, ChannelsAreGood DEF Inv, IInv, TypeOK
    <3>2. m.pos \in Nat
      BY <3>1, Constants DEF GoodAck, AckPackets
    <3> QED BY <3>1, <3>2, <1>1, <1>3 DEF GoodAck
  <2>2. CASE m \notin rev
    BY <2>2, <1>1 DEF GoodAck
  <2> QED BY <2>1, <2>2
<1>6. fwd' \subseteq DataPackets /\ rev' \subseteq AckPackets /\ ChannelInv'
  BY <1>4, <1>5 DEF ChannelInv, GoodData, GoodAck
<1>7. TypeOK'
  <2>1. waited_seqnum' \in SeqNums
    BY <1>3, ModRange
  <2> QED BY <1>1, <1>6, <2>1 DEF Inv, TypeOK
<1>8. SenderInv'
  BY <1>1 DEF Inv, IInv, SenderInv, Base
<1>9. ReceiverInv'
  <2>1. \A i \in DOMAIN rlist' : rlist'[i].pos \in Int
    BY BufferTypes
  <2>2. (\A i \in DOMAIN rlist : Sent(rlist[i].pos))'
    BY <1>1, <2>1 DEF Sent
  <2> QED BY <2>2 DEF ReceiverInv
<1>10. PositionInv'
  <2>1. PositionInv /\ Base \in Int
    BY <1>3 DEF Inv, IInv, TypeOK, Base
  <2>2. Base' = Base
    BY <1>1 DEF Base
  <2> QED BY <1>1, <1>3, <2>1, <2>2 DEF PositionInv
<1> QED BY <1>6, <1>7, <1>8, <1>9, <1>10 DEF Inv, IInv

(* The window test of the receiver accepts only pieces still to be written.*)
LEMMA AcceptedIsNew ==
  ASSUME Inv, rstate = "run", NEW m \in fwd,
         RcvInWindow(m.seqnum, waited_seqnum, r_window)
  PROVE  m.pos \in Len(output) .. Len(output) + MAX_WINDOW_SIZE
<1> DEFINE p == m.pos
           r == Len(output)
<1>1. GoodData(m)
  BY ChannelsAreGood DEF Inv, IInv, TypeOK
<1>2. /\ p \in Nat /\ p <= FileLength /\ Sent(p)
      /\ p + Lifetime >= offset
      /\ m.seqnum = p % SeqMod
  BY <1>1, Constants DEF GoodData, DataPackets, Pieces
<1>3. /\ r \in Nat /\ offset \in Nat
      /\ r <= FileLength + 1 /\ r <= offset + 1
      /\ p <= r + MAX_WINDOW_SIZE
  BY <1>2, Positions
<1>4. /\ waited_seqnum = r % SeqMod
      /\ r = FileLength + 1 => FileLength % SeqMod = SeqMod - 1
      /\ r_window \in Windows
  BY DEF Inv, IInv, ReceiverInv, TypeOK
<1>5. RcvInWindow(p % SeqMod, r % SeqMod, r_window)
  BY <1>2, <1>4
<1>6. r <= offset \/ r = FileLength + 1
  BY Positions
<1> HIDE DEF p, r
<1>7. CASE r - p <= Behind
  <2>1. p - r <= MAX_WINDOW_SIZE
    BY <1>2, <1>3, Constants
  <2>2. p >= r
    BY <1>2, <1>3, <1>4, <1>5, <1>7, <2>1, RcvInWindowMod
  <2> QED BY <1>2, <1>3, <2>2, Constants DEF p, r
<1>8. CASE ~(r - p <= Behind)
  <2>1. r = FileLength + 1 /\ r - p = Behind + 1
    <3>1. ASSUME NEW x \in Nat, NEW y \in Nat, NEW o \in Nat,
                 x + Lifetime >= o, y <= o + 1, ~(y - x <= Behind)
          PROVE  y = o + 1 /\ y - x = Behind + 1
      BY <3>1, Constants DEF Behind
    <3>2. r = offset + 1 /\ r - p = Behind + 1
      BY <1>2, <1>3, <1>8, <3>1
    <3> QED BY <1>3, <1>6, <3>2
  <2>2. r % SeqMod = 0
    <3> DEFINE a == FileLength % SeqMod
               b == (FileLength + 1) % SeqMod
    <3>1. FileLength + 1 \in Nat
      BY Constants
    <3>2. b = a + 1 \/ b = a + 1 - SeqMod
      BY ModNext, Constants
    <3>3. a = SeqMod - 1 /\ b \in 0 .. SeqMod - 1
      BY <1>4, <2>1, <3>1, ModRange DEF SeqNums
    <3>4. b = r % SeqMod
      BY <2>1
    <3> HIDE DEF a, b
    <3> QED BY <3>2, <3>3, <3>4, Constants
  <2>3. p % SeqMod \in 0 .. SeqMod - 1 /\ p % SeqMod > MAX_WINDOW_SIZE
    <3> DEFINE a == p % SeqMod
               b == r % SeqMod
    <3>1. p <= r /\ r - p < SeqMod /\ r - p = SeqMod - MAX_WINDOW_SIZE - 1
      BY <1>2, <1>3, <2>1, Constants DEF Behind
    <3>2. b = a + (r - p) \/ b = a + (r - p) - SeqMod
      BY <1>2, <1>3, <3>1, ModDiff
    <3>3. a \in 0 .. SeqMod - 1
      BY <1>2, ModRange DEF SeqNums
    <3> HIDE DEF a, b
    <3>4. b = 0
      BY <2>2 DEF b
    <3>5. a > MAX_WINDOW_SIZE
      BY <3>1, <3>2, <3>3, <3>4, Constants
    <3> QED BY <3>3, <3>5 DEF a
  <2>4. ~RcvInWindow(p % SeqMod, 0, r_window)
    BY <1>4, <2>3, Constants DEF RcvInWindow, Windows
  <2> QED BY <1>5, <2>2, <2>4
<1> QED BY <1>7, <1>8

(* The pieces of a buffer, after the new packet went in, that the receiver *)
(* may still write: in order, sent, and with the numbers of the file.      *)
Ordered(l) ==
  /\ \A i \in DOMAIN l : /\ l[i].pos >= Len(output)
                         /\ l[i].seqnum = l[i].pos % SeqMod
                         /\ Sent(l[i].pos)
  /\ \A i, j \in DOMAIN l : i < j => l[i].pos < l[j].pos

(* The pieces of a list are in order.                                      *)
Increasing(l) == \A i, j \in DOMAIN l : i < j => l[i].pos < l[j].pos

(* A packet put between the pieces before it and those after it.           *)
LEMMA InsertionIsOrdered ==
  ASSUME NEW l \in Seq(BufferedPackets), Increasing(l),
         NEW p \in BufferedPackets, NEW q \in 1 .. Len(l) + 1,
         \A i \in 1 .. q - 1 : l[i].pos < p.pos,
         q <= Len(l) /\ l[q].seqnum # p.seqnum => l[q].pos > p.pos
  PROVE  /\ InsertedAt(l, p, q) \in Seq(BufferedPackets)
         /\ Len(InsertedAt(l, p, q)) >= 1
         /\ Increasing(InsertedAt(l, p, q))
         /\ \A i \in DOMAIN InsertedAt(l, p, q) :
              \/ InsertedAt(l, p, q)[i] = p
              \/ \E j \in DOMAIN l : InsertedAt(l, p, q)[i] = l[j]
<1> DEFINE e == InsertedAt(l, p, q)
<1>0. p.pos \in Nat
  BY Constants DEF BufferedPackets, Pieces
<1>1. /\ Len(l) \in Nat /\ DOMAIN l = 1 .. Len(l)
      /\ \A i \in DOMAIN l : l[i] \in BufferedPackets /\ l[i].pos \in Nat
      /\ p.pos \in Nat
  BY <1>0, BufferTypes
<1>2. CASE q <= Len(l) /\ l[q].seqnum = p.seqnum
  <2>1. e = l
    BY <1>2 DEF InsertedAt
  <2> QED BY <1>1, <1>2, <2>1
<1>3. CASE ~(q <= Len(l) /\ l[q].seqnum = p.seqnum)
  <2>1. e = [i \in 1 .. Len(l) + 1 |->
               IF i < q THEN l[i] ELSE IF i = q THEN p ELSE l[i - 1]]
    BY <1>3 DEF InsertedAt
  <2>2. \A i \in q .. Len(l) : l[i].pos > p.pos
    <3> SUFFICES ASSUME NEW i \in q .. Len(l)
                 PROVE  l[i].pos > p.pos
      OBVIOUS
    <3>1. q \in DOMAIN l /\ i \in DOMAIN l
      BY <1>1
    <3>2. l[q].pos > p.pos
      BY <1>1, <1>3, <3>1
    <3>3. l[q].pos <= l[i].pos
      BY <1>1, <3>1 DEF Increasing
    <3> QED BY <1>1, <3>1, <3>2, <3>3
  <2>3. \A i \in 1 .. Len(l) + 1 :
          \/ i < q /\ i \in DOMAIN l /\ e[i] = l[i]
          \/ i = q /\ e[i] = p
          \/ i > q /\ i - 1 \in DOMAIN l /\ e[i] = l[i - 1]
    BY <1>1, <2>1
  <2>4. /\ e \in Seq(BufferedPackets)
        /\ Len(e) = Len(l) + 1
        /\ DOMAIN e = 1 .. Len(l) + 1
    BY <1>1, <2>1, <2>3
  <2> HIDE DEF e
  <2>5. \A i \in DOMAIN e : e[i] = p \/ \E j \in DOMAIN l : e[i] = l[j]
    BY <2>3, <2>4
  <2>6. ASSUME NEW i \in DOMAIN e, NEW j \in DOMAIN e, i < j
        PROVE  e[i].pos < e[j].pos
    <3>1. i \in 1 .. Len(l) + 1 /\ j \in 1 .. Len(l) + 1
      BY <2>4
    <3>2. CASE i < q /\ j < q
      BY <1>1, <2>3, <2>6, <3>1, <3>2 DEF Increasing
    <3>3. CASE i < q /\ j = q
      BY <1>1, <2>3, <3>1, <3>3
    <3>4. CASE i < q /\ j > q
      <4>1. /\ e[i] = l[i] /\ e[j] = l[j - 1]
            /\ i \in DOMAIN l /\ j - 1 \in DOMAIN l /\ i < j - 1
        BY <1>1, <2>3, <3>1, <3>4
      <4> QED BY <4>1 DEF Increasing
    <3>5. CASE i = q /\ j > q
      <4>1. e[i] = p
        BY <1>1, <2>3, <3>1, <3>5
      <4>2. e[j] = l[j - 1] /\ j - 1 \in DOMAIN l
        BY <1>1, <2>3, <3>1, <3>5
      <4>3. j - 1 \in q .. Len(l)
        BY <1>1, <3>1, <3>5
      <4> QED BY <4>1, <4>2, <4>3, <2>2, <1>1
    <3>6. CASE i > q /\ j > q
      <4>1. /\ e[i] = l[i - 1] /\ e[j] = l[j - 1]
            /\ i - 1 \in DOMAIN l /\ j - 1 \in DOMAIN l
            /\ i - 1 < j - 1
        BY <1>1, <2>3, <2>6, <3>1, <3>6
      <4> QED BY <4>1 DEF Increasing
    <3> QED BY <2>6, <3>1, <3>2, <3>3, <3>4, <3>5, <3>6
  <2> QED BY <1>1, <2>4, <2>5, <2>6 DEF Increasing, e
<1> QED BY <1>2, <1>3

(* add_specific_queue puts a packet of the window at its place.            *)
LEMMA InsertionKeepsOrder ==
  ASSUME Inv, NEW p \in BufferedPackets,
         p.pos \in Len(output) .. Len(output) + MAX_WINDOW_SIZE,
         p.seqnum = p.pos % SeqMod, Sent(p.pos),
         NEW q \in 1 .. Len(rlist) + 1, GoesTo(rlist, p, q)
  PROVE  /\ InsertedAt(rlist, p, q) \in Seq(BufferedPackets)
         /\ Len(InsertedAt(rlist, p, q)) >= 1
         /\ Ordered(InsertedAt(rlist, p, q))
<1> DEFINE l == InsertedAt(rlist, p, q)
<1>1. /\ rlist \in Seq(BufferedPackets)
      /\ Len(rlist) \in Nat /\ DOMAIN rlist = 1 .. Len(rlist)
      /\ \A i \in DOMAIN rlist : /\ rlist[i] \in BufferedPackets
                                 /\ rlist[i].pos \in Nat
  BY BufferTypes DEF Inv, TypeOK
<1>2. Ordered(rlist) /\ Increasing(rlist)
  BY DEF Inv, IInv, ReceiverInv, Ordered, Increasing
<1>3. Len(output) \in Nat
  BY Positions
<1>4. \A i \in DOMAIN rlist :
        /\ rlist[i].pos >= Len(output)
        /\ rlist[i].pos <= Len(output) + MAX_WINDOW_SIZE
  BY <1>1, <1>2, Positions DEF Ordered
<1>5. p.pos \in Nat
  BY <1>3, Constants
<1>6. \A i \in DOMAIN rlist :
        Precedes(rlist[i].seqnum, p.seqnum) <=> rlist[i].pos < p.pos
  <2> SUFFICES ASSUME NEW i \in DOMAIN rlist
               PROVE  Precedes(rlist[i].seqnum, p.seqnum)
                        <=> rlist[i].pos < p.pos
    OBVIOUS
  <2>1. rlist[i].pos \in Nat /\ rlist[i].seqnum = rlist[i].pos % SeqMod
    BY <1>1, <1>2 DEF Ordered
  <2>2. /\ rlist[i].pos - p.pos <= MAX_WINDOW_SIZE
        /\ p.pos - rlist[i].pos <= MAX_WINDOW_SIZE
    BY <1>1, <1>3, <1>4, <1>5, Constants
  <2> QED BY <1>5, <2>1, <2>2, PrecedesMod
<1>7. \A i \in 1 .. q - 1 : rlist[i].pos < p.pos
  BY <1>1, <1>6 DEF GoesTo
<1>8. q <= Len(rlist) /\ rlist[q].seqnum # p.seqnum => rlist[q].pos > p.pos
  <2> SUFFICES ASSUME q <= Len(rlist), rlist[q].seqnum # p.seqnum
               PROVE  rlist[q].pos > p.pos
    OBVIOUS
  <2>1. q \in DOMAIN rlist /\ ~Precedes(rlist[q].seqnum, p.seqnum)
    BY <1>1 DEF GoesTo
  <2>2. ~(rlist[q].pos < p.pos) /\ rlist[q].pos # p.pos
    BY <1>2, <1>6, <2>1 DEF Ordered
  <2> QED BY <1>1, <1>5, <2>1, <2>2
<1>9. /\ l \in Seq(BufferedPackets) /\ Len(l) >= 1 /\ Increasing(l)
      /\ \A i \in DOMAIN l : l[i] = p \/ \E j \in DOMAIN rlist : l[i] = rlist[j]
  BY <1>1, <1>2, <1>7, <1>8, InsertionIsOrdered
<1> HIDE DEF l
<1>10. ASSUME NEW i \in DOMAIN l
       PROVE  /\ l[i].pos >= Len(output)
              /\ l[i].seqnum = l[i].pos % SeqMod
              /\ Sent(l[i].pos)
  <2>1. CASE l[i] = p
    BY <2>1, <1>3, Constants
  <2>2. CASE \E j \in DOMAIN rlist : l[i] = rlist[j]
    BY <2>2, <1>2 DEF Ordered
  <2> QED BY <2>1, <2>2, <1>9
<1> QED BY <1>9, <1>10 DEF Ordered, Increasing, l

(* The packets that are in sequence are the next pieces of the file.       *)
LEMMA InSequenceMeansNext ==
  ASSUME Inv, NEW l \in Seq(BufferedPackets), Ordered(l),
         NEW k \in 0 .. Len(l), InSequence(l, k)
  PROVE  \A i \in 1 .. k : l[i].pos = Len(output) + i - 1
<1> DEFINE Wrong == {i \in 1 .. k : l[i].pos # Len(output) + i - 1}
<1>1. Wrong \in SUBSET Nat /\ Wrong \subseteq 1 .. k
  OBVIOUS
<1>2. /\ DOMAIN l = 1 .. Len(l) /\ Len(l) \in Nat /\ Len(output) \in Nat
      /\ \A i \in DOMAIN l : l[i].pos \in Nat
  BY BufferTypes, Positions
<1>3. ASSUME NEW i \in Wrong, \A j \in Wrong : i <= j
      PROVE  FALSE
  <2>1. /\ i \in 1 .. k /\ i \in DOMAIN l /\ i \in Nat
        /\ l[i].pos # Len(output) + i - 1
    BY <1>1, <1>2
  <2>2. l[i].pos >= Len(output) + i - 1
    <3>1. CASE i = 1
      BY <1>2, <2>1, <3>1 DEF Ordered
    <3>2. CASE i # 1
      <4>1. i - 1 \in 1 .. k /\ i - 1 \in DOMAIN l /\ i - 1 \notin Wrong
        BY <1>1, <1>2, <1>3, <2>1, <3>2
      <4>2. l[i - 1].pos = Len(output) + (i - 1) - 1
        BY <4>1
      <4>3. l[i - 1].pos < l[i].pos
        BY <2>1, <4>1 DEF Ordered
      <4> QED BY <1>2, <2>1, <4>1, <4>2, <4>3
    <3> QED BY <3>1, <3>2
  <2>3. l[i].pos <= Len(output) + MAX_WINDOW_SIZE
    BY <1>2, <2>1, Positions DEF Ordered
  <2>4. l[i].pos % SeqMod = (Len(output) + i - 1) % SeqMod
    <3> DEFINE r == Len(output)
               e == i - 1
    <3>1. r \in Nat /\ e \in Nat
      BY <1>2, <2>1
    <3>2. waited_seqnum = r % SeqMod
      BY DEF Inv, IInv, ReceiverInv
    <3>3. l[i].seqnum = (waited_seqnum + i - 1) % SeqMod
      BY <2>1 DEF InSequence
    <3>4. waited_seqnum \in Int
      BY Constants DEF Inv, TypeOK, SeqNums
    <3>5. waited_seqnum + i - 1 = waited_seqnum + e /\ r + i - 1 = r + e
      BY <2>1, <3>1, <3>4
    <3>6. ((r % SeqMod) + e) % SeqMod = (r + e) % SeqMod
      BY <3>1, ModPlus
    <3>7. l[i].seqnum = l[i].pos % SeqMod
      BY <2>1 DEF Ordered
    <3> HIDE DEF r, e
    <3>8. l[i].pos % SeqMod = (r + e) % SeqMod
      BY <3>2, <3>3, <3>5, <3>6, <3>7
    <3>9. (r + i - 1) % SeqMod = (r + e) % SeqMod
      BY <3>5
    <3> QED BY <3>8, <3>9 DEF r
  <2>5. l[i].pos = Len(output) + i - 1
    <3> DEFINE x == l[i].pos
               y == Len(output) + i - 1
    <3>1. x \in Nat /\ y \in Nat /\ x - y < SeqMod /\ y - x < SeqMod
      BY <1>2, <2>1, <2>2, <2>3, Constants
    <3>2. x % SeqMod = y % SeqMod
      BY <2>4
    <3> HIDE DEF x, y
    <3>3. x = y
      BY <3>1, <3>2, SameNumber
    <3> QED BY <3>3 DEF x, y
  <2> QED BY <2>1, <2>5
<1>4. Wrong = {}
  BY <1>1, <1>3, LeastNumber
<1> QED BY <1>4

(* The window grows by what was written and stays a window.                *)
LEMMA WindowAddIsWindow ==
  ASSUME Inv, NEW n \in Nat
  PROVE  WindowAdd(n) \in Windows
<1>1. r_window \in Windows
  BY DEF Inv, TypeOK
<1> QED BY <1>1, Constants DEF WindowAdd, Windows

(* What write_in_sequence appends to the output file.                      *)
LEMMA WrittenIsAppended ==
  ASSUME output \in Seq(Pieces \cup {Torn}),
         NEW l \in Seq(BufferedPackets), NEW k \in 0 .. Len(l),
         NEW torn \in ShortOnes(l, k),
         output' = output \o
           [i \in 1 .. k |-> IF i \in torn THEN Torn ELSE l[i].pos]
  PROVE  /\ output' \in Seq(Pieces \cup {Torn})
         /\ Len(output') = Len(output) + k
         /\ \A i \in 1 .. Len(output) : output'[i] = output[i]
         /\ \A i \in 1 .. k :
              \/ output'[Len(output) + i] = l[i].pos
              \/ ShortWrites /\ output'[Len(output) + i] = Torn
<1> DEFINE w == [i \in 1 .. k |-> IF i \in torn THEN Torn ELSE l[i].pos]
           r == Len(output)
           S == Pieces \cup {Torn}
<1>1. r \in Nat /\ Len(l) \in Nat /\ k \in Nat
  BY BufferTypes
<1>2. \A i \in 1 .. k : l[i].pos \in Pieces
  <2>1. \A i \in 1 .. k : i \in DOMAIN l /\ l[i] \in BufferedPackets
    BY <1>1, BufferTypes
  <2>2. \A p \in BufferedPackets : p.pos \in Pieces
    BY DEF BufferedPackets
  <2> QED BY <2>1, <2>2
<1>3. \A i \in 1 .. k : i \in torn => ShortWrites
  BY DEF ShortOnes
<1>4. \A i \in 1 .. k : w[i] = l[i].pos \/ (ShortWrites /\ w[i] = Torn)
  BY <1>3
<1>5. w \in Seq(S) /\ Len(w) = k
  <2>1. w \in [1 .. k -> S]
    BY <1>2
  <2> HIDE DEF w, S
  <2> QED BY <1>1, <2>1, FunctionIsSequence
<1> HIDE DEF w
<1>6. output' = output \o w
  BY DEF w
<1> HIDE DEF S
<1>7. /\ output \o w \in Seq(S)
      /\ Len(output \o w) = Len(output) + Len(w)
      /\ \A i \in 1 .. Len(output) + Len(w) : (output \o w)[i] =
           IF i <= Len(output) THEN output[i] ELSE w[i - Len(output)]
  <2>1. output \in Seq(S)
    BY DEF S
  <2> QED BY <1>5, <2>1, ConcatProperties
<1>8. \A i \in 1 .. r + k :
        output'[i] = IF i <= r THEN output[i] ELSE w[i - r]
  BY <1>5, <1>6, <1>7
<1> HIDE DEF r
<1>9. ASSUME NEW i \in 1 .. r
      PROVE  output'[i] = output[i]
  <2>1. i \in 1 .. r + k /\ i <= r
    BY <1>1
  <2> QED BY <1>8, <2>1
<1>10. ASSUME NEW i \in 1 .. k
       PROVE  output'[r + i] = w[i]
  <2>1. r + i \in 1 .. r + k /\ ~(r + i <= r) /\ (r + i) - r = i
    BY <1>1
  <2> QED BY <1>8, <2>1
<1> QED BY <1>4, <1>5, <1>6, <1>7, <1>9, <1>10 DEF S, r

(* It continues the file.                                                  *)
LEMMA WrittenContinues ==
  ASSUME Inv, NEW l \in Seq(BufferedPackets), NEW k \in 0 .. Len(l),
         \A i \in 1 .. k : l[i].pos = Len(output) + i - 1,
         NEW torn \in ShortOnes(l, k),
         output' = output \o
           [i \in 1 .. k |-> IF i \in torn THEN Torn ELSE l[i].pos]
  PROVE  /\ output' \in Seq(Pieces \cup {Torn})
         /\ Len(output') = Len(output) + k
         /\ FileIsPrefix'
<1> DEFINE r == Len(output)
<1>1. /\ output \in Seq(Pieces \cup {Torn}) /\ r \in Nat
      /\ Len(l) \in Nat /\ k \in Nat
      /\ FileIsPrefix
  BY BufferTypes DEF Inv, TypeOK, IInv, ReceiverInv
<1>2. /\ output' \in Seq(Pieces \cup {Torn})
      /\ Len(output') = r + k
      /\ \A i \in 1 .. r : output'[i] = output[i]
      /\ \A i \in 1 .. k : \/ output'[r + i] = l[i].pos
                           \/ ShortWrites /\ output'[r + i] = Torn
  BY <1>1, WrittenIsAppended
<1>3. FileIsPrefix'
  <2> SUFFICES ASSUME NEW i \in 1 .. r + k
               PROVE  output'[i] = i - 1 \/ (ShortWrites /\ output'[i] = Torn)
    <3>1. DOMAIN output' = 1 .. r + k
      BY <1>1, <1>2
    <3> QED BY <3>1 DEF FileIsPrefix
  <2>1. CASE i <= r
    <3>1. output'[i] = output[i] /\ i \in DOMAIN output
      BY <1>1, <1>2, <2>1
    <3> QED BY <3>1, <1>1 DEF FileIsPrefix
  <2>2. CASE ~(i <= r)
    <3> DEFINE j == i - r
    <3>1. j \in 1 .. k /\ r + j = i /\ r + j - 1 = i - 1
      BY <1>1, <2>2
    <3> HIDE DEF j
    <3>2. l[j].pos = r + j - 1
      BY <3>1
    <3>3. \/ output'[r + j] = l[j].pos
          \/ ShortWrites /\ output'[r + j] = Torn
      BY <1>2, <3>1
    <3> QED BY <3>1, <3>2, <3>3
  <2> QED BY <2>1, <2>2
<1> QED BY <1>2, <1>3

(* The last piece written is not the end of the file, or the receiver      *)
(* stops, unless the number of the end of the file is the last one.        *)
LEMMA EndOfFileWritten ==
  ASSUME NEW l \in Seq(BufferedPackets), Increasing(l),
         NEW k \in 1 .. Len(l), NEW n \in Nat,
         l[k].pos = FileLength, l[k].seqnum = n % SeqMod,
         waited_seqnum' = (n + 1) % SeqMod,
         ~EofWritten(l, k)
  PROVE  n % SeqMod = SeqMod - 1
<1>1. /\ DOMAIN l = 1 .. Len(l) /\ Len(l) \in Nat
      /\ \A i \in DOMAIN l : l[i].pos \in Nat /\ l[i].pos <= FileLength
  BY BufferTypes
<1>2. k = Len(l)
  <2>1. k \in Nat /\ k <= Len(l) /\ Len(l) \in Nat
    BY <1>1
  <2>2. ASSUME k < Len(l)
        PROVE  FALSE
    <3>1. k \in DOMAIN l /\ k + 1 \in DOMAIN l /\ k < k + 1
      BY <1>1, <2>1, <2>2
    <3>2. l[k].pos < l[k + 1].pos
      BY <3>1 DEF Increasing
    <3> QED BY <1>1, <3>1, <3>2, Constants
  <2> QED BY <2>1, <2>2
<1>3. l[k].seqnum # waited_seqnum' - 1
  BY <1>1, <1>2 DEF EofWritten, EmptyPiece
<1> DEFINE a == n % SeqMod
           b == (n + 1) % SeqMod
<1>4. n + 1 \in Nat
  OBVIOUS
<1>5. a \in 0 .. SeqMod - 1 /\ b \in 0 .. SeqMod - 1
  BY <1>4, ModRange DEF SeqNums
<1>6. b = a + 1 \/ b = a + 1 - SeqMod
  BY ModNext
<1>7. a # b - 1
  BY <1>3
<1> HIDE DEF a, b
<1>8. a = SeqMod - 1
  BY <1>5, <1>6, <1>7, Constants
<1> QED BY <1>8 DEF a

(* write_in_sequence.                                                      *)
LEMMA WriteStep ==
  ASSUME Inv, UNCHANGED sndVars, fwd' \subseteq fwd, rstate = "run",
         NEW l \in Seq(BufferedPackets), Ordered(l),
         Len(output) <= FileLength,
         WriteInSequence(l)
  PROVE  Inv'
<1> DEFINE r == Len(output)
<1>1. PICK k \in 0 .. Len(l), failed \in BOOLEAN :
        /\ InSequence(l, k)
        /\ waited_seqnum' = Advanced(k, failed)
        /\ rlist' = SubSeq(l, k + 1, Len(l))
        /\ \E torn \in ShortOnes(l, k) :
             output' = output \o
               [i \in 1 .. k |-> IF i \in torn THEN Torn ELSE l[i].pos]
        /\ LET acked == IF EofWritten(l, k) THEN k - 1 ELSE k IN
           /\ r_window' = WindowAdd(acked)
           /\ rev' \in RevAfter(rev, AcksOf(acked))
        /\ rstate' = IF EofWritten(l, k) THEN "eof" ELSE rstate
  BY DEF WriteInSequence
<1>2. /\ DOMAIN l = 1 .. Len(l) /\ Len(l) \in Nat /\ k \in Nat
      /\ \A i \in DOMAIN l : l[i].pos \in Nat /\ l[i].pos <= FileLength
      /\ r \in Nat
  BY BufferTypes, Positions
<1>3. \A i \in 1 .. k : l[i].pos = r + i - 1
  BY <1>1, InSequenceMeansNext
<1>4. /\ output' \in Seq(Pieces \cup {Torn})
      /\ Len(output') = r + k
      /\ FileIsPrefix'
  <2>1. PICK torn \in ShortOnes(l, k) :
          output' = output \o
            [i \in 1 .. k |-> IF i \in torn THEN Torn ELSE l[i].pos]
    BY <1>1
  <2> QED BY <1>3, <2>1, WrittenContinues
<1>5. /\ waited_seqnum = r % SeqMod
      /\ waited_seqnum' = (r + k) % SeqMod
  BY <1>1, <1>2, ModPlus DEF Inv, IInv, ReceiverInv, Advanced
<1>6. k > 0 => /\ k \in DOMAIN l /\ l[k].pos = r + k - 1
               /\ Sent(r + k - 1) /\ r + k - 1 <= FileLength
  <2> SUFFICES ASSUME k > 0
               PROVE  /\ k \in DOMAIN l /\ l[k].pos = r + k - 1
                      /\ Sent(r + k - 1) /\ r + k - 1 <= FileLength
    OBVIOUS
  <2>1. k \in DOMAIN l /\ l[k].pos = r + k - 1
    BY <1>2, <1>3
  <2>2. Sent(l[k].pos) /\ l[k].pos <= FileLength
    BY <1>2, <2>1 DEF Ordered
  <2> QED BY <2>1, <2>2
<1>7. r + k <= offset \/ (sstate = "done" /\ r + k <= FileLength + 1)
  <2>1. CASE k = 0
    BY <1>2, <2>1 DEF Inv, IInv, PositionInv
  <2>2. CASE k > 0
    BY <1>2, <1>6, <2>2, Positions, Constants DEF Sent, EmptyPiece
  <2> QED BY <1>2, <2>1, <2>2
<1>8. /\ rlist' \in Seq(BufferedPackets)
      /\ DOMAIN rlist' = 1 .. Len(l) - k
      /\ \A i \in 1 .. Len(l) - k : rlist'[i] = l[k + i] /\ k + i \in DOMAIN l
  BY <1>1, <1>2, WithoutFirst
<1>9. ASSUME NEW i \in DOMAIN rlist'
      PROVE  /\ rlist'[i].pos >= r + k
             /\ rlist'[i].seqnum = rlist'[i].pos % SeqMod
             /\ Sent(rlist'[i].pos)
  <2>1. i \in 1 .. Len(l) - k /\ rlist'[i] = l[k + i] /\ k + i \in DOMAIN l
    BY <1>8
  <2>2. l[k + i].pos >= r + k
    <3>1. CASE k = 0
      BY <1>2, <2>1, <3>1 DEF Ordered
    <3>2. CASE k > 0
      <4>1. l[k].pos < l[k + i].pos
        <5>1. k \in DOMAIN l /\ k + i \in DOMAIN l /\ k < k + i
          BY <1>2, <1>6, <2>1, <3>2
        <5> QED BY <5>1 DEF Ordered
      <4> QED BY <1>2, <1>6, <2>1, <3>2, <4>1
    <3> QED BY <1>2, <3>1, <3>2
  <2>3. l[k + i].seqnum = l[k + i].pos % SeqMod /\ Sent(l[k + i].pos)
    BY <2>1 DEF Ordered
  <2> QED BY <2>1, <2>2, <2>3
<1>10. ASSUME NEW i \in DOMAIN rlist', NEW j \in DOMAIN rlist', i < j
       PROVE  rlist'[i].pos < rlist'[j].pos
  <2>1. /\ rlist'[i] = l[k + i] /\ k + i \in DOMAIN l
        /\ rlist'[j] = l[k + j] /\ k + j \in DOMAIN l
        /\ k + i < k + j
    BY <1>2, <1>8, <1>10
  <2> QED BY <2>1 DEF Ordered
<1>11. rstate' \in {"run", "eof"} /\ (rstate' = "eof" <=> EofWritten(l, k))
  BY <1>1
<1>12. rstate' = "eof" => r + k = FileLength + 1
  <2>1. EofWritten(l, k) => k > 0 /\ l[k].pos = FileLength
    BY DEF EofWritten, EmptyPiece
  <2> QED BY <1>2, <1>6, <1>11, <2>1, Constants
<1>13. r + k = FileLength + 1 /\ rstate' \in {"wait", "run"} =>
         FileLength % SeqMod = SeqMod - 1
  <2> SUFFICES ASSUME r + k = FileLength + 1, rstate' \in {"wait", "run"}
               PROVE  FileLength % SeqMod = SeqMod - 1
    OBVIOUS
  <2>1. k \in 1 .. Len(l)
    BY <1>2, Constants
  <2>2. l[k].pos = FileLength
    BY <1>2, <1>6, <2>1, Constants
  <2>3. waited_seqnum' = (FileLength + 1) % SeqMod
    BY <1>5
  <2>4. ~EofWritten(l, k)
    BY <1>11
  <2>5. l[k].seqnum = FileLength % SeqMod /\ Increasing(l)
    BY <1>2, <2>1, <2>2 DEF Ordered, Increasing
  <2>6. FileLength \in Nat
    BY Constants
  <2> QED BY <2>1, <2>2, <2>3, <2>4, <2>5, <2>6, EndOfFileWritten
<1>14. PICK acked \in 0 .. k :
         r_window' = WindowAdd(acked) /\ rev' \in RevAfter(rev, AcksOf(acked))
  <2>1. CASE EofWritten(l, k)
    <3>1. k - 1 \in 0 .. k
      BY <1>2, <2>1 DEF EofWritten
    <3> QED BY <1>1, <2>1, <3>1
  <2>2. CASE ~EofWritten(l, k)
    BY <1>1, <1>2, <2>2
  <2> QED BY <2>1, <2>2
<1>15. r_window' \in Windows
  BY <1>2, <1>14, WindowAddIsWindow
<1>16. ASSUME NEW m \in rev'
       PROVE  m \in rev \/
                (m \in AckPackets /\ (m.type = "ACK" =>
                                        /\ m.seqnum = m.pos % SeqMod
                                        /\ m.pos + Lifetime >= offset
                                        /\ m.pos <= Len(output')))
  <2> SUFFICES ASSUME m \in AcksOf(acked)
               PROVE  /\ m \in AckPackets
                      /\ m.seqnum = m.pos % SeqMod
                      /\ m.pos + Lifetime >= offset
                      /\ m.pos <= r + k
    BY <1>4, <1>14, CarrySubset DEF RevAfter
  <2>1. PICK i \in 1 .. acked :
          m = Ack("ACK", (waited_seqnum + i) % SeqMod, WindowAdd(i), r + i)
    BY DEF AcksOf
  <2>2. i \in Nat /\ r + i \in Nat /\ i <= k
    BY <1>2, <2>1
  <2>3. (waited_seqnum + i) % SeqMod = (r + i) % SeqMod
    BY <1>2, <1>5, <2>2, ModPlus
  <2>4. WindowAdd(i) \in Windows
    BY <2>2, WindowAddIsWindow
  <2>5. (r + i) % SeqMod \in SeqNums
    BY <2>2, ModRange
  <2>6. /\ m.type = "ACK" /\ m.seqnum = (r + i) % SeqMod
        /\ m.window = WindowAdd(i) /\ m.pos = r + i
    BY <2>1, <2>3 DEF Ack
  <2>7. r + i <= FileLength + 1
    BY <1>2, <1>6, <2>2, Constants
  <2>8. m \in AckPackets
    BY <2>1, <2>2, <2>3, <2>4, <2>5, <2>7, Constants DEF Ack, AckPackets
  <2>9. m.pos + Lifetime >= offset
    <3>1. offset \in Nat /\ offset <= r + MAX_WINDOW_SIZE
      BY Positions
    <3> HIDE DEF r
    <3> QED BY <1>2, <2>2, <2>6, <3>1, Constants
  <2>10. m.pos <= r + k /\ m.seqnum = m.pos % SeqMod
    BY <1>2, <2>2, <2>6
  <2> QED BY <2>8, <2>9, <2>10
<1>17. Len(output) <= Len(output')
  BY <1>2, <1>4
<1>18. \A i \in DOMAIN rlist' : /\ rlist'[i].pos >= Len(output')
                                /\ rlist'[i].seqnum = rlist'[i].pos % SeqMod
                                /\ Sent(rlist'[i].pos)
  BY <1>4, <1>9
<1> HIDE DEF r
<1> QED
  BY <1>4, <1>5, <1>7, <1>8, <1>10, <1>11, <1>12, <1>13, <1>15, <1>16, <1>17,
     <1>18, ReceiverStep

(* What the invariant says of the receiver, for ReceiverStep.              *)
LEMMA ReceiverFacts ==
  ASSUME Inv
  PROVE  /\ r_window \in Windows
         /\ rlist \in Seq(BufferedPackets)
         /\ output \in Seq(Pieces \cup {Torn}) /\ Len(output) \in Nat
         /\ rstate \in {"wait", "run", "eof", "timeout", "noclient", "error"}
         /\ waited_seqnum = Len(output) % SeqMod
         /\ waited_seqnum \in SeqNums
         /\ FileIsPrefix
         /\ Ordered(rlist)
         /\ rstate = "eof" => Len(output) = FileLength + 1
         /\ Len(output) = FileLength + 1 /\ rstate \in {"wait", "run"} =>
              FileLength % SeqMod = SeqMod - 1
         /\ Len(output) <= offset
              \/ (sstate = "done" /\ Len(output) <= FileLength + 1)
<1>1. TypeOK /\ ReceiverInv /\ PositionInv
  BY DEF Inv, IInv
<1>2. Len(output) \in Nat
  BY Positions
<1> QED BY <1>1, <1>2 DEF TypeOK, ReceiverInv, PositionInv, Ordered

(* A step that writes nothing and keeps the buffer or replaces it by l,    *)
(* and that sends only acknowledgements of what is written.                *)
LEMMA NothingWritten ==
  ASSUME Inv, UNCHANGED sndVars, fwd' \subseteq fwd,
         UNCHANGED <<waited_seqnum, output>>,
         r_window' \in Windows,
         rlist' \in Seq(BufferedPackets), Ordered(rlist'),
         rstate' \in {"wait", "run", "eof", "timeout", "noclient", "error"},
         rstate' = "eof" => Len(output) = FileLength + 1,
         rstate' \in {"wait", "run"} => rstate \in {"wait", "run"},
         \A m \in rev' : m \in rev \/
           (m \in AckPackets /\ (m.type = "ACK" => /\ m.seqnum = waited_seqnum
                                                   /\ m.pos = Len(output)))
  PROVE  Inv'
<1>1. /\ Len(output') = Len(output) /\ Len(output) \in Nat /\ offset \in Nat
      /\ offset <= Len(output) + MAX_WINDOW_SIZE
  BY Positions
<1>2. /\ output' \in Seq(Pieces \cup {Torn})
      /\ Len(output) <= Len(output')
      /\ waited_seqnum' = Len(output') % SeqMod
      /\ rstate' = "eof" => Len(output') = FileLength + 1
      /\ Len(output') <= offset
           \/ (sstate = "done" /\ Len(output') <= FileLength + 1)
  BY <1>1, ReceiverFacts
<1>3. FileIsPrefix'
  BY ReceiverFacts DEF FileIsPrefix
<1>4. Len(output') = FileLength + 1 /\ rstate' \in {"wait", "run"} =>
        FileLength % SeqMod = SeqMod - 1
  BY <1>1, ReceiverFacts, Constants
<1>5. /\ \A i \in DOMAIN rlist' : /\ rlist'[i].pos >= Len(output')
                                  /\ rlist'[i].seqnum = rlist'[i].pos % SeqMod
                                  /\ Sent(rlist'[i].pos)
      /\ \A i, j \in DOMAIN rlist' : i < j => rlist'[i].pos < rlist'[j].pos
  BY <1>1 DEF Ordered
<1>6. \A m \in rev' : m \in rev \/
        (m \in AckPackets /\ (m.type = "ACK" =>
                                /\ m.seqnum = m.pos % SeqMod
                                /\ m.pos + Lifetime >= offset
                                /\ m.pos <= Len(output')))
  <2> SUFFICES ASSUME NEW m \in rev', m \in AckPackets, m.type = "ACK",
                      m.seqnum = waited_seqnum, m.pos = Len(output)
               PROVE  /\ m.seqnum = m.pos % SeqMod
                      /\ m.pos + Lifetime >= offset
                      /\ m.pos <= Len(output')
    OBVIOUS
  <2>1. m.seqnum = m.pos % SeqMod
    BY ReceiverFacts
  <2>2. m.pos + Lifetime >= offset /\ m.pos <= Len(output')
    BY <1>1, Constants
  <2> QED BY <2>1, <2>2
<1> QED BY <1>2, <1>3, <1>4, <1>5, <1>6, ReceiverStep

(* wait_for_client, the time out and the errors of the receiver.           *)
LEMMA RcvOtherStep ==
  ASSUME Inv, UNCHANGED sndVars,
         RcvConnect \/ RcvNoClient \/ RcvTimeout \/ RcvError
  PROVE  Inv'
<1>1. /\ UNCHANGED <<waited_seqnum, r_window, output, fwd, rev>>
      /\ rlist' = rlist \/ rlist' = <<>>
      /\ rstate' \in {"run", "noclient", "timeout", "error"}
      /\ rstate' = "run" => rstate = "wait" /\ fwd # {}
  BY DEF RcvConnect, RcvNoClient, RcvTimeout, RcvError
<1>2. rlist' \in Seq(BufferedPackets) /\ Ordered(rlist')
  <2>1. <<>> \in Seq(BufferedPackets) /\ Ordered(<<>>)
    BY DEF Ordered
  <2> QED BY <1>1, <2>1, ReceiverFacts
<1>3. rstate \in {"wait", "run"}
  BY DEF RcvConnect, RcvNoClient, RcvTimeout, RcvError
<1> QED BY <1>1, <1>2, <1>3, ReceiverFacts, NothingWritten

(* An acknowledgement of what is waited for is of the right type.          *)
LEMMA AckIsPacket ==
  ASSUME Inv, NEW type \in {"ACK", "NACK", "DATA"}, NEW s \in SeqNums,
         NEW window \in Windows
  PROVE  /\ Ack(type, s, window, Len(output)) \in AckPackets
         /\ Ack(type, s, window, Len(output)).type = type
         /\ Ack(type, s, window, Len(output)).seqnum = s
         /\ Ack(type, s, window, Len(output)).pos = Len(output)
<1>1. Len(output) \in 0 .. FileLength + 1
  BY Positions, Constants
<1> QED BY <1>1 DEF Ack, AckPackets

(* A truncated packet, refused or answered with a NACK.                    *)
LEMMA RcvTruncatedStep ==
  ASSUME Inv, UNCHANGED sndVars, NEW m \in fwd, RcvTruncated(m)
  PROVE  Inv'
<1>1. /\ rstate = "run" /\ fwd' \subseteq fwd
      /\ UNCHANGED <<waited_seqnum, rlist, output, rstate>>
  BY DEF RcvTruncated, Deliver
<1>2. Ordered(rlist') /\ rlist' \in Seq(BufferedPackets)
  BY <1>1, ReceiverFacts
<1>3. WindowDivide \in Windows
  BY ReceiverFacts, Constants DEF WindowDivide, Windows
<1>4. m.seqnum \in SeqNums
  BY DEF Inv, TypeOK, DataPackets
<1>5. CASE UNCHANGED <<r_window, rev>>
  BY <1>1, <1>2, <1>5, ReceiverFacts, NothingWritten
<1>6. CASE /\ r_window' = WindowDivide
           /\ rev' \in RevAfter(rev,
                {Ack("NACK", m.seqnum, WindowDivide, Len(output))})
  <2> DEFINE a == Ack("NACK", m.seqnum, WindowDivide, Len(output))
  <2>1. a \in AckPackets /\ a.type = "NACK"
    BY <1>3, <1>4, AckIsPacket
  <2> HIDE DEF a
  <2>2. rev' \subseteq rev \cup {a}
    BY <1>6, CarrySubset DEF RevAfter, a
  <2> QED BY <1>1, <1>2, <1>3, <1>6, <2>1, <2>2, ReceiverFacts, NothingWritten
<1> QED BY <1>5, <1>6 DEF RcvTruncated

(* A packet in the window: its place in the buffer, then the answer.       *)
LEMMA InsideEffect ==
  ASSUME Inv, NEW m \in fwd, RcvInsideWindow(m)
  PROVE  /\ rstate = "run" /\ fwd' \subseteq fwd
         /\ Len(output) <= FileLength
         /\ \E l \in Seq(BufferedPackets) :
              /\ Ordered(l)
              /\ \/ /\ rlist' = l
                    /\ UNCHANGED <<waited_seqnum, r_window, output, rstate>>
                    /\ rev' \in RevAfter(rev, {WaitedAck})
                 \/ WriteInSequence(l)
<1> DEFINE p == [seqnum |-> m.seqnum, pos |-> m.pos]
<1>1. /\ rstate = "run" /\ fwd' \subseteq fwd
      /\ RcvInWindow(m.seqnum, waited_seqnum, r_window)
  BY DEF RcvInsideWindow, Deliver
<1>2. GoodData(m)
  BY ChannelsAreGood DEF Inv, IInv, TypeOK
<1>3. /\ p \in BufferedPackets /\ p.pos = m.pos
      /\ p.seqnum = p.pos % SeqMod /\ Sent(p.pos)
      /\ m.pos <= FileLength
  BY <1>2, Constants DEF GoodData, DataPackets, BufferedPackets, Pieces
<1>4. m.pos \in Len(output) .. Len(output) + MAX_WINDOW_SIZE
  BY <1>1, AcceptedIsNew
<1>5. p.pos \in Len(output) .. Len(output) + MAX_WINDOW_SIZE
  BY <1>3, <1>4
<1>6. Len(output) <= FileLength
  BY <1>2, <1>3, <1>4, Positions, Constants
  DEF GoodData, DataPackets, Pieces
<1>7. PICK q \in 1 .. Len(rlist) + 1 :
        /\ GoesTo(rlist, p, q)
        /\ LET l == InsertedAt(rlist, p, q) IN
           IF AheadOfWaited(l[1].seqnum, waited_seqnum)
           THEN /\ rlist' = l
                /\ UNCHANGED <<waited_seqnum, r_window, output, rstate>>
                /\ rev' \in RevAfter(rev, {WaitedAck})
           ELSE WriteInSequence(l)
  BY DEF RcvInsideWindow
<1> HIDE DEF p
<1> DEFINE l == InsertedAt(rlist, p, q)
<1>8. l \in Seq(BufferedPackets) /\ Ordered(l)
  BY <1>3, <1>5, <1>7, InsertionKeepsOrder
<1>9. \/ /\ rlist' = l
         /\ UNCHANGED <<waited_seqnum, r_window, output, rstate>>
         /\ rev' \in RevAfter(rev, {WaitedAck})
      \/ WriteInSequence(l)
  BY <1>7
<1> HIDE DEF l
<1> QED BY <1>1, <1>6, <1>8, <1>9

(* A packet in the window.                                                 *)
LEMMA RcvInsideStep ==
  ASSUME Inv, UNCHANGED sndVars, NEW m \in fwd, RcvInsideWindow(m)
  PROVE  Inv'
<1>1. rstate = "run" /\ fwd' \subseteq fwd /\ Len(output) <= FileLength
  BY InsideEffect
<1>2. PICK l \in Seq(BufferedPackets) :
        /\ Ordered(l)
        /\ \/ /\ rlist' = l
              /\ UNCHANGED <<waited_seqnum, r_window, output, rstate>>
              /\ rev' \in RevAfter(rev, {WaitedAck})
           \/ WriteInSequence(l)
  BY InsideEffect
<1>3. CASE /\ rlist' = l
           /\ UNCHANGED <<waited_seqnum, r_window, output, rstate>>
           /\ rev' \in RevAfter(rev, {WaitedAck})
  <2>1. /\ WaitedAck \in AckPackets
        /\ WaitedAck.seqnum = waited_seqnum /\ WaitedAck.pos = Len(output)
    BY ReceiverFacts, AckIsPacket DEF WaitedAck
  <2>2. rev' \subseteq rev \cup {WaitedAck}
    BY <1>3, CarrySubset DEF RevAfter
  <2>3. rlist' \in Seq(BufferedPackets) /\ Ordered(rlist')
    BY <1>2, <1>3
  <2> QED BY <1>1, <1>3, <2>1, <2>2, <2>3, ReceiverFacts, NothingWritten
<1>4. CASE WriteInSequence(l)
  BY <1>1, <1>2, <1>4, WriteStep
<1> QED BY <1>2, <1>3, <1>4

(* A late end-of-file packet would mean that it was written before, when   *)
(* its number is the last one, and then the test does not recognise it.    *)
LEMMA NoLateEof ==
  ASSUME Inv, rstate = "run", NEW m \in fwd
  PROVE  ~LateEof(m)
<1> SUFFICES ASSUME m.seqnum = waited_seqnum - 1, m.pos = EmptyPiece
             PROVE  FALSE
  BY DEF LateEof
<1> DEFINE F == FileLength
           r == Len(output)
           a == F % SeqMod
           b == (F + 1) % SeqMod
<1>1. GoodData(m)
  BY ChannelsAreGood DEF Inv, IInv, TypeOK
<1>2. m.seqnum = a /\ Sent(EmptyPiece)
  BY <1>1 DEF GoodData, EmptyPiece
<1>3. r \in Nat /\ F \in Nat /\ (r = F \/ r = F + 1)
  BY <1>2, Positions, Constants
<1>4. waited_seqnum = r % SeqMod /\ a = waited_seqnum - 1
  BY <1>2, ReceiverFacts
<1>5. a \in 0 .. SeqMod - 1
  BY <1>3, ModRange DEF SeqNums
<1>6. F + 1 \in Nat
  BY <1>3
<1>7. b \in 0 .. SeqMod - 1
  BY <1>6, ModRange DEF SeqNums
<1>8. CASE r = F
  <2>1. waited_seqnum = a
    BY <1>4, <1>8
  <2> HIDE DEF a, F, r
  <2> QED BY <1>4, <1>5, <2>1, Constants
<1>9. CASE r = F + 1
  <2>1. a = SeqMod - 1
    BY <1>9, ReceiverFacts
  <2>2. b = waited_seqnum
    BY <1>4, <1>9
  <2> HIDE DEF a, b, F, r
  <2> QED BY <1>4, <1>7, <2>1, <2>2, Constants
<1> QED BY <1>3, <1>8, <1>9

(* A packet out of the window.                                             *)
LEMMA RcvOutsideStep ==
  ASSUME Inv, UNCHANGED sndVars, NEW m \in fwd, RcvOutsideWindow(m)
  PROVE  Inv'
<1>1. /\ rstate = "run" /\ fwd' \subseteq fwd
      /\ UNCHANGED <<waited_seqnum, r_window, rlist, output>>
  BY DEF RcvOutsideWindow, Deliver
<1>2. rstate' = rstate /\ rev' \in RevAfter(rev, {WaitedAck})
  BY <1>1, NoLateEof DEF RcvOutsideWindow
<1>3. Ordered(rlist') /\ rlist' \in Seq(BufferedPackets)
  BY <1>1, ReceiverFacts
<1>4. /\ WaitedAck \in AckPackets
      /\ WaitedAck.seqnum = waited_seqnum /\ WaitedAck.pos = Len(output)
  BY ReceiverFacts, AckIsPacket DEF WaitedAck
<1>5. rev' \subseteq rev \cup {WaitedAck}
  BY <1>2, CarrySubset DEF RevAfter
<1> QED BY <1>1, <1>2, <1>3, <1>4, <1>5, ReceiverFacts, NothingWritten

-----------------------------------------------------------------------------
(* The invariant and what follows from it.                                 *)

(* Two programs that have just started, with nothing in between, satisfy   *)
(* the invariant.                                                          *)
LEMMA InitInv == Init => Inv
<1> SUFFICES ASSUME Init
             PROVE  Inv
  OBVIOUS
<1> USE Constants DEF Init, LinkInit, SndInit, RcvInit
<1>1. Len(list) = 0 /\ Len(output) = 0 /\ DOMAIN list = {} /\ DOMAIN rlist = {}
  OBVIOUS
<1>2. 0 \in Nat /\ 0 % SeqMod = 0
  OBVIOUS
<1>3. TypeOK
  <2>1. /\ <<>> \in Seq(SentPackets) /\ <<>> \in Seq(BufferedPackets)
        /\ <<>> \in Seq(Pieces \cup {Torn})
    BY EmptySeq
  <2>2. 0 \in SeqNums /\ 1 \in Windows /\ 0 \in 0 .. FileLength
    BY DEF SeqNums, Windows
  <2> QED BY <2>1, <2>2 DEF TypeOK
<1>4. SenderInv
  BY <1>1, <1>2 DEF SenderInv, Base
<1>5. ReceiverInv
  BY <1>1, <1>2 DEF ReceiverInv, FileIsPrefix
<1>6. ChannelInv /\ PositionInv
  BY <1>1 DEF ChannelInv, PositionInv, Base
<1> QED BY <1>3, <1>4, <1>5, <1>6 DEF Inv, IInv

(* Every iteration of either loop keeps it.                                *)
LEMMA NextInv == Inv /\ [Next]_vars => Inv'
<1> SUFFICES ASSUME Inv, [Next]_vars
             PROVE  Inv'
  OBVIOUS
<1>1. CASE AckArrives
  BY <1>1, SndAckStep DEF AckArrives
<1>2. CASE Read
  BY <1>2, SndReadStep DEF Read
<1>3. CASE Idle
  BY <1>3, SndIdleStep DEF Idle
<1>4. CASE SndFails \/ Second
  BY <1>4, SndOtherStep DEF SndFails, Second
<1>5. CASE Connect \/ NoClient \/ Timeout \/ RcvFails
  BY <1>5, RcvOtherStep DEF Connect, NoClient, Timeout, RcvFails
<1>6. CASE Truncated
  BY <1>6, RcvTruncatedStep DEF Truncated
<1>7. CASE Inside
  BY <1>7, RcvInsideStep DEF Inside
<1>8. CASE Outside
  BY <1>8, RcvOutsideStep DEF Outside
<1>9. CASE Ended \/ UNCHANGED vars
  <2>1. UNCHANGED <<fwd, rev, list, seqnum, s_window, seqnum_EOF, offset,
                    sstate, waited_seqnum, r_window, rlist, output, rstate>>
    BY <1>9 DEF Ended, vars, linkVars, sndVars, rcvVars
  <2> QED
    BY <2>1 DEF Inv, IInv, TypeOK, SenderInv, ReceiverInv, ChannelInv,
                PositionInv, FileIsPrefix, Base, Sent
<1> QED BY <1>1, <1>2, <1>3, <1>4, <1>5, <1>6, <1>7, <1>8, <1>9 DEF Next

(* The types and the inductive invariant hold in every reachable state.    *)
THEOREM Invariance == Spec => []Inv
  BY InitInv, NextInv, PTL DEF Spec

(* No iteration of sender.c or receiver.c gives a variable a value of      *)
(* another type: windows stay within 1 .. 31, numbers within a byte.       *)
THEOREM TypeCorrect == Spec => []TypeOK
<1>1. Inv => TypeOK
  BY DEF Inv
<1> QED BY <1>1, Invariance, PTL

(* The inductive invariant of the transfer.                                *)
THEOREM InvariantHolds == Spec => []IInv
<1>1. Inv => IInv
  BY DEF Inv
<1> QED BY <1>1, Invariance, PTL

(* What the receiver writes is the file, however long, in order.           *)
THEOREM OutputIsFile == Spec => []FileIsPrefix
<1>1. Inv => FileIsPrefix
  BY DEF Inv, IInv, ReceiverInv
<1> QED BY <1>1, Invariance, PTL

(* The sender forgets only packets the receiver has written.               *)
THEOREM NothingForgotten == Spec => []OnlyWrittenForgotten
<1>1. Inv => OnlyWrittenForgotten
  BY DEF Inv, IInv, PositionInv, OnlyWrittenForgotten
<1> QED BY <1>1, Invariance, PTL

(* When the sender reports success, the whole file is written.             *)
THEOREM SuccessIsDelivery == Spec => []DoneMeansDelivered
<1>1. Inv => DoneMeansDelivered
  <2> SUFFICES ASSUME Inv, sstate = "done"
               PROVE  list = <<>> /\ Len(output) >= FileLength
    BY DEF DoneMeansDelivered
  <2>1. list = <<>> /\ offset = FileLength
    BY DEF Inv, IInv, SenderInv
  <2>2. Base <= Len(output) /\ Len(list) = 0
    BY <2>1 DEF Inv, IInv, PositionInv
  <2>3. Base = FileLength
    BY <2>1, <2>2, Constants DEF Base
  <2> QED BY <2>1, <2>2, <2>3, Positions, Constants
<1> QED BY <1>1, Invariance, PTL

(* The receiver reports the end of the file only after all of it.          *)
THEOREM EndIsDelivery == Spec => []EofMeansDelivered
<1>1. Inv => EofMeansDelivered
  <2> SUFFICES ASSUME Inv, rstate = "eof"
               PROVE  sstate = "done" /\ Len(output) = FileLength + 1
    BY DEF EofMeansDelivered
  <2>1. Len(output) = FileLength + 1
    BY ReceiverFacts
  <2> QED BY <2>1, ReceiverFacts, Positions, Constants
<1> QED BY <1>1, Invariance, PTL

(* "-10 if EOF received" is true of every file but those of 255 pieces     *)
(* modulo 256: once the end-of-file packet is written, the receiver has    *)
(* left its loop.  For the others last.seqnum == waited_seqnum - 1         *)
(* compares 255 with -1.                                                   *)
THEOREM EofIsTheEnd ==
  ASSUME FileLength % SeqMod # SeqMod - 1
  PROVE  Spec => []EofEndsReceiver
<1>1. Inv => EofEndsReceiver
  BY DEF Inv, IInv, ReceiverInv, EofEndsReceiver
<1> QED BY <1>1, Invariance, PTL

(* No stale datagram is taken for a new one, on either side.               *)
THEOREM StaleIsRefused == Spec => []StaleRefused
<1>1. Inv => StaleRefused
  <2> SUFFICES ASSUME Inv
               PROVE  StaleRefused
    OBVIOUS
  <2>1. ASSUME NEW m \in fwd, rstate = "run",
               RcvInWindow(m.seqnum, waited_seqnum, r_window)
        PROVE  m.pos \in Len(output) .. Len(output) + MAX_WINDOW_SIZE
    BY <2>1, AcceptedIsNew
  <2>2. ASSUME NEW m \in rev, m.type = "ACK", list # <<>>,
               AckCovers(m.seqnum, list[1].seqnum)
        PROVE  m.pos > Base
    <3> DEFINE q == m.pos
    <3>1. /\ q \in Nat /\ q + Lifetime >= offset /\ q <= Len(output)
          /\ m.seqnum = q % SeqMod
      BY <2>2, RevFacts
    <3>2. /\ Len(list) \in Nat /\ Len(list) # 0
          /\ Len(list) <= MAX_WINDOW_SIZE /\ Len(list) <= offset
          /\ list[1].seqnum = list[1].pos % SeqMod /\ list[1].pos = Base
          /\ Len(output) <= offset \/ sstate = "done"
      <4>1. list \in Seq(SentPackets) /\ Base \in Int
        BY Positions DEF Inv, TypeOK, Base
      <4>2. 1 \in DOMAIN list /\ Len(list) \in Nat /\ Len(list) # 0
        BY <2>2, <4>1
      <4> QED BY <4>1, <4>2 DEF Inv, IInv, SenderInv, PositionInv
    <3>3. sstate # "done"
      BY <2>2 DEF Inv, IInv, SenderInv
    <3>4. /\ Base \in Nat /\ Base <= offset /\ offset <= Base + MAX_WINDOW_SIZE
          /\ offset \in Nat
      BY <3>2, Positions, Constants DEF Base
    <3>5. ASSUME NEW x \in Nat, NEW y \in Nat, NEW o \in Nat,
                 x <= o, o <= x + MAX_WINDOW_SIZE, y <= o, o <= y + Lifetime
          PROVE  x - y <= Behind /\ y - x <= MAX_WINDOW_SIZE
      BY <3>5, Constants DEF Behind
    <3>6. AckCovers(q % SeqMod, Base % SeqMod)
      BY <2>2, <3>1, <3>2
    <3> HIDE DEF q
    <3>7. q <= offset
      BY <3>1, <3>2, <3>3, <3>4, Positions
    <3>8. Base - q <= Behind /\ q - Base <= MAX_WINDOW_SIZE
      BY <3>1, <3>4, <3>5, <3>7
    <3>9. q > Base
      BY <3>1, <3>4, <3>6, <3>8, AckCoversMod
    <3> QED BY <3>9 DEF q
  <2> QED BY <2>1, <2>2 DEF StaleRefused
<1> QED BY <1>1, Invariance, PTL

(* The sender stays within one maximal window of the output file.          *)
THEOREM WindowIsBounded == Spec => []WindowBounded
<1>1. Inv => WindowBounded
  BY Positions, Constants DEF WindowBounded
<1> QED BY <1>1, Invariance, PTL

(* The branches for an end-of-file packet in a list, or for a second one,  *)
(* are dead code.                                                          *)
THEOREM EofBranchesDead == Spec => []EofBranchesUnused
<1>1. Inv => EofBranchesUnused
  <2> SUFFICES ASSUME Inv
               PROVE  EofBranchesUnused
    OBVIOUS
  <2>1. \A i \in DOMAIN list : ~IsEmpty(list[i])
    <3>1. /\ list \in Seq(SentPackets) /\ offset \in Nat
          /\ offset <= FileLength /\ Base = offset - Len(list)
          /\ \A i \in DOMAIN list : list[i].pos = Base + i - 1
      BY Constants DEF Inv, IInv, TypeOK, SenderInv, Base
    <3> QED BY <3>1, NoEmptyPacket
  <2> QED BY <2>1, NoLateEof DEF EofBranchesUnused
<1> QED BY <1>1, Invariance, PTL

-----------------------------------------------------------------------------
(* The two programs implement FileTransfer.                                *)

(* An output file without torn pieces is determined by its length.         *)
LEMMA OutputIsPrefix ==
  ASSUME Inv, ~ShortWrites
  PROVE  output = [i \in 1 .. Len(output) |-> i - 1]
<1>1. output \in Seq(Pieces \cup {Torn}) /\ FileIsPrefix
  BY ReceiverFacts
<1>2. \A i \in 1 .. Len(output) : output[i] = i - 1
  BY <1>1 DEF FileIsPrefix
<1> QED BY <1>1, <1>2

(* The sender goes on, or reports success with everything delivered.       *)
LEMMA SenderImplements ==
  ASSUME Inv, Inv', UNCHANGED rcvVars, UNCHANGED offset,
         sstate = "run", sstate' \in {"run", "done"}
  PROVE  [Contract!Next]_(Contract!vars)
<1>1. UNCHANGED <<output, rstate>>
  BY DEF rcvVars
<1>2. CASE sstate' = "run"
  BY <1>1, <1>2 DEF Contract!vars
<1>3. CASE sstate' = "done"
  <2>1. offset = FileLength
    BY <1>3 DEF Inv, IInv, SenderInv
  <2>2. (Sent(EmptyPiece))'
    BY <1>3 DEF Sent, EmptyPiece
  <2>3. Len(output) >= FileLength
    <3>1. list' = <<>> /\ offset' = FileLength
      BY <1>3 DEF Inv, IInv, SenderInv
    <3>2. (offset - Len(list))' <= Len(output') /\ Len(list') = 0
      BY <3>1 DEF Inv, IInv, PositionInv, Base
    <3> QED BY <1>1, <3>1, <3>2, Positions, Constants
  <2>4. Contract!Finish
    BY <1>1, <1>3, <2>1, <2>3 DEF Contract!Finish
  <2> QED BY <2>4 DEF Contract!Next
<1> QED BY <1>2, <1>3

(* The receiver writes pieces the sender has read, or the end of the file. *)
LEMMA ReceiverImplements ==
  ASSUME Inv, Inv', ~ShortWrites, UNCHANGED sndVars,
         rstate = "run", rstate' \in {"run", "eof"},
         output' = output => rstate' = "run",
         Len(output) <= Len(output')
  PROVE  [Contract!Next]_(Contract!vars)
<1>1. UNCHANGED <<offset, sstate, list>>
  BY DEF sndVars
<1>2. /\ Len(output) \in Nat
      /\ output = [i \in 1 .. Len(output) |-> i - 1]
  BY OutputIsPrefix, Positions
<1>3. /\ Len(output') \in Nat
      /\ output' = [i \in 1 .. Len(output') |-> i - 1]
  <2>1. output' \in Seq(Pieces \cup {Torn}) /\ FileIsPrefix'
    BY DEF Inv, TypeOK, IInv, ReceiverInv
  <2>2. Len(output') \in Nat /\ DOMAIN output' = 1 .. Len(output')
    BY <2>1
  <2>3. \A i \in 1 .. Len(output') : output'[i] = i - 1
    BY <2>1, <2>2 DEF FileIsPrefix
  <2> QED BY <2>1, <2>2, <2>3
<1>7. /\ offset \in Nat /\ offset <= FileLength
      /\ Len(output) <= FileLength + 1
      /\ Sent(EmptyPiece) => FileLength <= Len(output)
  BY Positions
<1>8. /\ Len(output') <= offset
           \/ (sstate = "done" /\ Len(output') <= FileLength + 1)
      /\ rstate' = "eof" => Len(output') = FileLength + 1
  BY <1>1 DEF Inv, IInv, PositionInv, ReceiverInv
<1> DEFINE r == Len(output)
           n == Len(output')
<1>9. r \in Nat /\ n \in Nat /\ r <= n
  BY <1>2, <1>3
<1>4. CASE Len(output') = Len(output)
  <2>1. output' = output
    BY <1>2, <1>3, <1>4
  <2> QED BY <1>1, <2>1 DEF Contract!vars
<1>5. CASE Len(output') # Len(output) /\ sstate = "done"
  <2>1. Len(output) = FileLength /\ Len(output') = FileLength + 1
    <3>1. Sent(EmptyPiece)
      BY <1>5 DEF Sent
    <3>2. r # n /\ r >= FileLength
      BY <3>1, <1>5, <1>7, <1>9, Constants
    <3>3. n <= offset \/ n <= FileLength + 1
      BY <1>8
    <3> HIDE DEF r, n
    <3>4. r = FileLength /\ n = FileLength + 1
      BY <1>7, <1>9, <3>2, <3>3, Constants
    <3> QED BY <3>4 DEF r, n
  <2>2. output' = Append(output, FileLength)
    <3>1. output \in Seq(Int) /\ Len(Append(output, FileLength)) = FileLength + 1
      BY <1>2, <2>1, Constants
    <3>2. \A i \in 1 .. FileLength + 1 : Append(output, FileLength)[i] = i - 1
      BY <1>2, <2>1, <3>1, Constants
    <3> QED BY <1>2, <1>3, <2>1, <3>1, <3>2, Constants
  <2>3. Contract!StoreEnd
    BY <1>1, <1>5, <2>1, <2>2 DEF Contract!StoreEnd
  <2> QED BY <2>3 DEF Contract!Next
<1>6. CASE Len(output') # Len(output) /\ sstate # "done"
  <2>1. Len(output') <= offset
    BY <1>6, <1>8
  <2>2. rstate' = "run"
    <3>1. n <= offset /\ (rstate' = "eof" => n = FileLength + 1)
      BY <1>8, <2>1
    <3> HIDE DEF r, n
    <3>2. n # FileLength + 1
      BY <1>7, <1>9, <3>1, Constants
    <3> QED BY <3>1, <3>2
  <2>3. Len(output') \in Len(output) + 1 .. offset
    <3>1. r # n /\ n <= offset
      BY <1>6, <2>1
    <3> HIDE DEF r, n
    <3>2. n \in r + 1 .. offset
      BY <1>7, <1>9, <3>1
    <3> QED BY <3>2 DEF r, n
  <2>4. Contract!Store
    BY <1>1, <1>3, <2>2, <2>3 DEF Contract!Store
  <2> QED BY <2>4 DEF Contract!Next
<1> QED BY <1>4, <1>5, <1>6

(* What the receiver's handlers do to the output file and to its state.    *)
LEMMA DatagramEffect ==
  ASSUME Inv, NEW m \in fwd, RcvDatagram(m)
  PROVE  /\ rstate = "run" /\ rstate' \in {"run", "eof"}
         /\ output' = output => rstate' = "run"
         /\ Len(output) <= Len(output')
<1>1. Len(output) \in Nat
  BY Positions
<1>2. CASE RcvTruncated(m)
  BY <1>1, <1>2 DEF RcvTruncated
<1>3. CASE RcvOutsideWindow(m)
  BY <1>1, <1>3, NoLateEof DEF RcvOutsideWindow
<1>4. CASE RcvInsideWindow(m)
  <2>1. rstate = "run"
    BY <1>4, InsideEffect
  <2>2. PICK l \in Seq(BufferedPackets) :
          Ordered(l) /\ (UNCHANGED <<output, rstate>> \/ WriteInSequence(l))
    BY <1>4, InsideEffect
  <2>3. CASE UNCHANGED <<output, rstate>>
    BY <1>1, <2>1, <2>3
  <2>4. CASE WriteInSequence(l)
    <3>1. PICK k \in 0 .. Len(l) :
            /\ InSequence(l, k)
            /\ \E torn \in ShortOnes(l, k) :
                 output' = output \o
                   [i \in 1 .. k |-> IF i \in torn THEN Torn ELSE l[i].pos]
            /\ rstate' = IF EofWritten(l, k) THEN "eof" ELSE rstate
      BY <2>4 DEF WriteInSequence
    <3>2. PICK torn \in ShortOnes(l, k) :
            output' = output \o
              [i \in 1 .. k |-> IF i \in torn THEN Torn ELSE l[i].pos]
      BY <3>1
    <3>3. \A i \in 1 .. k : l[i].pos = Len(output) + i - 1
      BY <2>2, <3>1, InSequenceMeansNext
    <3>4. Len(output') = Len(output) + k
      BY <3>2, <3>3, WrittenContinues
    <3>5. k \in Nat /\ (EofWritten(l, k) => k > 0)
      BY BufferTypes DEF EofWritten
    <3>6. Len(output) <= Len(output') /\ (output' = output => k = 0)
      BY <1>1, <3>4, <3>5
    <3> QED BY <2>1, <3>1, <3>5, <3>6
  <2> QED BY <2>2, <2>3, <2>4
<1> QED BY <1>2, <1>3, <1>4 DEF RcvDatagram

(* Every step of the two programs is a step of the file transfer or leaves *)
(* it as it is.                                                            *)
LEMMA StepImplements ==
  ASSUME Inv, Inv', ~ShortWrites, [Next]_vars
  PROVE  [Contract!Next]_(Contract!vars)
<1>1. CASE \E m \in rev : SndAck(m) /\ UNCHANGED rcvVars
  <2>1. PICK m \in rev : SndAck(m) /\ UNCHANGED rcvVars
    BY <1>1
  <2>2. sstate = "run" /\ UNCHANGED offset
    BY <2>1 DEF SndAck
  <2>3. sstate' # "error"
    BY <2>1 DEF SndAck, EndIteration, FinalSend, CheckTimeout
  <2>4. sstate' \in {"run", "done", "error"}
    BY DEF Inv, TypeOK
  <2> QED BY <2>1, <2>2, <2>3, <2>4, SenderImplements
<1>2. CASE Read
  <2>1. SndRead /\ UNCHANGED rcvVars /\ sstate = "run"
    BY <1>2 DEF Read, SndRead
  <2>2. CASE offset < FileLength
    <3>1. /\ offset' = offset + 1
          /\ sstate' = "run"
      BY <2>1, <2>2
      DEF SndRead, EndIteration, CheckTimeout, OnlyEofLeft
    <3>2. Contract!Take
      BY <2>1, <2>2, <3>1 DEF Contract!Take, rcvVars
    <3> QED BY <3>2 DEF Contract!Next
  <2>3. CASE ~(offset < FileLength)
    <3>1. UNCHANGED offset /\ sstate' \in {"run", "done"}
      BY <2>1, <2>3
      DEF SndRead, EndIteration, FinalSend, CheckTimeout
    <3> QED BY <2>1, <3>1, SenderImplements
  <2> QED BY <2>2, <2>3
<1>3. CASE Idle
  <2>1. /\ UNCHANGED rcvVars /\ sstate = "run" /\ UNCHANGED offset
        /\ sstate' \in {"run", "done"}
    BY <1>3 DEF Idle, SndIdle, EndIteration, FinalSend, CheckTimeout
  <2> QED BY <2>1, SenderImplements
<1>4. CASE SndFails
  <2>1. Contract!SndGivesUp
    BY <1>4 DEF SndFails, SndSelectError, rcvVars, Contract!SndGivesUp
  <2> QED BY <2>1 DEF Contract!Next
<1>5. CASE Second \/ Ended \/ UNCHANGED vars
  <2>1. UNCHANGED <<offset, output, sstate, rstate>>
    BY <1>5 DEF Second, Tick, Ended, vars, sndVars, rcvVars
  <2> QED BY <2>1 DEF Contract!vars
<1>6. CASE Connect
  <2>1. UNCHANGED <<offset, output, sstate>> /\ rstate = "wait" /\ rstate' = "run"
    BY <1>6 DEF Connect, RcvConnect, sndVars
  <2> QED BY <2>1 DEF Contract!vars
<1>7. CASE NoClient \/ Timeout \/ RcvFails
  <2>1. /\ UNCHANGED <<offset, output, sstate>>
        /\ rstate \in {"wait", "run"}
        /\ rstate' \in {"noclient", "timeout", "error"}
    BY <1>7 DEF NoClient, Timeout, RcvFails, RcvNoClient, RcvTimeout,
                RcvError, sndVars
  <2>2. Contract!RcvGivesUp
    BY <2>1 DEF Contract!RcvGivesUp
  <2> QED BY <2>2 DEF Contract!Next
<1>8. CASE Truncated \/ Inside \/ Outside
  <2>1. PICK m \in fwd : RcvDatagram(m) /\ UNCHANGED sndVars
    BY <1>8 DEF Truncated, Inside, Outside, RcvDatagram
  <2> QED BY <2>1, DatagramEffect, ReceiverImplements
<1> QED
  BY <1>1, <1>2, <1>3, <1>4, <1>5, <1>6, <1>7, <1>8 DEF Next, AckArrives

(* The transfer refines FileTransfer, when write() writes all it is given. *)
THEOREM Refinement ==
  ASSUME ~ShortWrites
  PROVE  Spec => ImplementsFileTransfer
<1>1. Init => Contract!Init
  BY DEF Init, LinkInit, SndInit, RcvInit, Contract!Init
<1>2. Inv /\ Inv' /\ [Next]_vars => [Contract!Next]_(Contract!vars)
  BY StepImplements
<1> QED
  BY <1>1, <1>2, Invariance, PTL DEF Spec, Contract!Spec, ImplementsFileTransfer

-----------------------------------------------------------------------------
(* A packet of the buffer is less than a maximal window ahead of the       *)
(* output.                                                                 *)
LEMMA BufferedPositions ==
  ASSUME Inv, NEW i \in DOMAIN rlist
  PROVE  rlist[i].pos \in Len(output) .. Len(output) + MAX_WINDOW_SIZE - 1
<1>1. /\ rlist[i].pos \in Nat /\ rlist[i].pos >= Len(output)
      /\ Sent(rlist[i].pos)
  BY ReceiverFacts, BufferTypes DEF Ordered
<1>2. CASE rlist[i].pos < offset
  BY <1>1, <1>2, Positions, Constants
<1>3. CASE rlist[i].pos = EmptyPiece
  BY <1>1, <1>3, Positions, Constants DEF EmptyPiece
<1> QED BY <1>1, <1>2, <1>3 DEF Sent

(* Packets at different places are different pieces, so there are no more  *)
(* of them than positions they may have.                                   *)
LEMMA BufferIsShort ==
  ASSUME Inv
  PROVE  Len(rlist) <= MAX_WINDOW_SIZE
<1> DEFINE n == Len(rlist)
           r == Len(output)
           T == r .. r + MAX_WINDOW_SIZE - 1
           place == [i \in 1 .. n |-> rlist[i].pos]
<1>1. /\ n \in Nat /\ DOMAIN rlist = 1 .. n /\ r \in Nat
      /\ MAX_WINDOW_SIZE \in Nat
      /\ \A i \in 1 .. n : rlist[i].pos \in Nat
      /\ \A i, j \in 1 .. n : i < j => rlist[i].pos < rlist[j].pos
  BY ReceiverFacts, BufferTypes, Constants DEF Ordered
<1>2. place \in [1 .. n -> T]
  BY <1>1, BufferedPositions
<1>3. \A i, j \in 1 .. n : place[i] = place[j] => i = j
  <2> SUFFICES ASSUME NEW i \in 1 .. n, NEW j \in 1 .. n, i # j
               PROVE  place[i] # place[j]
    OBVIOUS
  <2>1. i < j \/ j < i
    BY <1>1
  <2> QED BY <1>1, <2>1
<1>4. place \in Injection(1 .. n, T)
  BY <1>2, <1>3 DEF Injection, IsInjective
<1>5. IsFiniteSet(T) /\ Cardinality(T) = MAX_WINDOW_SIZE
  <2> DEFINE b == r + MAX_WINDOW_SIZE - 1
  <2>1. r \in Int /\ b \in Int
    BY <1>1
  <2> HIDE DEF r, b
  <2>2. /\ IsFiniteSet(r .. b)
        /\ Cardinality(r .. b) = IF r > b THEN 0 ELSE b - r + 1
    BY <2>1, FS_Interval, Zenon
  <2>3. (IF r > b THEN 0 ELSE b - r + 1) = MAX_WINDOW_SIZE
    BY <1>1, <2>1 DEF b
  <2> QED BY <2>2, <2>3 DEF b
<1>6. Cardinality(1 .. n) = n
  <2>1. 1 \in Int /\ n \in Int
    BY <1>1
  <2> HIDE DEF n
  <2>2. Cardinality(1 .. n) = IF 1 > n THEN 0 ELSE n - 1 + 1
    BY <2>1, FS_Interval, Zenon
  <2>3. (IF 1 > n THEN 0 ELSE n - 1 + 1) = n
    BY <1>1, <2>1
  <2> QED BY <2>2, <2>3
<1>7. Cardinality(1 .. n) <= Cardinality(T)
  BY <1>4, <1>5, FS_Injection
<1> QED BY <1>5, <1>6, <1>7

(* The buffer is in the order of the file, on both sides of the wrap,      *)
(* holds nothing that was written, and is no longer than a maximal window. *)
THEOREM BufferIsOrdered == Spec => []BufferOrdered
<1>1. Inv => BufferOrdered
  BY BufferIsShort, ReceiverFacts DEF BufferOrdered, Ordered
<1> QED BY <1>1, Invariance, PTL

-----------------------------------------------------------------------------
(* A packet with another number than the one waited for is another piece   *)
(* than the next one.                                                      *)
LEMMA OtherNumberOtherPiece ==
  ASSUME Inv, NEW l \in Seq(BufferedPackets), Ordered(l),
         NEW i \in DOMAIN l, NEW r, l[i].seqnum # r % SeqMod
  PROVE  l[i].pos # r
  BY DEF Ordered

(* write_in_sequence goes on to the first gap, unless write() fails.       *)
LEMMA WriteHoldsNothing ==
  ASSUME Inv, NEW l \in Seq(BufferedPackets), Ordered(l), ~WriteErrors,
         WriteInSequence(l)
  PROVE  NothingHeldBack'
<1>1. PICK k \in 0 .. Len(l), failed \in BOOLEAN :
        /\ InSequence(l, k)
        /\ LoopEnds(l, k, failed)
        /\ rlist' = SubSeq(l, k + 1, Len(l))
        /\ \E torn \in ShortOnes(l, k) :
             output' = output \o
               [i \in 1 .. k |-> IF i \in torn THEN Torn ELSE l[i].pos]
  BY DEF WriteInSequence
<1>2. /\ DOMAIN l = 1 .. Len(l) /\ Len(l) \in Nat /\ k \in Nat
      /\ Len(output) \in Nat
  BY BufferTypes, Positions
<1>3. Len(output') = Len(output) + k
  <2>1. PICK torn \in ShortOnes(l, k) :
          output' = output \o
            [i \in 1 .. k |-> IF i \in torn THEN Torn ELSE l[i].pos]
    BY <1>1
  <2>2. \A i \in 1 .. k : l[i].pos = Len(output) + i - 1
    BY <1>1, InSequenceMeansNext
  <2> QED BY <2>1, <2>2, WrittenContinues
<1>4. DOMAIN rlist' = 1 .. Len(l) - k /\ rlist' \in Seq(BufferedPackets)
      /\ \A i \in 1 .. Len(l) - k : rlist'[i] = l[k + i] /\ k + i \in DOMAIN l
  BY <1>1, <1>2, WithoutFirst
<1> SUFFICES ASSUME rlist' # <<>>
             PROVE  rlist'[1].pos # Len(output')
  BY DEF NothingHeldBack
<1>5. k < Len(l) /\ k + 1 \in DOMAIN l /\ rlist'[1] = l[k + 1]
  BY <1>2, <1>4
<1>6. l[k + 1].seqnum # (waited_seqnum + k) % SeqMod
  BY <1>1, <1>5 DEF LoopEnds
<1>7. (waited_seqnum + k) % SeqMod = (Len(output) + k) % SeqMod
  BY <1>2, ModPlus, ReceiverFacts
<1> QED BY <1>3, <1>5, <1>6, <1>7, OtherNumberOtherPiece

(* A packet ahead of the one waited for is not the next piece.             *)
LEMMA InsideHoldsNothing ==
  ASSUME Inv, NothingHeldBack, NEW m \in fwd, RcvInsideWindow(m)
  PROVE  NothingHeldBack'
<1> SUFFICES ASSUME ~WriteErrors PROVE NothingHeldBack'
  BY DEF NothingHeldBack
<1> DEFINE p == [seqnum |-> m.seqnum, pos |-> m.pos]
<1>1. rstate = "run" /\ RcvInWindow(m.seqnum, waited_seqnum, r_window)
  BY DEF RcvInsideWindow
<1>2. GoodData(m)
  BY ChannelsAreGood DEF Inv, IInv, TypeOK
<1>3. /\ p \in BufferedPackets /\ p.pos = m.pos
      /\ p.seqnum = p.pos % SeqMod /\ Sent(p.pos)
  BY <1>2, Constants DEF GoodData, DataPackets, BufferedPackets, Pieces
<1>4. p.pos \in Len(output) .. Len(output) + MAX_WINDOW_SIZE
  BY <1>1, <1>3, AcceptedIsNew
<1>5. PICK q \in 1 .. Len(rlist) + 1 :
        /\ GoesTo(rlist, p, q)
        /\ LET l == InsertedAt(rlist, p, q) IN
           \/ /\ AheadOfWaited(l[1].seqnum, waited_seqnum)
              /\ rlist' = l /\ UNCHANGED output
           \/ WriteInSequence(l)
  BY DEF RcvInsideWindow
<1> HIDE DEF p
<1> DEFINE l == InsertedAt(rlist, p, q)
<1>6. /\ l \in Seq(BufferedPackets) /\ Ordered(l) /\ Len(l) >= 1
  BY <1>3, <1>4, <1>5, InsertionKeepsOrder
<1>7. CASE WriteInSequence(l)
  BY <1>6, <1>7, WriteHoldsNothing
<1>8. CASE /\ AheadOfWaited(l[1].seqnum, waited_seqnum)
           /\ rlist' = l /\ UNCHANGED output
  <2> HIDE DEF l
  <2>1. 1 \in DOMAIN l /\ l[1].seqnum \in SeqNums
    <3>1. 1 \in DOMAIN l
      BY <1>6, BufferTypes
    <3>2. l[1] \in BufferedPackets
      BY <1>6, <3>1, BufferTypes
    <3> QED BY <3>1, <3>2 DEF BufferedPackets
  <2>2. l[1].seqnum # Len(output) % SeqMod
    BY <1>8, <2>1, ReceiverFacts DEF AheadOfWaited, SeqNums
  <2>3. l[1].pos # Len(output)
    BY <1>6, <2>1, <2>2, OtherNumberOtherPiece
  <2> QED BY <1>8, <2>3 DEF NothingHeldBack
<1> HIDE DEF l
<1> QED BY <1>5, <1>7, <1>8 DEF l

LEMMA HoldsNothingStep ==
  Inv /\ NothingHeldBack /\ [Next]_vars => NothingHeldBack'
<1> SUFFICES ASSUME Inv, NothingHeldBack, [Next]_vars
             PROVE  NothingHeldBack'
  OBVIOUS
<1>1. CASE UNCHANGED <<rlist, output>>
  BY <1>1 DEF NothingHeldBack
<1>2. CASE Inside
  BY <1>2, InsideHoldsNothing DEF Inside
<1>3. CASE Timeout
  BY <1>3 DEF Timeout, RcvTimeout, NothingHeldBack
<1>4. CASE AckArrives \/ Read \/ Idle \/ SndFails \/ Second
  BY <1>1, <1>4 DEF AckArrives, Read, Idle, SndFails, Second, rcvVars
<1>5. CASE Connect \/ NoClient \/ RcvFails
  BY <1>1, <1>5
  DEF Connect, NoClient, RcvFails, RcvConnect, RcvNoClient, RcvError
<1>6. CASE Truncated \/ Outside
  BY <1>1, <1>6 DEF Truncated, Outside, RcvTruncated, RcvOutsideWindow
<1>7. CASE Ended \/ UNCHANGED vars
  BY <1>1, <1>7 DEF Ended, vars, rcvVars
<1> QED BY <1>2, <1>3, <1>4, <1>5, <1>6, <1>7 DEF Next

(* The receiver never keeps waiting for a packet that is in its buffer, if *)
(* write() does not fail.                                                  *)
THEOREM NothingIsHeldBack == Spec => []NothingHeldBack
<1>1. Init => NothingHeldBack
  BY DEF Init, RcvInit, NothingHeldBack
<1> QED BY <1>1, HoldsNothingStep, Invariance, PTL DEF Spec

=============================================================================
