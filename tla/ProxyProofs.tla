----------------------------- MODULE ProxyProofs ----------------------------
(***************************************************************************)
(* Whom the proxy connects, for every set of hosts, every queue and any    *)
(* number of restarts.                                                     *)
(***************************************************************************)
EXTENDS Proxy, TLAPS

(* A datagram of the receiver is never malformed, and one that is owed or  *)
(* at the socket was provoked through the proxy: unless the proxy was      *)
(* started again meanwhile, it knows its source, which is somebody else.   *)
Provoked ==
  /\ \A m \in inbox : m.short => m.from # dest_addr
  /\ restarts = 0 => src_addr # dest_addr
  /\ restarts = 0 /\ (owed \/ \E m \in inbox : m.from = dest_addr) =>
       src_addr # NoAddr

(* A delayed datagram was given its direction when the source was known.   *)
Routed ==
  \A slot \in queue :
    /\ src_addr # NoAddr
    /\ slot.from = IF slot.direction = LINK_FORWARD THEN src_addr ELSE dest_addr

ProxyInv == TypeOK /\ PrivateLine /\ Provoked /\ Routed

LEMMA InitInv == Init => ProxyInv
<1> SUFFICES ASSUME Init PROVE ProxyInv
  OBVIOUS
<1>1. TypeOK
  <2>1. link_direction \in SUBSET Directions /\ restarts \in 0 .. RestartBound
    BY ProxyAssumption DEF Init
  <2> QED BY <2>1 DEF Init, TypeOK
<1>2. PrivateLine
  BY DEF Init, PrivateLine
<1>3. Provoked /\ Routed
  BY ProxyAssumption DEF Init, Provoked, Routed, Hosts
<1> QED BY <1>1, <1>2, <1>3 DEF ProxyInv

LEMMA Directed == LINK_FORWARD # LINK_REVERSE
  BY DEF LINK_FORWARD, LINK_REVERSE

-----------------------------------------------------------------------------
(* What process_incoming_pkt knows once it has looked at the sender.       *)
LEMMA IncomingFacts ==
  ASSUME ProxyInv, NEW m \in inbox, Incoming(m)
  PROVE  /\ m.from \in Hosts
         /\ src_addr' \in Hosts
         /\ src_addr # NoAddr => src_addr' = src_addr
         /\ restarts' = 0 => src_addr' # dest_addr
         /\ inbox' \subseteq inbox
         /\ \A direction \in DirectionOf(m.from) :
              /\ direction \in Directions
              /\ m.from = IF direction = LINK_FORWARD
                          THEN src_addr' ELSE dest_addr
<1>1. m.from \in Hosts
  BY DEF ProxyInv, TypeOK, Datagrams
<1>2. src_addr' = SourceAfter(m.from) /\ inbox' \subseteq inbox
      /\ restarts' = restarts
  BY DEF Incoming
<1>3. src_addr' \in Hosts /\ (src_addr # NoAddr => src_addr' = src_addr)
  BY <1>1, <1>2 DEF SourceAfter, ProxyInv, TypeOK
<1>4. restarts' = 0 => src_addr' # dest_addr
  BY <1>2 DEF SourceAfter, ProxyInv, Provoked
<1>5. ASSUME NEW direction \in DirectionOf(m.from)
      PROVE  /\ direction \in Directions
             /\ m.from = IF direction = LINK_FORWARD
                         THEN src_addr' ELSE dest_addr
  BY <1>2, <1>5, Directed DEF DirectionOf, Directions
<1> QED BY <1>1, <1>2, <1>3, <1>4, <1>5

(* The source does not change once something was written out or delayed.   *)
LEMMA KnownSource ==
  ASSUME ProxyInv
  PROVE  /\ out # Nothing => src_addr # NoAddr
         /\ queue # {} => src_addr # NoAddr
<1>1. ASSUME out # Nothing PROVE src_addr # NoAddr
  <2>1. out.from \in Hosts /\ out.to \in Hosts
    BY <1>1 DEF ProxyInv, TypeOK
  <2>2. out.from = src_addr \/ out.to = src_addr
    BY <1>1 DEF ProxyInv, PrivateLine
  <2> QED BY <2>1, <2>2, ProxyAssumption
<1> QED BY <1>1 DEF ProxyInv, Routed

(* write_out of a datagram with a direction connects the two parties.      *)
LEMMA WriteOutStep ==
  ASSUME NEW from, NEW direction \in Directions,
         src_addr' \in Hosts,
         from = IF direction = LINK_FORWARD THEN src_addr' ELSE dest_addr,
         WriteOut(from, direction), owed \in BOOLEAN
  PROVE  /\ out' \in [from : Hosts, to : Hosts]
         /\ PrivateLine'
         /\ owed' \in BOOLEAN
<1>1. dest_addr \in Hosts
  BY DEF Hosts
<1>2. out' = [from |-> from, to |-> Target(direction)]
  BY DEF WriteOut
<1>3. Target(direction) = IF direction = LINK_FORWARD
                          THEN dest_addr ELSE src_addr'
  BY DEF Target
<1> QED BY <1>1, <1>2, <1>3 DEF WriteOut, PrivateLine

-----------------------------------------------------------------------------
(* One lemma per action.                                                   *)
LEMMA PeerSendsStep ==
  ASSUME ProxyInv, NEW from \in Peers, NEW short \in BOOLEAN,
         PeerSends(from, short)
  PROVE  ProxyInv'
<1> DEFINE d == [from |-> from, short |-> short]
<1>1. /\ d \in Datagrams /\ d.from = from /\ from # dest_addr
      /\ inbox' = inbox \cup {d}
  BY ProxyAssumption DEF PeerSends, Datagrams, Hosts
<1> HIDE DEF d
<1>2. UNCHANGED <<link_direction, src_addr, queue, out, owed, restarts>>
  BY DEF PeerSends
<1>3. TypeOK'
  BY <1>1, <1>2 DEF ProxyInv, TypeOK
<1>4. Provoked'
  BY <1>1, <1>2 DEF ProxyInv, Provoked
<1>5. PrivateLine' /\ Routed'
  BY <1>2 DEF ProxyInv, PrivateLine, Routed, Nothing
<1> QED BY <1>3, <1>4, <1>5 DEF ProxyInv

LEMMA ReceiverSendsStep ==
  ASSUME ProxyInv, ReceiverSends
  PROVE  ProxyInv'
<1> DEFINE d == [from |-> dest_addr, short |-> FALSE]
<1>1. /\ d \in Datagrams /\ d.short = FALSE
      /\ inbox' = inbox \cup {d}
  BY DEF ReceiverSends, Datagrams, Hosts
<1> HIDE DEF d
<1>2. /\ UNCHANGED <<link_direction, src_addr, queue, out, restarts>>
      /\ owed /\ owed' \in BOOLEAN
  BY DEF ReceiverSends
<1>3. TypeOK'
  BY <1>1, <1>2 DEF ProxyInv, TypeOK
<1>4. Provoked'
  BY <1>1, <1>2 DEF ProxyInv, Provoked
<1>5. PrivateLine' /\ Routed'
  BY <1>2 DEF ProxyInv, PrivateLine, Routed, Nothing
<1> QED BY <1>3, <1>4, <1>5 DEF ProxyInv

(* A datagram that is neither written out nor queued.                      *)
LEMMA DroppedStep ==
  ASSUME ProxyInv, NEW m \in inbox, Incoming(m),
         UNCHANGED <<queue, out, owed>>
  PROVE  ProxyInv'
<1>1. UNCHANGED <<link_direction, restarts>>
  BY DEF Incoming
<1>2. TypeOK'
  BY <1>1, IncomingFacts DEF ProxyInv, TypeOK
<1>3. Provoked'
  <2>1. src_addr' # NoAddr
    BY IncomingFacts, ProxyAssumption
  <2> QED BY <2>1, IncomingFacts DEF ProxyInv, Provoked
<1>4. PrivateLine'
  BY IncomingFacts, KnownSource DEF ProxyInv, PrivateLine, Nothing
<1>5. Routed'
  BY IncomingFacts, KnownSource DEF ProxyInv, Routed
<1> QED BY <1>2, <1>3, <1>4, <1>5 DEF ProxyInv

LEMMA RelayedStep ==
  ASSUME ProxyInv, NEW m \in inbox, Relayed(m)
  PROVE  ProxyInv'
<1>1. Incoming(m) /\ UNCHANGED <<link_direction, restarts, queue>>
  BY DEF Relayed, Incoming
<1>2. PICK direction \in DirectionOf(m.from) : WriteOut(m.from, direction)
  BY DEF Relayed
<1>3. /\ direction \in Directions /\ src_addr' \in Hosts
      /\ m.from = IF direction = LINK_FORWARD THEN src_addr' ELSE dest_addr
  BY <1>1, IncomingFacts
<1>4. /\ out' \in [from : Hosts, to : Hosts]
      /\ PrivateLine' /\ owed' \in BOOLEAN
  BY <1>2, <1>3, WriteOutStep DEF ProxyInv, TypeOK
<1>5. TypeOK'
  BY <1>1, <1>4, IncomingFacts DEF ProxyInv, TypeOK
<1>6. Provoked'
  <2>1. src_addr' # NoAddr
    BY <1>3, ProxyAssumption
  <2> QED BY <2>1, <1>1, IncomingFacts DEF ProxyInv, Provoked
<1>7. Routed'
  BY <1>1, IncomingFacts, KnownSource DEF ProxyInv, Routed
<1> QED BY <1>4, <1>5, <1>6, <1>7 DEF ProxyInv

LEMMA DelayedStep ==
  ASSUME ProxyInv, NEW m \in inbox, Delayed(m)
  PROVE  ProxyInv'
<1>1. Incoming(m) /\ UNCHANGED <<link_direction, restarts, out, owed>>
  BY DEF Delayed, Incoming
<1>2. PICK direction \in DirectionOf(m.from) :
        queue' = queue \cup {[from |-> m.from, direction |-> direction]}
  BY DEF Delayed
<1> DEFINE slot == [from |-> m.from, direction |-> direction]
<1>3. /\ direction \in Directions /\ src_addr' \in Hosts /\ m.from \in Hosts
      /\ m.from = IF direction = LINK_FORWARD THEN src_addr' ELSE dest_addr
  BY <1>1, IncomingFacts
<1>4. src_addr' # NoAddr
  BY <1>3, ProxyAssumption
<1>5. /\ slot \in Slots
      /\ slot.from = IF slot.direction = LINK_FORWARD
                     THEN src_addr' ELSE dest_addr
  BY <1>3 DEF Slots
<1>6. queue' = queue \cup {slot}
  BY <1>2
<1> HIDE DEF slot
<1>7. TypeOK'
  BY <1>1, <1>5, <1>6, IncomingFacts DEF ProxyInv, TypeOK
<1>8. Provoked'
  BY <1>1, <1>4, IncomingFacts DEF ProxyInv, Provoked
<1>9. PrivateLine'
  BY <1>1, IncomingFacts, KnownSource DEF ProxyInv, PrivateLine, Nothing
<1>10. Routed'
  <2>1. ASSUME NEW s \in queue
        PROVE  s.from = IF s.direction = LINK_FORWARD
                        THEN src_addr' ELSE dest_addr
    <3>1. src_addr' = src_addr
      BY <1>1, IncomingFacts, KnownSource
    <3> QED BY <3>1 DEF ProxyInv, Routed
  <2> QED BY <2>1, <1>4, <1>5, <1>6 DEF Routed
<1> QED BY <1>7, <1>8, <1>9, <1>10 DEF ProxyInv

LEMMA DeliverDelayedStep ==
  ASSUME ProxyInv, NEW slot \in queue, DeliverDelayed(slot)
  PROVE  ProxyInv'
<1>1. /\ UNCHANGED <<link_direction, src_addr, inbox, restarts>>
      /\ queue' \subseteq queue
      /\ WriteOut(slot.from, slot.direction)
  BY DEF DeliverDelayed
<1>2. /\ slot.direction \in Directions
      /\ src_addr' \in Hosts /\ src_addr' # NoAddr
      /\ slot.from = IF slot.direction = LINK_FORWARD
                     THEN src_addr' ELSE dest_addr
  BY <1>1, KnownSource DEF ProxyInv, TypeOK, Slots, Routed
<1>3. /\ out' \in [from : Hosts, to : Hosts]
      /\ PrivateLine' /\ owed' \in BOOLEAN
  BY <1>1, <1>2, WriteOutStep DEF ProxyInv, TypeOK
<1>4. TypeOK'
  BY <1>1, <1>3 DEF ProxyInv, TypeOK
<1>5. Provoked'
  BY <1>1, <1>2 DEF ProxyInv, Provoked
<1>6. Routed'
  BY <1>1 DEF ProxyInv, Routed
<1> QED BY <1>3, <1>4, <1>5, <1>6 DEF ProxyInv

LEMMA RestartStep ==
  ASSUME ProxyInv, Restart
  PROVE  ProxyInv'
<1>1. /\ restarts' \in 0 .. RestartBound /\ restarts' # 0
      /\ src_addr' = NoAddr /\ inbox' = {} /\ queue' = {}
      /\ out' = Nothing
      /\ UNCHANGED <<link_direction, owed>>
  BY ProxyAssumption DEF Restart, ProxyInv, TypeOK
<1>2. TypeOK'
  BY <1>1 DEF ProxyInv, TypeOK, Nothing
<1>3. Provoked' /\ Routed'
  BY <1>1 DEF Provoked, Routed
<1>4. PrivateLine'
  BY <1>1 DEF PrivateLine, Nothing
<1> QED BY <1>2, <1>3, <1>4 DEF ProxyInv

-----------------------------------------------------------------------------
LEMMA MalformedStep ==
  ASSUME ProxyInv, NEW m \in inbox, Malformed(m)
  PROVE  ProxyInv'
<1>1. /\ UNCHANGED <<link_direction, src_addr, queue, out, owed, restarts>>
      /\ inbox' \subseteq inbox
  BY DEF Malformed
<1> QED BY <1>1 DEF ProxyInv, TypeOK, PrivateLine, Provoked, Routed, Nothing

LEMMA StepInv == ProxyInv /\ [Next]_vars => ProxyInv'
<1> SUFFICES ASSUME ProxyInv, [Next]_vars PROVE ProxyInv'
  OBVIOUS
<1>1. CASE \E from \in Peers, short \in BOOLEAN : PeerSends(from, short)
  BY <1>1, PeerSendsStep
<1>2. CASE ReceiverSends
  BY <1>2, ReceiverSendsStep
<1>3. ASSUME NEW m \in inbox, Handle(m) PROVE ProxyInv'
  <2>1. CASE Malformed(m)
    BY <2>1, MalformedStep
  <2>2. CASE Alien(m)
    BY <2>2, DroppedStep DEF Alien
  <2>3. CASE Relayed(m)
    BY <2>3, RelayedStep
  <2>4. CASE Lost(m)
    BY <2>4, DroppedStep DEF Lost
  <2>5. CASE Delayed(m)
    BY <2>5, DelayedStep
  <2> QED BY <1>3, <2>1, <2>2, <2>3, <2>4, <2>5 DEF Handle
<1>4. CASE \E slot \in queue : DeliverDelayed(slot)
  BY <1>4, DeliverDelayedStep
<1>5. CASE Restart
  BY <1>5, RestartStep
<1>6. CASE UNCHANGED vars
  BY <1>6 DEF vars, ProxyInv, TypeOK, PrivateLine, Provoked, Routed, Nothing
<1> QED BY <1>1, <1>2, <1>3, <1>4, <1>5, <1>6 DEF Next

(* The invariant of the proxy.                                             *)
THEOREM ProxyInvariant == Spec => []ProxyInv
  BY InitInv, StepInv, PTL DEF Spec

(* write_out connects the source with the receiver, and nobody else,       *)
(* whoever sends and however long a datagram was in the queue.             *)
THEOREM LineIsPrivate == Spec => []PrivateLine
<1>1. ProxyInv => PrivateLine
  BY DEF ProxyInv
<1> QED BY <1>1, ProxyInvariant, PTL

(* Until it is started again the proxy turns nobody's datagrams round.     *)
THEOREM NobodyEchoed == Spec => []NoEcho
<1>1. ProxyInv => NoEcho
  BY DEF ProxyInv, PrivateLine, Provoked, NoEcho
<1> QED BY <1>1, ProxyInvariant, PTL

(* A link that is simulated forwards only leaves every answer alone.       *)
THEOREM AnswersAreRelayed == Spec => AnswersRelayed
<1> DEFINE Relays == \A m \in inbox \ inbox' :
             /\ m.from = dest_addr
             /\ src_addr \notin {NoAddr, dest_addr}
             /\ link_direction = {LINK_FORWARD}
             /\ restarts' = restarts
             => out' = [from |-> dest_addr, to |-> src_addr]
<1>1. ProxyInv /\ [Next]_vars => [Relays]_vars
  <2> SUFFICES ASSUME ProxyInv, Next,
                      NEW m \in inbox \ inbox', m.from = dest_addr,
                      src_addr \notin {NoAddr, dest_addr},
                      link_direction = {LINK_FORWARD},
                      restarts' = restarts
               PROVE  out' = [from |-> dest_addr, to |-> src_addr]
    OBVIOUS
  <2>1. PICK n \in inbox : Handle(n)
    <3>1. ~Restart
      BY DEF Restart, ProxyInv, TypeOK
    <3> QED BY <3>1 DEF Next, PeerSends, ReceiverSends, DeliverDelayed
  <2>2. n = m
    BY <2>1 DEF Handle, Malformed, Alien, Relayed, Lost, Delayed, Incoming
  <2>3. ~m.short
    BY DEF ProxyInv, Provoked
  <2>4. DirectionOf(m.from) = {LINK_REVERSE} /\ SourceAfter(m.from) = src_addr
    BY DEF DirectionOf, SourceAfter
  <2>5. ~Simulated(LINK_REVERSE)
    BY Directed DEF Simulated
  <2>6. Relayed(m)
    BY <2>1, <2>2, <2>3, <2>4, <2>5
       DEF Handle, Malformed, Alien, Lost, Delayed
  <2>7. WriteOut(dest_addr, LINK_REVERSE) /\ src_addr' = src_addr
    BY <2>4, <2>6 DEF Relayed, Incoming
  <2> QED BY <2>7, Directed DEF WriteOut, Target
<1> QED BY <1>1, ProxyInvariant, PTL DEF Spec, AnswersRelayed

=============================================================================
