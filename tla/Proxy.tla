-------------------------------- MODULE Proxy -------------------------------
(***************************************************************************)
(* link_sim.c: whose datagrams the proxy forwards, to whom, and which of   *)
(* them it treats as a lossy link.  What the link does to bytes is in      *)
(* Packet, when a delayed datagram leaves is in LinkSim; here a datagram   *)
(* is its sender.                                                          *)
(***************************************************************************)
EXTENDS Naturals, FiniteSets

CONSTANTS
  Senders,       \* addresses programs like sender.c send from
  Strangers,     \* addresses of other programs
  dest_addr,     \* the address of receiver.c
  NoAddr,
  InboxBound,    \* bound: datagrams waiting at the socket
  QueueBound,    \* bound: delayed datagrams
  RestartBound   \* bound: how many times the proxy ends and is started again

Peers == Senders \cup Strangers
Hosts == Peers \cup {dest_addr}

ASSUME ProxyAssumption ==
  /\ dest_addr \notin Peers
  /\ NoAddr \notin Hosts
  /\ InboxBound \in Nat
  /\ QueueBound \in Nat
  /\ RestartBound \in Nat

VARIABLES
  link_direction,  \* option: the directions that are simulated
  src_addr,        \* the other party, NoAddr before it was seen
  inbox,           \* datagrams at the socket
  queue,           \* pkt_queue, the delayed ones
  out,             \* the last datagram written out: whose, and to whom
  owed,            \* whether the receiver has a datagram to answer
  restarts         \* how many times the proxy was started again

vars == <<link_direction, src_addr, inbox, queue, out, owed, restarts>>

LINK_FORWARD == "forward"
LINK_REVERSE == "reverse"
Directions == {LINK_FORWARD, LINK_REVERSE}

Datagrams == [from : Hosts, short : BOOLEAN]
Slots == [from : Hosts, direction : Directions]
Nothing == [from |-> NoAddr, to |-> NoAddr]

-----------------------------------------------------------------------------
(* process_incoming_pkt keeps the address of the first one that sends a    *)
(* datagram with a whole header, until the program ends.                   *)
SourceAfter_Slip(from) == from
SourceAfter(from) == IF src_addr = NoAddr THEN from ELSE src_addr

(* The direction of a datagram.  The second test overrides the first: one  *)
(* whose sender is both parties goes forward.                              *)
DirectionOf_Slip(from) ==
  IF from = dest_addr THEN {LINK_REVERSE} ELSE {LINK_FORWARD}
DirectionOf(from) ==
  IF from = SourceAfter(from) THEN {LINK_FORWARD}
  ELSE IF from = dest_addr THEN {LINK_REVERSE}
  ELSE {}

(* SAME_DIRECTION, the bitwise and of the two.                             *)
Simulated_Slip(direction) == TRUE
Simulated(direction) == direction \in link_direction

(* write_out.  The receiver answers what reaches it, and nothing else.     *)
Target(direction) ==
  IF direction = LINK_FORWARD THEN dest_addr ELSE src_addr'
WriteOut(from, direction) ==
  /\ out' = [from |-> from, to |-> Target(direction)]
  /\ owed' = (owed \/ Target(direction) = dest_addr)

-----------------------------------------------------------------------------
Init ==
  /\ link_direction \in SUBSET Directions \ {{}}
  /\ src_addr = NoAddr
  /\ inbox = {}
  /\ queue = {}
  /\ out = Nothing
  /\ owed = FALSE
  /\ restarts = 0

(* A program sends to the proxy.  Only a stranger's datagram may be        *)
(* shorter than a header.                                                  *)
PeerSends(from, short) ==
  /\ short => from \in Strangers
  /\ Cardinality(inbox) < InboxBound
  /\ inbox' = inbox \cup {[from |-> from, short |-> short]}
  /\ UNCHANGED <<link_direction, src_addr, queue, out, owed, restarts>>

(* The receiver answers a datagram, once or several times.                 *)
ReceiverSends ==
  /\ owed
  /\ Cardinality(inbox) < InboxBound
  /\ inbox' = inbox \cup {[from |-> dest_addr, short |-> FALSE]}
  /\ owed' \in BOOLEAN
  /\ UNCHANGED <<link_direction, src_addr, queue, out, restarts>>

(* process_incoming_pkt, and simulate_link if the direction is simulated.  *)
Malformed(m) ==
  /\ m \in inbox
  /\ m.short
  /\ inbox' = inbox \ {m}
  /\ UNCHANGED <<link_direction, src_addr, queue, out, owed, restarts>>

Incoming(m) ==
  /\ m \in inbox
  /\ ~m.short
  /\ inbox' = inbox \ {m}
  /\ src_addr' = SourceAfter(m.from)
  /\ UNCHANGED <<link_direction, restarts>>

Alien(m) ==
  /\ Incoming(m)
  /\ DirectionOf(m.from) = {}
  /\ UNCHANGED <<queue, out, owed>>

(* Relayed as it is, or delivered by simulate_link without a delay.        *)
Relayed(m) ==
  /\ Incoming(m)
  /\ \E direction \in DirectionOf(m.from) : WriteOut(m.from, direction)
  /\ UNCHANGED queue

Lost(m) ==
  /\ Incoming(m)
  /\ \E direction \in DirectionOf(m.from) : Simulated(direction)
  /\ UNCHANGED <<queue, out, owed>>

Delayed(m) ==
  /\ Incoming(m)
  /\ Cardinality(queue) < QueueBound
  /\ \E direction \in DirectionOf(m.from) :
       /\ Simulated(direction)
       /\ queue' = queue \cup {[from |-> m.from, direction |-> direction]}
  /\ UNCHANGED <<out, owed>>

(* deliver_delayed_pkt, one slot.  The addresses are those of now.         *)
DeliverDelayed(slot) ==
  /\ slot \in queue
  /\ queue' = queue \ {slot}
  /\ UNCHANGED <<link_direction, src_addr, inbox, restarts>>
  /\ WriteOut(slot.from, slot.direction)

(* The proxy ends (proxy_loop returns when a call fails) and is started    *)
(* again, with the same options; nothing of its state is kept.             *)
Restart ==
  /\ restarts < RestartBound
  /\ restarts' = restarts + 1
  /\ src_addr' = NoAddr
  /\ inbox' = {}
  /\ queue' = {}
  /\ out' = Nothing
  /\ UNCHANGED <<link_direction, owed>>

Handle(m) == Malformed(m) \/ Alien(m) \/ Relayed(m) \/ Lost(m) \/ Delayed(m)

Next ==
  \/ \E from \in Peers, short \in BOOLEAN : PeerSends(from, short)
  \/ ReceiverSends
  \/ \E m \in inbox : Handle(m)
  \/ \E slot \in queue : DeliverDelayed(slot)
  \/ Restart

Spec == Init /\ [][Next]_vars

-----------------------------------------------------------------------------
(* Every variable keeps its type; in particular a datagram that is written *)
(* out has somebody to go to: write_out never meets an unknown source.     *)
TypeOK ==
  /\ link_direction \in SUBSET Directions
  /\ src_addr \in Hosts \cup {NoAddr}
  /\ inbox \subseteq Datagrams
  /\ queue \subseteq Slots
  /\ out \in [from : Hosts, to : Hosts] \cup {Nothing}
  /\ owed \in BOOLEAN
  /\ restarts \in 0 .. RestartBound

(* The proxy is a private line: what it writes out, at once or after a     *)
(* delay, goes from the source to the receiver or from the receiver to     *)
(* the source, whoever else sends to it.                                   *)
PrivateLine ==
  out # Nothing => \/ out.from = src_addr /\ out.to = dest_addr
                   \/ out.from = dest_addr /\ out.to = src_addr

(* Until the proxy is started again nobody gets his own datagrams back.    *)
(* After a restart an answer of the receiver that was on its way makes the *)
(* receiver the source, and then it does.                                  *)
NoEcho == restarts = 0 /\ out # Nothing => out.from # out.to

(* Without option -r or -R acknowledgements are relayed: the proxy neither *)
(* loses nor delays an answer to the source.                               *)
AnswersRelayed ==
  [][\A m \in inbox \ inbox' :
       /\ m.from = dest_addr
       /\ src_addr \notin {NoAddr, dest_addr}
       /\ link_direction = {LINK_FORWARD}
       /\ restarts' = restarts
       => out' = [from |-> dest_addr, to |-> src_addr]]_vars

=============================================================================
