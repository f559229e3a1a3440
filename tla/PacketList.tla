----------------------------- MODULE PacketList -----------------------------
(***************************************************************************)
(* The linked list of nyancat.c, pointers and all: head, tail, size, and   *)
(* the nodes that were allocated and not freed.  The sender adds at the    *)
(* end of its list, the receiver in the order of its own, both pop.  Shown *)
(* to implement PacketQueue, the sequence that the modules of the two      *)
(* programs use.                                                           *)
(***************************************************************************)
EXTENDS PacketOrder, FiniteSets

CONSTANTS
  Nodes,        \* the addresses malloc may return
  NULL,
  Copies,       \* tells packets with the same number apart
  MallocFails,  \* whether malloc may return NULL
  MaxUnlisted   \* bound: the numbers the sender loses between two packets

ASSUME PacketListAssumption ==
  /\ IsFiniteSet(Nodes)
  /\ NULL \notin Nodes
  /\ MallocFails \in BOOLEAN
  /\ MaxUnlisted \in Nat

Packets == [seqnum : SeqNums, copy : Copies]

VARIABLES
  user,  \* the program whose list it is
  head, tail, size,
  node   \* what is at each allocated address: a packet and a next pointer

list == <<head, tail, size, node>>
vars == <<user, list>>

(* list_create.                                                            *)
Init ==
  /\ user \in {"sender", "receiver"}
  /\ head = NULL
  /\ tail = NULL
  /\ size = 0
  /\ node = [n \in {} |-> NULL]

-----------------------------------------------------------------------------
(* The node reached from head by i next pointers; NULL at the end of the   *)
(* list, and for a pointer to memory that is not allocated.                *)
Follow ==
  LET step[i \in 0 .. Cardinality(Nodes)] ==
        IF i = 0 THEN head
        ELSE IF step[i - 1] \notin DOMAIN node THEN NULL
        ELSE node[step[i - 1]].next
  IN step

(* The packets of the first size nodes.                                    *)
Items == [i \in 1 .. size |-> node[Follow[i - 1]].packet]

At(packet, next) == [packet |-> packet, next |-> next]
Alloc(n, x) == [m \in DOMAIN node \cup {n} |-> IF m = n THEN x ELSE node[m]]
Freed(n) == [m \in DOMAIN node \ {n} |-> node[m]]

(* add_element_queue.                                                      *)
AddElementQueue(p) ==
  \E n \in Nodes \ DOMAIN node :
    /\ tail' = n
    /\ size' = size + 1
    /\ IF size = 0
       THEN /\ head' = n
            /\ node' = Alloc(n, At(p, NULL))
       ELSE /\ head' = head
            /\ node' = [Alloc(n, At(p, NULL)) EXCEPT ![tail].next = n]

(* pop_element_queue on a list that is not empty; the node is freed.       *)
PopElementQueue ==
  /\ size # 0
  /\ size' = size - 1
  /\ node' = Freed(head)
  /\ IF size = 1
     THEN head' = NULL /\ tail' = NULL
     ELSE head' = node[head].next /\ tail' = tail

(* The loop of add_specific_queue: runner is the i-th node, the first one  *)
(* that does not come before the packet, or NULL after the last.           *)
RunnerStops(p, i) ==
  /\ \A j \in 0 .. i - 1 : /\ Follow[j] # NULL
                           /\ Precedes(node[Follow[j]].packet.seqnum, p.seqnum)
  /\ Follow[i] # NULL =>
       ~Precedes(node[Follow[i]].packet.seqnum, p.seqnum)

(* The last packet the loop looked at has the number of the new one, which *)
(* is dropped.                                                             *)
Already_Slip(p, i) == i > 0 /\ node[Follow[i - 1]].packet.seqnum = p.seqnum
Already(p, i) ==
  LET seen == IF Follow[i] = NULL THEN Follow[i - 1] ELSE Follow[i] IN
  node[seen].packet.seqnum = p.seqnum

TailAfter_Slip(n, runner) == tail
TailAfter(n, runner) == IF runner = NULL THEN n ELSE tail

Link(n, p, previous, runner) ==
  /\ size' = size + 1
  /\ tail' = TailAfter(n, runner)
  /\ IF previous = NULL
     THEN /\ head' = n
          /\ node' = Alloc(n, At(p, runner))
     ELSE /\ head' = head
          /\ node' = [Alloc(n, At(p, runner)) EXCEPT ![previous].next = n]

AddSpecificQueue(p) ==
  \E n \in Nodes \ DOMAIN node :
    IF size = 0
    THEN /\ head' = n
         /\ tail' = n
         /\ size' = size + 1
         /\ node' = Alloc(n, At(p, NULL))
    ELSE \E i \in 0 .. Cardinality(Nodes) :
           /\ RunnerStops(p, i)
           /\ IF Already(p, i)
              THEN UNCHANGED list
              ELSE Link(n, p, IF i = 0 THEN NULL ELSE Follow[i - 1], Follow[i])

(* malloc fails: either function returns -1 before it touches the list.    *)
NoMemory == MallocFails /\ UNCHANGED list

-----------------------------------------------------------------------------
(* How the programs call them.  The sender adds the number after that of   *)
(* its last packet; but read_to_list counts on after a packet that it      *)
(* could not add, so that numbers may be missing, and the list be longer   *)
(* than a window.  The receiver adds numbers of one window, in any order   *)
(* and more than once.                                                     *)
Distance(a, b) == (b - a) % SeqMod
InOneWindow(p) ==
  \E first \in SeqNums :
    \A s \in {Items[i].seqnum : i \in 1 .. size} \cup {p.seqnum} :
      Distance(first, s) <= MAX_WINDOW_SIZE

Add ==
  /\ user = "sender"
  /\ \E p \in Packets, unlisted \in 0 .. MaxUnlisted :
       /\ unlisted > 0 => MallocFails
       /\ size # 0 =>
            p.seqnum = (node[tail].packet.seqnum + 1 + unlisted) % SeqMod
       /\ AddElementQueue(p)
AddInOrder ==
  /\ user = "receiver"
  /\ \E p \in Packets : InOneWindow(p) /\ AddSpecificQueue(p)

Next ==
  /\ Add \/ AddInOrder \/ PopElementQueue \/ NoMemory
  /\ UNCHANGED user

Spec == Init /\ [][Next]_vars

-----------------------------------------------------------------------------
(* The list is a chain of size nodes from head to tail, NULL-terminated,   *)
(* and nothing else is allocated: no node is lost, reached twice, or used  *)
(* after it was freed, after any order of calls.                           *)
Chain ==
  /\ {Follow[i] : i \in 0 .. size - 1} = DOMAIN node
  /\ Cardinality(DOMAIN node) = size
  /\ Follow[size] = NULL
  /\ tail = IF size = 0 THEN NULL ELSE Follow[size - 1]

(* The receiver's packets are in the order in which their numbers follow   *)
(* one another, across the wrap too, and no number is listed twice.        *)
Sorted ==
  user = "receiver" =>
    \A i, j \in 1 .. size : i < j =>
      Distance(Items[i].seqnum, Items[j].seqnum) \in 1 .. MAX_WINDOW_SIZE

(* The list is the sequence that Sender and Receiver take it for.          *)
Queue == INSTANCE PacketQueue WITH items <- Items
ImplementsPacketQueue == Queue!Spec

=============================================================================
