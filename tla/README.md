# A verification of the LINGI1341 file transfer

The repository holds two C programs that copy a file over UDP: `sender`
(`src/sender.c`) reads it, `receiver` (`src/receiver.c`) writes it. They use
selective repeat with 8-bit sequence numbers, a receive window of at most 31
packets, cumulative acknowledgements (ACK), negative ones for packets cut on the
way (NACK), retransmission on a timer, and an empty packet for the end of the
file. `LINGI1341-linksim-master` is the proxy the programs were tried with: it
delays, loses, corrupts and cuts datagrams. `src/inginious` holds course
exercises that are not linked into either program.

This directory holds TLA+ modules of the transfer, the TLC configurations that
check them on small instances, and proofs, checked by TLAPS, that the safety of
the transfer, of its linked list, of its codec and of its proxy with its delay
queue holds for every size of file, number space, window, list, payload, queue
and link, and for every delay.

Paths below are those of the repository; in `PROJECT.json` they begin with
`src/`.

## Inventory

| Component | State | Operations | What makes it correct |
|---|---|---|---|
| Sender loop, `src/sender.c` | `list` of packets sent and not acknowledged, `seqnum`, `window_size`, `seqnum_EOF`, `pkt_fin`, the position in the input file | one `select()` loop: `check_ack` (with `packet_checked`) or `read_to_list`, then `final_send`, then `check_timeout` | a packet is forgotten only when it was written; the end-of-file packet goes out only when everything was acknowledged; the window is respected; every loss is repaired |
| Receiver loop, `src/receiver.c` | ordered buffer `list`, `waited_seqnum`, `window_size`, the output file | `wait_for_client`, then a `select()` loop: `read_to_list_r` (with `write_in_sequence`), 20 s time out | the output is the file in order, without gap or repetition; old packets are refused; the end is recognised |
| Sequence-number arithmetic, in both | none | `check_in_window` (two different ones), the test of `packet_checked`, the order of `add_specific_queue` | right on both sides of the wrap 255 -> 0 |
| Packet list, `src/nyancat.c` | `head`, `tail`, `size`, nodes | `list_create`, `add_element_queue`, `pop_element_queue`, `add_specific_queue` | the list is the sequence it stands for; ordered; no number twice |
| Packet codec, `src/packet_implement.c` | the packet, its datagram, the receive buffer on the stack | `pkt_decode`, `pkt_encode`, getters and setters | what is encoded is decoded; what was corrupted is refused; a datagram fits the buffer it is encoded into |
| Link, `LINGI1341-linksim-master/link_sim.c` | delay queue, clock, the address of the source, the direction that is simulated | `process_incoming_pkt`, `simulate_link`, `deliver_delayed_pkt`, the `select()` loop | a datagram is dropped, cut, corrupted or delayed, and otherwise passed on, to the other end of the line and to nobody else |
| Delay queue, `min_queue.c` | array heap | `minq_push`, `minq_pop`, `minq_peek` | the earliest datagram leaves first |
| Sockets and options | none of their own | `create_socket`, `real_address`, the two `main` | - |
| Exercises, `src/inginious` | none shared with the programs | chat loop, record files, interpreter | - |

How they interact: the two programs share nothing but datagrams. The sender
sends DATA, the receiver answers every DATA datagram it can decode with at most
one acknowledgement per packet written, or a repeated one, or a NACK. The window
in an acknowledgement sets how many packets the sender may list. Within a
program there is one thread and one loop; an iteration runs to its end before
the next `select()`.

What is hard to test in it:

- numbers are reused every 256 packets while old datagrams may still be on
  their way, and the wrap is handled by five hand-written comparisons, no two of
  which are alike (some add 255 where 256 is meant);
- the window travels with acknowledgements that are lost and reordered, so the
  sender may follow an old one, and it may shrink below what is in flight;
- retransmissions race the acknowledgements of the first copy;
- a packet cut on the way is decoded by a CRC over bytes that were not received,
  so whether it is answered depends on the stack;
- the last packet is sent once and never acknowledged; the receiver may end
  without it, by its time out;
- `write()` may fail or write less than asked between two acknowledgements;
- `malloc()` may fail between two steps that belong together: a piece of the file
  read and not sent, a packet sent and not listed, a packet written and not
  acknowledged;
- the proxy keeps the first address it hears from until it ends: either program,
  or the proxy, may be started again in the meantime.

`PROJECT.json` lists each of these hazards at its line, with the properties that
would catch it.

## Modules

```
SeqNum ---- Link --+-- Sender ---+
   |               |             +-- Transfer --(refines)--> FileTransfer
   |               +-- Receiver -+       |
   |                      |              |
   +-- PacketOrder -------+              |
   |      +-- PacketQueue <--(refines)-- PacketList ---- PacketListProofs
   |                                     |
SeqNumPairs ---- SeqNumProofs ---- TransferProofs ----+
                                         |            |
                                    MemoryFaults -- MemoryProofs

MinHeap --+-- MinQueue --(refines)--> PriorityQueue
          |      +-- MCMinQueue
          |      +-- MinQueueProofs -----+
          +-- LinkSim ------------ LinkSimProofs

Packet ---- Codec ---- CodecProofs           Proxy ---- ProxyProofs
```

- **SeqNum**: the comparisons of sequence numbers, with 256 and 31 as the
  constants `SeqMod` and `MAX_WINDOW_SIZE`.
- **Link**: the path between the programs. A channel is the set of datagrams
  that may still arrive: one is lost by leaving the set at any later send,
  reordered because any member may be next, duplicated by staying in the set
  when it arrives, and cut by `Cut`. A corrupted datagram is refused by
  `pkt_decode` before anything changes: it counts as lost.
- **Sender**: one action per iteration of the loop of `process_sender`:
  `SndAck` (an acknowledgement handled by `check_ack`), `SndRead`
  (`read_to_list`), `SndIdle` (nothing handled). Each ends, as the iteration
  does, with `final_send` and `check_timeout` (`EndIteration`). `Tick` is a
  second of `time(NULL)`; an entry of `list` carries its age instead of a
  timestamp.
- **Receiver**: `RcvConnect` and `RcvNoClient` (`wait_for_client`), then one
  action per branch of `read_to_list_r`: `RcvTruncated` (tr = 1),
  `RcvInsideWindow` (buffer, `write_in_sequence`, acknowledgements),
  `RcvOutsideWindow`; `RcvTimeout` after 20 seconds of silence. The loop of
  `write_in_sequence` is one step: it writes k packets, and k is determined by
  the buffer and by whether a `write()` fails.
- **Transfer**: both programs and the link, the fairness, the properties, the
  inductive invariant, and the refinement mapping.
- **FileTransfer**: what the two programs promise together, without packets,
  windows or numbers: pieces are taken and stored in order, success is reported
  only when everything is stored.
- **SeqNumPairs**: two numbers that are alive at the same time, as far apart as
  they can be, and what the comparisons make of them.
- **PacketOrder**: the place of a packet in an ordered list, shared by
  `Receiver` and the list modules.
- **PacketList**: `nyancat.c` with its pointers: `head`, `tail`, `size` and the
  allocated nodes. An address is a member of `Nodes`; `malloc()` returns any free
  one, or NULL. **PacketQueue** is the sequence it is shown to implement, which is
  what `Sender` and `Receiver` use. `user` is the program whose list it is: the
  sender appends the numbers it uses, of which `MaxUnlisted` in a row may be
  missing because `malloc()` failed for them; the receiver inserts numbers of one
  window in their order; both pop.
- **MinHeap, MinQueue**: the array of `min_queue.c`. The loops of `minq_push` and
  `minq_pop` each move elements along one path of the tree, so each is one
  definition that says where the moved element ends and what the path becomes.
  **PriorityQueue** is what they implement; **MCMinQueue** gives TLC an order with
  ties.
- **LinkSim**: the clock of the proxy, its delays, and one action per iteration of
  `proxy_loop`: `Timeout` (nothing arrived), `NotQueued` and `Queued` (what
  `process_incoming_pkt` did with a datagram), each of which begins, as the
  iteration does, with `update_time` and `deliver_delayed_pkt`. Dates are kept as
  the code keeps them, seconds and microseconds apart. Its heap is `MinHeap`.
- **MemoryFaults**: `Transfer` with a `malloc()` that returns NULL. `Skip` and
  `Unlisted` are iterations of the sender that lose a piece of the file, or the
  copy of a packet just sent; `Unbuffered` and `Unanswered` are those of the
  receiver that drop a packet or follow a null pointer in `write_in_sequence`.
  `FreedTwice` is the `create_ack` that fails for a packet out of the window, which
  is then freed a second time (`src/receiver.c:277`): the receiver is aborted or
  goes on. A failure that costs one datagram and nothing else is a loss of the link.
- **Packet**: `pkt_encode` and `pkt_decode` field by field, the byte order of the
  length, the decoder of `inginious/format_segment/correction.c`, and what
  `simulate_link` does to the bytes. A CRC is an ideal one: equal only for equal
  bytes. **Codec** sends packets through them, with a receive buffer that keeps
  what was there before (`Received`): the decoder does not know how much arrived.
- **Proxy**: one action per iteration of `proxy_loop`, as seen by its addresses:
  who the source is, whether a datagram goes forward or back, whether its
  direction is simulated, and the proxy ending and being started again. `out` is
  the last datagram written.
- **SeqNumProofs, TransferProofs, MemoryProofs, PacketListProofs, MinQueueProofs, LinkSimProofs, ProxyProofs, CodecProofs**: the
  proofs.

| Code | Model |
|---|---|
| `list` of the sender (sent, not acknowledged) | `list`, a sequence of `[seqnum, pos, age]` |
| `seqnum`, `window_size`, `seqnum_EOF` of `sender.c` | `seqnum`, `s_window`, `seqnum_EOF` |
| position in the input file | `offset`: how often `read()` returned data |
| how `process_sender` ended | `sstate` |
| `waited_seqnum`, `window_size`, `list` of `receiver.c` | `waited_seqnum`, `r_window`, `rlist` |
| the output file | `output`, one item per `write()` |
| `wait_for_client`, running, how it ended | `rstate` |
| payload | `pos`: which `read()` filled it; piece `FileLength` is the empty one |
| `list_t`, `node_t` | `head`, `tail`, `size`, `node` of PacketList |
| `e`, `alloc` of `minqueue_t` | `e` (its first `size` slots), `alloc` of MinQueue |
| `delay`, `jitter`, `last_clock`, `pkt_queue` of `link_sim.c` | the same names in LinkSim; `sent` holds what the last iteration delivered |
| `src_addr`, `link_direction` of `link_sim.c`, its socket, `pkt_queue` | `src_addr`, `link_direction`, `inbox`, `queue` of Proxy |
| the pieces `read_to_list` dropped, the packets it sent and did not list | `skipped`, `unlisted` of MemoryFaults (ghosts: no guard but the bound reads them) |
| a packet before `pkt_encode`, its datagram, the buffer of `recv()`, the packet decoded | `sent`, `wire`, `buffer`, `decoded` of Codec; `arrived` and `fate` are ghosts |

`pos` is also a ghost in acknowledgements (how many packets were written when it
was sent). It is there to say what a stale datagram is; no guard of the sender
reads the `pos` of an acknowledgement, and the receiver uses the `pos` of a
packet only where the code looks at its payload: to write it, and to see that it
is empty.

Definitions whose name ends in `_Slip` are not part of the model. Each is the
definition next to it with one plausible mistake; with it in its place TLC finds
a property violated, which shows that the property is about the code.

## Runs

| Run | Asks | Shows |
|---|---|---|
| `transfer` (Transfer.cfg) | types, order of the output and of the receiver's buffer, window bound, nothing forgotten, success and end of file mean delivery, stale datagrams refused, nothing held back, dead branches, the contract, the receiver timing out at any time | holds, 418 681 states |
| `faults` (TransferFaults.cfg) | the inductive invariant when `select()`, `send()`, `write()`, `connect()` fail, the receiver times out at any time, and two acknowledgements may change places | holds, 1 165 205 states |
| `memory` (MemoryFaults.cfg) | what is lost, and who notices, when `malloc()` fails in either program and `write()` is short | nothing but what was dropped is lost; holds, 366 440 states |
| `codec` (Codec.cfg) | encoding, one alteration by the link, decoding from a buffer with old contents, by both codecs | holds, 44 272 states |
| `liveness` (TransferLiveness.cfg) | every behaviour over a fair lossy link ends with the whole file written, with a file longer than the number space and packets ahead of sequence across the wrap | holds, 13 768 states |
| `seqnum_256` (SeqNum256.cfg) | the comparisons for all live pairs of the 256 numbers | holds, 261 120 states |
| `packet_list` (PacketList.cfg) | the pointers are a chain, ordered, and implement the sequence, `malloc()` failures included, for the calls of either program | holds, 106 882 states |
| `min_queue` (MinQueue.cfg) | heap order and the priority queue, growth and a failing `realloc()` included | holds, 1 142 states |
| `link_sim` (LinkSim.cfg) | what the delay queue guarantees although its dates carry nothing over, a delay may wrap around and `sendto()` may fail for now | holds, 190 763 states |
| `proxy` (Proxy.cfg) | whose datagrams go where, with strangers, a source on a new port and a proxy started again | holds, 6 582 states |
| `eof_255` (EndOfFile255.cfg) | the claim of a comment that the end of the file is recognised | violated: see Findings |
| `decode_contract` (DecodeContract.cfg) | what the header says `pkt_decode` verifies | violated |

### Bounds, and why they are enough

- `SeqMod = 8`, window 3, nine pieces and the end of file (`transfer`): numbers are
  used again, a piece and its successor eight later are the same for the programs,
  copies of the first are still alive when the window comes close to the second,
  and two packets wait in the buffer on the two sides of the wrap. `faults` has
  window 2 and 6 numbers, with two acknowledgements at once; `liveness` has
  window 2 and 6 numbers, seven pieces and the end of file: the smallest sizes with
  a packet that waits, ahead of sequence, on the other side of the wrap. The real 256 and 31 satisfy the same assumption
  (`SeqMod >= 2 * MAX_WINDOW_SIZE + 2`), which the proofs use and nothing more.
- `FwdCapacity`, `RevCapacity` (1 or 2): how many datagrams are on their way at
  once. Two let any datagram be overtaken by, or meet a copy of, any other; the
  proofs hold for every capacity.
- `Lifetime`: a datagram is dropped once the sender has read more than
  `Lifetime` pieces beyond it (for an acknowledgement: beyond what had been
  written when it was sent). No protocol that reuses numbers works without such
  a bound. The assumption `Lifetime <= SeqMod - MAX_WINDOW_SIZE - 2` (223 for
  256 and 31) is exact: with one more TLC finds `StaleRefused` violated, because
  the receiver's window test accepts one packet too many across the wrap.
- `RETRANSMISSION_TIMER = 1`: fresh or expired. Ages beyond the timer are alike.
- `packet_list`: numbers modulo 8, a window of 3 and four nodes give every list of
  one window, at every place relative to the wrap; two copies of each number tell
  a duplicate from the packet it repeats. `MaxUnlisted = 2`: the sender's list may
  skip one number or two at any place, which is enough to span more than a window.
- `min_queue`: seven elements make a heap whose path to the root is three long,
  and, growing by two slots, three growths.
- `memory`: two pieces dropped, next to one another or apart, listed before or
  after others, and any number of failures of the receiver; no number is used
  twice, so a datagram of any age may arrive. The proofs are for every file, with
  numbers used again.
- `codec`: a byte of two values and a payload of up to two bytes. A length of 3 is
  too large; 1 and 2 differ only by their byte order; inverting a byte of a
  length gives two of the three others, and of a payload another that is also
  sent. The buffer may keep any part of what it held. The proofs are for
  every size.
- `proxy`: a source, the same one on another port, a stranger and the receiver;
  three datagrams at the socket and two delayed let any two overtake or meet
  across one restart. The proofs are for every number of each.
- `link_sim`: a second of three ticks, delays of 1 and 4 (below and above it),
  jitter 0 and 3 and up to three datagrams in the queue give every way in which a
  date can pass the end of a second, with two others to be in or out of order
  with, and a jitter that makes the delay wrap around; the cap of 5 ticks lies
  between the delays that are used and those that wrapped. The clock stops at
  `TimeBound`, the end of the second second.
- `CHECK_DEADLOCK` stays on: in `Transfer` the only states without a further step are those
  where both programs have ended, and those are given the stuttering step
  `Ended`; in `LinkSim` it is the proxy that has ended.

### Fairness

`FairSpec` assumes what the environment of the programs gives, and nothing of
what they decide:

- each program is scheduled, the input file is readable, seconds pass, and a
  `select()` that is to time out does (`WF` on `Read`, `Idle`, `Second`,
  `NoClient`, `Timeout`);
- the link loses datagrams but not for ever: a packet sent again and again gets
  into the channel in the end, arrives, and the acknowledgement of it gets back
  in the end (`SF` on `HeadCarried`, `Arrives`, `LastAckArrives`, `Connect`);
- a duplicate does not arrive for ever (`LastCopyArrives`), and `write()` does
  not fail for ever (part of `Arrives`);
- the receiver's 20 seconds do not run out while the sender is still sending
  (`Impatient = FALSE`). With `Impatient = TRUE` (runs `transfer` and `faults`) they may, and
  then only safety holds: the code has no way to resume, and a sender whose
  receiver has gone retransmits for ever.

Nothing is assumed of the end-of-file packet, which is sent once: if it is lost
the receiver ends by its time out with the whole file written, and
`TransferCompletes` says just that.

## Proofs

All theorems are about the `Spec` of a module (no fairness) and for every value
of its constants, subject to the assumptions the module names: for the transfer
file length, number space, window, capacities, lifetime, and whether calls fail
(`SeqNumAssumption`, `LinkAssumption`, `SenderAssumption`, `ReceiverAssumption`,
`TransferAssumption`), and with memory faults the number of pieces dropped
(`MemoryAssumption`, `FewDropped`); for `SeqNumPairs` that the windows tried are windows
(`WindowSampleAssumption`); for the list a finite set of addresses
(`PacketListAssumption`); for the delay queue that `cmp` is an order of its elements
(`MinQueueAssumption`) and for the clock what its constants are
(`LinkSimAssumption`); for the codec the number of values of a byte and the size
of a payload (`PacketAssumption`); for the proxy its peers and bounds
(`ProxyAssumption`).

### The transfer

`IInv` is the inductive invariant. The properties alone are not inductive: that
a stale packet is refused rests on its number being its position modulo
`SeqMod`, and on that position being close to where both programs are. So `IInv`
says

- `SenderInv`: the list holds consecutive pieces, the last one being the last
  read, and every number is a position modulo `SeqMod`;
- `ReceiverInv`: `waited_seqnum` is the length of the output modulo `SeqMod`, the
  output is a prefix of the file, the buffer is strictly ordered by position and
  ahead of the output;
- `ChannelInv`: every datagram was sent and is not older than `Lifetime`; an
  acknowledgement covers no more than what was written;
- `PositionInv`: what the sender still lists begins no later than the output
  ends, and the output ends no later than what was read.

The key step is arithmetic: two positions at most `SeqMod - MAX_WINDOW_SIZE - 2`
behind or `MAX_WINDOW_SIZE` ahead of one another are told apart by each
comparison of the code, wrap included. `SeqNumProofs` proves that of each
(`AckCoversMod`, `RcvInWindowMod`, `PrecedesMod`) for numbers that are positions
modulo `SeqMod`, and, of `SeqNumPairs`, what each accepts exactly or nearly:
`AckCoversExactly`, `ReceiverWindow`, `SenderWindow`, `OrderOfTheFile`. `TransferProofs`
then has one lemma per action of the sender and one per action of the receiver
(the hard one is `WriteStep`, for the loop of `write_in_sequence`), and puts them
together.

Proved: `TypeOK`, `IInv`, `FileIsPrefix`, `OnlyWrittenForgotten`,
`DoneMeansDelivered`, `EofMeansDelivered`, `StaleRefused`, `WindowBounded`,
`EofBranchesUnused` (each as `Spec => []...`), and `Refinement`: if `write()`
writes all it is given, `Spec => Contract!Spec`. `EofEndsReceiver` is proved under
`FileLength % SeqMod # SeqMod - 1` (`EofIsTheEnd`), which is exact: `eof_255` is the
other case.

The last part of `TransferProofs` adds what `IInv` does not say. `BufferOrdered` also bounds the
length of the buffer: positions that increase strictly, all within a window, are
no more than the window, which is proved by mapping the indices of the list into
that interval (`FiniteSetTheorems`). `NothingHeldBack` needs that insertion
leaves the packet waited for only at the head, and that the loop of
`write_in_sequence` stops only at a gap: `waited_seqnum` not being the number of
the head means, inside one window, that it is not its position either.

### The memory faults

A piece that `read_to_list` gives up on gets no number, and the next piece takes
the one it would have had: numbers are no longer positions modulo `SeqMod`. `MemInv`,
the inductive invariant of `MemoryProofs`, puts a count in the place of the
position: `Num(pos)` is how many of the pieces before `pos` have a number. The
count is strictly increasing on those (`NumGrows`), so the comparisons tell counts apart
as they do positions, and `AckCoversMod`, `RcvInWindowMod` and `PrecedesMod` are used
again.

What does not carry over is the list of consecutive pieces. A piece may be missing
from it because the sender kept no copy, and it may never be written, so
`OnlyWrittenForgotten` fails. `Accounted` says what is left: a piece read is in
the list, or was dropped, or is written and before all those of the list. Counting
from the first piece not written, the list and the dropped pieces account for all
that was read, so the sender is at most `MAX_WINDOW_SIZE + MaxDropped` counts ahead
(`ListReaches`, `MemPositions`). The assumption of the theorems, `FewDropped`, is that
this is no more than `Behind`, the age the comparisons bear: for 256 and 31, at most
192 dropped pieces in one transfer. It is exact. With 8 numbers, a window of 2 and 3
pieces dropped in a file of 10, TLC finds `OutputIsNumberedFile` violated.

The lemmas about counts (`CountBetween`, `CountReached`, `CountBounded`) are about the
cardinality of a set of pieces. Then there is one lemma per action, as in
`TransferProofs`. Those of the receiver share `MemWriteStep`, for any number of
packets written and of acknowledgements sent: the loop of `write_in_sequence` as it
ends, and as it is cut off by the `create_ack` that returned NULL.

Proved, for every file length and so with numbers used again: `MemInv`,
`OutputIsNumberedFile`, `DoneAccounts` and `EofAccounts`.

### The packet list

`PacketListProofs` proves that whatever the programs call, and whatever `malloc()`
returns, the pointers of `nyancat.c` are a chain of the allocated nodes
(`ListIsChain`), the receiver's ordered and without repetition (`ListIsSorted`), and behave as
the sequence that `Sender` and `Receiver` take the list for (`ListRefinement`,
`Spec => ImplementsPacketQueue`): the transfer, proved for the sequence, stands
on the pointers. The invariant, `ListInv`, names what the pointers only imply: there are
a sequence of addresses `a` and one of packets `q` such that the nodes are
exactly those at `a`, each holds the packet of `q` at its place and points to the next,
and, in the list of the receiver, the numbers of `q` increase within one window.

`ChainInserted` and `ChainPopped` say what relinking one node does to `a` and `q`.
What the loop of `add_specific_queue` meets is given by `FollowChain`: i pointers
from the head lead to the address i + 1 of `a`, and to NULL at its end. That is
an induction over i, done by a least counterexample (`LeastElement`), since `Follow`
is a recursive function. `OrderInWindow` reduces the two-sided comparison
of the loop, wrap included, to the distance from where the window begins.

### The delay queue

`MinQueueProofs` proves, for every order `cmp`, every set of elements and every
growth, that the array of `min_queue.c` is a heap (`HeapIsOrdered`) and implements
the priority queue (`QueueRefinement`, `Spec => ImplementsPriorityQueue`: no element
is lost or repeated, a failed `realloc()` changes nothing, the one on top is a least
one). The paths of the tree are a recursive function, and every fact that needs an
induction over its levels is proved by the least slot for which it fails
(`LeastNatural`): that the root is a least element (`RootIsLeast`), and that some slot
on the path is where `minq_push` stops and some slot is where `minq_pop` does
(`SinkExists`), which is that the loops end. The heap is kept because each loop
moves elements along one path only (`PushKeepsHeap`, `SunkIsHeap`), and the elements
are the same because the move is a bijection of the slots (`PushRearranges`,
`SunkRearranges`). That `has_child` answers 0 for "none" is where slot 0, which has
itself for a left child, must be treated apart (`HasChildFacts`).

### The proxy's clock

`LinkSimProofs` uses the queue through an `INSTANCE` of `MinQueueProofs` with
`pkt_slot_cmp`, which is proved to be an order although it compares dates that
carry nothing over. `LinkInv` says that the queue is a heap of datagrams whose dates are
what `process_incoming_pkt` made of their arrival and one of the delays that can be
applied. `Drained` says what the loop of `deliver_delayed_pkt` pops: a sequence of
heads, each least in a smaller heap, up to the first that is not due. The
microseconds of a date are less than two seconds, so the comparison errs by less
than one, and five properties follow: `NoneOverdue` because the head that stays
is least, `LessThanASecondEarly` from that error, `HeldBelowCap` because a delay is a
remainder, wrapped or not, and the two about a link without jitter because there
the order of dates is the order of arrival. The sixth, `LeavesBySending`
(`NothingLostInQueue`), is about what leaves: every pop takes the head and
rearranges the rest (`HeapRearranges`, `TakenAndLeft`), so of each datagram there
are as many in the queue and among those sent as there were.

### The codec

`CodecProofs` begins with arithmetic: a number below `BYTE * BYTE` is its two
bytes and no other two (`TwoBytes`, `Joined`), so `ntohs` undoes `htons`
(`SwappedTwice`) and a length with an inverted byte is another length. Then
`RoundTrip`: from any buffer that holds the datagram of a packet, `pkt_decode`
reads that packet; and `InvertedIsRefused`: not from one with an inverted byte,
in the header (its CRC covers every field), in a CRC, or in the payload.

`CodecInv` says that the datagram on the wire, and the one received last, is the
encoding of the packet sent last, whole, cut or with one byte inverted, and that
the buffer holds the one received last. From it follow `EncodedFits`,
`WholeIsAccepted`, `AcceptedWasSent` and `CodecsAgree`: the decoder of the course
knows how much was received, that of the programs does not, but both find every
inverted byte (`InvertedIsRefused` is about both).

### The proxy

`ProxyInv` is `TypeOK`, `PrivateLine`, and two facts about where a datagram can
come from: `Provoked` (the receiver sends only what it was sent something for, so
before a restart the source is not the receiver, and is known whenever the
receiver has something to answer or an answer is on its way) and `Routed` (a delayed datagram has a known source,
and the direction its sender gives it). `PrivateLine`, `NoEcho` and
`AnswersRelayed` follow.

### What is only model-checked

Liveness (`TransferCompletes`: out of the prover's reach), and `EofEndsReceiver` for
the files its theorem excludes, for which it is false; so is `DecodesAsDocumented`.

## Findings

Two claims of the repository are properties that a run finds violated:

- `eof_255`: the comment of `write_in_sequence` promises "-10 if EOF received"
  (`src/receiver.c:129`), but `:151` compares with `waited_seqnum-1`, which does
  not wrap. A file of 256k + 255 packets leaves the receiver running after it has
  written everything; it ends by its 20-second time out. `EofIsTheEnd`: every
  other file ends the receiver.
- `decode_contract`: the header says that `pkt_decode` verifies the CRC of the payload
  "s'il est present", and that the length and tr agree with the number of bytes
  received (`src/packet_implement.h:51-54`). The code never looks at that number.
  The length of a truncated packet is that of the whole one, so payload and CRC
  are read from what the stack still holds (`src/packet_implement.c:117`): a cut
  header, which is what a NACK is for, is refused as corrupt, unless they happen
  to match. `DecodesAsDocumented` is the contract of the header. What holds is
  `AcceptedWasSent`; the transfer assumes that either may happen, and a packet
  that is refused is repaired by a time out.

In the other places where a comment and the code disagree, the property states
what both would satisfy, so that it holds of the code and would of the comment:

- `write_in_sequence` tests "ahead of sequence" with a plain `>`
  (`src/receiver.c:134`): across the wrap it takes a packet ahead for one in
  sequence and sends no acknowledgement, against the comment at `:120-128`.
  The missing packet is sent again by the sender's timer all the same:
  `TransferCompletes`, whose run reaches such states.
- The two `check_in_window` are off by one, in different ways: the receiver's takes
  a packet beyond its window, `<=` for `<` (`src/receiver.c:105`), and two of them
  across the wrap, 255 for 256 (`:111`), against "1 if seqnum is in the window, 0
  otherwise" (`:100`); the sender's takes one, across the wrap only (`src/sender.c:188`),
  against the same comment (`:178`) and "which fit the window" (`:216`).
  `ReceiverWindow` and `SenderWindow` bound what each accepts. `StaleRefused` shows
  the receiver's harmless.
- `link_sim.c:217` adds a delay to the microseconds with no carry, and dates are
  compared by seconds first: a datagram leaves before its delay has passed,
  against the comment at `:142`. `LessThanASecondEarly`, `NoneOverdue` and
  `NoJitterKeepsOrder` say what is left of it.
- `timeval_diff` is not the difference its comment says it is (`link_sim.c:106`): it
  borrows a second only if seconds are left (`:115`), so a wait of less than a
  second across the end of one becomes 1 ms, again and again.
  `NoJitterWakesInTime`: the wait is never too long, without jitter. With
  jitter the head of the queue need not be the datagram due first (against
  "closest expiration date", `:321`), and it is.
- The delay is not "capped to 10s" (`link_sim.c:195`) but a remainder (`:201`): 10
  seconds are none. A jitter greater than the delay (`:199`) wraps around as
  unsigned. `AppliedDelays` is what they amount to; `HeldBelowCap` says no
  datagram waits as long as the cap.

Places where the code is not what it looks like, with no claim to set against
it:

- A short `write()` is taken for a whole one (`src/receiver.c:141`): the rest is
  lost, and acknowledged at `:156`. `Torn` in the output is such a packet;
  `OutputIsNumberedFile` says that nothing else is lost with it.
- The window is taken from whatever packet arrives (`src/sender.c:143`), so a late
  acknowledgement brings an old one back. `WindowBounded` holds for
  `MAX_WINDOW_SIZE` and not for the window last advertised; what the sender sends
  too much is refused, or buffered.
- `pkt_encode` forgets the four bytes of the second CRC when it tests the room in
  its buffer (`src/packet_implement.c:150`); its callers leave enough
  (`EncodedFits`).
- The decoder of the course accepts a datagram whose length is too large
  (`inginious/format_segment/correction.c:104`). `CodecsAgree` holds for all
  others that are not truncated.
- Where a `malloc()` fails, a piece of the file is lost in `read_to_list`
  (`src/sender.c:264`, `:271`) and both programs report success: `DoneAccounts`
  and `EofAccounts` say that this is all that is hidden. A packet that could not
  be listed (`:300`) is never sent again; if it is lost the sender retransmits
  the next one for ever. `src/receiver.c:133` and `:161` follow a null pointer,
  and `:277` frees a packet a second time.
- The receiver's time out and its end of file have the same exit status
  (`src/receiver.c:381`): `EofMeansDelivered` is about the second only.
- A proxy started again in the middle of a transfer takes the receiver for its
  source if an answer of it comes first, and from then on sends the receiver its
  own datagrams: `NoEcho` holds only until a restart, `PrivateLine` always.

## Not modelled, and why

- The end-of-file packet after a failed `malloc(0)` (`src/sender.c:280`): `pkt_fin`
  then points to freed memory. `malloc(0)` is taken to succeed where `pkt_new`
  just did.
- A clock set back again and again: set back once, it makes packets expire at
  once, which in the model they may do before any iteration. Timestamps in
  acknowledgements (the sender never reads them).
- What a second `free()` does to later allocations: in `FreedTwice` the program is
  aborted or goes on.
- Sockets, options and the two `main`: straight-line system calls.
- The bytes and addresses in one model with the transfer. In LinkSim a datagram
  is the moment it arrived and its delay, in Proxy its sender, in Codec its
  bytes. The transfer is checked under every order of arrival and every verdict
  of the decoder, so nothing in it depends on them.
- The liveness of the proxy: it waits for the network, and promises nothing to a
  datagram whose `sendto()` keeps failing.
- The setters of `packet_implement.c` and the `pkt_encode` of `correction.c`: they
  store what they are given after a range check, and the programs give them only
  what passes it. `NewPacket` is a packet as `read_to_list` and `create_ack` set it.
- The course exercises: not part of the programs, with no state from one call to
  the next but a file. `format_segment/packet_implement.c` is an earlier state of
  the codec that is modelled.

## Plan

Done, in this order: SeqNum, Link, Sender, Receiver, Transfer (the behaviour that
matters most), FileTransfer and the refinement, the proofs; PacketList, MinQueue
and LinkSim; then Packet and Codec, Proxy, MemoryFaults, and the proofs of the
codec, of the proxy, of the receiver's buffer and of the packet list, of the delay
queue and of the proxy's clock, and of the memory faults.

Left: the record files of `src/inginious`.
