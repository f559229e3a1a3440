------------------------------ MODULE LinkSim -------------------------------
(***************************************************************************)
(* link_sim.c: the proxy's clock, its queue of delayed datagrams and its   *)
(* select() loop.  What the proxy does to the bytes of a datagram is in    *)
(* Link; here a datagram is the moment it arrived and its delay.           *)
(*                                                                         *)
(* Times count ticks.  A second has SECOND of them (1000000 microseconds   *)
(* in the code), and MS is the shortest time out of select().              *)
(***************************************************************************)
EXTENDS Integers, Sequences, FiniteSets

CONSTANTS
  SECOND, MS,
  DELAY_CAP,       \* 10000 ms
  UINT,            \* 2^32: unsigned arithmetic wraps at it
  DelayOptions,    \* the delays and jitters the program is started with
  JitterOptions,
  WriteErrors,     \* whether sendto() may fail, for now or for good
  QueueBound,      \* bound: datagrams in the queue
  TimeBound        \* bound: the time at which the clock stops

ASSUME LinkSimAssumption ==
  /\ SECOND \in Nat \ {0}
  /\ MS \in 1 .. SECOND
  /\ DELAY_CAP \in Nat \ {0}
  /\ UINT \in Nat \ {0}
  /\ DelayOptions \subseteq 0 .. UINT - 1
  /\ JitterOptions \subseteq 0 .. UINT - 1
  /\ WriteErrors \in BOOLEAN
  /\ QueueBound \in Nat
  /\ TimeBound \in Nat

VARIABLES
  delay, jitter,  \* options
  last_clock,     \* the time of the last update_time
  queue,          \* pkt_queue, the array of its heap
  sent,           \* the delayed datagrams this iteration delivered, in order
  status          \* "run"; "blocked" if sendto() must be tried again;
                  \* "crashed"

vars == <<delay, jitter, last_clock, queue, sent, status>>
options == <<delay, jitter>>

-----------------------------------------------------------------------------
(* Times as the code keeps them.                                           *)
Timeval(t) == [tv_sec |-> t \div SECOND, tv_usec |-> t % SECOND]
Value(tv) == tv.tv_sec * SECOND + tv.tv_usec

(* timeval_cmp: left > right.                                              *)
TimevalCmp_Slip(left, right) == left.tv_sec >= right.tv_sec
TimevalCmp(left, right) ==
  \/ left.tv_sec > right.tv_sec
  \/ left.tv_sec = right.tv_sec /\ left.tv_usec > right.tv_usec

(* timeval_diff: the borrowed second is added to the microseconds only if  *)
(* seconds are left after it was taken.                                    *)
TimevalDiff_Slip(a, b) ==
  LET sec  == a.tv_sec - b.tv_sec
      usec == a.tv_usec - b.tv_usec IN
  [tv_sec |-> sec, tv_usec |-> IF usec < 0 THEN usec + SECOND ELSE usec]
TimevalDiff(a, b) ==
  LET sec  == a.tv_sec - b.tv_sec
      usec == a.tv_usec - b.tv_usec IN
  IF usec >= 0 THEN [tv_sec |-> sec, tv_usec |-> usec]
  ELSE [tv_sec  |-> sec - 1,
        tv_usec |-> IF sec - 1 # 0 THEN usec + SECOND ELSE usec]

(* The delays simulate_link may draw.  Without a jitter the delay itself;  *)
(* with one, unsigned numbers that may wrap around below zero, but then a  *)
(* remainder is taken.                                                     *)
AppliedDelays_Slip ==
  IF jitter = 0 THEN {delay % DELAY_CAP}
  ELSE {(delay + r) % UINT : r \in 0 .. jitter - 1} \cup
       {(delay - r) % UINT : r \in 0 .. jitter - 1}
AppliedDelays ==
  IF jitter = 0 THEN {delay % DELAY_CAP}
  ELSE {((delay + r) % UINT) % DELAY_CAP : r \in 0 .. jitter - 1} \cup
       {((delay - r) % UINT) % DELAY_CAP : r \in 0 .. jitter - 1}

(* The expiration date: the seconds and the rest of the delay are added to *)
(* those of the clock, with no carry between them.                         *)
Expiration(t, applied) ==
  [tv_sec  |-> (t \div SECOND) + (applied \div SECOND),
   tv_usec |-> (t % SECOND) + (applied % SECOND)]

(* A pkt_slot.  at, when it was received, is a ghost.                      *)
PktSlot(t, applied) == [ts |-> Expiration(t, applied), at |-> t]
Due(slot) == Value(slot.ts)

pkt_slot_cmp(a, b) == TimevalCmp(a.ts, b.ts)
Heap == INSTANCE MinHeap WITH cmp <- pkt_slot_cmp

-----------------------------------------------------------------------------
(* get_queue_timeout, on a queue that is not empty.                        *)
QueueTimeout ==
  LET timeout == TimevalDiff(Heap!Peek(queue).ts, Timeval(last_clock)) IN
  IF timeout.tv_sec < 0 \/ (timeout.tv_sec = 0 /\ timeout.tv_usec <= 0)
  THEN MS
  ELSE Value(timeout)

(* The queue after n of its elements were popped.                          *)
PoppedTimes(n) ==
  LET after[i \in 0 .. n] == IF i = 0 THEN queue ELSE Heap!Popped(after[i - 1])
  IN after[n]

Expired(slot, clock) == TimevalCmp(Timeval(clock), slot.ts)

(* deliver_delayed_pkt at time clock: n datagrams are written out, until   *)
(* the first is not expired or sendto() fails.                             *)
Drains_Slip(n, clock, failed) ==
  /\ n = 1 => Expired(Heap!Peek(queue), clock)
  /\ n = IF queue # <<>> /\ Expired(Heap!Peek(queue), clock) THEN 1 ELSE 0
  /\ ~failed
Drains(n, clock, failed) ==
  /\ \A i \in 0 .. n - 1 : Expired(Heap!Peek(PoppedTimes(i)), clock)
  /\ LET rest == PoppedTimes(n)
         more == rest # <<>> /\ Expired(Heap!Peek(rest), clock) IN
     IF failed THEN WriteErrors /\ more ELSE ~more

Sent(n, clock) ==
  /\ last_clock' = clock
  /\ sent' = [i \in 1 .. n |-> Heap!Peek(PoppedTimes(i - 1))]

(* update_time and deliver_delayed_pkt, the first part of every iteration. *)
Deliver(n, clock, failed) ==
  /\ Drains(n, clock, failed)
  /\ Sent(n, clock)
  /\ status' = IF failed THEN "blocked" ELSE "run"

(* The queue deliver_delayed_pkt leaves: a datagram whose sendto() failed  *)
(* is still at its head.                                                   *)
LeftQueued_Slip(n, failed) == PoppedTimes(IF failed THEN n + 1 ELSE n)
LeftQueued(n, failed) == PoppedTimes(n)

-----------------------------------------------------------------------------
Init ==
  /\ delay \in DelayOptions
  /\ jitter \in JitterOptions
  /\ last_clock \in 0 .. SECOND - 1
  /\ queue = <<>>
  /\ sent = <<>>
  /\ status = "run"

Running == status # "crashed"

(* select() times out: no sooner than it was told to.                      *)
Timeout ==
  /\ Running
  /\ queue # <<>>
  /\ \E clock \in last_clock + QueueTimeout .. TimeBound,
       n \in 0 .. Len(queue), failed \in BOOLEAN :
       Deliver(n, clock, failed) /\ queue' = LeftQueued(n, failed)
  /\ UNCHANGED options

(* A datagram arrives that is not queued (process_incoming_pkt): nothing   *)
(* to receive after all, a malformed one, a stranger's, a lost one, or one *)
(* that is written out at once, because the link is not simulated that way *)
(* or there is no delay.                                                   *)
NotQueued ==
  /\ Running
  /\ \E clock \in last_clock .. TimeBound,
       n \in 0 .. Len(queue), failed \in BOOLEAN :
       Deliver(n, clock, failed) /\ queue' = LeftQueued(n, failed)
  /\ UNCHANGED options

(* simulate_link delays it.                                                *)
Queued ==
  /\ Running
  /\ delay # 0
  /\ \E clock \in last_clock .. TimeBound,
       n \in 0 .. Len(queue), failed \in BOOLEAN :
       /\ Deliver(n, clock, failed)
       /\ Len(queue) - n < QueueBound
       /\ \E applied \in AppliedDelays :
            queue' = Heap!Pushed(LeftQueued(n, failed), PktSlot(clock, applied))
  /\ UNCHANGED options

(* Whatever returns EXIT_FAILURE: sendto(), after n delayed datagrams were *)
(* written out; recvfrom(), malloc(), the clock, select().                 *)
Crash ==
  /\ WriteErrors
  /\ Running
  /\ \E clock \in last_clock .. TimeBound, n \in 0 .. Len(queue) :
       /\ \A i \in 0 .. n - 1 : Expired(Heap!Peek(PoppedTimes(i)), clock)
       /\ Sent(n, clock)
       /\ queue' = PoppedTimes(n)
  /\ status' = "crashed"
  /\ UNCHANGED options

(* The program has ended.                                                  *)
Ended == ~Running /\ UNCHANGED vars

Next == Timeout \/ NotQueued \/ Queued \/ Crash \/ Ended

Spec == Init /\ [][Next]_vars

-----------------------------------------------------------------------------
(* Although dates are compared without a carry, no datagram that is due    *)
(* stays in the queue after an iteration, unless sendto() must be tried    *)
(* again.                                                                  *)
NoneOverdue ==
  status = "run" => \A k \in DOMAIN queue : Due(queue[k]) >= last_clock

(* A datagram leaves less than a second before it is due.                  *)
LessThanASecondEarly ==
  \A i \in DOMAIN sent : last_clock > Due(sent[i]) - SECOND

(* Without jitter the link does not reorder: of two datagrams, the one     *)
(* received first leaves first.                                            *)
NoJitterKeepsOrder ==
  jitter = 0 =>
    /\ \A i, j \in DOMAIN sent : i < j => sent[i].at <= sent[j].at
    /\ \A i \in DOMAIN sent, k \in DOMAIN queue : sent[i].at <= queue[k].at

(* Without jitter select() is never told to wait beyond the moment a       *)
(* queued datagram is due.                                                 *)
Oversleeps(slot) == QueueTimeout > MS /\ last_clock + QueueTimeout > Due(slot)
NoJitterWakesInTime ==
  jitter = 0 => \A k \in DOMAIN queue : ~Oversleeps(queue[k])

(* A datagram leaves the queue only by being sent: whatever sendto()       *)
(* returns, an iteration writes out each one it takes from the queue, once,*)
(* and adds one at most.                                                   *)
Copies(s, slot) == Cardinality({k \in DOMAIN s : s[k] = slot})
LeavesBySending ==
  [][/\ \A k \in DOMAIN queue :
          Copies(queue, queue[k]) <= Copies(sent' \o queue', queue[k])
     /\ Len(sent' \o queue') <= Len(queue) + 1]_vars

(* No datagram is held for DELAY_CAP or longer, whatever the options: not  *)
(* when delay minus jitter wraps around below zero, and not although a     *)
(* date may be late in its carry.                                          *)
HeldBelowCap ==
  status = "run" =>
    \A k \in DOMAIN queue : last_clock - queue[k].at < DELAY_CAP

=============================================================================
