---------------------------- MODULE OutputQueue ----------------------------
(***************************************************************************)
(* The queues of an output port of the switch (network_input_queue,        *)
(* network_queue_manage, network_output_schedule and the taking of a bufid *)
(* by pkt_read_control), clock by clock.                                   *)
(*                                                                         *)
(* The queues of a port are linked lists in one RAM: at the address of a   *)
(* bufid stands the bufid that follows it.  An arriving bufid is appended  *)
(* by a pipeline of two registers, the head of a queue is taken by a       *)
(* pipeline of four to six, and the two work at the same time, on the same *)
(* entry when the queue holds only one.  A variable is a register, the     *)
(* action Tick an edge of the clock; a primed variable depends on the      *)
(* registers before the edge only.                                         *)
(*                                                                         *)
(* Which queue a packet goes to (its type and the input gate), the output  *)
(* gates, and when a packet has been sent are inputs.                      *)
(***************************************************************************)
EXTENDS Integers, Sequences, FiniteSets

CONSTANTS Queues,  \* the queues of the port, 0 first
          Ids      \* the bufids

ASSUME OutputQueueAssumption ==
  /\ IsFiniteSet(Queues) /\ Queues \subseteq Nat /\ 0 \in Queues
  /\ IsFiniteSet(Ids) /\ Ids \subseteq Nat /\ 0 \in Ids

None == -1
Nowhere == [queue |-> None, addr |-> 0, data |-> 0]

VARIABLES
  arrival,      \* r_queue_wr, rv_queue, rv_bufid_cache
  link,         \* o_queue_wr, ov_queue_id, ov_queue_waddr, ov_queue_data
  count,        \* rv_queue0_count to rv_queue7_count
  last_addr,    \* rv_queue0_last_addr to rv_queue7_last_addr
  first_addr,   \* rv_queue0_first_addr to rv_queue7_first_addr
  empty_delay,  \* rv_empty_delay: the queues that were empty a clock ago
  bufid_delay,  \* rv_pkt_bufid_delay: the bufid that left a clock ago
  osc,          \* ov_osc_state, ov_schdule_queue, o_schdule_queue_wr
  raddr, rd,    \* ov_queue_raddr, o_queue_rd
  nqm_state, rdata, rdata_valid,  \* of network_queue_manage
  ram, ram_q,   \* the RAM and its output register
  cache, ack,   \* rv_cache_pkt_bufid, o_pkt_bufid_ack
  prc,          \* ov_prc_state, rv_read_base_addr
  fifo          \* history: per queue, the bufids that came and have not left

vars == <<arrival, link, count, last_addr, first_addr, empty_delay, bufid_delay,
          osc, raddr, rd, nqm_state, rdata, rdata_valid, ram, ram_q, cache, ack,
          prc, fifo>>

TypeOK ==
  /\ arrival \in [queue : Queues \cup {None}, id : Ids]
  /\ link \in [queue : Queues \cup {None}, addr : Ids, data : Ids]
  /\ count \in [Queues -> 0 .. Cardinality(Ids)]
  /\ last_addr \in [Queues -> Ids]
  /\ first_addr \in [Queues -> Ids]
  /\ empty_delay \subseteq Queues
  /\ bufid_delay \in Ids \cup {None}
  /\ osc \in [state : {"IDLE_S", "ACK_S"}, queue : Queues, wr : BOOLEAN]
  /\ raddr \in Ids /\ rd \in BOOLEAN
  /\ nqm_state \in {"IDLE_S", "READ_S", "WAIT0_S", "WAIT1_S"}
  /\ rdata \in Ids /\ rdata_valid \in BOOLEAN
  /\ ram \in [Ids -> Ids] /\ ram_q \in Ids
  /\ cache \in Ids \cup {None} /\ ack \in BOOLEAN
  /\ prc \in [state : {"IDLE_S", "READ_FIRST_S", "READ_S"}, id : Ids \cup {None}]
  /\ fifo \in [Queues -> Seq(Ids)]

Init ==
  /\ arrival = [queue |-> None, id |-> 0]
  /\ link = Nowhere
  /\ count = [q \in Queues |-> 0]
  /\ last_addr = [q \in Queues |-> 0]
  /\ first_addr = [q \in Queues |-> 0]
  /\ empty_delay = Queues
  /\ bufid_delay = None
  /\ osc = [state |-> "IDLE_S", queue |-> 0, wr |-> FALSE]
  /\ raddr = 0 /\ rd = FALSE
  /\ nqm_state = "IDLE_S" /\ rdata = 0 /\ rdata_valid = FALSE
  /\ ram = [i \in Ids |-> 0] /\ ram_q = 0
  /\ cache = None /\ ack = FALSE
  /\ prc = [state |-> "IDLE_S", id |-> None]
  /\ fifo = [q \in Queues |-> <<>>]

-----------------------------------------------------------------------------

(* A bufid leaves queue q at this edge; one is appended to q. *)
Leaves(q) == rdata_valid /\ osc.queue = q
Appends(q) == arrival.queue = q

(* network_input_queue, the counts; the mutants forget one of the two when a
   bufid comes and another leaves at the same edge. *)
NextCount_LeaveWins ==
  [q \in Queues |-> IF Leaves(q) THEN count[q] - 1
                    ELSE count[q] + (IF Appends(q) THEN 1 ELSE 0)]
NextCount_AppendWins ==
  [q \in Queues |-> IF Appends(q) THEN count[q] + 1
                    ELSE count[q] - (IF Leaves(q) THEN 1 ELSE 0)]
NextCount ==
  [q \in Queues |-> count[q] + (IF Appends(q) THEN 1 ELSE 0)
                             - (IF Leaves(q) THEN 1 ELSE 0)]

(* network_input_queue, writing to a queue: the first of an empty queue is
   linked to nothing, any other follows the last. *)
NextLink ==
  IF arrival.queue = None THEN Nowhere
  ELSE IF count[arrival.queue] = 0
  THEN [queue |-> arrival.queue, addr |-> arrival.id, data |-> 0]
  ELSE [queue |-> arrival.queue, addr |-> last_addr[arrival.queue], data |-> arrival.id]

NextLast ==
  [q \in Queues |-> IF Appends(q) THEN arrival.id ELSE last_addr[q]]

(* The link being written at this edge is that of address i in queue q; the
   mutants lose the two corrections that rest on it. *)
LinkedAfterHead_Never(q, i) == FALSE
LinkedAfterHead(q, i) == link.queue = q /\ i = link.addr
LinkedAfterLeft_Never(q) == FALSE
LinkedAfterLeft(q) == link.queue = q /\ bufid_delay = link.addr

(* virtual_queue_manage, the head of a queue: the first of an empty queue, or
   the successor of the bufid that leaves, unless that successor is only
   now, or was only after it left, appended. *)
NextFirst ==
  [q \in Queues |->
     IF q \in empty_delay
     THEN IF link.queue = q THEN link.addr ELSE first_addr[q]
     ELSE IF Leaves(q)
     THEN IF LinkedAfterHead(q, raddr) THEN link.data ELSE rdata
     ELSE IF LinkedAfterLeft(q) THEN link.data ELSE first_addr[q]]

(* output_schedule_control: the first queue that is open and not empty, then
   nothing until the bufid has been taken; the mutant does not wait. *)
Ready(gate) == {q \in gate : count[q] > 0}
NextOsc_NoWait(gate) ==
  IF osc.state = "ACK_S"
  THEN [osc EXCEPT !.wr = FALSE, !.state = "IDLE_S"]
  ELSE IF Ready(gate) = {}
  THEN [osc EXCEPT !.wr = FALSE]
  ELSE [state |-> "ACK_S", wr |-> TRUE,
        queue |-> CHOOSE q \in Ready(gate) : \A r \in Ready(gate) : q <= r]
NextOsc(gate) ==
  IF osc.state = "ACK_S"
  THEN [osc EXCEPT !.wr = FALSE, !.state = IF ack THEN "IDLE_S" ELSE "ACK_S"]
  ELSE IF Ready(gate) = {}
  THEN [osc EXCEPT !.wr = FALSE]
  ELSE [state |-> "ACK_S", wr |-> TRUE,
        queue |-> CHOOSE q \in Ready(gate) : \A r \in Ready(gate) : q <= r]

(* network_queue_manage sees the link of the address it reads being written;
   the mutant reads the RAM regardless. *)
Bypass_Never == FALSE
Bypass == link.queue # None /\ link.addr = raddr

(* network_queue_manage: the successor of raddr, from the link being written
   or from the RAM. *)
NextRead ==
  CASE nqm_state = "IDLE_S" ->
         /\ nqm_state' = IF rd THEN "READ_S" ELSE "IDLE_S"
         /\ rdata_valid' = FALSE
         /\ UNCHANGED rdata
    [] nqm_state \in {"READ_S", "WAIT0_S"} /\ ~Bypass ->
         /\ nqm_state' = IF nqm_state = "READ_S" THEN "WAIT0_S" ELSE "WAIT1_S"
         /\ rdata_valid' = FALSE
         /\ UNCHANGED rdata
    [] OTHER ->
         /\ nqm_state' = "IDLE_S"
         /\ rdata_valid' = TRUE
         /\ rdata' = IF Bypass THEN link.data ELSE ram_q

(* The RAM, two clocks from address to data. *)
NextRam ==
  /\ ram' = IF link.queue = None THEN ram ELSE [ram EXCEPT ![link.addr] = link.data]
  /\ ram_q' = IF nqm_state = "READ_S" THEN ram[raddr] ELSE ram_q

(* pkt_read_control: a bufid is cached, then taken when the packet before it
   has been sent (done); reading the packet is abstracted to READ_S. *)
NextCache == IF rdata_valid THEN raddr ELSE IF ack THEN None ELSE cache
NextPrc(done) ==
  CASE prc.state = "IDLE_S" ->
         /\ prc' = IF cache = None THEN prc ELSE [state |-> "READ_FIRST_S", id |-> cache]
         /\ ack' = (cache # None)
    [] prc.state = "READ_FIRST_S" ->
         /\ prc' = [prc EXCEPT !.state = "READ_S"]
         /\ ack' = FALSE
    [] prc.state = "READ_S" ->
         /\ prc' = IF done THEN [state |-> "IDLE_S", id |-> None] ELSE prc
         /\ UNCHANGED ack

(* The bufids that are in this port; one that is not may come, or come
   again. *)
Held == {cache, prc.id} \cup UNION {{fifo[q][k] : k \in DOMAIN fifo[q]} : q \in Queues}
Arrivals == [queue : {None}, id : {arrival.id}] \cup [queue : Queues, id : Ids \ Held]

NextFifo(in) ==
  [q \in Queues |->
     LET left == IF Leaves(q) /\ fifo[q] # <<>> THEN Tail(fifo[q]) ELSE fifo[q]
     IN IF in.queue = q THEN Append(left, in.id) ELSE left]

Tick(in, gate, done) ==
  /\ arrival' = in
  /\ link' = NextLink
  /\ count' = NextCount
  /\ last_addr' = NextLast
  /\ first_addr' = NextFirst
  /\ empty_delay' = {q \in Queues : count[q] = 0}
  /\ bufid_delay' = IF rdata_valid THEN raddr ELSE None
  /\ osc' = NextOsc(gate)
  /\ raddr' = IF osc.wr THEN first_addr[osc.queue] ELSE raddr
  /\ rd' = osc.wr
  /\ NextRead
  /\ NextRam
  /\ cache' = NextCache
  /\ NextPrc(done)
  /\ fifo' = NextFifo(in)

Next == \E in \in Arrivals, gate \in SUBSET Queues, done \in BOOLEAN : Tick(in, gate, done)

Spec == Init /\ [][Next]_vars

(* The clock runs whether a bufid comes or not, a packet being sent is sent
   some time, and a queue that waits is found open some time. *)
Clock == \E gate \in SUBSET Queues, done \in BOOLEAN :
           Tick([queue |-> None, id |-> arrival.id], gate, done)
Sent == /\ prc.state = "READ_S"
        /\ \E in \in Arrivals, gate \in SUBSET Queues : Tick(in, gate, TRUE)
Open == /\ osc.state = "IDLE_S" /\ Ready(Queues) # {}
        /\ \E in \in Arrivals, done \in BOOLEAN : Tick(in, Queues, done)
Fairness == WF_vars(Clock) /\ WF_vars(Sent) /\ SF_vars(Open)

FairSpec == Spec /\ Fairness

-----------------------------------------------------------------------------

(* Each queue is first in, first out: the bufid handed to pkt_read_control is
   the oldest of the scheduled queue, however the arrivals fall on the clocks
   of the pipeline that reads the list. *)
FirstInFirstOut ==
  rdata_valid => fifo[osc.queue] # <<>> /\ raddr = Head(fifo[osc.queue])

(* A queue's count is the number of bufids in it, those on their way into
   the list left out; so the scheduler takes no queue for empty for good, nor
   reads an empty one. *)
CountIsLength ==
  \A q \in Queues : count[q] = Len(fifo[q]) - (IF Appends(q) THEN 1 ELSE 0)

(* pkt_read_control has one place for a bufid; it is free whenever the next
   one comes, although the next is scheduled while a packet is being sent. *)
NoOverrun == rdata_valid => cache = None

(* The port does not get stuck: if a bufid is queued, one is sent. *)
KeepsSending == (\E q \in Queues : fifo[q] # <<>>) ~> rdata_valid
=============================================================================
