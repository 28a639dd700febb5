----------------------------- MODULE BufferPool -----------------------------
(***************************************************************************)
(* The packet buffers of the switch (TSNSwitch3.2, pkt_centralized_buffer, *)
(* with descriptor_send, tsn_packet_action and pkt_read_control).          *)
(*                                                                         *)
(* A buffer is known by its bufid.  address_read keeps one free bufid on   *)
(* offer to each input port.  A packet takes the offer of its port; the    *)
(* lookup decides its output ports, writes their number to a RAM, and puts *)
(* the bufid in the queue of each; every output port, when it has sent the *)
(* packet, hands the bufid back to address_write, which counts the number  *)
(* down and, at the last port, returns the bufid to a FIFO of free ones.   *)
(*                                                                         *)
(* The two round robins are abstracted to any port that waits being the    *)
(* next, the queues to sets.                                               *)
(***************************************************************************)
EXTENDS Integers, Sequences, FiniteSets

CONSTANTS Ports,        \* the ports: p0 to p3 and the host, input and output
          Host,         \* where a packet without output port goes
          Unwired,      \* bits of the output bitmap without a port, 4 to 7
          Ids,          \* the bufids, 0 .. 511
          FirstOffer,   \* the bufid address_read offers to each port first
          Parked,       \* bufids offered to ports that are not there, 5 .. 8
          FifoDepth,    \* capacity of the FIFO of free bufids, 512
          ModeSwitch    \* a packet may meet the switch from Qbv to Qch

ASSUME BufferPoolAssumption ==
  /\ IsFiniteSet(Ports) /\ Host \in Ports
  /\ Ports \cap Unwired = {}
  /\ IsFiniteSet(Ids) /\ Ids \subseteq Nat
  /\ FirstOffer \in [Ports -> Ids]
  /\ \A p, q \in Ports : FirstOffer[p] = FirstOffer[q] => p = q
  /\ Parked \subseteq Ids \ {FirstOffer[p] : p \in Ports}
  /\ FifoDepth \in Nat /\ Cardinality(Ids) <= FifoDepth
  /\ ModeSwitch \in BOOLEAN

None == -1
Idle == [id |-> None, port |-> Host, num |-> 0]

VARIABLES
  unsent,       \* address_write, initial_s: bufids still to be put in the FIFO
  free,         \* the FIFO
  offer,        \* per port: the bufid on offer (ov_pkt_bufid, o_pkt_bufid_wr)
  acked,        \* per port: the offer was taken and is to be renewed
  lookup,       \* bufids in descriptors on their way through the lookup
  outport_num,  \* RAM: output ports that have not yet released a bufid
  queued,       \* per port: bufids in its queues
  sending,      \* per port: the bufid of the packet being sent
  release,      \* per port: the bufid to be released (o_pkt_bufid_wr)
  writer        \* address_write: the release in progress and the number read

vars == <<unsent, free, offer, acked, lookup, outport_num, queued, sending,
          release, writer>>

TypeOK ==
  /\ unsent \subseteq Ids
  /\ free \in Seq(Ids)
  /\ offer \in [Ports -> Ids \cup {None}]
  /\ acked \in [Ports -> BOOLEAN]
  /\ lookup \subseteq Ids
  /\ outport_num \in [Ids -> 0 .. Cardinality(Ports)]
  /\ queued \in [Ports -> SUBSET Ids]
  /\ sending \in [Ports -> Ids \cup {None}]
  /\ release \in [Ports -> Ids \cup {None}]
  /\ writer \in [id : Ids \cup {None}, port : Ports, num : 0 .. Cardinality(Ports)]

Init ==
  /\ unsent = Ids \ ({FirstOffer[p] : p \in Ports} \cup Parked)
  /\ free = <<>>
  /\ offer = FirstOffer
  /\ acked = [p \in Ports |-> FALSE]
  /\ lookup = {}
  /\ outport_num = [i \in Ids |-> 0]
  /\ queued = [p \in Ports |-> {}]
  /\ sending = [p \in Ports |-> None]
  /\ release = [p \in Ports |-> None]
  /\ writer = Idle

-----------------------------------------------------------------------------

(* address_write, initial_s: one bufid after the other goes to the FIFO. *)
InitialPush ==
  \E i \in unsent :
    /\ free' = Append(free, i)
    /\ unsent' = unsent \ {i}
    /\ UNCHANGED <<offer, acked, lookup, outport_num, queued, sending, release, writer>>

(* descriptor_send: a packet takes the bufid on offer; without one it is
   discarded.  The mutant leaves the offer standing. *)
OfferAfterTake_Stands(p) == offer
OfferAfterTake(p) == [offer EXCEPT ![p] = None]

Receive(p) ==
  /\ offer[p] # None
  /\ lookup' = lookup \cup {offer[p]}
  /\ offer' = OfferAfterTake(p)
  /\ acked' = [acked EXCEPT ![p] = TRUE]
  /\ UNCHANGED <<unsent, free, outport_num, queued, sending, release, writer>>

(* address_read: the offer of a port that took it is renewed from the FIFO. *)
Renew(p) ==
  /\ acked[p]
  /\ free # <<>>
  /\ offer' = [offer EXCEPT ![p] = Head(free)]
  /\ free' = Tail(free)
  /\ acked' = [acked EXCEPT ![p] = FALSE]
  /\ UNCHANGED <<unsent, lookup, outport_num, queued, sending, release, writer>>

(* tsn_packet_action: where the output bitmap outs leads. *)
Targets(outs) == IF outs = {} THEN {Host} ELSE outs \cap Ports

(* The number written.  The mutants count the network ports only, or the
   host once for its bit and once for being the default. *)
BufidCount_NoHost(outs) == Cardinality(Targets(outs) \ {Host})
BufidCount_HostTwice(outs) == Cardinality(Targets(outs)) + (IF Host \in outs THEN 1 ELSE 0)
BufidCount(outs) == Cardinality(Targets(outs))

(* Ports whose network_input_queue does not queue the packet: for a clock
   after the switch to Qch both input gates are still open, and the Qch case
   of the queue selection knows one open gate only. *)
Dropping(outs) == IF ModeSwitch THEN SUBSET (Targets(outs) \ {Host}) ELSE {{}}

Forward(i) ==
  /\ i \in lookup
  /\ \E outs \in SUBSET (Ports \cup Unwired) : \E lost \in Dropping(outs) :
       /\ outport_num' = [outport_num EXCEPT ![i] = BufidCount(outs)]
       /\ queued' = [p \in Ports |-> IF p \in Targets(outs) \ lost
                                     THEN queued[p] \cup {i} ELSE queued[p]]
  /\ lookup' = lookup \ {i}
  /\ UNCHANGED <<unsent, free, offer, acked, sending, release, writer>>

(* pkt_read_control takes the bufid its port has scheduled. *)
Send(p) ==
  /\ sending[p] = None
  /\ \E i \in queued[p] :
       /\ sending' = [sending EXCEPT ![p] = i]
       /\ queued' = [queued EXCEPT ![p] = @ \ {i}]
  /\ UNCHANGED <<unsent, free, offer, acked, lookup, outport_num, release, writer>>

(* A port has one register for the bufid it releases, which the next packet
   overwrites.  The round robin of address_write takes at most five clocks
   per port, a packet at least the 64 of its shortest length, so the earlier
   release has been taken by then.  The mutant does not rely on it. *)
ReleaseTaken_Any(p) == TRUE
ReleaseTaken(p) == release[p] = None

TxFinish(p) ==
  /\ sending[p] # None
  /\ ReleaseTaken(p)
  /\ release' = [release EXCEPT ![p] = sending[p]]
  /\ sending' = [sending EXCEPT ![p] = None]
  /\ UNCHANGED <<unsent, free, offer, acked, lookup, outport_num, queued, writer>>

(* address_write, wr_bufid_ch0_s to wr_bufid_ch8_s: a release is acknowledged and its
   number is read. *)
TakeRelease(p) ==
  /\ unsent = {}
  /\ writer = Idle
  /\ release[p] # None
  /\ writer' = [id |-> release[p], port |-> p, num |-> outport_num[release[p]]]
  /\ release' = [release EXCEPT ![p] = None]
  /\ UNCHANGED <<unsent, free, offer, acked, lookup, outport_num, queued, sending>>

(* Other ports still need the buffer; the mutants are off by one. *)
MorePorts_ToZero == writer.num >= 1
MorePorts_OffByOne == writer.num > 2
MorePorts == writer.num > 1

(* address_write, rd_ram: count down, or return the bufid to the FIFO; a
   full FIFO would lose it. *)
Count ==
  /\ writer # Idle
  /\ IF MorePorts
     THEN /\ outport_num' = [outport_num EXCEPT ![writer.id] = writer.num - 1]
          /\ UNCHANGED free
     ELSE /\ free' = IF Len(free) >= FifoDepth THEN free ELSE Append(free, writer.id)
          /\ UNCHANGED outport_num
  /\ writer' = Idle
  /\ UNCHANGED <<unsent, offer, acked, lookup, queued, sending, release>>

Next ==
  \/ InitialPush
  \/ Count
  \/ \E p \in Ports : Receive(p) \/ Renew(p) \/ Send(p) \/ TxFinish(p) \/ TakeRelease(p)
  \/ \E i \in Ids : Forward(i)

Spec == Init /\ [][Next]_vars

(* The hardware runs: a register transfer whose condition holds takes place,
   a round robin comes to a port that waits, and a port whose gates are not
   closed for ever sends.  Nothing is assumed of the order in which a port
   sends: a queue of low priority may be passed over. *)
Fairness ==
  /\ WF_vars(InitialPush) /\ WF_vars(Count)
  /\ WF_vars(\E p \in Ports : TakeRelease(p))
  /\ \A p \in Ports : WF_vars(Renew(p)) /\ WF_vars(Send(p)) /\ WF_vars(TxFinish(p))
  /\ \A i \in Ids : WF_vars(Forward(i))

FairSpec == Spec /\ Fairness

-----------------------------------------------------------------------------

(* The ports that have yet to release a bufid. *)
Holders(i) ==
  {p \in Ports : i \in queued[p] \/ sending[p] = i \/ release[p] = i
                 \/ (writer.id = i /\ writer.port = p)}

(* The bufids a packet may be given now or later. *)
Pool == unsent \cup {free[k] : k \in DOMAIN free} \cup {offer[p] : p \in Ports}

(* A buffer is never given to a packet while a port still has to send an
   earlier packet from it, nor given to two packets. *)
Exclusive ==
  /\ \A i \in Ids : Holders(i) # {} => i \notin Pool /\ i \notin lookup
  /\ \A i \in lookup : i \notin Pool
  /\ \A k, l \in DOMAIN free : free[k] = free[l] => k = l
  /\ \A p, q \in Ports : offer[p] = offer[q] /\ offer[p] # None => p = q
  /\ \A p \in Ports, k \in DOMAIN free : offer[p] # free[k]

(* The number in the RAM is that of the ports that have yet to release the
   bufid, also while address_write is between reading and writing it, so the
   last release is recognised as such whatever the order of the ports.  A
   port that drops the packet only makes the number too large: the buffer is
   lost, not freed too early. *)
RefCount ==
  \A i \in Ids : Holders(i) # {} =>
    /\ outport_num[i] >= Cardinality(Holders(i))
    /\ ~ModeSwitch => outport_num[i] = Cardinality(Holders(i))

(* Counting the ports down one by one, in any order and while packets are
   received, implements the buffers as the ports see them; the only ways to
   lose a buffer are a port that did not queue its packet and an output
   bitmap that names no port but is not zero. *)
Buffers == INSTANCE SharedBuffer WITH
  MayLose <- ModeSwitch \/ Unwired # {},
  status <- [i \in Ids |-> CASE i \in Pool -> "free"
                             [] i \in lookup -> "incoming"
                             [] OTHER -> "sending"],
  users <- [i \in Ids |-> Holders(i)]
IsSharedBuffer == Buffers!Spec

(* When no port has a bufid to receive a packet with, one will have: the
   buffers never all wait for each other, even if packets of low priority
   are passed over as long as others come in. *)
Refilled == (\A p \in Ports : offer[p] = None) ~> (\E p \in Ports : offer[p] # None)
=============================================================================
