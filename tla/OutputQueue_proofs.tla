-------------------------- MODULE OutputQueue_proofs --------------------------
(***************************************************************************)
(* Proofs about OutputQueue, for any number of queues and of bufids.       *)
(***************************************************************************)
EXTENDS OutputQueue, Lemmas, TLAPS

(* The inductive invariant, in three parts.  Where the bufids are: *)
Placed ==
  /\ \A q \in Queues : Distinct(fifo[q])
  /\ \A q, r \in Queues : q # r => Elements(fifo[q]) \cap Elements(fifo[r]) = {}
  /\ \A q \in Queues : cache \notin Elements(fifo[q]) /\ prc.id \notin Elements(fifo[q])

(* What the list in the RAM, with the link that is being written, holds.  The
   arriving bufid is the last of its queue but not yet counted. *)
Successor(i) == IF link.queue # None /\ link.addr = i THEN link.data ELSE ram[i]
Arriving == arrival.queue # None =>
  /\ fifo[arrival.queue] # <<>>
  /\ arrival.id = fifo[arrival.queue][Len(fifo[arrival.queue])]
LastIsLast == \A q \in Queues : count[q] > 0 => last_addr[q] = fifo[q][count[q]]
Chained == \A q \in Queues : \A k \in 1 .. count[q] - 1 : Successor(fifo[q][k]) = fifo[q][k + 1]
FromEmpty ==
  \A q \in empty_delay : IF link.queue = q THEN count[q] = 1 /\ link.addr = fifo[q][1]
                                          ELSE count[q] = 0
LinkFits ==
  link.queue # None => \/ link.addr \in Elements(fifo[link.queue])
                       \/ link.addr = bufid_delay
FirstIsFirst ==
  \A q \in Queues \ empty_delay : count[q] > 0 =>
    IF LinkedAfterLeft(q) THEN count[q] = 1 /\ link.data = fifo[q][1]
                          ELSE first_addr[q] = fifo[q][1]

(* The stages of the pipeline that takes a bufid out. *)
At(wr, r, reading, valid) == /\ osc.wr = wr /\ rd = r /\ rdata_valid = valid
                             /\ (nqm_state # "IDLE_S") = reading
Resting == osc.state = "IDLE_S" /\ cache = None /\ ~ack /\ At(FALSE, FALSE, FALSE, FALSE)
Scheduled == osc.state = "ACK_S" /\ cache = None /\ ~ack /\ At(TRUE, FALSE, FALSE, FALSE)
Asked == osc.state = "ACK_S" /\ cache = None /\ ~ack /\ At(FALSE, TRUE, FALSE, FALSE)
Searching == osc.state = "ACK_S" /\ cache = None /\ ~ack /\ At(FALSE, FALSE, TRUE, FALSE)
Found == osc.state = "ACK_S" /\ cache = None /\ ~ack /\ At(FALSE, FALSE, FALSE, TRUE)
Cached == osc.state = "ACK_S" /\ cache # None /\ ~ack /\ At(FALSE, FALSE, FALSE, FALSE)
Taken == osc.state = "ACK_S" /\ cache # None /\ ack /\ At(FALSE, FALSE, FALSE, FALSE)

Stages == Resting \/ Scheduled \/ Asked \/ Searching \/ Found \/ Cached \/ Taken
AckIsFirst == ack <=> prc.state = "READ_FIRST_S"
Delayed == bufid_delay # None => Cached /\ bufid_delay = cache
Reading == Scheduled \/ Asked \/ Searching \/ Found =>
             count[osc.queue] > 0 /\ osc.queue \notin empty_delay
HeadRead == Asked \/ Searching \/ Found => raddr = fifo[osc.queue][1]
DataRead == /\ nqm_state \in {"WAIT0_S", "WAIT1_S"} => ram_q = ram[raddr]
            /\ rdata_valid => rdata = ram[raddr]

IInv ==
  /\ TypeOK
  /\ CountIsLength
  /\ Placed /\ Arriving /\ LastIsLast /\ Chained /\ FromEmpty /\ LinkFits /\ FirstIsFirst
  /\ Stages /\ AckIsFirst /\ Delayed /\ Reading /\ HeadRead /\ DataRead

-----------------------------------------------------------------------------

LEMMA Constants ==
  /\ None \notin Queues /\ None \notin Ids
  /\ IsFiniteSet(Ids) /\ Queues \subseteq Nat
  /\ 0 \in Queues /\ 0 \in Ids
BY OutputQueueAssumption DEF None

LEMMA Registers ==
  ASSUME TypeOK
  PROVE  /\ arrival.queue \in Queues \cup {None} /\ arrival.id \in Ids
         /\ link.queue \in Queues \cup {None} /\ link.addr \in Ids /\ link.data \in Ids
         /\ osc.state \in {"IDLE_S", "ACK_S"} /\ osc.queue \in Queues /\ osc.wr \in BOOLEAN
         /\ prc.state \in {"IDLE_S", "READ_FIRST_S", "READ_S"} /\ prc.id \in Ids \cup {None}
BY DEF TypeOK

LEMMA Queued ==
  ASSUME TypeOK, NEW q \in Queues
  PROVE  /\ fifo[q] \in Seq(Ids) /\ Len(fifo[q]) \in Nat
         /\ DOMAIN fifo[q] = 1 .. Len(fifo[q])
         /\ \A k \in 1 .. Len(fifo[q]) : fifo[q][k] \in Ids
         /\ count[q] \in Nat
         /\ last_addr[q] \in Ids /\ first_addr[q] \in Ids
<1>1. fifo[q] \in Seq(Ids)
  BY DEF TypeOK
<1>2. Len(fifo[q]) \in Nat /\ DOMAIN fifo[q] = 1 .. Len(fifo[q])
  BY <1>1, LenProperties
<1>3. \A k \in 1 .. Len(fifo[q]) : fifo[q][k] \in Ids
  BY <1>1, ElementOfSeq
<1>4. count[q] \in 0 .. Cardinality(Ids) /\ last_addr[q] \in Ids /\ first_addr[q] \in Ids
  BY DEF TypeOK
<1>5. Cardinality(Ids) \in Nat
  BY Constants, FS_CardinalityType
<1> QED
  BY <1>1, <1>2, <1>3, <1>4, <1>5

(* What an edge knows of the queue a bufid leaves. *)
LEMMA LeavesFound ==
  ASSUME IInv, NEW q \in Queues, Leaves(q)
  PROVE  /\ Found /\ osc.queue = q
         /\ count[q] > 0 /\ q \notin empty_delay
         /\ raddr = fifo[q][1] /\ rdata = ram[raddr]
         /\ bufid_delay = None
<1>1. rdata_valid /\ osc.queue = q
  BY DEF Leaves
<1>2. Found
  BY <1>1 DEF IInv, Stages, At, Resting, Scheduled, Asked, Searching, Found, Cached, Taken
<1>3. ~Cached
  BY <1>2 DEF Found, Cached
<1> QED
  BY <1>1, <1>2, <1>3 DEF IInv, Reading, HeadRead, DataRead, Delayed

(* The counts and the queues after an edge, for a queue that a bufid leaves
   and for one that none leaves. *)
LEMMA Counted ==
  ASSUME IInv, NEW q \in Queues
  PROVE  /\ Len(fifo[q]) = count[q] + (IF Appends(q) THEN 1 ELSE 0)
         /\ Appends(q) => fifo[q][count[q] + 1] = arrival.id
<1>1. TypeOK /\ CountIsLength /\ Arriving
  BY DEF IInv
<1>2. Len(fifo[q]) = count[q] + (IF Appends(q) THEN 1 ELSE 0)
  <2>1. count[q] \in Nat /\ Len(fifo[q]) \in Nat
    BY <1>1, Queued
  <2>2. count[q] = Len(fifo[q]) - (IF Appends(q) THEN 1 ELSE 0)
    BY <1>1 DEF CountIsLength
  <2> QED
    BY <2>1, <2>2
<1>3. ASSUME Appends(q) PROVE fifo[q][count[q] + 1] = arrival.id
  BY <1>1, <1>2, <1>3, Constants DEF Arriving, Appends
<1> QED
  BY <1>2, <1>3

LEMMA NewCount ==
  ASSUME TypeOK, count' = NextCount, NEW q \in Queues
  PROVE  count'[q] = count[q] + (IF Appends(q) THEN 1 ELSE 0) - (IF Leaves(q) THEN 1 ELSE 0)
BY DEF NextCount

LEMMA Kept ==
  ASSUME IInv, NEW in, fifo' = NextFifo(in), in.queue # None => in.id \in Ids,
         NEW q \in Queues, ~Leaves(q)
  PROVE  /\ fifo'[q] \in Seq(Ids)
         /\ Len(fifo'[q]) = Len(fifo[q]) + (IF in.queue = q THEN 1 ELSE 0)
         /\ \A k \in 1 .. Len(fifo[q]) : fifo'[q][k] = fifo[q][k]
         /\ in.queue = q => fifo'[q][Len(fifo'[q])] = in.id
         /\ Elements(fifo'[q]) = Elements(fifo[q]) \cup (IF in.queue = q THEN {in.id} ELSE {})
         /\ Distinct(fifo[q]) /\ (in.queue = q => in.id \notin Elements(fifo[q])) =>
              Distinct(fifo'[q])
<1>1. fifo[q] \in Seq(Ids) /\ Len(fifo[q]) \in Nat
  BY Queued DEF IInv
<1>2. CASE in.queue = q
  <2>1. fifo'[q] = Append(fifo[q], in.id)
    BY <1>2 DEF NextFifo
  <2>2. in.id \in Ids
    BY <1>2, Constants
  <2> QED
    BY <1>1, <1>2, <2>1, <2>2, AppendProperties, AppendElements
<1>3. CASE in.queue # q
  <2>1. fifo'[q] = fifo[q]
    BY <1>3 DEF NextFifo
  <2> QED
    BY <1>1, <1>3, <2>1
<1> QED
  BY <1>2, <1>3

LEMMA Shifted ==
  ASSUME IInv, NEW in, fifo' = NextFifo(in), in.queue # None => in.id \in Ids,
         NEW q \in Queues, Leaves(q)
  PROVE  /\ fifo'[q] \in Seq(Ids)
         /\ Len(fifo'[q]) = Len(fifo[q]) - 1 + (IF in.queue = q THEN 1 ELSE 0)
         /\ \A k \in 1 .. Len(fifo[q]) - 1 : fifo'[q][k] = fifo[q][k + 1]
         /\ in.queue = q => fifo'[q][Len(fifo'[q])] = in.id
         /\ Elements(fifo[q]) \cup (IF in.queue = q THEN {in.id} ELSE {})
              = Elements(fifo'[q]) \cup {raddr}
         /\ Distinct(fifo[q]) /\ (in.queue = q => in.id \notin Elements(fifo[q])) =>
              Distinct(fifo'[q]) /\ raddr \notin Elements(fifo'[q])
<1>1. fifo[q] \in Seq(Ids) /\ Len(fifo[q]) \in Nat
  BY Queued DEF IInv
<1>2. fifo[q] # <<>> /\ Head(fifo[q]) = raddr
  <2>1. count[q] > 0 /\ raddr = fifo[q][1]
    BY LeavesFound
  <2>2. Len(fifo[q]) > 0
    BY <2>1, Counted, Queued DEF IInv
  <2> QED
    BY <1>1, <2>1, <2>2, EmptySeq
<1> DEFINE left == Tail(fifo[q])
<1>3. /\ left \in Seq(Ids) /\ Len(left) = Len(fifo[q]) - 1 /\ Len(left) \in Nat
      /\ \A k \in 1 .. Len(left) : left[k] = fifo[q][k + 1]
      /\ Elements(fifo[q]) = Elements(left) \cup {raddr}
      /\ Distinct(fifo[q]) => Distinct(left) /\ raddr \notin Elements(left)
  BY <1>1, <1>2, TailElements, HeadTailProperties, LenProperties
<1>4. fifo'[q] = IF in.queue = q THEN Append(left, in.id) ELSE left
  BY <1>2 DEF NextFifo
<1> HIDE DEF left
<1>5. CASE in.queue = q
  <2>1. fifo'[q] = Append(left, in.id) /\ in.id \in Ids
    BY <1>4, <1>5, Constants
  <2>2. /\ fifo'[q] \in Seq(Ids)
        /\ Len(fifo'[q]) = Len(left) + 1
        /\ \A k \in 1 .. Len(left) : fifo'[q][k] = left[k]
        /\ fifo'[q][Len(left) + 1] = in.id
    BY <1>3, <2>1, AppendProperties
  <2>3. /\ Elements(fifo'[q]) = Elements(left) \cup {in.id}
        /\ Distinct(left) /\ in.id \notin Elements(left) => Distinct(fifo'[q])
    BY <1>3, <2>1, AppendElements
  <2>4. raddr \in Elements(fifo[q])
    BY <1>3
  <2> QED
    BY <1>1, <1>3, <1>5, <2>2, <2>3, <2>4
<1>6. CASE in.queue # q
  <2>1. fifo'[q] = left
    BY <1>4, <1>6
  <2> QED
    BY <1>1, <1>3, <1>6, <2>1
<1> QED
  BY <1>5, <1>6

-----------------------------------------------------------------------------

(* An edge of the clock, from a state of the invariant. *)
Edge(in, gate, done) ==
  /\ IInv
  /\ in \in Arrivals /\ gate \in SUBSET Queues /\ done \in BOOLEAN
  /\ Tick(in, gate, done)

LEMMA EdgeArrival ==
  ASSUME NEW in, NEW gate, NEW done, Edge(in, gate, done)
  PROVE  /\ arrival' = in
         /\ in \in [queue : Queues \cup {None}, id : Ids]
         /\ in.queue \in Queues \cup {None} /\ in.id \in Ids
         /\ in.queue # None => /\ \A q \in Queues : in.id \notin Elements(fifo[q])
                               /\ in.id # cache /\ in.id # prc.id
         /\ fifo' = NextFifo(in) /\ count' = NextCount
<1>1. in \in Arrivals /\ arrival' = in /\ fifo' = NextFifo(in) /\ count' = NextCount
  BY DEF Edge, Tick
<1>2. arrival.id \in Ids
  BY Registers DEF Edge, IInv
<1>3. in \in [queue : Queues \cup {None}, id : Ids]
  BY <1>1, <1>2 DEF Arrivals
<1>4. in.queue # None => in.id \notin Held
  BY <1>1 DEF Arrivals
<1>5. ASSUME NEW q \in Queues PROVE Elements(fifo[q]) \subseteq Held
  <2> DEFINE queued == {{fifo[r][k] : k \in DOMAIN fifo[r]} : r \in Queues}
  <2>1. Elements(fifo[q]) \in queued
    BY DEF Elements
  <2>2. UNION queued \subseteq Held
    BY DEF Held
  <2> HIDE DEF queued
  <2> QED
    BY <2>1, <2>2
<1>6. cache \in Held /\ prc.id \in Held
  BY DEF Held
<1> QED
  BY <1>1, <1>3, <1>4, <1>5, <1>6

(* A queue after the edge: A bufids were on their way into the list, D leave. *)
LEMMA NewQueue ==
  ASSUME NEW in, NEW gate, NEW done, Edge(in, gate, done), NEW q \in Queues
  PROVE  /\ fifo'[q] \in Seq(Ids) /\ Distinct(fifo'[q])
         /\ Len(fifo'[q]) = Len(fifo[q]) - (IF Leaves(q) THEN 1 ELSE 0)
                                         + (IF in.queue = q THEN 1 ELSE 0)
         /\ in.queue = q => fifo'[q][Len(fifo'[q])] = in.id
         /\ Elements(fifo'[q]) \subseteq Elements(fifo[q])
                                         \cup (IF in.queue = q THEN {in.id} ELSE {})
         /\ Leaves(q) => raddr \in Elements(fifo[q]) /\ raddr \notin Elements(fifo'[q])
<1>1. /\ fifo' = NextFifo(in)
      /\ in.queue # None => in.id \in Ids
      /\ in.queue = q => in.id \notin Elements(fifo[q])
  BY EdgeArrival, Constants
<1>2. IInv /\ Distinct(fifo[q])
  BY DEF Edge, IInv, Placed
<1>3. Len(fifo[q]) \in Nat
  BY <1>2, Queued DEF IInv
<1>4. CASE Leaves(q)
  <2>1. raddr \in Elements(fifo[q])
    <3>1. raddr = fifo[q][1] /\ count[q] > 0
      BY <1>2, <1>4, LeavesFound
    <3>2. 1 \in DOMAIN fifo[q]
      BY <1>2, <3>1, Counted, Queued DEF IInv
    <3> QED
      BY <3>1, <3>2 DEF Elements
  <2>2. /\ fifo'[q] \in Seq(Ids)
        /\ Len(fifo'[q]) = Len(fifo[q]) - 1 + (IF in.queue = q THEN 1 ELSE 0)
        /\ \A k \in 1 .. Len(fifo[q]) - 1 : fifo'[q][k] = fifo[q][k + 1]
        /\ in.queue = q => fifo'[q][Len(fifo'[q])] = in.id
        /\ Elements(fifo[q]) \cup (IF in.queue = q THEN {in.id} ELSE {})
             = Elements(fifo'[q]) \cup {raddr}
        /\ Distinct(fifo[q]) /\ (in.queue = q => in.id \notin Elements(fifo[q])) =>
             Distinct(fifo'[q]) /\ raddr \notin Elements(fifo'[q])
    <3>1. IInv /\ fifo' = NextFifo(in) /\ (in.queue # None => in.id \in Ids)
      BY <1>1, <1>2
    <3> QED
      BY <3>1, <1>4, Shifted, Zenon
  <2>3. Len(fifo'[q]) = Len(fifo[q]) - 1 + (IF in.queue = q THEN 1 ELSE 0)
    BY <2>2
  <2>4. Elements(fifo'[q]) \subseteq Elements(fifo[q]) \cup (IF in.queue = q THEN {in.id} ELSE {})
    BY <2>2
  <2>5. Len(fifo'[q]) = Len(fifo[q]) - (IF Leaves(q) THEN 1 ELSE 0)
                                     + (IF in.queue = q THEN 1 ELSE 0)
    BY <1>3, <1>4, <2>3
  <2>6. Distinct(fifo'[q]) /\ raddr \notin Elements(fifo'[q])
    BY <1>1, <1>2, <2>2
  <2> QED
    BY <2>1, <2>2, <2>4, <2>5, <2>6
<1>5. CASE ~Leaves(q)
  <2>1. /\ fifo'[q] \in Seq(Ids)
        /\ Len(fifo'[q]) = Len(fifo[q]) + (IF in.queue = q THEN 1 ELSE 0)
        /\ \A k \in 1 .. Len(fifo[q]) : fifo'[q][k] = fifo[q][k]
        /\ in.queue = q => fifo'[q][Len(fifo'[q])] = in.id
        /\ Elements(fifo'[q]) = Elements(fifo[q]) \cup (IF in.queue = q THEN {in.id} ELSE {})
        /\ Distinct(fifo[q]) /\ (in.queue = q => in.id \notin Elements(fifo[q])) =>
             Distinct(fifo'[q])
    <3>1. IInv /\ fifo' = NextFifo(in) /\ (in.queue # None => in.id \in Ids)
      BY <1>1, <1>2
    <3> QED
      BY <3>1, <1>5, Kept, Zenon
  <2>2. Len(fifo'[q]) = Len(fifo[q]) - (IF Leaves(q) THEN 1 ELSE 0)
                                     + (IF in.queue = q THEN 1 ELSE 0)
    BY <1>3, <1>5, <2>1
  <2>3. Distinct(fifo'[q])
    BY <1>1, <1>2, <2>1
  <2> QED
    BY <1>5, <2>1, <2>2, <2>3
<1> QED
  BY <1>4, <1>5

LEMMA CountIsLengthStep ==
  ASSUME NEW in, NEW gate, NEW done, Edge(in, gate, done)
  PROVE  CountIsLength'
<1> SUFFICES ASSUME NEW q \in Queues
             PROVE  count'[q] = Len(fifo'[q]) - (IF in.queue = q THEN 1 ELSE 0)
  BY EdgeArrival DEF CountIsLength, Appends
<1>1. IInv /\ count' = NextCount
  BY EdgeArrival DEF Edge
<1>2. Len(fifo[q]) = count[q] + (IF Appends(q) THEN 1 ELSE 0)
  BY <1>1, Counted
<1>3. count'[q] = count[q] + (IF Appends(q) THEN 1 ELSE 0) - (IF Leaves(q) THEN 1 ELSE 0)
  BY <1>1, NewCount DEF IInv
<1>4. count[q] \in Nat /\ Len(fifo[q]) \in Nat
  BY <1>1, Queued DEF IInv
<1>5. Len(fifo'[q]) = Len(fifo[q]) - (IF Leaves(q) THEN 1 ELSE 0) + (IF in.queue = q THEN 1 ELSE 0)
  BY NewQueue
<1> QED
  BY <1>2, <1>3, <1>4, <1>5

LEMMA PlacedStep ==
  ASSUME NEW in, NEW gate, NEW done, Edge(in, gate, done)
  PROVE  Placed'
<1>1. TypeOK /\ Placed
  BY DEF Edge, IInv
<1>2. ASSUME NEW q \in Queues
      PROVE  /\ Distinct(fifo'[q])
             /\ Elements(fifo'[q]) \subseteq Elements(fifo[q])
                                             \cup (IF in.queue = q THEN {in.id} ELSE {})
  BY NewQueue
<1>3. in.queue # None => \A q \in Queues : in.id \notin Elements(fifo[q])
  BY EdgeArrival
<1>4. ASSUME NEW q \in Queues, NEW r \in Queues, q # r
      PROVE  Elements(fifo'[q]) \cap Elements(fifo'[r]) = {}
  <2>1. Elements(fifo[q]) \cap Elements(fifo[r]) = {}
    BY <1>1, <1>4 DEF Placed
  <2>2. in.queue = q \/ in.queue = r => /\ in.id \notin Elements(fifo[q])
                                        /\ in.id \notin Elements(fifo[r])
    BY <1>3, Constants
  <2>3. /\ Elements(fifo'[q]) \subseteq Elements(fifo[q]) \cup (IF in.queue = q THEN {in.id} ELSE {})
        /\ Elements(fifo'[r]) \subseteq Elements(fifo[r]) \cup (IF in.queue = r THEN {in.id} ELSE {})
    BY <1>2
  <2> QED
    BY <1>4, <2>1, <2>2, <2>3
<1>5. ASSUME NEW q \in Queues, NEW i \in {None, cache, prc.id}
      PROVE  i \notin Elements(fifo'[q])
  <2>1. None \notin Elements(fifo[q])
    BY <1>1, Queued, Constants DEF Elements
  <2>2. cache \notin Elements(fifo[q]) /\ prc.id \notin Elements(fifo[q])
    BY <1>1 DEF Placed
  <2>3. in.queue = q => i # in.id
    BY EdgeArrival, Constants
  <2> QED
    BY <1>2, <2>1, <2>2, <2>3
<1>6. ASSUME NEW q \in Queues, rdata_valid
      PROVE  raddr \notin Elements(fifo'[q])
  <2> DEFINE s == osc.queue
  <2>1. s \in Queues /\ Leaves(s)
    BY <1>1, <1>6, Registers DEF Leaves
  <2>2. raddr \in Elements(fifo[s]) /\ raddr \notin Elements(fifo'[s])
    BY <2>1, NewQueue
  <2>3. CASE q # s
    <3>1. raddr \notin Elements(fifo[q])
      BY <1>1, <2>1, <2>2, <2>3 DEF Placed
    <3>2. in.queue = q => raddr # in.id
      BY <1>3, <2>1, <2>2, Constants
    <3> QED
      BY <1>2, <3>1, <3>2
  <2> QED
    BY <2>2, <2>3
<1>7. cache' \in {None, cache} \/ (rdata_valid /\ cache' = raddr)
  BY DEF Edge, Tick, NextCache
<1>8. prc'.id \in {None, cache, prc.id}
  <2>1. NextPrc(done) /\ prc.state \in {"IDLE_S", "READ_FIRST_S", "READ_S"}
    BY <1>1, Registers DEF Edge, Tick
  <2>2. prc \in [state : {"IDLE_S", "READ_FIRST_S", "READ_S"}, id : Ids \cup {None}]
    BY <1>1 DEF TypeOK
  <2>3. CASE prc.state = "IDLE_S"
    BY <2>1, <2>3 DEF NextPrc
  <2>4. CASE prc.state = "READ_FIRST_S"
    BY <2>1, <2>2, <2>4 DEF NextPrc
  <2>5. CASE prc.state = "READ_S"
    BY <2>1, <2>5 DEF NextPrc
  <2> QED
    BY <2>1, <2>3, <2>4, <2>5
<1>9. \A q \in Queues : cache' \notin Elements(fifo'[q]) /\ prc'.id \notin Elements(fifo'[q])
  BY <1>5, <1>6, <1>7, <1>8
<1> QED
  BY <1>2, <1>4, <1>9 DEF Placed

(* The bufids that are counted after the edge were in the queue before. *)
LEMMA After ==
  ASSUME NEW in, NEW gate, NEW done, Edge(in, gate, done), NEW q \in Queues
  PROVE  /\ count[q] \in Nat /\ count'[q] \in Nat /\ Len(fifo'[q]) \in Nat
         /\ count'[q] <= Len(fifo'[q])
         /\ count'[q] = Len(fifo[q]) - (IF Leaves(q) THEN 1 ELSE 0)
         /\ Leaves(q) => \A k \in 1 .. count'[q] : fifo'[q][k] = fifo[q][k + 1]
         /\ ~Leaves(q) => \A k \in 1 .. count'[q] : fifo'[q][k] = fifo[q][k]
<1>1. IInv /\ fifo' = NextFifo(in) /\ count' = NextCount /\ (in.queue # None => in.id \in Ids)
  BY EdgeArrival DEF Edge
<1>2. count[q] \in Nat /\ Len(fifo[q]) \in Nat
  BY <1>1, Queued DEF IInv
<1>3. Len(fifo[q]) = count[q] + (IF Appends(q) THEN 1 ELSE 0)
  BY <1>1, Counted
<1>4. count'[q] = count[q] + (IF Appends(q) THEN 1 ELSE 0) - (IF Leaves(q) THEN 1 ELSE 0)
  BY <1>1, NewCount DEF IInv
<1>5. count'[q] = Len(fifo[q]) - (IF Leaves(q) THEN 1 ELSE 0)
  BY <1>2, <1>3, <1>4
<1>6. Leaves(q) => count[q] > 0
  BY <1>1, LeavesFound
<1>7. count'[q] \in Nat
  BY <1>2, <1>3, <1>5, <1>6
<1>8. Len(fifo'[q]) = Len(fifo[q]) - (IF Leaves(q) THEN 1 ELSE 0)
                                   + (IF in.queue = q THEN 1 ELSE 0)
  BY NewQueue
<1>9. Len(fifo'[q]) \in Nat /\ count'[q] <= Len(fifo'[q])
  <2> DEFINE left == Len(fifo[q]) - (IF Leaves(q) THEN 1 ELSE 0)
             come == IF in.queue = q THEN 1 ELSE 0
  <2>1. come \in {0, 1} /\ left \in Nat /\ count'[q] = left /\ Len(fifo'[q]) = left + come
    BY <1>5, <1>7, <1>8
  <2> HIDE DEF left, come
  <2> QED
    BY <2>1
<1>10. ASSUME Leaves(q) PROVE \A k \in 1 .. count'[q] : fifo'[q][k] = fifo[q][k + 1]
  <2>1. \A k \in 1 .. Len(fifo[q]) - 1 : fifo'[q][k] = fifo[q][k + 1]
    BY <1>1, <1>10, Shifted
  <2>2. count'[q] = Len(fifo[q]) - 1
    BY <1>5, <1>10
  <2> QED
    BY <2>1, <2>2
<1>11. ASSUME ~Leaves(q) PROVE \A k \in 1 .. count'[q] : fifo'[q][k] = fifo[q][k]
  <2>1. \A k \in 1 .. Len(fifo[q]) : fifo'[q][k] = fifo[q][k]
    BY <1>1, <1>11, Kept
  <2>2. count'[q] = Len(fifo[q])
    BY <1>2, <1>5, <1>11
  <2> QED
    BY <2>1, <2>2
<1> QED
  BY <1>2, <1>5, <1>7, <1>9, <1>10, <1>11

LEMMA OnePlace ==
  ASSUME IInv, NEW q \in Queues, NEW r \in Queues,
         NEW k \in 1 .. Len(fifo[q]), NEW l \in 1 .. Len(fifo[r]),
         fifo[q][k] = fifo[r][l]
  PROVE  q = r /\ k = l
<1>1. DOMAIN fifo[q] = 1 .. Len(fifo[q]) /\ DOMAIN fifo[r] = 1 .. Len(fifo[r])
  BY Queued DEF IInv
<1>2. fifo[q][k] \in Elements(fifo[q]) /\ fifo[r][l] \in Elements(fifo[r])
  BY <1>1 DEF Elements
<1>3. q = r
  BY <1>2 DEF IInv, Placed
<1> QED
  BY <1>1, <1>3 DEF IInv, Placed, Distinct

(* The link that is written after the edge: behind the last bufid counted, or
   of a bufid that is alone. *)
LEMMA LinkAfter ==
  ASSUME NEW in, NEW gate, NEW done, Edge(in, gate, done)
  PROVE  /\ arrival.queue = None => link'.queue = None
         /\ \A q \in Queues : Appends(q) =>
              /\ link'.queue = q
              /\ link'.addr = fifo[q][IF count[q] = 0 THEN 1 ELSE count[q]]
              /\ count[q] > 0 => link'.data = fifo[q][count[q] + 1]
<1>1. IInv /\ link' = NextLink /\ None \notin Queues
  BY Constants DEF Edge, Tick
<1>2. ASSUME arrival.queue = None PROVE link'.queue = None
  BY <1>1, <1>2 DEF NextLink, Nowhere
<1>3. ASSUME NEW q \in Queues, Appends(q)
      PROVE  /\ link'.queue = q
             /\ link'.addr = fifo[q][IF count[q] = 0 THEN 1 ELSE count[q]]
             /\ count[q] > 0 => link'.data = fifo[q][count[q] + 1]
  <2>1. arrival.queue = q /\ arrival.queue # None
    BY <1>1, <1>3 DEF Appends
  <2>2. arrival.id = fifo[q][count[q] + 1] /\ count[q] \in Nat
    BY <1>1, <1>3, Counted, Queued DEF IInv
  <2>3. CASE count[q] = 0
    BY <1>1, <2>1, <2>2, <2>3 DEF NextLink
  <2>4. CASE count[q] # 0
    <3>1. last_addr[q] = fifo[q][count[q]]
      BY <1>1, <2>2, <2>4 DEF IInv, LastIsLast
    <3> QED
      BY <1>1, <2>1, <2>2, <2>4, <3>1 DEF NextLink
  <2> QED
    BY <2>3, <2>4
<1> QED
  BY <1>2, <1>3

LEMMA ArrivingStep ==
  ASSUME NEW in, NEW gate, NEW done, Edge(in, gate, done)
  PROVE  Arriving'
<1> SUFFICES ASSUME NEW q \in Queues, in.queue = q
             PROVE  fifo'[q] # <<>> /\ in.id = fifo'[q][Len(fifo'[q])]
  BY EdgeArrival DEF Arriving
<1>1. /\ fifo'[q] \in Seq(Ids)
      /\ Len(fifo'[q]) = Len(fifo[q]) - (IF Leaves(q) THEN 1 ELSE 0) + 1
      /\ fifo'[q][Len(fifo'[q])] = in.id
  BY NewQueue
<1>2. count'[q] = Len(fifo[q]) - (IF Leaves(q) THEN 1 ELSE 0) /\ count'[q] \in Nat
  BY After
<1>3. Len(fifo'[q]) # 0
  BY <1>1, <1>2
<1> QED
  BY <1>1, <1>3, EmptySeq

LEMMA LastIsLastStep ==
  ASSUME NEW in, NEW gate, NEW done, Edge(in, gate, done)
  PROVE  LastIsLast'
<1> SUFFICES ASSUME NEW q \in Queues, count'[q] > 0
             PROVE  last_addr'[q] = fifo'[q][count'[q]]
  BY DEF LastIsLast
<1>1. IInv /\ last_addr' = NextLast
  BY DEF Edge, Tick
<1>2. /\ count[q] \in Nat /\ count'[q] \in Nat
      /\ count'[q] = Len(fifo[q]) - (IF Leaves(q) THEN 1 ELSE 0)
      /\ Leaves(q) => \A k \in 1 .. count'[q] : fifo'[q][k] = fifo[q][k + 1]
      /\ ~Leaves(q) => \A k \in 1 .. count'[q] : fifo'[q][k] = fifo[q][k]
  BY After
<1>3. /\ Len(fifo[q]) = count[q] + (IF Appends(q) THEN 1 ELSE 0)
      /\ Appends(q) => fifo[q][count[q] + 1] = arrival.id
  BY <1>1, Counted
<1>4. fifo'[q][count'[q]] = fifo[q][Len(fifo[q])]
  <2>0. count'[q] \in Nat
    BY <1>2
  <2>1. count'[q] \in 1 .. count'[q]
    BY <2>0
  <2> Len(fifo[q]) \in Nat
    BY <1>1, Queued DEF IInv
  <2>2. CASE Leaves(q)
    <3>1. Len(fifo[q]) = count'[q] + 1
      BY <1>2, <2>1, <2>2
    <3> QED
      BY <1>2, <2>1, <2>2, <3>1
  <2>3. CASE ~Leaves(q)
    <3>1. Len(fifo[q]) = count'[q]
      BY <1>2, <2>1, <2>3
    <3> QED
      BY <1>2, <2>1, <2>3, <3>1
  <2> QED
    BY <2>2, <2>3
<1>5. CASE Appends(q)
  BY <1>1, <1>3, <1>4, <1>5 DEF NextLast
<1>6. CASE ~Appends(q)
  <2>1. last_addr'[q] = last_addr[q] /\ Len(fifo[q]) = count[q]
    BY <1>1, <1>2, <1>3, <1>6 DEF NextLast
  <2>2. count[q] > 0
    BY <1>2, <2>1
  <2> QED
    BY <1>1, <1>4, <2>1, <2>2 DEF IInv, LastIsLast
<1> QED
  BY <1>5, <1>6

LEMMA FromEmptyStep ==
  ASSUME NEW in, NEW gate, NEW done, Edge(in, gate, done)
  PROVE  FromEmpty'
<1> SUFFICES ASSUME NEW q \in Queues, count[q] = 0
             PROVE  IF link'.queue = q THEN count'[q] = 1 /\ link'.addr = fifo'[q][1]
                                       ELSE count'[q] = 0
  BY DEF FromEmpty, Edge, Tick
<1>1. IInv
  BY DEF Edge
<1>2. ~Leaves(q)
  BY <1>1, LeavesFound
<1>3. /\ count'[q] = Len(fifo[q])
      /\ \A k \in 1 .. count'[q] : fifo'[q][k] = fifo[q][k]
      /\ Len(fifo[q]) = IF Appends(q) THEN 1 ELSE 0
  <2>1. /\ count'[q] = Len(fifo[q]) - (IF Leaves(q) THEN 1 ELSE 0)
        /\ \A k \in 1 .. count'[q] : fifo'[q][k] = fifo[q][k]
    BY <1>2, After
  <2>2. Len(fifo[q]) = IF Appends(q) THEN 1 ELSE 0
    BY <1>1, Counted
  <2> QED
    BY <1>2, <2>1, <2>2
<1>4. CASE Appends(q)
  BY <1>3, <1>4, LinkAfter
<1>5. CASE ~Appends(q)
  <2>1. arrival.queue \in Queues => Appends(arrival.queue)
    BY DEF Appends
  <2>2. arrival.queue \in Queues \cup {None} /\ arrival.queue # q
    BY <1>1, <1>5, Registers DEF Appends, IInv
  <2>3. link'.queue # q
    BY <2>1, <2>2, LinkAfter, Constants
  <2> QED
    BY <1>3, <1>5, <2>3
<1> QED
  BY <1>4, <1>5

LEMMA RamIsSuccessor ==
  ASSUME NEW in, NEW gate, NEW done, Edge(in, gate, done), NEW i \in Ids
  PROVE  ram'[i] = Successor(i)
<1>1. TypeOK /\ ram \in [Ids -> Ids]
  BY DEF Edge, IInv, TypeOK
<1>2. link.addr \in Ids
  BY <1>1, Registers
<1>3. ram' = IF link.queue = None THEN ram ELSE [ram EXCEPT ![link.addr] = link.data]
  BY DEF Edge, Tick, NextRam
<1> QED
  BY <1>1, <1>2, <1>3 DEF Successor

LEMMA ChainedStep ==
  ASSUME NEW in, NEW gate, NEW done, Edge(in, gate, done)
  PROVE  Chained'
<1> DEFINE SuccessorAfter(i) ==
             IF link'.queue # None /\ link'.addr = i THEN link'.data ELSE ram'[i]
<1>1. IInv
  BY DEF Edge
(* in the queue before the edge *)
<1>2. ASSUME NEW q \in Queues, NEW k \in 1 .. Len(fifo[q]) - 1
      PROVE  SuccessorAfter(fifo[q][k]) = fifo[q][k + 1]
  <2> DEFINE i == fifo[q][k]
  <2>1. /\ count[q] \in Nat /\ Len(fifo[q]) \in Nat /\ i \in Ids
        /\ k \in 1 .. Len(fifo[q]) /\ k + 1 \in 1 .. Len(fifo[q])
    BY <1>1, Queued DEF IInv
  <2>2. Len(fifo[q]) = count[q] + (IF Appends(q) THEN 1 ELSE 0)
    BY <1>1, Counted
  <2>3. CASE k < count[q]
    <3>1. ram'[i] = fifo[q][k + 1]
      <4>1. k \in 1 .. count[q] - 1
        BY <2>1, <2>3
      <4> QED
        BY <1>1, <2>1, <4>1, RamIsSuccessor DEF IInv, Chained
    <3>2. ASSUME NEW r \in Queues, Appends(r) PROVE link'.addr # i
      <4> DEFINE l == IF count[r] = 0 THEN 1 ELSE count[r]
      <4>1. link'.addr = fifo[r][l]
        BY <3>2, LinkAfter
      <4>2. count[r] \in Nat /\ Len(fifo[r]) = count[r] + 1
        BY <1>1, <3>2, Queued, Counted DEF IInv
      <4>3. l \in 1 .. Len(fifo[r]) /\ (count[r] > 0 => l = count[r])
        BY <4>2
      <4> HIDE DEF l
      <4>4. fifo[r][l] = i => r = q /\ l = k
        BY <1>1, <2>1, <4>3, OnePlace
      <4> QED
        BY <2>1, <2>3, <4>1, <4>3, <4>4
    <3>3. arrival.queue \in Queues => Appends(arrival.queue)
      BY DEF Appends
    <3>4. arrival.queue = None => link'.queue = None
      BY LinkAfter
    <3>5. arrival.queue \in Queues \cup {None}
      BY <1>1, Registers DEF IInv
    <3> QED
      BY <3>1, <3>2, <3>3, <3>4, <3>5
  <2>4. CASE ~(k < count[q])
    <3>1. Appends(q) /\ k = count[q] /\ count[q] > 0
      BY <2>1, <2>2, <2>4
    <3>2. link'.queue = q /\ link'.addr = i /\ link'.data = fifo[q][k + 1]
      BY <2>1, <3>1, LinkAfter
    <3> QED
      BY <3>2, Constants
  <2> QED
    BY <2>3, <2>4
<1>3. ASSUME NEW q \in Queues, NEW k \in 1 .. count'[q] - 1
      PROVE  SuccessorAfter(fifo'[q][k]) = fifo'[q][k + 1]
  <2>1. count'[q] \in Nat /\ Len(fifo[q]) \in Nat
    BY <1>1, After, Queued DEF IInv
  <2>2. k \in 1 .. count'[q] /\ k + 1 \in 1 .. count'[q]
    BY <2>1
  <2>3. count'[q] = Len(fifo[q]) - (IF Leaves(q) THEN 1 ELSE 0)
    BY After
  <2>4. CASE Leaves(q)
    <3>1. fifo'[q][k] = fifo[q][k + 1] /\ fifo'[q][k + 1] = fifo[q][(k + 1) + 1]
      BY <2>2, <2>4, After
    <3>2. k + 1 \in 1 .. Len(fifo[q]) - 1
      BY <2>1, <2>3, <2>4
    <3> QED
      BY <1>2, <3>1, <3>2
  <2>5. CASE ~Leaves(q)
    <3>1. fifo'[q][k] = fifo[q][k] /\ fifo'[q][k + 1] = fifo[q][k + 1]
      BY <2>2, <2>5, After
    <3>2. k \in 1 .. Len(fifo[q]) - 1
      BY <2>1, <2>3, <2>5
    <3> QED
      BY <1>2, <3>1, <3>2
  <2> QED
    BY <2>4, <2>5
<1> QED
  BY <1>3 DEF Chained, Successor

LEMMA LinkFitsStep ==
  ASSUME NEW in, NEW gate, NEW done, Edge(in, gate, done)
  PROVE  LinkFits'
<1>1. IInv
  BY DEF Edge
<1>2. arrival.queue = None => link'.queue = None
  BY LinkAfter
<1>3. ASSUME NEW q \in Queues, Appends(q)
      PROVE  link'.queue = q /\ (link'.addr \in Elements(fifo'[q]) \/ link'.addr = bufid_delay')
  <2> DEFINE k == IF count[q] = 0 THEN 1 ELSE count[q]
  <2>1. link'.queue = q /\ link'.addr = fifo[q][k]
    BY <1>3, LinkAfter
  <2>2. count[q] \in Nat /\ Len(fifo[q]) = count[q] + 1
    BY <1>1, <1>3, Queued, Counted DEF IInv
  <2>3. k \in 1 .. Len(fifo[q])
    BY <2>2
  <2> HIDE DEF k
  <2>4. /\ fifo'[q] \in Seq(Ids) /\ Len(fifo'[q]) \in Nat
        /\ count'[q] \in Nat /\ count'[q] <= Len(fifo'[q])
        /\ count'[q] = Len(fifo[q]) - (IF Leaves(q) THEN 1 ELSE 0)
    BY After, NewQueue
  <2>5. ASSUME NEW l \in 1 .. count'[q] PROVE fifo'[q][l] \in Elements(fifo'[q])
    <3>1. DOMAIN fifo'[q] = 1 .. Len(fifo'[q])
      BY <2>4, LenProperties
    <3>2. count'[q] \in Nat /\ Len(fifo'[q]) \in Nat /\ count'[q] <= Len(fifo'[q])
      BY <2>4
    <3>3. l \in 1 .. Len(fifo'[q])
      BY <3>2
    <3>4. l \in DOMAIN fifo'[q]
      BY <3>1, <3>3
    <3> QED
      BY <3>4 DEF Elements
  <2>6. CASE Leaves(q) /\ k = 1
    <3>1. rdata_valid /\ raddr = fifo[q][1]
      BY <1>1, <2>6, LeavesFound DEF Leaves
    <3>2. bufid_delay' = raddr
      BY <3>1 DEF Edge, Tick
    <3> QED
      BY <2>1, <2>6, <3>1, <3>2
  <2>7. CASE Leaves(q) /\ k # 1
    <3>1. k - 1 \in 1 .. count'[q] /\ (k - 1) + 1 = k
      BY <2>2, <2>3, <2>4, <2>7
    <3>2. fifo'[q][k - 1] = fifo[q][k]
      BY <2>7, <3>1, After
    <3> QED
      BY <2>1, <2>5, <3>1, <3>2
  <2>8. CASE ~Leaves(q)
    <3>1. k \in 1 .. count'[q]
      BY <2>2, <2>3, <2>4, <2>8
    <3>2. fifo'[q][k] = fifo[q][k]
      BY <2>8, <3>1, After
    <3> QED
      BY <2>1, <2>5, <3>1, <3>2
  <2> QED
    BY <2>6, <2>7, <2>8
<1>4. arrival.queue \in Queues \cup {None} /\ (arrival.queue \in Queues => Appends(arrival.queue))
  BY <1>1, Registers DEF IInv, Appends
<1> QED
  BY <1>2, <1>3, <1>4 DEF LinkFits

LEMMA FirstIsFirstStep ==
  ASSUME NEW in, NEW gate, NEW done, Edge(in, gate, done)
  PROVE  FirstIsFirst'
<1>1. IInv /\ TypeOK /\ first_addr' = NextFirst
  BY DEF Edge, Tick, IInv
<1>2. /\ empty_delay' = {q \in Queues : count[q] = 0}
      /\ bufid_delay' = IF rdata_valid THEN raddr ELSE None
  BY DEF Edge, Tick
<1> SUFFICES ASSUME NEW q \in Queues, count[q] # 0, count'[q] > 0
             PROVE  IF link'.queue = q /\ bufid_delay' = link'.addr
                    THEN count'[q] = 1 /\ link'.data = fifo'[q][1]
                    ELSE first_addr'[q] = fifo'[q][1]
  BY <1>2 DEF FirstIsFirst, LinkedAfterLeft
<1>3. /\ count[q] \in Nat /\ count'[q] \in Nat /\ Len(fifo[q]) \in Nat
      /\ count[q] > 0 /\ 1 \in 1 .. count'[q]
  <2>1. count[q] \in Nat /\ count'[q] \in Nat /\ Len(fifo[q]) \in Nat
    BY <1>1, After, Queued
  <2> QED
    BY <2>1
<1>4. /\ Len(fifo[q]) = count[q] + (IF Appends(q) THEN 1 ELSE 0)
      /\ count'[q] = Len(fifo[q]) - (IF Leaves(q) THEN 1 ELSE 0)
  BY <1>1, After, Counted
<1>5. fifo'[q][1] = fifo[q][IF Leaves(q) THEN 2 ELSE 1]
  <2>1. Leaves(q) => fifo'[q][1] = fifo[q][1 + 1]
    BY <1>3, After
  <2>2. ~Leaves(q) => fifo'[q][1] = fifo[q][1]
    BY <1>3, After
  <2> QED
    BY <2>1, <2>2
<1>6. 1 \in 1 .. Len(fifo[q]) /\ count[q] \in 1 .. Len(fifo[q])
  BY <1>3, <1>4
(* The bufid that leaves is alone, and one was just appended. *)
<1>7. CASE link'.queue = q /\ bufid_delay' = link'.addr
  <2>1. Appends(q)
    <3>1. arrival.queue \in Queues \cup {None}
      BY <1>1, Registers
    <3>2. arrival.queue \in Queues => link'.queue = arrival.queue
      BY LinkAfter DEF Appends
    <3> QED
      BY <1>7, <3>1, <3>2, LinkAfter, Constants DEF Appends
  <2>2. link'.addr = fifo[q][count[q]] /\ link'.data = fifo[q][count[q] + 1]
    BY <1>3, <2>1, LinkAfter
  <2>3. fifo[q][count[q]] \in Ids
    BY <1>1, <1>6, Queued
  <2>4. rdata_valid /\ raddr = fifo[q][count[q]]
    BY <1>2, <1>7, <2>2, <2>3, Constants
  <2> DEFINE r == osc.queue
  <2>5. r \in Queues /\ Leaves(r)
    BY <1>1, <2>4, Registers DEF Leaves
  <2>6. count[r] > 0 /\ raddr = fifo[r][1]
    BY <1>1, <2>5, LeavesFound
  <2>7. 1 \in 1 .. Len(fifo[r])
    BY <1>1, <2>5, <2>6, Queued, Counted
  <2>8. q = r /\ count[q] = 1
    <3> HIDE DEF r
    <3>1. /\ IInv /\ q \in Queues /\ r \in Queues
          /\ count[q] \in 1 .. Len(fifo[q]) /\ 1 \in 1 .. Len(fifo[r])
          /\ fifo[q][count[q]] = fifo[r][1]
      BY <1>1, <1>6, <2>4, <2>5, <2>6, <2>7
    <3> QED
      <4>1. \A k \in 1 .. Len(fifo[q]), l \in 1 .. Len(fifo[r]) :
              fifo[q][k] = fifo[r][l] => q = r /\ k = l
        BY <3>1, OnePlace
      <4> QED
        BY <3>1, <4>1, Zenon
  <2>9. Leaves(q)
    BY <2>5, <2>8
  <2>10. count'[q] = 1
    BY <1>4, <2>1, <2>8, <2>9
  <2>11. link'.data = fifo'[q][1]
    BY <1>5, <2>2, <2>8, <2>9
  <2> QED
    BY <1>7, <2>10, <2>11
<1>8. CASE ~(link'.queue = q /\ bufid_delay' = link'.addr)
  <2> SUFFICES first_addr'[q] = fifo'[q][1]
    BY <1>8
  <2>1. CASE q \in empty_delay
    <3>1. link.queue = q /\ link.addr = fifo[q][1]
      BY <1>1, <1>3, <2>1 DEF IInv, FromEmpty
    <3>2. ~Leaves(q)
      BY <1>1, <2>1, LeavesFound
    <3>3. first_addr'[q] = link.addr
      BY <1>1, <2>1, <3>1 DEF NextFirst
    <3> QED
      BY <1>5, <3>1, <3>2, <3>3
  <2>2. CASE q \notin empty_delay /\ Leaves(q)
    <3>1. /\ raddr = fifo[q][1] /\ rdata = ram[raddr] /\ bufid_delay = None
          /\ rdata_valid
      BY <1>1, <2>2, LeavesFound DEF Leaves
    <3>2. first_addr'[q] = IF link.queue = q /\ raddr = link.addr THEN link.data ELSE rdata
      BY <1>1, <2>2 DEF NextFirst, LinkedAfterHead
    <3>3. ASSUME link.queue # None, link.addr = raddr PROVE link.queue = q
      <4>1. link.queue \in Queues /\ link.addr \in Ids
        BY <1>1, <3>3, Registers
      <4>2. link.addr \in Elements(fifo[link.queue])
        BY <1>1, <3>1, <3>3, <4>1, Constants DEF IInv, LinkFits
      <4>3. raddr \in Elements(fifo[q])
        <5>1. 1 \in DOMAIN fifo[q]
          BY <1>1, <1>6, Queued
        <5> QED
          BY <3>1, <5>1 DEF Elements
      <4> QED
        BY <1>1, <3>3, <4>1, <4>2, <4>3 DEF IInv, Placed
    <3>4. first_addr'[q] = Successor(fifo[q][1])
      BY <3>1, <3>2, <3>3, Constants DEF Successor
    <3>5. CASE count[q] = 1
      <4>1. Appends(q)
        BY <1>3, <1>4, <2>2, <3>5
      <4>2. link'.queue = q /\ link'.addr = fifo[q][1]
        BY <3>5, <4>1, LinkAfter
      <4>3. bufid_delay' = link'.addr
        BY <1>2, <3>1, <4>2
      <4> QED
        BY <1>8, <4>2, <4>3
    <3>6. CASE count[q] # 1
      <4>1. 1 \in 1 .. count[q] - 1
        BY <1>3, <3>6
      <4>2. Successor(fifo[q][1]) = fifo[q][1 + 1]
        BY <1>1, <4>1 DEF IInv, Chained
      <4> QED
        BY <1>5, <2>2, <3>4, <4>2
    <3> QED
      BY <3>5, <3>6
  <2>3. CASE q \notin empty_delay /\ ~Leaves(q)
    <3>1. IF LinkedAfterLeft(q) THEN link.data = fifo[q][1] ELSE first_addr[q] = fifo[q][1]
      BY <1>1, <1>3, <2>3 DEF IInv, FirstIsFirst
    <3>2. first_addr'[q] = IF LinkedAfterLeft(q) THEN link.data ELSE first_addr[q]
      BY <1>1, <2>3 DEF NextFirst
    <3> QED
      BY <1>5, <2>3, <3>1, <3>2
  <2> QED
    BY <2>1, <2>2, <2>3
<1> QED
  BY <1>7, <1>8

-----------------------------------------------------------------------------

(* The pipeline that takes a bufid out, one stage at a time.  The stages an
   edge leads to, with the registers they are about: *)
StagesAfter == Stages' /\ Delayed' /\ Reading' /\ HeadRead' /\ DataRead'

LEMMA EdgeRegisters ==
  ASSUME NEW in, NEW gate, NEW done, Edge(in, gate, done)
  PROVE  /\ IInv /\ TypeOK /\ gate \in SUBSET Queues
         /\ osc' = NextOsc(gate) /\ rd' = osc.wr
         /\ raddr' = IF osc.wr THEN first_addr[osc.queue] ELSE raddr
         /\ NextRead /\ NextRam /\ cache' = NextCache
         /\ bufid_delay' = IF rdata_valid THEN raddr ELSE None
BY DEF Edge, Tick, IInv

LEMMA AckStep ==
  ASSUME NEW in, NEW gate, NEW done, Edge(in, gate, done)
  PROVE  /\ AckIsFirst'
         /\ ack' \in BOOLEAN
         /\ ack' <=> prc.state = "IDLE_S" /\ cache # None
<1>1. TypeOK /\ AckIsFirst /\ NextPrc(done)
  BY DEF Edge, IInv, Tick
<1>2. prc \in [state : {"IDLE_S", "READ_FIRST_S", "READ_S"}, id : Ids \cup {None}]
      /\ ack \in BOOLEAN
  BY <1>1 DEF TypeOK
<1>3. CASE prc.state = "IDLE_S"
  <2>1. CASE cache = None
    <3>1. prc' = prc /\ ack' = FALSE
      BY <1>1, <1>3, <2>1 DEF NextPrc
    <3> QED
      BY <1>3, <2>1, <3>1 DEF AckIsFirst
  <2>2. CASE cache # None
    <3>1. /\ prc' = IF cache = None THEN prc ELSE [state |-> "READ_FIRST_S", id |-> cache]
          /\ ack' = (cache # None)
      BY <1>1, <1>3, Zenon DEF NextPrc
    <3>2. prc'.state = "READ_FIRST_S"
      BY <2>2, <3>1
    <3>3. ack'
      BY <2>2, <3>1
    <3> QED
      BY <1>3, <2>2, <3>1, <3>2, <3>3 DEF AckIsFirst
  <2> QED
    BY <2>1, <2>2
<1>4. CASE prc.state = "READ_FIRST_S"
  BY <1>1, <1>2, <1>4 DEF NextPrc, AckIsFirst
<1>5. CASE prc.state = "READ_S"
  <2>1. ~ack
    BY <1>1, <1>5 DEF AckIsFirst
  <2>2. ack' = ack /\ prc' = IF done THEN [state |-> "IDLE_S", id |-> None] ELSE prc
    BY <1>1, <1>5 DEF NextPrc
  <2> QED
    BY <1>2, <1>5, <2>1, <2>2 DEF AckIsFirst
<1> QED
  BY <1>2, <1>3, <1>4, <1>5

LEMMA LeastIsReady ==
  ASSUME TypeOK, NEW gate \in SUBSET Queues, Ready(gate) # {}
  PROVE  /\ (CHOOSE q \in Ready(gate) : \A r \in Ready(gate) : q <= r) \in Queues
         /\ count[CHOOSE q \in Ready(gate) : \A r \in Ready(gate) : q <= r] > 0
<1>1. Ready(gate) \in SUBSET Nat
  BY Constants DEF Ready
<1>2. \E q \in Ready(gate) : \A r \in Ready(gate) : q <= r
  BY <1>1, LeastNatural
<1>3. (CHOOSE q \in Ready(gate) : \A r \in Ready(gate) : q <= r) \in Ready(gate)
  BY <1>2
<1> QED
  BY <1>3 DEF Ready

(* While no bufid leaves, the first of a queue stays the first. *)
LEMMA HeadStays ==
  ASSUME NEW in, NEW gate, NEW done, Edge(in, gate, done),
         ~rdata_valid, NEW q \in Queues, count[q] > 0
  PROVE  count'[q] > 0 /\ q \notin empty_delay' /\ fifo'[q][1] = fifo[q][1]
<1>1. ~Leaves(q)
  BY DEF Leaves
<1>2. /\ count[q] \in Nat /\ count'[q] \in Nat
      /\ count'[q] = Len(fifo[q]) - (IF Leaves(q) THEN 1 ELSE 0)
      /\ \A k \in 1 .. count'[q] : fifo'[q][k] = fifo[q][k]
  BY <1>1, After
<1>3. Len(fifo[q]) = count[q] + (IF Appends(q) THEN 1 ELSE 0)
  BY Counted DEF Edge
<1>4. count'[q] > 0
  <2>1. count[q] \in Nat
    BY <1>2
  <2>2. Len(fifo[q]) \in Nat /\ count'[q] = Len(fifo[q])
    BY <1>1, <1>2, EdgeRegisters, Queued
  <2>3. Len(fifo[q]) = count[q] + 1 \/ Len(fifo[q]) = count[q]
    BY <1>3, <2>1
  <2> QED
    BY <2>1, <2>2, <2>3
<1>5. q \notin empty_delay'
  BY DEF Edge, Tick
<1>6. fifo'[q][1] = fifo[q][1]
  <2>1. count'[q] \in Nat
    BY <1>2
  <2>2. 1 \in 1 .. count'[q]
    BY <1>4, <2>1
  <2> QED
    BY <1>2, <2>2
<1> QED
  BY <1>4, <1>5, <1>6

LEMMA FromResting ==
  ASSUME NEW in, NEW gate, NEW done, Edge(in, gate, done), Resting
  PROVE  StagesAfter
<1>1. /\ osc.state = "IDLE_S" /\ cache = None /\ ~ack /\ osc.wr = FALSE /\ rd = FALSE
      /\ rdata_valid = FALSE /\ nqm_state = "IDLE_S"
  BY DEF Resting, At
<1>2. /\ cache' = None /\ ~ack' /\ bufid_delay' = None /\ rd' = FALSE
      /\ nqm_state' = "IDLE_S" /\ rdata_valid' = FALSE
  <2>1. cache' = None /\ bufid_delay' = None /\ rd' = FALSE
    BY <1>1, EdgeRegisters DEF NextCache
  <2>2. ~ack'
    BY <1>1, AckStep
  <2>3. nqm_state' = "IDLE_S" /\ rdata_valid' = FALSE
    BY <1>1, EdgeRegisters DEF NextRead
  <2> QED
    BY <2>1, <2>2, <2>3
<1>3. TypeOK /\ osc \in [state : {"IDLE_S", "ACK_S"}, queue : Queues, wr : BOOLEAN]
  BY EdgeRegisters DEF TypeOK
<1>4. CASE Ready(gate) = {}
  <2>1. osc'.state = "IDLE_S" /\ osc'.wr = FALSE
    BY <1>1, <1>3, <1>4, EdgeRegisters DEF NextOsc
  <2>2. Resting'
    BY <1>2, <2>1 DEF Resting, At
  <2> QED
    BY <1>2, <2>1, <2>2 DEF StagesAfter, Stages, Delayed, Reading, HeadRead, DataRead,
                            At, Scheduled, Asked, Searching, Found
<1>5. CASE Ready(gate) # {}
  <2>1. /\ osc'.state = "ACK_S" /\ osc'.wr = TRUE
        /\ osc'.queue \in Queues /\ count[osc'.queue] > 0
    <3>1. osc' = [state |-> "ACK_S", wr |-> TRUE,
                  queue |-> CHOOSE q \in Ready(gate) : \A r \in Ready(gate) : q <= r]
      BY <1>1, <1>5, EdgeRegisters DEF NextOsc
    <3> QED
      BY <1>3, <1>5, <3>1, EdgeRegisters, LeastIsReady
  <2>2. Scheduled'
    BY <1>2, <2>1 DEF Scheduled, At
  <2>3. count'[osc'.queue] > 0 /\ osc'.queue \notin empty_delay'
    BY <1>1, <2>1, HeadStays
  <2>4. Reading'
    BY <2>3 DEF Reading
  <2>5. HeadRead'
    BY <1>2, <2>1 DEF HeadRead, At, Asked, Searching, Found
  <2> QED
    BY <1>2, <2>2, <2>4, <2>5 DEF StagesAfter, Stages, Delayed, DataRead
<1> QED
  BY <1>4, <1>5

LEMMA FromScheduled ==
  ASSUME NEW in, NEW gate, NEW done, Edge(in, gate, done), Scheduled
  PROVE  StagesAfter
<1>1. /\ osc.state = "ACK_S" /\ cache = None /\ ~ack /\ osc.wr = TRUE /\ rd = FALSE
      /\ rdata_valid = FALSE /\ nqm_state = "IDLE_S"
  BY DEF Scheduled, At
<1>2. IInv /\ TypeOK /\ osc \in [state : {"IDLE_S", "ACK_S"}, queue : Queues, wr : BOOLEAN]
  BY EdgeRegisters DEF TypeOK
<1>3. /\ cache' = None /\ ~ack' /\ bufid_delay' = None /\ rd' = TRUE
      /\ nqm_state' = "IDLE_S" /\ rdata_valid' = FALSE
  <2>1. cache' = None /\ bufid_delay' = None /\ rd' = TRUE
    BY <1>1, EdgeRegisters DEF NextCache
  <2>2. ~ack'
    BY <1>1, AckStep
  <2>3. nqm_state' = "IDLE_S" /\ rdata_valid' = FALSE
    BY <1>1, EdgeRegisters DEF NextRead
  <2> QED
    BY <2>1, <2>2, <2>3
<1>4. osc'.state = "ACK_S" /\ osc'.wr = FALSE /\ osc'.queue = osc.queue /\ osc.queue \in Queues
  BY <1>1, <1>2, EdgeRegisters DEF NextOsc
<1>5. Asked'
  BY <1>3, <1>4 DEF Asked, At
<1>6. count[osc.queue] > 0 /\ osc.queue \notin empty_delay
  BY <1>2 DEF IInv, Reading
<1>7. raddr' = fifo[osc.queue][1]
  <2>1. bufid_delay = None
    BY <1>1, <1>2 DEF IInv, Delayed, Cached, At
  <2>2. ~LinkedAfterLeft(osc.queue)
    BY <1>2, <2>1, Registers, Constants DEF LinkedAfterLeft
  <2>3. first_addr[osc.queue] = fifo[osc.queue][1]
    BY <1>2, <1>4, <1>6, <2>2 DEF IInv, FirstIsFirst
  <2> QED
    BY <1>1, <2>3, EdgeRegisters
<1>8. /\ count'[osc.queue] > 0 /\ osc.queue \notin empty_delay'
      /\ fifo'[osc.queue][1] = fifo[osc.queue][1]
  BY <1>1, <1>4, <1>6, HeadStays
<1>9. Reading' /\ HeadRead'
  BY <1>4, <1>7, <1>8 DEF Reading, HeadRead
<1> QED
  BY <1>3, <1>5, <1>9 DEF StagesAfter, Stages, Delayed, DataRead

LEMMA FromAsked ==
  ASSUME NEW in, NEW gate, NEW done, Edge(in, gate, done), Asked
  PROVE  StagesAfter
<1>1. /\ osc.state = "ACK_S" /\ cache = None /\ ~ack /\ osc.wr = FALSE /\ rd = TRUE
      /\ rdata_valid = FALSE /\ nqm_state = "IDLE_S"
  BY DEF Asked, At
<1>2. IInv /\ TypeOK /\ osc \in [state : {"IDLE_S", "ACK_S"}, queue : Queues, wr : BOOLEAN]
  BY EdgeRegisters DEF TypeOK
<1>3. /\ cache' = None /\ ~ack' /\ bufid_delay' = None /\ rd' = FALSE
      /\ nqm_state' = "READ_S" /\ rdata_valid' = FALSE
  <2>1. cache' = None /\ bufid_delay' = None /\ rd' = FALSE
    BY <1>1, EdgeRegisters DEF NextCache
  <2>2. ~ack'
    BY <1>1, AckStep
  <2>3. nqm_state' = "READ_S" /\ rdata_valid' = FALSE
    BY <1>1, EdgeRegisters DEF NextRead
  <2> QED
    BY <2>1, <2>2, <2>3
<1>4. osc'.state = "ACK_S" /\ osc'.wr = FALSE /\ osc'.queue = osc.queue /\ osc.queue \in Queues
  BY <1>1, <1>2, EdgeRegisters DEF NextOsc
<1>5. Searching'
  BY <1>3, <1>4 DEF Searching, At
<1>6. count[osc.queue] > 0 /\ raddr = fifo[osc.queue][1]
  BY <1>2 DEF IInv, Reading, HeadRead
<1>7. raddr' = raddr
  BY <1>1, EdgeRegisters
<1>8. /\ count'[osc.queue] > 0 /\ osc.queue \notin empty_delay'
      /\ fifo'[osc.queue][1] = fifo[osc.queue][1]
  BY <1>1, <1>4, <1>6, HeadStays
<1>9. Reading' /\ HeadRead'
  BY <1>4, <1>6, <1>7, <1>8 DEF Reading, HeadRead
<1> QED
  BY <1>3, <1>5, <1>9 DEF StagesAfter, Stages, Delayed, DataRead

(* The link that is written while the RAM is read is seen as it passes. *)
LEMMA FromSearching ==
  ASSUME NEW in, NEW gate, NEW done, Edge(in, gate, done), Searching
  PROVE  StagesAfter
<1>1. /\ osc.state = "ACK_S" /\ cache = None /\ ~ack /\ osc.wr = FALSE /\ rd = FALSE
      /\ rdata_valid = FALSE /\ nqm_state # "IDLE_S"
  BY DEF Searching, At
<1>2. /\ IInv /\ TypeOK /\ raddr \in Ids
      /\ osc \in [state : {"IDLE_S", "ACK_S"}, queue : Queues, wr : BOOLEAN]
      /\ nqm_state \in {"READ_S", "WAIT0_S", "WAIT1_S"}
  BY <1>1, EdgeRegisters DEF TypeOK
<1>3. cache' = None /\ ~ack' /\ bufid_delay' = None /\ rd' = FALSE
  <2>1. cache' = None /\ bufid_delay' = None /\ rd' = FALSE
    BY <1>1, EdgeRegisters DEF NextCache
  <2>2. ~ack'
    BY <1>1, AckStep
  <2> QED
    BY <2>1, <2>2
<1>4. osc'.state = "ACK_S" /\ osc'.wr = FALSE /\ osc'.queue = osc.queue /\ osc.queue \in Queues
  BY <1>1, <1>2, EdgeRegisters DEF NextOsc
<1>5. count[osc.queue] > 0 /\ raddr = fifo[osc.queue][1]
  BY <1>2 DEF IInv, Reading, HeadRead
<1>6. raddr' = raddr
  BY <1>1, EdgeRegisters
<1>7. /\ count'[osc.queue] > 0 /\ osc.queue \notin empty_delay'
      /\ fifo'[osc.queue][1] = fifo[osc.queue][1]
  BY <1>1, <1>4, <1>5, HeadStays
<1>8. Reading' /\ HeadRead'
  BY <1>4, <1>5, <1>6, <1>7 DEF Reading, HeadRead
<1>9. ram'[raddr] = IF Bypass THEN link.data ELSE ram[raddr]
  BY <1>2, RamIsSuccessor DEF Successor, Bypass
<1>10. CASE nqm_state \in {"READ_S", "WAIT0_S"} /\ ~Bypass
  <2>1. nqm_state' \in {"WAIT0_S", "WAIT1_S"} /\ rdata_valid' = FALSE
    BY <1>2, <1>10, EdgeRegisters DEF NextRead
  <2>2. ram_q' = ram[raddr]
    <3>1. nqm_state = "WAIT0_S" => ram_q = ram[raddr]
      BY <1>2 DEF IInv, DataRead
    <3> QED
      BY <1>10, <3>1, EdgeRegisters DEF NextRam
  <2>3. Searching'
    BY <1>3, <1>4, <2>1 DEF Searching, At
  <2>4. DataRead'
    BY <1>6, <1>9, <1>10, <2>1, <2>2 DEF DataRead
  <2> QED
    BY <1>3, <1>8, <2>3, <2>4 DEF StagesAfter, Stages, Delayed
<1>11. CASE ~(nqm_state \in {"READ_S", "WAIT0_S"} /\ ~Bypass)
  <2>1. /\ nqm_state' = "IDLE_S" /\ rdata_valid' = TRUE
        /\ rdata' = IF Bypass THEN link.data ELSE ram_q
    BY <1>2, <1>11, EdgeRegisters DEF NextRead
  <2>2. Found'
    BY <1>3, <1>4, <2>1 DEF Found, At
  <2>3. rdata' = ram'[raddr]
    <3>1. CASE Bypass
      BY <1>9, <2>1, <3>1
    <3>2. CASE ~Bypass
      <4>1. ram_q = ram[raddr]
        BY <1>2, <1>11, <3>2 DEF IInv, DataRead
      <4> QED
        BY <1>9, <2>1, <3>2, <4>1
    <3> QED
      BY <3>1, <3>2
  <2>4. DataRead'
    BY <1>6, <2>1, <2>3 DEF DataRead
  <2> QED
    BY <1>3, <1>8, <2>2, <2>4 DEF StagesAfter, Stages, Delayed
<1> QED
  BY <1>10, <1>11

LEMMA FromFound ==
  ASSUME NEW in, NEW gate, NEW done, Edge(in, gate, done), Found
  PROVE  StagesAfter
<1>1. /\ osc.state = "ACK_S" /\ cache = None /\ ~ack /\ osc.wr = FALSE /\ rd = FALSE
      /\ rdata_valid = TRUE /\ nqm_state = "IDLE_S"
  BY DEF Found, At
<1>2. /\ IInv /\ TypeOK /\ raddr \in Ids /\ raddr # None
      /\ osc \in [state : {"IDLE_S", "ACK_S"}, queue : Queues, wr : BOOLEAN]
  BY EdgeRegisters, Constants DEF TypeOK
<1>3. /\ cache' = raddr /\ ~ack' /\ bufid_delay' = raddr /\ rd' = FALSE
      /\ nqm_state' = "IDLE_S" /\ rdata_valid' = FALSE
  <2>1. cache' = raddr /\ bufid_delay' = raddr /\ rd' = FALSE
    BY <1>1, EdgeRegisters DEF NextCache
  <2>2. ~ack'
    BY <1>1, AckStep
  <2>3. nqm_state' = "IDLE_S" /\ rdata_valid' = FALSE
    BY <1>1, EdgeRegisters DEF NextRead
  <2> QED
    BY <2>1, <2>2, <2>3
<1>4. osc'.state = "ACK_S" /\ osc'.wr = FALSE
  BY <1>1, <1>2, EdgeRegisters DEF NextOsc
<1>5. Cached'
  BY <1>2, <1>3, <1>4 DEF Cached, At
<1> QED
  BY <1>3, <1>4, <1>5 DEF StagesAfter, Stages, Delayed, Reading, HeadRead, DataRead,
                          Scheduled, Asked, Searching, Found, At

LEMMA FromCached ==
  ASSUME NEW in, NEW gate, NEW done, Edge(in, gate, done), Cached \/ Taken
  PROVE  StagesAfter
<1>1. /\ osc.state = "ACK_S" /\ cache # None /\ osc.wr = FALSE /\ rd = FALSE
      /\ rdata_valid = FALSE /\ nqm_state = "IDLE_S"
  BY DEF Cached, Taken, At
<1>2. /\ IInv /\ TypeOK /\ ack \in BOOLEAN
      /\ osc \in [state : {"IDLE_S", "ACK_S"}, queue : Queues, wr : BOOLEAN]
  BY EdgeRegisters DEF TypeOK
<1>3. /\ bufid_delay' = None /\ rd' = FALSE /\ nqm_state' = "IDLE_S" /\ rdata_valid' = FALSE
      /\ osc'.wr = FALSE
  <2>1. bufid_delay' = None /\ rd' = FALSE
    BY <1>1, EdgeRegisters
  <2>2. osc'.wr = FALSE
    BY <1>1, <1>2, EdgeRegisters DEF NextOsc
  <2>3. nqm_state' = "IDLE_S" /\ rdata_valid' = FALSE
    BY <1>1, EdgeRegisters DEF NextRead
  <2> QED
    BY <2>1, <2>2, <2>3
<1>4. Resting' \/ Cached' \/ Taken'
  <2>1. CASE ack
    <3>1. osc'.state = "IDLE_S"
      BY <1>1, <1>2, <2>1, EdgeRegisters DEF NextOsc
    <3>2. cache' = None
      BY <1>1, <2>1, EdgeRegisters DEF NextCache
    <3>3. ~ack'
      <4>1. prc.state = "READ_FIRST_S"
        BY <1>2, <2>1 DEF IInv, AckIsFirst
      <4> QED
        BY <4>1, AckStep
    <3> QED
      BY <1>3, <3>1, <3>2, <3>3 DEF Resting, At
  <2>2. CASE ~ack
    <3>1. osc'.state = "ACK_S"
      BY <1>1, <1>2, <2>2, EdgeRegisters DEF NextOsc
    <3>2. cache' # None
      BY <1>1, <2>2, EdgeRegisters DEF NextCache
    <3>3. ack' \in BOOLEAN
      BY AckStep
    <3> QED
      BY <1>3, <3>1, <3>2, <3>3 DEF Cached, Taken, At
  <2> QED
    BY <1>2, <2>1, <2>2
<1> QED
  BY <1>3, <1>4 DEF StagesAfter, Stages, Delayed, Reading, HeadRead, DataRead,
                    Scheduled, Asked, Searching, Found, At

LEMMA PipelineStep ==
  ASSUME NEW in, NEW gate, NEW done, Edge(in, gate, done)
  PROVE  StagesAfter
BY FromResting, FromScheduled, FromAsked, FromSearching, FromFound, FromCached
   DEF Edge, IInv, Stages

-----------------------------------------------------------------------------

LEMMA TypeStep ==
  ASSUME NEW in, NEW gate, NEW done, Edge(in, gate, done)
  PROVE  TypeOK'
<1>1. IInv /\ TypeOK /\ gate \in SUBSET Queues /\ done \in BOOLEAN /\ Tick(in, gate, done)
  BY DEF Edge, IInv
<1>2. /\ in \in [queue : Queues \cup {None}, id : Ids] /\ arrival' = in
      /\ arrival.queue \in Queues \cup {None} /\ arrival.id \in Ids
      /\ link.addr \in Ids /\ link.data \in Ids
  BY <1>1, EdgeArrival, Registers
<1>3. link' \in [queue : Queues \cup {None}, addr : Ids, data : Ids]
  <2>1. arrival.queue \in Queues => last_addr[arrival.queue] \in Ids
    BY <1>1, Queued
  <2> QED
    BY <1>1, <1>2, <2>1, Constants DEF Tick, NextLink, Nowhere
<1>4. count' \in [Queues -> 0 .. Cardinality(Ids)]
  <2>1. ASSUME NEW q \in Queues PROVE count'[q] \in 0 .. Cardinality(Ids)
    <3>1. /\ fifo'[q] \in Seq(Ids) /\ Distinct(fifo'[q])
          /\ count'[q] \in Nat /\ Len(fifo'[q]) \in Nat /\ count'[q] <= Len(fifo'[q])
      BY After, NewQueue
    <3>2. Len(fifo'[q]) <= Cardinality(Ids) /\ Cardinality(Ids) \in Nat
      BY <3>1, Constants, AtMostAll, FS_CardinalityType
    <3> QED
      BY <3>1, <3>2
  <2>2. count' = NextCount
    BY <1>1 DEF Tick
  <2> QED
    BY <2>1, <2>2 DEF NextCount
<1>5. last_addr' \in [Queues -> Ids]
  <2>1. \A q \in Queues : last_addr[q] \in Ids
    BY <1>1, Queued
  <2> QED
    BY <1>1, <1>2, <2>1 DEF Tick, NextLast
<1>6. first_addr' \in [Queues -> Ids]
  <2>1. \A q \in Queues : first_addr[q] \in Ids
    BY <1>1, Queued
  <2>2. rdata \in Ids
    BY <1>1 DEF TypeOK
  <2>3. first_addr' = NextFirst
    BY <1>1 DEF Tick
  <2> QED
    BY <1>2, <2>1, <2>2, <2>3 DEF NextFirst
<1>7. empty_delay' \subseteq Queues
  BY <1>1 DEF Tick
<1>8. bufid_delay' \in Ids \cup {None}
  BY <1>1 DEF Tick, TypeOK
<1>9. osc' \in [state : {"IDLE_S", "ACK_S"}, queue : Queues, wr : BOOLEAN]
  <2>1. osc' = NextOsc(gate) /\ osc \in [state : {"IDLE_S", "ACK_S"}, queue : Queues, wr : BOOLEAN]
    BY <1>1 DEF Tick, TypeOK
  <2>2. CASE osc.state = "ACK_S"
    BY <2>1, <2>2 DEF NextOsc
  <2>3. CASE osc.state # "ACK_S" /\ Ready(gate) = {}
    BY <2>1, <2>3 DEF NextOsc
  <2>4. CASE osc.state # "ACK_S" /\ Ready(gate) # {}
    <3>1. (CHOOSE q \in Ready(gate) : \A r \in Ready(gate) : q <= r) \in Queues
      BY <1>1, <2>4, LeastIsReady
    <3> QED
      BY <2>1, <2>4, <3>1 DEF NextOsc
  <2> QED
    BY <2>2, <2>3, <2>4
<1>10. raddr' \in Ids /\ rd' \in BOOLEAN
  <2>1. osc.queue \in Queues /\ osc.wr \in BOOLEAN /\ raddr \in Ids
    BY <1>1, Registers DEF TypeOK
  <2>2. first_addr[osc.queue] \in Ids
    BY <1>1, <2>1, Queued
  <2> QED
    BY <1>1, <2>1, <2>2 DEF Tick
<1>11. /\ nqm_state' \in {"IDLE_S", "READ_S", "WAIT0_S", "WAIT1_S"}
       /\ rdata' \in Ids /\ rdata_valid' \in BOOLEAN
  <2>1. /\ NextRead /\ rdata \in Ids /\ ram_q \in Ids
        /\ nqm_state \in {"IDLE_S", "READ_S", "WAIT0_S", "WAIT1_S"}
    BY <1>1 DEF Tick, TypeOK
  <2>2. CASE nqm_state = "IDLE_S"
    BY <2>1, <2>2 DEF NextRead
  <2>3. CASE nqm_state # "IDLE_S" /\ nqm_state \in {"READ_S", "WAIT0_S"} /\ ~Bypass
    BY <2>1, <2>3 DEF NextRead
  <2>4. CASE nqm_state # "IDLE_S" /\ ~(nqm_state \in {"READ_S", "WAIT0_S"} /\ ~Bypass)
    BY <1>2, <2>1, <2>4 DEF NextRead
  <2> QED
    BY <2>2, <2>3, <2>4
<1>12. ram' \in [Ids -> Ids] /\ ram_q' \in Ids
  BY <1>1, <1>2 DEF Tick, NextRam, TypeOK
<1>13. cache' \in Ids \cup {None}
  BY <1>1 DEF Tick, NextCache, TypeOK
<1>14. ack' \in BOOLEAN
  BY AckStep
<1>15. prc' \in [state : {"IDLE_S", "READ_FIRST_S", "READ_S"}, id : Ids \cup {None}]
  <2>1. /\ NextPrc(done) /\ cache \in Ids \cup {None}
        /\ prc \in [state : {"IDLE_S", "READ_FIRST_S", "READ_S"}, id : Ids \cup {None}]
    BY <1>1 DEF Tick, TypeOK
  <2>2. CASE prc.state = "IDLE_S"
    BY <2>1, <2>2 DEF NextPrc
  <2>3. CASE prc.state = "READ_FIRST_S"
    BY <2>1, <2>3 DEF NextPrc
  <2>4. CASE prc.state = "READ_S"
    BY <2>1, <2>4 DEF NextPrc
  <2> QED
    BY <2>1, <2>2, <2>3, <2>4
<1>16. fifo' \in [Queues -> Seq(Ids)]
  <2>1. \A q \in Queues : fifo'[q] \in Seq(Ids)
    BY NewQueue
  <2>2. fifo' = NextFifo(in)
    BY <1>1 DEF Tick
  <2> QED
    BY <2>1, <2>2 DEF NextFifo
<1> QED
  BY <1>2, <1>3, <1>4, <1>5, <1>6, <1>7, <1>8, <1>9, <1>10, <1>11, <1>12, <1>13, <1>14,
     <1>15, <1>16 DEF TypeOK

LEMMA InitIInv == Init => IInv
<1> SUFFICES ASSUME Init PROVE IInv
  OBVIOUS
<1>1. TypeOK
  <2>1. Cardinality(Ids) \in Nat
    BY Constants, FS_CardinalityType
  <2>2. 0 \in 0 .. Cardinality(Ids)
    BY <2>1
  <2>3. <<>> \in Seq(Ids)
    BY EmptySeq
  <2> QED
    BY <2>2, <2>3, Constants DEF Init, TypeOK, Nowhere
<1>2. \A q \in Queues : /\ fifo[q] = <<>> /\ count[q] = 0 /\ Len(fifo[q]) = 0
                        /\ DOMAIN fifo[q] = {} /\ q # None
  BY Constants DEF Init
<1>3. CountIsLength /\ Placed /\ LastIsLast /\ Chained
  BY <1>2 DEF Init, CountIsLength, Appends, Placed, Elements, Distinct, LastIsLast, Chained
<1>4. Arriving /\ FromEmpty /\ LinkFits /\ FirstIsFirst
  BY <1>2 DEF Init, Nowhere, Arriving, FromEmpty, LinkFits, FirstIsFirst
<1>5. Stages /\ AckIsFirst /\ Delayed /\ Reading /\ HeadRead /\ DataRead
  BY DEF Init, Stages, Resting, Scheduled, Asked, Searching, Found, At, AckIsFirst, Delayed,
         Reading, HeadRead, DataRead
<1> QED
  BY <1>1, <1>3, <1>4, <1>5 DEF IInv

LEMMA NextIInv == IInv /\ [Next]_vars => IInv'
<1> SUFFICES ASSUME IInv, [Next]_vars PROVE IInv'
  OBVIOUS
<1>1. CASE Next
  <2>1. PICK in \in Arrivals, gate \in SUBSET Queues, done \in BOOLEAN : Tick(in, gate, done)
    BY <1>1 DEF Next
  <2>2. Edge(in, gate, done)
    BY <2>1 DEF Edge
  <2>3. TypeOK' /\ CountIsLength' /\ Placed' /\ Arriving'
    BY <2>2, TypeStep, CountIsLengthStep, PlacedStep, ArrivingStep
  <2>4. LastIsLast' /\ Chained' /\ FromEmpty' /\ LinkFits' /\ FirstIsFirst'
    BY <2>2, LastIsLastStep, ChainedStep, FromEmptyStep, LinkFitsStep, FirstIsFirstStep
  <2>5. AckIsFirst' /\ StagesAfter
    BY <2>2, AckStep, PipelineStep
  <2> QED
    BY <2>3, <2>4, <2>5 DEF IInv, StagesAfter
<1>2. CASE UNCHANGED vars
  BY <1>2 DEF vars, IInv, TypeOK, CountIsLength, Appends, Placed, Arriving, LastIsLast, Chained,
              Successor, FromEmpty, LinkFits, FirstIsFirst, LinkedAfterLeft, Stages, At, Resting,
              Scheduled, Asked, Searching, Found, Cached, Taken, AckIsFirst, Delayed, Reading,
              HeadRead, DataRead
<1> QED
  BY <1>1, <1>2

LEMMA Invariant == Spec => []IInv
BY InitIInv, NextIInv, PTL DEF Spec

(* Every register and every counter of the output queues keeps its range, a
   count never goes below zero nor above the number of bufids
   (network_input_queue, the counts). *)
THEOREM TypeCorrect == Spec => []TypeOK
<1>1. IInv => TypeOK
  BY DEF IInv
<1> QED
  BY <1>1, Invariant, PTL

(* The count of a queue is the number of the bufids in it that are in the
   list, whatever arrives and leaves at the same edge. *)
THEOREM CountRight == Spec => []CountIsLength
<1>1. IInv => CountIsLength
  BY DEF IInv
<1> QED
  BY <1>1, Invariant, PTL

(* The bufid that leaves a queue is the oldest in it: the chain of the RAM,
   the link on its way to the RAM and the corrections of the head keep the
   order of arrival. *)
THEOREM OldestFirst == Spec => []FirstInFirstOut
<1>1. IInv => FirstInFirstOut
  <2> SUFFICES ASSUME IInv, rdata_valid
               PROVE  fifo[osc.queue] # <<>> /\ raddr = Head(fifo[osc.queue])
    BY DEF FirstInFirstOut
  <2> DEFINE q == osc.queue
  <2>1. TypeOK /\ q \in Queues
    BY Registers DEF IInv
  <2>2. count[q] > 0 /\ raddr = fifo[q][1]
    BY <2>1, LeavesFound DEF Leaves
  <2>3. fifo[q] \in Seq(Ids) /\ Len(fifo[q]) \in Nat /\ count[q] \in Nat
    BY <2>1, Queued
  <2>4. Len(fifo[q]) # 0
    BY <2>1, <2>2, <2>3, Counted
  <2> QED
    BY <2>2, <2>3, <2>4, EmptySeq
<1> QED
  BY <1>1, Invariant, PTL

(* When a bufid leaves its queue, the cache of pkt_read_control that takes it
   is free. *)
THEOREM CacheIsFree == Spec => []NoOverrun
<1>1. IInv => NoOverrun
  BY DEF IInv, NoOverrun, Stages, At, Resting, Scheduled, Asked, Searching, Found, Cached, Taken
<1> QED
  BY <1>1, Invariant, PTL

=============================================================================
