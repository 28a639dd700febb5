-------------------------- MODULE BufferPool_proofs --------------------------
(***************************************************************************)
(* Proofs about BufferPool, for any ports, any bufids, any first offers    *)
(* and any FIFO that has room for all bufids.                              *)
(***************************************************************************)
EXTENDS BufferPool, Lemmas, TLAPS

(* The inductive invariant.  That the last release finds the bufid nowhere
   in the pool needs a bufid to be in one place of a port (OnePlaceAtPort),
   so that a release takes exactly one port from Holders; that the number
   written back is the one of the RAM (WriterReads); that a renewed offer
   replaces none (AckedIsTaken); and that the initial bufids are not yet in
   use (UnsentApart). *)
UnsentApart == /\ unsent \cap Elements(free) = {}
               /\ \A p \in Ports : offer[p] \notin unsent
AckedIsTaken == \A p \in Ports : acked[p] => offer[p] = None
WriterReads == writer # Idle => /\ writer.id \in Ids
                                /\ writer.num = outport_num[writer.id]
InWriter(i, p) == writer.id = i /\ writer.port = p
OnePlaceAtPort ==
  \A p \in Ports, i \in Ids :
    /\ i \in queued[p] => sending[p] # i /\ release[p] # i /\ ~InWriter(i, p)
    /\ sending[p] = i => release[p] # i /\ ~InWriter(i, p)
    /\ release[p] = i => ~InWriter(i, p)

IInv ==
  /\ TypeOK
  /\ Exclusive
  /\ RefCount
  /\ UnsentApart
  /\ AckedIsTaken
  /\ WriterReads
  /\ OnePlaceAtPort

-----------------------------------------------------------------------------

(* Exclusive, with the parts of Pool one by one. *)
Apart ==
  /\ \A i \in Ids : Holders(i) # {} \/ i \in lookup =>
       /\ i \notin unsent
       /\ i \notin Elements(free)
       /\ \A p \in Ports : offer[p] # i
  /\ \A i \in lookup : Holders(i) = {}
  /\ Distinct(free)
  /\ \A p, q \in Ports : offer[p] = offer[q] /\ offer[p] # None => p = q
  /\ \A p \in Ports : offer[p] \notin Elements(free)

LEMMA ExclusiveIsApart == TypeOK => (Exclusive <=> Apart)
<1> SUFFICES ASSUME TypeOK PROVE Exclusive <=> Apart
  OBVIOUS
<1>1. lookup \subseteq Ids
  BY DEF TypeOK
<1>2. \A i : i \in Pool <=> \/ i \in unsent
                            \/ i \in Elements(free)
                            \/ \E p \in Ports : offer[p] = i
  BY DEF Pool, Elements
<1>3. (\A p \in Ports, k \in DOMAIN free : offer[p] # free[k])
        <=> (\A p \in Ports : offer[p] \notin Elements(free))
  BY DEF Elements
<1> QED
  BY <1>1, <1>2, <1>3 DEF Exclusive, Apart, Distinct

LEMMA ExclusiveIsApartNext == TypeOK' => (Exclusive' <=> Apart')
BY ExclusiveIsApart, PTL

LEMMA NoneIsNoBufid == None \notin Ids
BY BufferPoolAssumption DEF None

(* The ports that hold a bufid are finitely many and do not exceed Ports. *)
LEMMA HoldersFinite ==
  ASSUME NEW i
  PROVE  /\ IsFiniteSet(Holders(i))
         /\ Cardinality(Holders(i)) \in Nat
         /\ Holders(i) # {} => Cardinality(Holders(i)) > 0
<1>1. Holders(i) \in SUBSET Ports
  BY DEF Holders
<1> QED
  BY <1>1, BufferPoolAssumption, FS_Subset, FS_CardinalityType, FS_EmptySet

-----------------------------------------------------------------------------

(* How each step changes who holds a bufid. *)

LEMMA HoldersUnchanged ==
  ASSUME UNCHANGED <<queued, sending, release, writer>>
  PROVE  \A i : Holders(i)' = Holders(i)
BY DEF Holders

LEMMA HoldersSend ==
  ASSUME TypeOK, NEW p \in Ports, Send(p)
  PROVE  \A i \in Ids : Holders(i)' = Holders(i)
BY NoneIsNoBufid DEF TypeOK, Send, Holders

LEMMA HoldersTxFinish ==
  ASSUME TypeOK, NEW p \in Ports, TxFinish(p)
  PROVE  \A i \in Ids : Holders(i)' = Holders(i)
BY NoneIsNoBufid DEF TypeOK, TxFinish, ReleaseTaken, Holders

LEMMA HoldersTakeRelease ==
  ASSUME TypeOK, NEW p \in Ports, TakeRelease(p)
  PROVE  \A i \in Ids : Holders(i)' = Holders(i)
BY NoneIsNoBufid DEF TypeOK, TakeRelease, Holders, Idle

LEMMA HoldersForward ==
  ASSUME TypeOK, NEW i \in Ids, Holders(i) = {}, NEW T \in SUBSET Ports,
         queued' = [p \in Ports |-> IF p \in T THEN queued[p] \cup {i} ELSE queued[p]],
         UNCHANGED <<sending, release, writer>>
  PROVE  /\ Holders(i)' = T
         /\ \A j \in Ids \ {i} : Holders(j)' = Holders(j)
BY DEF TypeOK, Holders

(* A release that is counted takes one port from those that hold the bufid. *)
LEMMA HoldersCount ==
  ASSUME IInv, Count
  PROVE  /\ writer.id \in Ids
         /\ writer.port \in Holders(writer.id)
         /\ \A i \in Ids : Holders(i)' = IF i = writer.id THEN Holders(i) \ {writer.port}
                                                         ELSE Holders(i)
<1>1. writer.id \in Ids /\ writer.port \in Ports
  BY DEF IInv, WriterReads, TypeOK, Count
<1>2. writer' = Idle /\ UNCHANGED <<queued, sending, release>>
  BY DEF Count
<1>3. OnePlaceAtPort
  BY DEF IInv
<1>4. writer.port \in Holders(writer.id)
  BY <1>1 DEF Holders
<1>5. ASSUME NEW j \in Ids, NEW p \in Ports
      PROVE  p \in Holders(j)' <=> p \in Holders(j) /\ ~InWriter(j, p)
  <2>1. p \in Holders(j)' <=> j \in queued[p] \/ sending[p] = j \/ release[p] = j
    BY <1>2, NoneIsNoBufid DEF Holders, Idle
  <2>2. p \in Holders(j) <=> j \in queued[p] \/ sending[p] = j \/ release[p] = j
                            \/ InWriter(j, p)
    BY DEF Holders, InWriter
  <2> QED
    BY <1>3, <2>1, <2>2 DEF OnePlaceAtPort
<1>6. \A j \in Ids : Holders(j)' \subseteq Ports /\ Holders(j) \subseteq Ports
  BY DEF Holders
<1>7. ASSUME NEW j \in Ids, j = writer.id PROVE Holders(j)' = Holders(j) \ {writer.port}
  BY <1>5, <1>6, <1>7 DEF InWriter
<1>8. ASSUME NEW j \in Ids, j # writer.id PROVE Holders(j)' = Holders(j)
  BY <1>5, <1>6, <1>8 DEF InWriter
<1> QED
  BY <1>1, <1>4, <1>7, <1>8

-----------------------------------------------------------------------------

LEMMA InitIInv == Init => IInv
<1> SUFFICES ASSUME Init PROVE IInv
  OBVIOUS
<1> USE NoneIsNoBufid
<1>1. TypeOK
  <2>1. Cardinality(Ports) \in Nat
    BY BufferPoolAssumption, FS_CardinalityType
  <2> QED
    BY <2>1, BufferPoolAssumption, EmptySeq DEF Init, TypeOK, Idle
<1>2. Elements(free) = {} /\ Distinct(free)
  BY DEF Init, Elements, Distinct
<1>3. \A i \in Ids : Holders(i) = {}
  BY DEF Init, Holders, Idle
<1>4. \A p, q \in Ports : FirstOffer[p] = FirstOffer[q] => p = q
  BY BufferPoolAssumption
<1>5. Apart
  BY <1>2, <1>3, <1>4 DEF Init, Apart
<1>6. UnsentApart
  BY <1>2 DEF Init, UnsentApart
<1> QED
  BY <1>1, <1>3, <1>5, <1>6, ExclusiveIsApart
     DEF Init, IInv, RefCount, AckedIsTaken, WriterReads, OnePlaceAtPort, InWriter, Idle

LEMMA InitialPushIInv == IInv /\ InitialPush => IInv'
<1> SUFFICES ASSUME IInv, InitialPush PROVE IInv'
  OBVIOUS
<1>1. TypeOK /\ Apart
  BY ExclusiveIsApart DEF IInv
<1>2. PICK i \in unsent : free' = Append(free, i) /\ unsent' = unsent \ {i}
  BY DEF InitialPush
<1>3. UNCHANGED <<offer, acked, lookup, outport_num, queued, sending, release, writer>>
  BY DEF InitialPush
<1>4. i \in Ids /\ free \in Seq(Ids) /\ i \notin Elements(free)
  BY <1>1, <1>2 DEF TypeOK, IInv, UnsentApart
<1>5. /\ free' \in Seq(Ids)
      /\ Elements(free') = Elements(free) \cup {i}
      /\ Distinct(free')
  BY <1>1, <1>2, <1>4, AppendElements DEF Apart
<1>6. \A j : Holders(j)' = Holders(j)
  BY <1>3, HoldersUnchanged
<1>7. TypeOK'
  BY <1>1, <1>2, <1>3, <1>5 DEF TypeOK
<1>8. Apart'
  <2>1. \A j \in Ids : Holders(j)' # {} \/ j \in lookup' =>
          j \notin unsent' /\ j \notin Elements(free') /\ \A p \in Ports : offer'[p] # j
    BY <1>1, <1>2, <1>3, <1>5, <1>6 DEF Apart
  <2>2. \A p \in Ports : offer'[p] \notin Elements(free')
    BY <1>1, <1>2, <1>3, <1>5 DEF Apart, IInv, UnsentApart
  <2> QED
    BY <1>1, <1>3, <1>5, <1>6, <2>1, <2>2 DEF Apart
<1>9. UnsentApart'
  BY <1>2, <1>3, <1>5 DEF IInv, UnsentApart
<1> QED
  BY <1>3, <1>6, <1>7, <1>8, <1>9, ExclusiveIsApartNext
     DEF IInv, RefCount, AckedIsTaken, WriterReads, OnePlaceAtPort, InWriter, Idle

LEMMA ReceiveIInv == \A p \in Ports : IInv /\ Receive(p) => IInv'
<1> SUFFICES ASSUME NEW p \in Ports, IInv, Receive(p) PROVE IInv'
  OBVIOUS
<1>1. TypeOK /\ Apart
  BY ExclusiveIsApart DEF IInv
<1>2. /\ offer[p] # None
      /\ lookup' = lookup \cup {offer[p]}
      /\ offer' = [offer EXCEPT ![p] = None]
      /\ acked' = [acked EXCEPT ![p] = TRUE]
  BY DEF Receive, OfferAfterTake
<1>3. UNCHANGED <<unsent, free, outport_num, queued, sending, release, writer>>
  BY DEF Receive
<1>4. offer[p] \in Ids
  BY <1>1, <1>2 DEF TypeOK
<1>5. /\ \A q \in Ports : offer'[q] = IF q = p THEN None ELSE offer[q]
      /\ \A q \in Ports : acked'[q] = IF q = p THEN TRUE ELSE acked[q]
  BY <1>1, <1>2 DEF TypeOK
<1>6. \A j : Holders(j)' = Holders(j)
  BY <1>3, HoldersUnchanged
<1>7. TypeOK'
  BY <1>1, <1>2, <1>3, <1>4 DEF TypeOK
<1>8. Apart'
  <2>1. \A j \in Ids : Holders(j) # {} \/ j \in lookup' =>
          j \notin unsent /\ j \notin Elements(free) /\ \A q \in Ports : offer'[q] # j
    BY <1>1, <1>2, <1>4, <1>5, NoneIsNoBufid DEF Apart, IInv, UnsentApart
  <2>2. Holders(offer[p]) = {}
    BY <1>1, <1>4 DEF Apart
  <2>3. None \notin Elements(free)
    BY <1>1, NoneIsNoBufid, LenProperties DEF TypeOK, Elements
  <2> QED
    BY <1>1, <1>2, <1>3, <1>5, <1>6, <2>1, <2>2, <2>3 DEF Apart
<1>9. UnsentApart' /\ AckedIsTaken'
  BY <1>1, <1>3, <1>5, NoneIsNoBufid DEF IInv, TypeOK, UnsentApart, AckedIsTaken
<1> QED
  BY <1>3, <1>6, <1>7, <1>8, <1>9, ExclusiveIsApartNext
     DEF IInv, RefCount, WriterReads, OnePlaceAtPort, InWriter, Idle

LEMMA RenewIInv == \A p \in Ports : IInv /\ Renew(p) => IInv'
<1> SUFFICES ASSUME NEW p \in Ports, IInv, Renew(p) PROVE IInv'
  OBVIOUS
<1>1. TypeOK /\ Apart
  BY ExclusiveIsApart DEF IInv
<1>2. /\ free # <<>>
      /\ offer' = [offer EXCEPT ![p] = Head(free)]
      /\ free' = Tail(free)
      /\ acked' = [acked EXCEPT ![p] = FALSE]
      /\ UNCHANGED <<unsent, lookup, outport_num, queued, sending, release, writer>>
  BY DEF Renew
<1>3. offer[p] = None
  BY DEF IInv, AckedIsTaken, Renew
<1>4. /\ free' \in Seq(Ids)
      /\ Head(free) \in Ids
      /\ Elements(free) = Elements(free') \cup {Head(free)}
      /\ Distinct(free') /\ Head(free) \notin Elements(free')
  BY <1>1, <1>2, TailElements DEF TypeOK, Apart
<1>5. /\ \A q \in Ports : offer'[q] = IF q = p THEN Head(free) ELSE offer[q]
      /\ \A q \in Ports : acked'[q] = IF q = p THEN FALSE ELSE acked[q]
  BY <1>1, <1>2 DEF TypeOK
<1>6. \A j : Holders(j)' = Holders(j)
  BY <1>2, HoldersUnchanged
<1>7. TypeOK'
  BY <1>1, <1>2, <1>4 DEF TypeOK
<1>8. Apart'
  <2>1. \A j \in Ids : Holders(j) # {} \/ j \in lookup =>
          j \notin Elements(free') /\ \A q \in Ports : offer'[q] # j
    BY <1>1, <1>4, <1>5 DEF Apart
  <2>2. \A q \in Ports : offer'[q] \notin Elements(free')
    BY <1>1, <1>4, <1>5 DEF Apart
  <2>3. \A q, r \in Ports : offer'[q] = offer'[r] /\ offer'[q] # None => q = r
    BY <1>1, <1>4, <1>5 DEF Apart
  <2> QED
    BY <1>1, <1>2, <1>4, <1>6, <2>1, <2>2, <2>3 DEF Apart
<1>9. UnsentApart'
  <2>1. \A q \in Ports : offer'[q] \notin unsent
    BY <1>4, <1>5 DEF IInv, UnsentApart
  <2> QED
    BY <1>2, <1>4, <2>1 DEF IInv, UnsentApart
<1>10. AckedIsTaken'
  BY <1>5 DEF IInv, AckedIsTaken
<1> QED
  BY <1>2, <1>6, <1>7, <1>8, <1>9, <1>10, ExclusiveIsApartNext
     DEF IInv, RefCount, WriterReads, OnePlaceAtPort, InWriter, Idle

(* The steps of one packet through a port change neither who holds a bufid,
   nor the pool, nor the number in the RAM. *)
LEMMA PortStep ==
  ASSUME IInv, TypeOK', \A i \in Ids : Holders(i)' = Holders(i),
         UNCHANGED <<unsent, free, offer, acked, lookup, outport_num>>
  PROVE  Exclusive' /\ RefCount' /\ UnsentApart' /\ AckedIsTaken'
<1>1. TypeOK /\ Apart
  BY ExclusiveIsApart DEF IInv
<1>2. lookup \subseteq Ids
  BY <1>1 DEF TypeOK
<1>3. Apart'
  BY <1>1, <1>2 DEF Apart
<1> QED
  BY <1>3, ExclusiveIsApartNext DEF IInv, RefCount, UnsentApart, AckedIsTaken

LEMMA SendIInv == \A p \in Ports : IInv /\ Send(p) => IInv'
<1> SUFFICES ASSUME NEW p \in Ports, IInv, Send(p) PROVE IInv'
  OBVIOUS
<1>1. PICK i \in queued[p] : /\ sending' = [sending EXCEPT ![p] = i]
                             /\ queued' = [queued EXCEPT ![p] = @ \ {i}]
  BY DEF Send
<1>2. /\ sending[p] = None
      /\ UNCHANGED <<unsent, free, offer, acked, lookup, outport_num, release, writer>>
  BY DEF Send
<1>3. TypeOK
  BY DEF IInv
<1>4. i \in Ids
  BY <1>3 DEF TypeOK
<1>5. TypeOK'
  BY <1>1, <1>2, <1>3, <1>4 DEF TypeOK
<1>6. \A q \in Ports : /\ sending'[q] = IF q = p THEN i ELSE sending[q]
                       /\ queued'[q] = IF q = p THEN queued[q] \ {i} ELSE queued[q]
  BY <1>1, <1>3 DEF TypeOK
<1>7. OnePlaceAtPort'
  <2> SUFFICES ASSUME NEW q \in Ports, NEW j \in Ids
               PROVE  /\ j \in queued'[q] => /\ sending'[q] # j /\ release'[q] # j
                                             /\ ~InWriter(j, q)'
                      /\ sending'[q] = j => release'[q] # j /\ ~InWriter(j, q)'
                      /\ release'[q] = j => ~InWriter(j, q)'
    BY DEF OnePlaceAtPort
  <2>1. /\ j \in queued[q] => sending[q] # j /\ release[q] # j /\ ~InWriter(j, q)
        /\ sending[q] = j => release[q] # j /\ ~InWriter(j, q)
        /\ release[q] = j => ~InWriter(j, q)
    BY DEF IInv, OnePlaceAtPort
  <2>2. InWriter(j, q)' <=> InWriter(j, q)
    BY <1>2 DEF InWriter
  <2> QED
    BY <1>1, <1>2, <1>6, <1>4, <2>1, <2>2
<1>8. WriterReads'
  BY <1>2 DEF IInv, WriterReads, Idle
<1> QED
  BY <1>2, <1>3, <1>5, <1>7, <1>8, HoldersSend, PortStep DEF IInv

LEMMA TxFinishIInv == \A p \in Ports : IInv /\ TxFinish(p) => IInv'
<1> SUFFICES ASSUME NEW p \in Ports, IInv, TxFinish(p) PROVE IInv'
  OBVIOUS
<1>1. /\ sending[p] # None
      /\ release[p] = None
      /\ release' = [release EXCEPT ![p] = sending[p]]
      /\ sending' = [sending EXCEPT ![p] = None]
      /\ UNCHANGED <<unsent, free, offer, acked, lookup, outport_num, queued, writer>>
  BY DEF TxFinish, ReleaseTaken
<1>2. TypeOK
  BY DEF IInv
<1>3. TypeOK'
  BY <1>1, <1>2 DEF TypeOK
<1>4. \A q \in Ports : /\ release'[q] = IF q = p THEN sending[p] ELSE release[q]
                       /\ sending'[q] = IF q = p THEN None ELSE sending[q]
  BY <1>1, <1>2 DEF TypeOK
<1>5. OnePlaceAtPort'
  BY <1>1, <1>4, NoneIsNoBufid DEF IInv, OnePlaceAtPort, InWriter
<1>6. WriterReads'
  BY <1>1 DEF IInv, WriterReads, Idle
<1> QED
  BY <1>1, <1>2, <1>3, <1>5, <1>6, HoldersTxFinish, PortStep DEF IInv

LEMMA TakeReleaseIInv == \A p \in Ports : IInv /\ TakeRelease(p) => IInv'
<1> SUFFICES ASSUME NEW p \in Ports, IInv, TakeRelease(p) PROVE IInv'
  OBVIOUS
<1>1. /\ writer = Idle
      /\ release[p] # None
      /\ writer' = [id |-> release[p], port |-> p, num |-> outport_num[release[p]]]
      /\ release' = [release EXCEPT ![p] = None]
      /\ UNCHANGED <<unsent, free, offer, acked, lookup, outport_num, queued, sending>>
  BY DEF TakeRelease
<1>2. TypeOK
  BY DEF IInv
<1>3. release[p] \in Ids
  BY <1>1, <1>2 DEF TypeOK
<1>4. TypeOK'
  BY <1>1, <1>2, <1>3 DEF TypeOK
<1>5. \A q \in Ports : release'[q] = IF q = p THEN None ELSE release[q]
  BY <1>1, <1>2 DEF TypeOK
<1>6. OnePlaceAtPort'
  BY <1>1, <1>5, NoneIsNoBufid DEF IInv, OnePlaceAtPort, InWriter
<1>7. WriterReads'
  BY <1>1, <1>3 DEF WriterReads
<1> QED
  BY <1>1, <1>2, <1>4, <1>6, <1>7, HoldersTakeRelease, PortStep DEF IInv

LEMMA TargetsFinite ==
  ASSUME NEW outs, NEW lost
  PROVE  /\ Targets(outs) \ lost \in SUBSET Ports
         /\ Cardinality(Targets(outs)) \in 0 .. Cardinality(Ports)
         /\ Cardinality(Targets(outs) \ lost) <= Cardinality(Targets(outs))
<1>1. IsFiniteSet(Ports) /\ Targets(outs) \in SUBSET Ports
  BY BufferPoolAssumption DEF Targets
<1>2. /\ IsFiniteSet(Targets(outs))
      /\ Cardinality(Targets(outs)) <= Cardinality(Ports)
  BY <1>1, FS_Subset
<1>3. Targets(outs) \ lost \in SUBSET Targets(outs)
  OBVIOUS
<1>4. Cardinality(Targets(outs) \ lost) <= Cardinality(Targets(outs))
  BY <1>2, <1>3, FS_Subset
<1>5. Cardinality(Ports) \in Nat /\ Cardinality(Targets(outs)) \in Nat
  BY <1>1, <1>2, FS_CardinalityType
<1> QED
  BY <1>1, <1>2, <1>4, <1>5

LEMMA ForwardIInv == \A i \in Ids : IInv /\ Forward(i) => IInv'
<1> SUFFICES ASSUME NEW i \in Ids, IInv, Forward(i) PROVE IInv'
  OBVIOUS
<1>1. TypeOK /\ Apart
  BY ExclusiveIsApart DEF IInv
<1>0. PICK outs \in SUBSET (Ports \cup Unwired) : \E lost \in Dropping(outs) :
        /\ outport_num' = [outport_num EXCEPT ![i] = BufidCount(outs)]
        /\ queued' = [p \in Ports |-> IF p \in Targets(outs) \ lost
                                      THEN queued[p] \cup {i} ELSE queued[p]]
  BY DEF Forward
<1>2. PICK lost \in Dropping(outs) :
        /\ outport_num' = [outport_num EXCEPT ![i] = BufidCount(outs)]
        /\ queued' = [p \in Ports |-> IF p \in Targets(outs) \ lost
                                      THEN queued[p] \cup {i} ELSE queued[p]]
  BY <1>0
<1> DEFINE T == Targets(outs) \ lost
<1>3. /\ i \in lookup
      /\ lookup' = lookup \ {i}
      /\ UNCHANGED <<unsent, free, offer, acked, sending, release, writer>>
  BY DEF Forward
<1>4. /\ T \in SUBSET Ports
      /\ BufidCount(outs) \in 0 .. Cardinality(Ports)
      /\ BufidCount(outs) >= Cardinality(T)
      /\ ~ModeSwitch => BufidCount(outs) = Cardinality(T)
  <2>1. ~ModeSwitch => T = Targets(outs)
    BY <1>2 DEF Dropping
  <2> QED
    BY <2>1, TargetsFinite DEF BufidCount
<1>5. Holders(i) = {}
  BY <1>1, <1>3 DEF Apart
<1>6. Holders(i)' = T /\ \A j \in Ids \ {i} : Holders(j)' = Holders(j)
  <2> HIDE DEF T
  <2>1. queued' = [p \in Ports |-> IF p \in T THEN queued[p] \cup {i} ELSE queued[p]]
    BY <1>2 DEF T
  <2> QED
    BY <1>1, <1>3, <1>4, <1>5, <2>1, HoldersForward
<1>7. /\ outport_num'[i] = BufidCount(outs)
      /\ \A j \in Ids \ {i} : outport_num'[j] = outport_num[j]
  BY <1>1, <1>2 DEF TypeOK
<1>8. TypeOK'
  <2>1. queued' \in [Ports -> SUBSET Ids]
    BY <1>1, <1>2 DEF TypeOK
  <2>2. outport_num' \in [Ids -> 0 .. Cardinality(Ports)]
    BY <1>1, <1>2, <1>4 DEF TypeOK
  <2>3. lookup' \subseteq Ids
    BY <1>1, <1>3 DEF TypeOK
  <2> QED
    BY <1>1, <1>3, <2>1, <2>2, <2>3 DEF TypeOK
<1>9. Apart'
  <2>1. \A j \in Ids : Holders(j)' # {} \/ j \in lookup' => Holders(j) # {} \/ j \in lookup
    BY <1>3, <1>6
  <2>2. \A j \in lookup' : Holders(j)' = {}
    BY <1>1, <1>3, <1>6 DEF TypeOK, Apart
  <2> QED
    BY <1>1, <1>3, <2>1, <2>2 DEF Apart
<1>10. RefCount'
  <2>1. ASSUME NEW j \in Ids, Holders(j)' # {}
        PROVE  /\ outport_num'[j] >= Cardinality(Holders(j)')
               /\ ~ModeSwitch => outport_num'[j] = Cardinality(Holders(j)')
    <3>1. CASE j = i
      BY <1>4, <1>6, <1>7, <3>1
    <3>2. CASE j # i
      BY <1>6, <1>7, <2>1, <3>2 DEF IInv, RefCount
    <3> QED
      BY <3>1, <3>2
  <2> QED
    BY <2>1 DEF RefCount
<1>11. WriterReads'
  <2>1. ASSUME writer # Idle PROVE writer.id # i
    BY <1>1, <1>5, <2>1 DEF TypeOK, Holders
  <2> QED
    BY <1>3, <1>7, <2>1 DEF IInv, WriterReads, Idle
<1>12. OnePlaceAtPort'
  <2> SUFFICES ASSUME NEW q \in Ports, NEW j \in Ids
               PROVE  /\ j \in queued'[q] => sending[q] # j /\ release[q] # j /\ ~InWriter(j, q)
                      /\ sending[q] = j => release[q] # j /\ ~InWriter(j, q)
                      /\ release[q] = j => ~InWriter(j, q)
    BY <1>3 DEF OnePlaceAtPort, InWriter
  <2>1. /\ j \in queued[q] => sending[q] # j /\ release[q] # j /\ ~InWriter(j, q)
        /\ sending[q] = j => release[q] # j /\ ~InWriter(j, q)
        /\ release[q] = j => ~InWriter(j, q)
    BY DEF IInv, OnePlaceAtPort
  <2>2. j \in queued'[q] => j \in queued[q] \/ j = i
    BY <1>2
  <2>3. sending[q] # i /\ release[q] # i /\ ~InWriter(i, q)
    BY <1>5 DEF Holders, InWriter
  <2> QED
    BY <2>1, <2>2, <2>3
<1>13. UnsentApart' /\ AckedIsTaken'
  BY <1>3 DEF IInv, UnsentApart, AckedIsTaken
<1> QED
  BY <1>8, <1>9, <1>10, <1>11, <1>12, <1>13, ExclusiveIsApartNext DEF IInv

(* The number of ports that hold a bufid, after one of them released it. *)
LEMMA OneHolderLess ==
  ASSUME NEW i, NEW p \in Holders(i)
  PROVE  Cardinality(Holders(i) \ {p}) = Cardinality(Holders(i)) - 1
BY HoldersFinite, FS_RemoveElement

(* There is a port whose release is the last, exactly when the number read
   is one. *)
LEMMA LastRelease ==
  ASSUME IInv, Count, ~MorePorts
  PROVE  Holders(writer.id) = {writer.port}
<1>1. writer.id \in Ids /\ writer.port \in Holders(writer.id)
  BY HoldersCount
<1>2. writer.num = outport_num[writer.id] /\ writer # Idle
  BY DEF IInv, WriterReads, Count
<1>3. outport_num[writer.id] >= Cardinality(Holders(writer.id))
  BY <1>1 DEF IInv, RefCount
<1>4. outport_num[writer.id] <= 1 /\ outport_num[writer.id] \in Int
  BY <1>1, <1>2 DEF IInv, TypeOK, MorePorts
<1>5. Cardinality(Holders(writer.id)) = 1
  BY <1>1, <1>3, <1>4, HoldersFinite
<1>6. PICK x : Holders(writer.id) = {x}
  BY <1>5, HoldersFinite, FS_Singleton
<1> QED
  BY <1>1, <1>6

LEMMA CountIInv == IInv /\ Count => IInv'
<1> SUFFICES ASSUME IInv, Count PROVE IInv'
  OBVIOUS
<1>1. TypeOK /\ Apart /\ OnePlaceAtPort
  BY ExclusiveIsApart DEF IInv
<1>2. writer' = Idle /\ UNCHANGED <<unsent, offer, acked, lookup, queued, sending, release>>
  BY DEF Count
<1>3. PICK w \in Ids : w = writer.id /\ writer.port \in Holders(w)
  BY HoldersCount
<1>4. \A j \in Ids : Holders(j)' = IF j = w THEN Holders(j) \ {writer.port} ELSE Holders(j)
  BY <1>3, HoldersCount
<1>5. WriterReads' /\ AckedIsTaken'
  BY <1>2 DEF IInv, WriterReads, AckedIsTaken
<1>6. OnePlaceAtPort'
  BY <1>1, <1>2, NoneIsNoBufid DEF OnePlaceAtPort, InWriter, Idle
<1>7. w \notin unsent /\ w \notin Elements(free) /\ w \notin lookup
      /\ \A p \in Ports : offer[p] # w
  BY <1>1, <1>3 DEF Apart
<1>8. Idle \in [id : Ids \cup {None}, port : Ports, num : 0 .. Cardinality(Ports)]
  BY BufferPoolAssumption, FS_CardinalityType DEF Idle
<1>9. CASE MorePorts
  <2>1. outport_num' = [outport_num EXCEPT ![w] = writer.num - 1] /\ UNCHANGED free
    BY <1>3, <1>9 DEF Count
  <2>2. /\ writer.num \in 0 .. Cardinality(Ports) /\ Cardinality(Ports) \in Nat
        /\ writer.num > 1
    BY <1>1, <1>9, BufferPoolAssumption, FS_CardinalityType DEF TypeOK, MorePorts
  <2>3. writer.num - 1 \in 0 .. Cardinality(Ports)
    BY <2>2
  <2>4. TypeOK'
    BY <1>1, <1>2, <1>8, <2>1, <2>3 DEF TypeOK
  <2>5. Apart'
    <3>1. \A j \in Ids : Holders(j)' # {} => Holders(j) # {}
      BY <1>3, <1>4
    <3>2. lookup \subseteq Ids
      BY <1>1 DEF TypeOK
    <3>3. \A j \in lookup : Holders(j)' = {}
      BY <1>1, <3>1, <3>2 DEF Apart
    <3> QED
      BY <1>1, <1>2, <2>1, <3>1, <3>3 DEF Apart
  <2>6. RefCount'
    <3> SUFFICES ASSUME NEW j \in Ids, Holders(j)' # {}
                 PROVE  /\ outport_num'[j] >= Cardinality(Holders(j)')
                        /\ ~ModeSwitch => outport_num'[j] = Cardinality(Holders(j)')
      BY DEF RefCount
    <3>1. CASE j = w
      <4>1. writer.num = outport_num[w]
        BY <1>3, NoneIsNoBufid DEF IInv, WriterReads, Idle
      <4>2. /\ writer.num >= Cardinality(Holders(w))
            /\ ~ModeSwitch => writer.num = Cardinality(Holders(w))
        BY <1>3, <4>1 DEF IInv, RefCount
      <4>3. Cardinality(Holders(j)') = Cardinality(Holders(w)) - 1
        BY <1>3, <1>4, <3>1, OneHolderLess
      <4>4. outport_num'[j] = writer.num - 1
        BY <1>1, <2>1, <3>1 DEF TypeOK
      <4> QED
        BY <2>2, <4>2, <4>3, <4>4, HoldersFinite
    <3>2. CASE j # w
      <4>1. outport_num'[j] = outport_num[j] /\ Holders(j)' = Holders(j)
        BY <1>1, <1>4, <2>1, <3>2 DEF TypeOK
      <4> QED
        BY <4>1 DEF IInv, RefCount
    <3> QED
      BY <3>1, <3>2
  <2>7. UnsentApart'
    BY <1>2, <2>1 DEF IInv, UnsentApart
  <2> QED
    BY <1>5, <1>6, <2>4, <2>5, <2>6, <2>7, ExclusiveIsApartNext DEF IInv
<1>10. CASE ~MorePorts
  <2>1. free \in Seq(Ids) /\ Distinct(free)
    BY <1>1 DEF TypeOK, Apart
  <2>2. Len(free) < FifoDepth
    <3>1. Len(free) < Cardinality(Ids)
      BY <1>7, <2>1, RoomForOneMore, BufferPoolAssumption
    <3>2. Len(free) \in Nat /\ Cardinality(Ids) \in Nat /\ FifoDepth \in Nat
          /\ Cardinality(Ids) <= FifoDepth
      BY <2>1, BufferPoolAssumption, FS_CardinalityType, LenProperties
    <3> QED
      BY <3>1, <3>2
  <2>3. free' = Append(free, w) /\ UNCHANGED outport_num
    <3>1. Len(free) \in Nat /\ FifoDepth \in Nat
      BY <2>1, BufferPoolAssumption, LenProperties
    <3> QED
      BY <1>3, <1>10, <2>2, <3>1 DEF Count
  <2>4. /\ free' \in Seq(Ids)
        /\ Elements(free') = Elements(free) \cup {w}
        /\ Distinct(free')
    BY <1>7, <2>1, <2>3, AppendElements
  <2>5. \A j \in Ids : Holders(j)' = IF j = w THEN {} ELSE Holders(j)
    <3>1. Holders(w) = {writer.port}
      BY <1>3, <1>10, LastRelease
    <3> QED
      BY <1>4, <3>1
  <2>6. TypeOK'
    BY <1>1, <1>2, <1>8, <2>3, <2>4 DEF TypeOK
  <2>7. Apart'
    <3>1. lookup \subseteq Ids
      BY <1>1 DEF TypeOK
    <3>2. \A j \in Ids : Holders(j)' # {} \/ j \in lookup =>
            j \notin unsent /\ j \notin Elements(free') /\ \A p \in Ports : offer[p] # j
      BY <1>1, <1>7, <2>4, <2>5 DEF Apart
    <3>3. \A j \in lookup : Holders(j)' = {}
      BY <1>1, <2>5, <3>1 DEF Apart
    <3>4. \A p \in Ports : offer[p] \notin Elements(free')
      BY <1>1, <1>7, <2>4 DEF Apart
    <3> QED
      BY <1>1, <1>2, <2>4, <3>2, <3>3, <3>4 DEF Apart
  <2>8. RefCount'
    BY <2>3, <2>5 DEF IInv, RefCount
  <2>9. UnsentApart'
    BY <1>2, <1>7, <2>4 DEF IInv, UnsentApart
  <2> QED
    BY <1>5, <1>6, <2>6, <2>7, <2>8, <2>9, ExclusiveIsApartNext DEF IInv
<1> QED
  BY <1>9, <1>10

LEMMA StutterIInv == IInv /\ UNCHANGED vars => IInv'
<1> SUFFICES ASSUME IInv, UNCHANGED vars PROVE IInv'
  OBVIOUS
<1>1. \A i : Holders(i)' = Holders(i)
  BY HoldersUnchanged DEF vars
<1>2. Pool' = Pool
  BY DEF vars, Pool
<1> QED
  BY <1>1, <1>2 DEF vars, IInv, TypeOK, Exclusive, RefCount, UnsentApart, AckedIsTaken,
                    WriterReads, OnePlaceAtPort, InWriter

LEMMA NextIInv == IInv /\ [Next]_vars => IInv'
<1> SUFFICES ASSUME IInv, [Next]_vars PROVE IInv'
  OBVIOUS
<1>1. CASE InitialPush
  BY <1>1, InitialPushIInv
<1>2. CASE Count
  BY <1>2, CountIInv
<1>3. ASSUME NEW p \in Ports, Receive(p) \/ Renew(p) \/ Send(p) \/ TxFinish(p) \/ TakeRelease(p)
      PROVE  IInv'
  BY <1>3, ReceiveIInv, RenewIInv, SendIInv, TxFinishIInv, TakeReleaseIInv
<1>4. ASSUME NEW i \in Ids, Forward(i) PROVE IInv'
  BY <1>4, ForwardIInv
<1>5. CASE UNCHANGED vars
  BY <1>5, StutterIInv
<1> QED
  BY <1>1, <1>2, <1>3, <1>4, <1>5 DEF Next

LEMMA Invariant == Spec => []IInv
BY InitIInv, NextIInv, PTL DEF Spec

-----------------------------------------------------------------------------

(* The variables keep their types: the FIFO never runs over, a number in the
   RAM never falls below zero or exceeds the number of ports. *)
THEOREM TypeCorrect == Spec => []TypeOK
BY Invariant, PTL DEF IInv

(* No bufid is given to a packet while another packet, or a port that sends
   one, still has it: address_read and address_write keep the bufids apart,
   whatever the order in which the ports release them. *)
THEOREM ExclusiveUse == Spec => []Exclusive
BY Invariant, PTL DEF IInv

(* The RAM of address_write counts the ports that have yet to release a
   bufid, exactly unless the switch of the mode lost a packet. *)
THEOREM CountRight == Spec => []RefCount
BY Invariant, PTL DEF IInv

-----------------------------------------------------------------------------

(* The refinement.  What a step does to the status of a bufid follows from
   what it does to Pool, lookup and Holders. *)
Status(i) == CASE i \in Pool -> "free"
               [] i \in lookup -> "incoming"
               [] OTHER -> "sending"

StatusFits ==
  \A i \in Ids : /\ i \in Pool => Status(i) = "free"
                 /\ i \in lookup => Status(i) = "incoming"
                 /\ i \notin Pool /\ i \notin lookup => Status(i) = "sending"

LEMMA StatusIs == Exclusive => StatusFits
BY DEF Exclusive, Status, StatusFits

LEMMA StatusIsNext == Exclusive' => StatusFits'
BY StatusIs, PTL

LEMMA PoolIs ==
  /\ \A i : i \in Pool <=> i \in unsent \/ i \in Elements(free) \/ \E p \in Ports : offer[p] = i
  /\ \A i : i \in Pool' <=> \/ i \in unsent' \/ i \in Elements(free')
                            \/ \E p \in Ports : offer'[p] = i
BY DEF Pool, Elements

LEMMA SameStatus ==
  ASSUME IInv, IInv', NEW i \in Ids,
         i \in Pool' <=> i \in Pool, i \in lookup' <=> i \in lookup
  PROVE  Status(i)' = Status(i)
<1>1. StatusFits /\ StatusFits'
  BY StatusIs, StatusIsNext DEF IInv
<1> QED
  BY <1>1 DEF StatusFits

(* A step that moves no bufid is a stuttering step of SharedBuffer. *)
LEMMA MovesNone ==
  ASSUME IInv, IInv', \A i \in Ids : Holders(i)' = Holders(i),
         \A i \in Ids : (i \in Pool' <=> i \in Pool) /\ (i \in lookup' <=> i \in lookup)
  PROVE  UNCHANGED Buffers!vars
<1>1. \A i \in Ids : Status(i)' = Status(i)
  BY SameStatus
<1> QED
  BY <1>1 DEF Buffers!vars, Status

LEMMA InitMaps == Init => Buffers!Init
<1> SUFFICES ASSUME Init PROVE Buffers!Init
  OBVIOUS
<1>1. \A i \in Ids : Holders(i) = {}
  BY NoneIsNoBufid DEF Init, Holders, Idle
<1>2. \A i \in Ids : Status(i) \in {"free", "sending"}
  BY DEF Init, Status
<1> QED
  BY <1>1, <1>2 DEF Buffers!Init, Status

(* A packet that takes the offer of its port takes a free buffer. *)
LEMMA ReceiveMaps ==
  ASSUME IInv, IInv', NEW p \in Ports, Receive(p)
  PROVE  \E i \in Ids : Buffers!Take(i)
<1>1. /\ offer[p] \in Ids
      /\ \A q \in Ports : offer'[q] = IF q = p THEN None ELSE offer[q]
      /\ lookup' = lookup \cup {offer[p]}
      /\ UNCHANGED <<unsent, free>>
  BY DEF IInv, TypeOK, Receive, OfferAfterTake
<1>2. PICK w \in Ids : w = offer[p]
  BY <1>1
<1>3. \A i : Holders(i)' = Holders(i)
  BY HoldersUnchanged DEF Receive
<1>4. w \in Pool /\ w \in lookup'
  BY <1>1, <1>2, PoolIs
<1>5. ASSUME NEW i \in Ids, i # w
      PROVE  (i \in Pool' <=> i \in Pool) /\ (i \in lookup' <=> i \in lookup)
  BY <1>1, <1>2, <1>5, NoneIsNoBufid, PoolIs
<1>6. Status(w) = "free" /\ Status(w)' = "incoming"
  <2>1. StatusFits /\ StatusFits'
    BY StatusIs, StatusIsNext DEF IInv
  <2> QED
    BY <1>4, <2>1 DEF StatusFits
<1>7. \A i \in Ids \ {w} : Status(i)' = Status(i)
  BY <1>5, SameStatus
<1>8. Buffers!Take(w)
  BY <1>3, <1>6, <1>7 DEF Buffers!Take, Status
<1> QED
  BY <1>8

(* The lookup forwards a bufid to the ports that queue it. *)
LEMMA ForwardMaps ==
  ASSUME IInv, IInv', NEW i \in Ids, Forward(i)
  PROVE  \E T \in SUBSET Ports : Buffers!Forward(i, T)
<1>1. PICK outs \in SUBSET (Ports \cup Unwired) : \E lost \in Dropping(outs) :
        queued' = [p \in Ports |-> IF p \in Targets(outs) \ lost
                                   THEN queued[p] \cup {i} ELSE queued[p]]
  BY DEF Forward
<1>2. PICK lost \in Dropping(outs) :
        queued' = [p \in Ports |-> IF p \in Targets(outs) \ lost
                                   THEN queued[p] \cup {i} ELSE queued[p]]
  BY <1>1
<1>3. PICK T \in SUBSET Ports : T = Targets(outs) \ lost
  BY TargetsFinite
<1>4. T # {} \/ ModeSwitch \/ Unwired # {}
  <2> SUFFICES ASSUME ~ModeSwitch, Unwired = {} PROVE T # {}
    OBVIOUS
  <2>1. T = Targets(outs)
    BY <1>2, <1>3 DEF Dropping
  <2> QED
    BY <2>1, BufferPoolAssumption DEF Targets
<1>5. /\ i \in lookup
      /\ lookup' = lookup \ {i}
      /\ UNCHANGED <<unsent, free, offer, sending, release, writer>>
  BY DEF Forward
<1>6. TypeOK /\ Apart /\ Apart'
  BY ExclusiveIsApart, ExclusiveIsApartNext DEF IInv
<1>7. Holders(i)' = T /\ \A j \in Ids \ {i} : Holders(j)' = Holders(j)
  BY <1>2, <1>3, <1>5, <1>6, HoldersForward DEF Apart
<1>8. \A j \in Ids : j \in Pool' <=> j \in Pool
  BY <1>5, PoolIs
<1>9. i \notin Pool' /\ i \notin lookup'
  BY <1>5, <1>6, <1>8, PoolIs DEF Apart
<1>10. Status(i) = "incoming" /\ Status(i)' = "sending"
  <2>1. StatusFits /\ StatusFits'
    BY StatusIs, StatusIsNext DEF IInv
  <2> QED
    BY <1>5, <1>9, <2>1 DEF StatusFits
<1>11. \A j \in Ids \ {i} : Status(j)' = Status(j)
  BY <1>5, <1>8, SameStatus
<1>12. Buffers!Forward(i, T)
  BY <1>4, <1>7, <1>10, <1>11 DEF Buffers!Forward, Status
<1> QED
  BY <1>12

(* A counted release is the release of the port that handed the bufid in;
   the last one frees the buffer. *)
LEMMA CountMaps ==
  ASSUME IInv, IInv', Count
  PROVE  \E i \in Ids, p \in Ports : Buffers!Release(i, p)
<1>1. PICK w \in Ids : w = writer.id /\ writer.port \in Holders(w)
  BY HoldersCount
<1>2. PICK p \in Ports : p = writer.port
  BY DEF IInv, TypeOK
<1>3. \A j \in Ids : Holders(j)' = IF j = w THEN Holders(j) \ {p} ELSE Holders(j)
  BY <1>1, <1>2, HoldersCount
<1>4. TypeOK /\ Apart /\ Apart' /\ StatusFits /\ StatusFits'
  BY ExclusiveIsApart, ExclusiveIsApartNext, StatusIs, StatusIsNext DEF IInv
<1>5. UNCHANGED <<unsent, offer, lookup>>
  BY DEF Count
<1>6. CASE MorePorts
  <2>1. UNCHANGED free
    BY <1>6 DEF Count
  <2>2. \A j \in Ids : Status(j)' = Status(j)
    BY <1>5, <2>1, PoolIs, SameStatus
  <2>3. Holders(w) # {p} \/ ModeSwitch
    <3> SUFFICES ASSUME ~ModeSwitch, Holders(w) = {p} PROVE FALSE
      OBVIOUS
    <3>1. writer.num = outport_num[w] /\ outport_num[w] = Cardinality(Holders(w))
      BY <1>1, NoneIsNoBufid DEF IInv, WriterReads, RefCount, Idle
    <3>2. Cardinality(Holders(w)) = 1
      BY FS_Singleton
    <3> QED
      BY <1>6, <3>1, <3>2 DEF MorePorts
  <2>4. Buffers!Release(w, p)
    BY <1>1, <1>2, <1>3, <2>2, <2>3 DEF Buffers!Release, Status
  <2> QED
    BY <2>4
<1>7. CASE ~MorePorts
  <2>1. Holders(w) = {p}
    BY <1>1, <1>2, <1>7, LastRelease
  <2>2. w \notin lookup /\ w \notin Pool /\ Elements(free') = Elements(free) \cup {w}
    <3>1. free \in Seq(Ids) /\ w \notin Elements(free) /\ Distinct(free)
      BY <1>1, <1>4 DEF TypeOK, Apart
    <3>2. Len(free) < Cardinality(Ids)
      BY <3>1, RoomForOneMore, BufferPoolAssumption
    <3>3. Len(free) \in Nat /\ Cardinality(Ids) \in Nat /\ FifoDepth \in Nat
          /\ Cardinality(Ids) <= FifoDepth
      BY <3>1, BufferPoolAssumption, FS_CardinalityType, LenProperties
    <3>4. free' = Append(free, w)
      BY <1>1, <1>7, <3>2, <3>3 DEF Count
    <3> QED
      BY <1>1, <1>4, <3>1, <3>4, AppendElements, PoolIs DEF Apart
  <2>3. Status(w)' = "free"
    BY <1>4, <2>2, PoolIs DEF StatusFits
  <2>4. \A j \in Ids \ {w} : Status(j)' = Status(j)
    BY <1>5, <2>2, PoolIs, SameStatus
  <2>5. Buffers!Release(w, p)
    BY <1>3, <2>1, <2>3, <2>4 DEF Buffers!Release, Status
  <2> QED
    BY <2>5
<1> QED
  BY <1>6, <1>7

(* The other steps move a bufid within the pool or within a port. *)
LEMMA InsideMaps ==
  ASSUME IInv, IInv', NEW p \in Ports,
         InitialPush \/ Renew(p) \/ Send(p) \/ TxFinish(p) \/ TakeRelease(p)
  PROVE  UNCHANGED Buffers!vars
<1>1. TypeOK /\ free \in Seq(Ids) /\ unsent \subseteq Ids
  BY DEF IInv, TypeOK
<1>2. CASE InitialPush
  <2>1. PICK i \in unsent : free' = Append(free, i) /\ unsent' = unsent \ {i}
    BY <1>2 DEF InitialPush
  <2>2. Elements(free') = Elements(free) \cup {i}
    BY <1>1, <2>1, AppendElements
  <2>3. UNCHANGED <<offer, lookup, queued, sending, release, writer>>
    BY <1>2 DEF InitialPush
  <2>4. \A j : (j \in Pool' <=> j \in Pool) /\ (j \in lookup' <=> j \in lookup)
    BY <2>1, <2>2, <2>3, PoolIs
  <2> QED
    BY <2>3, <2>4, HoldersUnchanged, MovesNone
<1>3. CASE Renew(p)
  <2>1. /\ free # <<>> /\ free' = Tail(free)
        /\ offer' = [offer EXCEPT ![p] = Head(free)]
        /\ UNCHANGED <<unsent, lookup, queued, sending, release, writer>>
    BY <1>3 DEF Renew
  <2>2. Elements(free) = Elements(free') \cup {Head(free)}
    BY <1>1, <2>1, TailElements
  <2>3. \A q \in Ports : offer'[q] = IF q = p THEN Head(free) ELSE offer[q]
    BY <1>1, <2>1 DEF TypeOK
  <2>4. offer[p] = None
    BY <1>3 DEF IInv, AckedIsTaken, Renew
  <2>5. \A j \in Ids : (j \in Pool' <=> j \in Pool) /\ (j \in lookup' <=> j \in lookup)
    <3>1. \A j \in Ids : (\E q \in Ports : offer'[q] = j)
                           <=> j = Head(free) \/ \E q \in Ports : offer[q] = j
      BY <2>3, <2>4, NoneIsNoBufid
    <3> QED
      BY <2>1, <2>2, <3>1, PoolIs
  <2> QED
    BY <2>1, <2>5, HoldersUnchanged, MovesNone
<1>4. CASE Send(p) \/ TxFinish(p) \/ TakeRelease(p)
  <2>1. \A j \in Ids : Holders(j)' = Holders(j)
    BY <1>1, <1>4, HoldersSend, HoldersTxFinish, HoldersTakeRelease
  <2>2. UNCHANGED <<unsent, free, offer, lookup>>
    BY <1>4 DEF Send, TxFinish, TakeRelease
  <2>3. \A j : (j \in Pool' <=> j \in Pool) /\ (j \in lookup' <=> j \in lookup)
    BY <2>2, PoolIs
  <2> QED
    BY <2>1, <2>3, MovesNone
<1> QED
  BY <1>2, <1>3, <1>4

LEMMA NextMaps == IInv /\ IInv' /\ [Next]_vars => [Buffers!Next]_(Buffers!vars)
<1> SUFFICES ASSUME IInv, IInv', [Next]_vars PROVE Buffers!Next \/ UNCHANGED Buffers!vars
  OBVIOUS
<1>1. CASE InitialPush
  BY <1>1, InsideMaps, BufferPoolAssumption
<1>2. CASE Count
  BY <1>2, CountMaps DEF Buffers!Next
<1>3. ASSUME NEW p \in Ports, Receive(p) PROVE Buffers!Next
  BY <1>3, ReceiveMaps DEF Buffers!Next
<1>4. ASSUME NEW p \in Ports, Renew(p) \/ Send(p) \/ TxFinish(p) \/ TakeRelease(p)
      PROVE  UNCHANGED Buffers!vars
  BY <1>4, InsideMaps
<1>5. ASSUME NEW i \in Ids, Forward(i) PROVE Buffers!Next
  BY <1>5, ForwardMaps DEF Buffers!Next
<1>6. CASE UNCHANGED vars
  <2>1. \A j : Holders(j)' = Holders(j) /\ Pool' = Pool /\ lookup' = lookup
    BY <1>6 DEF vars, Holders, Pool
  <2> QED
    BY <2>1, MovesNone
<1> QED
  BY <1>1, <1>2, <1>3, <1>4, <1>5, <1>6 DEF Next

(* The bufids, the FIFO and the count in the RAM implement the buffers as the
   ports see them: a buffer belongs to one packet until the last port that
   sends it has released it, and is lost only if a port did not queue its
   packet or the bitmap named no port. *)
THEOREM ImplementsSharedBuffer == Spec => IsSharedBuffer
<1>1. IInv /\ [Next]_vars => IInv'
  BY NextIInv
<1> QED
  BY <1>1, InitIInv, InitMaps, NextMaps, PTL DEF Spec, IsSharedBuffer, Buffers!Spec

=============================================================================
