--------------------------- MODULE PtpSync_proofs ---------------------------
(***************************************************************************)
(* Proofs about PtpSync, for any set of slaves, any offsets, thresholds    *)
(* and number of rounds.                                                   *)
(***************************************************************************)
EXTENDS PtpSync, FiniteSetTheorems, TLAPS

Reply(p) == [imac |-> p.imac, ms |-> p.seq, sm |-> p.seq]

(* The inductive invariant.  OneRoundPerOffset needs to know that a request
   of the current round still finds the t1 and t2 of its own round in the
   table (StampsKept); EnoughRounds that a reply can be counted only once
   (NotYetUsed, OneStage); FinishedAreSynced and RunningIsPrecise that, until
   the network runs, the table knows exactly the slaves an offset was
   computed for (Heard). *)
FromThePast == /\ \A p \in net : p.seq < sync_seq
               /\ \A u \in used : u.sm < sync_seq
StampsKept == \A p \in net : p.ptp_type = 3 /\ InRound(p) => table[p.imac].ms = p.seq
NotYetUsed == \A p \in net : Reply(p) \notin used
OneStage == \A p, q \in net : p.imac = q.imac /\ p.seq = q.seq => p = q
Counted == /\ IsFiniteSet(used)
           /\ consequent_sync <= Cardinality(used)
           /\ G_STATE = "NW_RUNNING_S" => Cardinality(used) > SyncEnough + 1
Heard == G_STATE = "SYNC_INIT_S" => \A n \in Slaves :
           /\ table[n].synced <=> \E u \in used : u.imac = n
           /\ table[n].synced \/ table[n].Latest_Offset = 0

IInv ==
  /\ TypeOK
  /\ FromThePast
  /\ StampsKept
  /\ NotYetUsed
  /\ OneStage
  /\ OneRoundPerOffset
  /\ Counted
  /\ Heard
  /\ RunningIsPrecise

-----------------------------------------------------------------------------

LEMMA PacketFields ==
  ASSUME NEW p \in Packet
  PROVE  /\ p.ptp_type \in {1, 3} /\ p.seq \in Round /\ p.imac \in Slaves
         /\ p = [ptp_type |-> p.ptp_type, seq |-> p.seq, imac |-> p.imac]
BY DEF Packet

LEMMA RoundInt == Round \subseteq Nat /\ None \notin Round /\ None \in Int
BY PtpSyncAssumption DEF Round, None

LEMMA InitIInv == Init => IInv
<1> SUFFICES ASSUME Init PROVE IInv
  OBVIOUS
<1> USE PtpSyncAssumption
<1>1. TypeOK
  <2>1. table \in [Slaves -> [ms : Round \cup {None}, sm : Round \cup {None},
                             Latest_Offset : Offsets, synced : BOOLEAN]]
    BY DEF Init, ptp_init
  <2>2. sync_seq \in 0 .. MaxRounds /\ consequent_sync \in Nat
    BY DEF Init, ptp_init
  <2> QED
    BY <2>1, <2>2 DEF Init, ptp_init, TypeOK
<1>2. Counted
  BY FS_EmptySet DEF Init, ptp_init, Counted
<1>3. Heard /\ RunningIsPrecise
  BY DEF Init, ptp_init, Heard, RunningIsPrecise, Running
<1> QED
  BY <1>1, <1>2, <1>3
  DEF Init, ptp_init, IInv, FromThePast, StampsKept, NotYetUsed, OneStage,
      OneRoundPerOffset

(* Two records of replies are equal when their fields are. *)
LEMMA ReplyFields ==
  ASSUME TypeOK, OneRoundPerOffset, NEW p \in Packet,
         NEW u \in used, u.imac = p.imac, u.sm = p.seq
  PROVE  u = Reply(p)
BY DEF TypeOK, OneRoundPerOffset, Reply

(* A new round: nothing in flight is of the current round any more. *)
LEMMA TimeoutIInv == IInv /\ sync_period_timeout => IInv'
<1> SUFFICES ASSUME IInv, sync_period_timeout PROVE IInv'
  OBVIOUS
<1> DEFINE fresh == [ptp_type : {1}, seq : {sync_seq}, imac : Slaves]
<1> USE PtpSyncAssumption
<1>0. /\ net' = net \cup fresh
      /\ sync_seq' = sync_seq + 1
      /\ sync_seq \in Nat /\ sync_seq \in Round
      /\ sync_seq' \in 0 .. MaxRounds
      /\ UNCHANGED <<G_STATE, exited, table, consequent_sync, cfg_finish, used>>
  BY DEF sync_period_timeout, IInv, TypeOK, Round
<1>a. /\ \A p \in fresh : p.seq = sync_seq /\ p.ptp_type = 1 /\ p.imac \in Slaves
                          /\ p = [ptp_type |-> 1, seq |-> sync_seq, imac |-> p.imac]
      /\ fresh \subseteq Packet
  BY <1>0 DEF Packet
<1>b. /\ \A p \in net : p \in Packet /\ p.seq \in Nat /\ p.seq < sync_seq
      /\ \A u \in used : u.sm \in Nat /\ u.sm < sync_seq
  BY RoundInt, PacketFields DEF IInv, TypeOK, FromThePast
<1> HIDE DEF fresh
<1>1. TypeOK'
  BY <1>0, <1>a DEF IInv, TypeOK
<1>2. FromThePast'
  BY <1>0, <1>a, <1>b DEF FromThePast
<1>3. StampsKept'
  BY <1>0, <1>a, <1>b DEF StampsKept, InRound
<1>4. NotYetUsed'
  <2> SUFFICES ASSUME NEW p \in net' PROVE Reply(p) \notin used
    BY <1>0 DEF NotYetUsed, Reply
  <2>1. CASE p \in net
    BY <2>1 DEF IInv, NotYetUsed
  <2>2. CASE p \in fresh
    BY <2>2, <1>a, <1>b, <1>0 DEF Reply
  <2> QED
    BY <2>1, <2>2, <1>0
<1>5. OneStage'
  BY <1>0, <1>a, <1>b DEF IInv, OneStage
<1>6. (OneRoundPerOffset /\ Counted /\ Heard /\ RunningIsPrecise)'
  BY <1>0 DEF IInv, OneRoundPerOffset, Counted, Heard, RunningIsPrecise, Running
<1> QED
  BY <1>1, <1>2, <1>3, <1>4, <1>5, <1>6 DEF IInv

(* A stamped Sync moves on to its request; t1 and t2 are those it carries. *)
LEMMA SyncIInv ==
  ASSUME IInv, NEW p \in Packet, p \in net, StampedSync(p)
  PROVE  IInv'
<1> DEFINE q == [p EXCEPT !.ptp_type = 3]
<1> USE PtpSyncAssumption
<1>0. /\ net' = (net \ {p}) \cup {q}
      /\ table' = [table EXCEPT ![p.imac].ms = p.seq]
      /\ p.ptp_type = 1 /\ p.seq = sync_seq - 1
      /\ UNCHANGED <<G_STATE, exited, sync_seq, consequent_sync, cfg_finish, used>>
  BY DEF StampedSync, InRound
<1>a. /\ q \in Packet /\ q.seq = p.seq /\ q.imac = p.imac /\ q.ptp_type = 3
      /\ p.imac \in Slaves /\ p.seq \in Round /\ Reply(q) = Reply(p)
  BY DEF Packet, Reply
<1>b. \A r \in net : r \in Packet
  BY DEF IInv, TypeOK
<1>c. \A n \in Slaves : /\ table'[n].synced = table[n].synced
                        /\ table'[n].Latest_Offset = table[n].Latest_Offset
                        /\ table'[n].ms = IF n = p.imac THEN p.seq ELSE table[n].ms
  BY <1>0, <1>a DEF IInv, TypeOK
<1> HIDE DEF q
<1>1. TypeOK'
  BY <1>0, <1>a, <1>b DEF IInv, TypeOK
<1>2. FromThePast' /\ NotYetUsed'
  BY <1>0, <1>a DEF IInv, FromThePast, NotYetUsed, Reply
<1>3. StampsKept'
  <2> SUFFICES ASSUME NEW r \in net', r.ptp_type = 3, r.seq = sync_seq - 1
               PROVE  table'[r.imac].ms = r.seq
    BY <1>0 DEF StampsKept, InRound
  <2>1. CASE r = q
    BY <2>1, <1>a, <1>c
  <2>2. CASE r \in net
    BY <2>2, <1>0, <1>b, <1>c, PacketFields DEF IInv, StampsKept, InRound
  <2> QED
    BY <2>1, <2>2, <1>0
<1>4. OneStage'
  BY <1>0, <1>a DEF IInv, OneStage
<1>5. (OneRoundPerOffset /\ Counted /\ Heard /\ RunningIsPrecise)'
  BY <1>0, <1>c DEF IInv, OneRoundPerOffset, Counted, Heard, RunningIsPrecise, Running
<1> QED
  BY <1>1, <1>2, <1>3, <1>4, <1>5 DEF IInv

(* A late packet disturbs nothing but t3 and t4 of its slave. *)
LEMMA LateIInv ==
  ASSUME IInv, NEW p \in Packet, p \in net, LatePacket(p)
  PROVE  IInv'
<1> USE PtpSyncAssumption
<1>0. /\ net' = net \ {p}
      /\ UNCHANGED <<G_STATE, exited, sync_seq, consequent_sync, cfg_finish, used>>
  BY DEF LatePacket
<1>a. p.imac \in Slaves /\ p.seq \in Round
  BY PacketFields
<1>b. table' \in [Slaves -> [ms : Round \cup {None}, sm : Round \cup {None},
                             Latest_Offset : Offsets, synced : BOOLEAN]]
  BY <1>a DEF LatePacket, IInv, TypeOK
<1>c. \A n \in Slaves : /\ table'[n].synced = table[n].synced
                        /\ table'[n].Latest_Offset = table[n].Latest_Offset
                        /\ table'[n].ms = table[n].ms
  BY <1>a DEF LatePacket, IInv, TypeOK
<1>1. TypeOK'
  BY <1>0, <1>b DEF IInv, TypeOK
<1>2. FromThePast' /\ NotYetUsed' /\ OneStage'
  BY <1>0 DEF IInv, FromThePast, NotYetUsed, OneStage, Reply
<1>3. StampsKept'
  BY <1>0, <1>c, PacketFields DEF IInv, TypeOK, StampsKept, InRound
<1>4. (OneRoundPerOffset /\ Counted /\ Heard /\ RunningIsPrecise)'
  BY <1>0, <1>c DEF IInv, OneRoundPerOffset, Counted, Heard, RunningIsPrecise, Running
<1> QED
  BY <1>1, <1>2, <1>3, <1>4 DEF IInv

(* A reply is used: it is a new element of used, its four stamps are of the
   current round, and it is counted at most once. *)
LEMMA RequestIInv ==
  ASSUME IInv, NEW p \in Packet, p \in net, ~exited, StampedRequest(p)
  PROVE  IInv'
<1> USE PtpSyncAssumption
<1> DEFINE u == [imac |-> p.imac, ms |-> table[p.imac].ms, sm |-> p.seq]
           Tbl(offset) == [table EXCEPT ![p.imac].sm = p.seq,
                                        ![p.imac].Latest_Offset = offset,
                                        ![p.imac].synced = @ \/ ~OffsetFails(offset)]
<1>0. PICK offset \in Offsets : /\ table' = Tbl(offset)
                                /\ exited' = OffsetFails(offset)
                                /\ CountReply(Tbl(offset))
  BY DEF StampedRequest
<1>1. /\ used' = used \cup {u}
      /\ net' = net \ {p}
      /\ sync_seq' = sync_seq
      /\ p.ptp_type = 3 /\ p.seq = sync_seq - 1
  BY DEF StampedRequest, InRound
<1>2. p.imac \in Slaves /\ p.seq \in Round /\ table[p.imac].ms = p.seq
  BY <1>1, PacketFields DEF IInv, StampsKept, InRound
<1>3. u = Reply(p) /\ u \notin used /\ u.ms = u.sm /\ u.imac = p.imac /\ u.sm = p.seq
  BY <1>2 DEF Reply, IInv, NotYetUsed
<1>4. /\ IsFiniteSet(used')
      /\ Cardinality(used) \in Nat
      /\ Cardinality(used') = Cardinality(used) + 1
  BY <1>1, <1>3, FS_AddElement, FS_CardinalityType DEF IInv, Counted
<1>5. OffsetFails(offset) \in BOOLEAN
  BY DEF OffsetFails
<1>6. table' \in [Slaves -> [ms : Round \cup {None}, sm : Round \cup {None},
                             Latest_Offset : Offsets, synced : BOOLEAN]]
  BY <1>0, <1>2, <1>5 DEF IInv, TypeOK
<1>7. \A n \in Slaves :
        /\ table'[n].ms = table[n].ms
        /\ n # p.imac => table'[n] = table[n]
        /\ n = p.imac => table'[n].Latest_Offset = offset
        /\ table'[n].synced <=> table[n].synced \/ (n = p.imac /\ ~OffsetFails(offset))
  BY <1>0, <1>2, <1>5 DEF IInv, TypeOK
<1> HIDE DEF u, Tbl
<1>8. consequent_sync' \in Nat /\ G_STATE' \in {"SYNC_INIT_S", "NW_RUNNING_S", "INIT_S"}
  BY <1>0 DEF CountReply, GivenUp, IInv, TypeOK
<1>9. cfg_finish' \subseteq Slaves \cup {Master}
  BY <1>0 DEF CountReply, FinishedSlaves, IInv, TypeOK
<1>t. TypeOK'
  <2>1. used' \subseteq [imac : Slaves, ms : Round \cup {None}, sm : Round]
    BY <1>1, <1>2 DEF IInv, TypeOK, u
  <2> QED
    BY <1>0, <1>1, <1>5, <1>6, <1>8, <1>9, <2>1 DEF IInv, TypeOK
<1>a. FromThePast'
  BY <1>1, <1>3, RoundInt DEF IInv, TypeOK, FromThePast
<1>b. StampsKept'
  BY <1>1, <1>7, PacketFields DEF IInv, TypeOK, StampsKept, InRound
<1>c. NotYetUsed'
  <2> SUFFICES ASSUME NEW q \in net', Reply(q) \in used' PROVE FALSE
    BY DEF NotYetUsed, Reply
  <2>1. q \in net /\ Reply(q) \notin used
    BY <1>1 DEF IInv, NotYetUsed
  <2>2. q.imac = p.imac /\ q.seq = p.seq
    BY <2>1, <1>1, <1>3 DEF Reply
  <2> QED
    BY <2>1, <2>2, <1>1 DEF IInv, OneStage
<1>d. OneStage' /\ OneRoundPerOffset'
  BY <1>1, <1>3 DEF IInv, OneStage, OneRoundPerOffset
<1>e. Counted'
  BY <1>0, <1>4 DEF CountReply, GivenUp, CountedEnough, IInv, Counted, TypeOK
<1>f. Heard'
  <2> SUFFICES ASSUME G_STATE' = "SYNC_INIT_S", NEW n \in Slaves
               PROVE  /\ table'[n].synced <=> \E v \in used' : v.imac = n
                      /\ table'[n].synced \/ table'[n].Latest_Offset = 0
    BY DEF Heard
  <2>1. G_STATE = "SYNC_INIT_S"
    BY <1>0 DEF CountReply
  <2>2. ~OffsetFails(offset)
    BY <2>1 DEF OffsetFails
  <2>3. CASE n = p.imac
    BY <2>2, <2>3, <1>1, <1>3, <1>7
  <2>4. CASE n # p.imac
    <3>1. (\E v \in used' : v.imac = n) <=> (\E v \in used : v.imac = n)
      BY <2>4, <1>1, <1>3
    <3> QED
      BY <2>1, <2>4, <3>1, <1>7 DEF IInv, Heard
  <2> QED
    BY <2>3, <2>4
<1>h. RunningIsPrecise'
  <2> SUFFICES ASSUME Running', NEW n \in Slaves, ~(table'[n].Latest_Offset <= Precision)
               PROVE  n \in cfg_finish' \ Checked
    BY DEF RunningIsPrecise
  <2>1. CASE G_STATE = "NW_RUNNING_S"
    <3>1. ~OffsetFails(offset) /\ offset \in Nat /\ ExitOffset \in Nat /\ Precision \in Nat
      BY <1>0 DEF Running
    <3>2. Running /\ offset <= Precision
      BY <2>1, <3>1 DEF Running, OffsetFails
    <3>3. cfg_finish' = cfg_finish
      BY <2>1, <1>0 DEF CountReply
    <3> QED
      BY <3>2, <3>3, <1>7 DEF IInv, RunningIsPrecise
  <2>2. CASE G_STATE # "NW_RUNNING_S"
    <3>1. /\ G_STATE = "SYNC_INIT_S" /\ is_precision_in_shreshold(table')
          /\ cfg_finish' = {Master} \cup FinishedSlaves(table')
      BY <2>2, <1>0 DEF Running, CountReply, GivenUp
    <3>2. n \notin Checked
      BY <3>1 DEF is_precision_in_shreshold
    <3>3. ~OffsetFails(offset)
      BY <3>1 DEF OffsetFails
    <3>4. table'[n].synced
      BY <3>1, <3>3, <1>7 DEF IInv, Heard
    <3> QED
      BY <3>1, <3>2, <3>4 DEF FinishedSlaves
  <2> QED
    BY <2>1, <2>2
<1> QED
  BY <1>t, <1>a, <1>b, <1>c, <1>d, <1>e, <1>f, <1>h DEF IInv

LEMMA NextIInv == IInv /\ [Next]_vars => IInv'
<1> SUFFICES ASSUME IInv, [Next]_vars PROVE IInv'
  OBVIOUS
<1>1. CASE sync_period_timeout
  BY <1>1, TimeoutIInv
<1>2. ASSUME NEW p \in Packet, ptp_handle(p) PROVE IInv'
  <2>1. p \in net /\ ~exited
    BY <1>2 DEF ptp_handle
  <2>2. CASE StampedSync(p)
    BY <2>1, <2>2, SyncIInv
  <2>3. CASE StampedRequest(p)
    BY <2>1, <2>3, RequestIInv
  <2>4. CASE LatePacket(p)
    BY <2>1, <2>4, LateIInv
  <2> QED
    BY <1>2, <2>2, <2>3, <2>4 DEF ptp_handle
<1>3. CASE UNCHANGED vars
  <2>1. UNCHANGED <<G_STATE, exited, sync_seq, table, consequent_sync, cfg_finish, net, used>>
    BY <1>3 DEF vars, syncVars
  <2> QED
    BY <2>1 DEF IInv, TypeOK, FromThePast, StampsKept, NotYetUsed, OneStage, InRound,
                OneRoundPerOffset, Counted, Heard, RunningIsPrecise, Running
<1> QED
  BY <1>1, <1>2, <1>3 DEF Next

THEOREM Invariance == Spec => []IInv
BY InitIInv, NextIInv, PTL DEF Spec

(* The variables keep their types. *)
THEOREM TypeCorrect == Spec => []TypeOK
<1>1. IInv => TypeOK
  BY DEF IInv
<1> QED
  BY <1>1, Invariance, PTL

(* No offset is ever computed from stamps of two rounds. *)
THEOREM OffsetsOfOneRound == Spec => []OneRoundPerOffset
<1>1. IInv => OneRoundPerOffset
  BY DEF IInv
<1> QED
  BY <1>1, Invariance, PTL

(* Every offset of a slave measures its clock as the offsets before have
   left it, whatever is lost, late or reordered. *)
THEOREM CorrectedOnce == Spec => NoErrorCorrectedTwice
<1>1. IInv /\ [Next]_vars =>
        [\A u \in used' \ used : \A v \in used : v.imac = u.imac => v.sm < u.sm]_vars
  <2> SUFFICES ASSUME IInv, Next, NEW u \in used' \ used,
                      NEW v \in used, v.imac = u.imac
               PROVE  v.sm < u.sm
    OBVIOUS
  <2>1. PICK p \in Packet : p \in net /\ StampedRequest(p)
    BY DEF Next, ptp_handle, sync_period_timeout, StampedSync, LatePacket
  <2>2. u.imac = p.imac /\ u.sm = p.seq /\ p.seq = sync_seq - 1
    BY <2>1 DEF StampedRequest, InRound
  <2>3. v.sm \in Nat /\ v.sm < sync_seq /\ sync_seq \in Nat
    <3>1. v \in [imac : Slaves, ms : Round \cup {None}, sm : Round]
      BY DEF IInv, TypeOK
    <3>2. v.sm \in Round
      BY <3>1
    <3>3. v.sm < sync_seq
      BY DEF IInv, FromThePast
    <3>4. sync_seq \in Nat
      BY PtpSyncAssumption DEF IInv, TypeOK
    <3> QED
      BY <3>2, <3>3, <3>4, RoundInt
  <2>4. v.sm # p.seq
    <3> SUFFICES ASSUME v.sm = p.seq PROVE FALSE
      OBVIOUS
    <3>1. v = Reply(p)
      BY <2>2, ReplyFields DEF IInv
    <3> QED
      BY <3>1, <2>1 DEF IInv, NotYetUsed
  <2> QED
    BY <2>2, <2>3, <2>4
<1> QED
  BY <1>1, Invariance, PTL DEF Spec, NoErrorCorrectedTwice

(* In a network that runs, only slaves that the check on entry does not look
   at have an offset beyond its threshold, and they had it on entry. *)
THEOREM RunsPrecisely == Spec => []RunningIsPrecise
<1>1. IInv => RunningIsPrecise
  BY DEF IInv
<1> QED
  BY <1>1, Invariance, PTL

(* When the network begins to run, the master and exactly the slaves with a
   computed offset are told so; nobody is at any other moment. *)
THEOREM FinishedSynced == Spec => FinishedAreSynced
<1> DEFINE Begins == G_STATE = "SYNC_INIT_S" /\ G_STATE' = "NW_RUNNING_S"
           Told == cfg_finish' = IF Begins THEN {Master} \cup {u.imac : u \in used'}
                                           ELSE cfg_finish
<1>1. IInv /\ [Next]_vars /\ IInv' => [Told]_vars
  <2> SUFFICES ASSUME IInv, IInv', Next PROVE Told
    OBVIOUS
  <2>1. CASE sync_period_timeout
    BY <2>1 DEF sync_period_timeout
  <2>2. ASSUME NEW p \in Packet, ptp_handle(p) PROVE Told
    <3>1. CASE StampedSync(p)
      BY <3>1 DEF StampedSync
    <3>2. CASE LatePacket(p)
      BY <3>2 DEF LatePacket
    <3>3. CASE StampedRequest(p)
      <4> SUFFICES ASSUME Begins PROVE cfg_finish' = {Master} \cup {u.imac : u \in used'}
        <5>1. CASE ~Begins
          BY <5>1, <3>3 DEF StampedRequest, CountReply
        <5> QED
          BY <5>1
      <4>1. PICK offset \in Offsets :
              /\ table' = [table EXCEPT ![p.imac].sm = p.seq,
                                        ![p.imac].Latest_Offset = offset,
                                        ![p.imac].synced = @ \/ ~OffsetFails(offset)]
              /\ CountReply(table')
        BY <3>3 DEF StampedRequest
      <4>2. cfg_finish' = {Master} \cup FinishedSlaves(table')
        BY <4>1 DEF CountReply, GivenUp
      <4>3. ~OffsetFails(offset)
        BY DEF OffsetFails
      <4>4. p.imac \in Slaves
        BY PacketFields
      <4>5. \A n \in Slaves : table'[n].synced <=> table[n].synced \/ n = p.imac
        BY <4>1, <4>3, <4>4 DEF IInv, TypeOK
      <4>6. \A n \in Slaves : table[n].synced <=> \E u \in used : u.imac = n
        BY DEF IInv, Heard
      <4>7. /\ \A n : (\E u \in used' : u.imac = n)
                      <=> (\E u \in used : u.imac = n) \/ n = p.imac
            /\ \A u \in used' : u.imac \in Slaves
        BY <3>3 DEF StampedRequest, IInv, TypeOK
      <4>8. \A n \in Slaves : table'[n].synced <=> \E u \in used' : u.imac = n
        BY <4>5, <4>6, <4>7
      <4> QED
        BY <4>2, <4>7, <4>8 DEF FinishedSlaves
    <3> QED
      BY <2>2, <3>1, <3>2, <3>3 DEF ptp_handle
  <2> QED
    BY <2>1, <2>2 DEF Next
<1> HIDE DEF Told
<1>2. [][Told]_vars => FinishedAreSynced
  BY DEF Told, FinishedAreSynced
<1> QED
  BY <1>1, <1>2, Invariance, PTL DEF Spec

(* Replies are one per slave and round, so there are at most as many as
   slaves and rounds. *)
LEMMA UsedBound ==
  ASSUME IInv
  PROVE  Cardinality(used) <= Cardinality(Slaves) * sync_seq
<1> DEFINE rounds == 0 .. sync_seq - 1
           f == [u \in used |-> <<u.imac, u.sm>>]
<1>1. sync_seq \in Nat /\ IsFiniteSet(Slaves)
  BY PtpSyncAssumption DEF IInv, TypeOK
<1>2. IsFiniteSet(rounds) /\ Cardinality(rounds) = sync_seq
  BY <1>1, FS_Interval
<1>3. /\ IsFiniteSet(Slaves \X rounds)
      /\ Cardinality(Slaves \X rounds) = Cardinality(Slaves) * sync_seq
  BY <1>1, <1>2, FS_Product
<1>4. \A u \in used : /\ u = [imac |-> u.imac, ms |-> u.sm, sm |-> u.sm]
                      /\ u.imac \in Slaves /\ u.sm \in rounds
  <2> SUFFICES ASSUME NEW u \in used
               PROVE  /\ u = [imac |-> u.imac, ms |-> u.sm, sm |-> u.sm]
                      /\ u.imac \in Slaves /\ u.sm \in rounds
    OBVIOUS
  <2>1. u \in [imac : Slaves, ms : Round \cup {None}, sm : Round] /\ u.ms = u.sm
    BY DEF IInv, TypeOK, OneRoundPerOffset
  <2>2. u.sm \in Nat /\ u.sm < sync_seq
    BY <2>1, RoundInt DEF IInv, FromThePast
  <2> QED
    BY <1>1, <2>1, <2>2
<1>5. f \in Injection(used, Slaves \X rounds)
  <2>1. f \in [used -> Slaves \X rounds]
    BY <1>4
  <2>2. ASSUME NEW u \in used, NEW v \in used, f[u] = f[v] PROVE u = v
    <3>1. u.imac = v.imac /\ u.sm = v.sm
      BY <2>2
    <3> QED
      BY <3>1, <1>4
  <2>3. \A a, b \in used : f[a] = f[b] => a = b
    BY <2>2
  <2> HIDE DEF f, rounds
  <2> QED
    BY <2>1, <2>3 DEF Injection, IsInjective
<1> QED
  BY <1>3, <1>5, FS_Injection

(* The network never runs before enough rounds have passed. *)
THEOREM RoundsSuffice == Spec => []EnoughRounds
<1>1. IInv => EnoughRounds
  <2> SUFFICES ASSUME IInv PROVE EnoughRounds
    OBVIOUS
  <2>1. sync_seq \in Nat /\ Cardinality(Slaves) \in Nat
    BY PtpSyncAssumption, FS_CardinalityType DEF IInv, TypeOK
  <2>2. Cardinality(used) <= Cardinality(Slaves) * sync_seq
    BY UsedBound
  <2>3. Cardinality(Slaves) * sync_seq = sync_seq * Cardinality(Slaves)
    BY <2>1
  <2>4. ASSUME Running PROVE Cardinality(used) > SyncEnough + 1
    BY <2>4 DEF IInv, Counted, Running
  <2> QED
    BY <2>2, <2>3, <2>4 DEF EnoughRounds, IInv, Counted
<1> QED
  BY <1>1, Invariance, PTL
=============================================================================
