------------------------------ MODULE PtpSync ------------------------------
(***************************************************************************)
(* The controller's time synchronisation (TSNLight, ptp_single_process.c). *)
(*                                                                         *)
(* Every ptp_period the controller multicasts a Sync packet of the next    *)
(* sync_seq.  The chip of each slave stamps it and its HCP sends it back   *)
(* (ptp_type 1); the controller then has that slave send a request to the  *)
(* master, which comes back stamped as well (ptp_type 3).  From the four   *)
(* stamps the controller computes the slave's offset, writes it to the     *)
(* slave's chip, and counts the reply towards leaving SYNC_INIT_S.         *)
(*                                                                         *)
(* The four stamps are abstracted to the round (sync_seq) in which they    *)
(* were taken, an offset to one of a few values.  A packet that is never   *)
(* received is lost, one received in a later round is late.                *)
(*                                                                         *)
(* ptp_handle also notes each reply in get_sync_reply and get_req_reply,   *)
(* for the debug file only.  They have ten entries and are indexed by      *)
(* imac; beyond them lie variables that this module does not have.         *)
(***************************************************************************)
EXTENDS Integers, FiniteSets

CONSTANTS Slaves,                 \* the slaves, by imac: those of 0 .. 100 there are
          Checked,                \* those of them with an imac below 50
          Master,                 \* ptp_master_imac
          Offsets,                \* the values an offset may take
          Precision,              \* DEFAULT_PERCISION, 100
          ExitOffset,             \* the offset above which NW_RUNNING_S is left, 50
          SyncEnough,             \* replies counted before NW_RUNNING_S, 200
          SYNC_TO_INIT_SHRESHOLD, \* replies counted before giving up, 500
          MaxRounds               \* bound on sync_seq, for model checking

ASSUME PtpSyncAssumption ==
  /\ IsFiniteSet(Slaves) /\ Checked \subseteq Slaves
  /\ Master \notin Slaves
  /\ 0 \in Offsets
  /\ Offsets \subseteq Nat
  /\ {Precision, ExitOffset, SyncEnough, SYNC_TO_INIT_SHRESHOLD} \subseteq Nat
  /\ SyncEnough <= SYNC_TO_INIT_SHRESHOLD
  /\ ExitOffset <= Precision
  /\ MaxRounds \in Nat

VARIABLES
  G_STATE,          \* the controller's state
  exited,           \* main() has returned
  sync_seq,         \* the number of the next Sync packet
  table,            \* per slave: what sync_info keeps of it
  consequent_sync,  \* replies counted in SYNC_INIT_S
  cfg_finish,       \* the nodes that were told that synchronisation is complete
  net,              \* PTP packets on their way to the controller
  used              \* history: the rounds of the stamps behind every offset computed

syncVars == <<sync_seq, table, consequent_sync, cfg_finish, net, used>>
vars == <<G_STATE, exited, syncVars>>

None == -1
Round == 0 .. MaxRounds - 1
Packet == [ptp_type : {1, 3}, seq : Round, imac : Slaves]

TypeOK ==
  /\ G_STATE \in {"SYNC_INIT_S", "NW_RUNNING_S", "INIT_S"}
  /\ exited \in BOOLEAN
  /\ sync_seq \in 0 .. MaxRounds
  /\ table \in [Slaves -> [ms : Round \cup {None}, sm : Round \cup {None},
                           Latest_Offset : Offsets, synced : BOOLEAN]]
  /\ consequent_sync \in Nat
  /\ cfg_finish \subseteq Slaves \cup {Master}
  /\ net \subseteq Packet
  /\ used \subseteq [imac : Slaves, ms : Round \cup {None}, sm : Round]

Running == G_STATE = "NW_RUNNING_S" /\ ~exited

-----------------------------------------------------------------------------

(* ptp_init: no Sync sent yet, the table cleared. *)
ptp_init ==
  /\ sync_seq = 0
  /\ table = [n \in Slaves |-> [ms |-> None, sm |-> None,
                                Latest_Offset |-> 0, synced |-> FALSE]]
  /\ consequent_sync = 0
  /\ cfg_finish = {}
  /\ net = {}
  /\ used = {}

Init ==
  /\ G_STATE = "SYNC_INIT_S"
  /\ exited = FALSE
  /\ ptp_init

(* sync_period_timeout: the period has elapsed, the next Sync is multicast.
   Each slave's copy comes back stamped, if it comes back. *)
sync_period_timeout ==
  /\ ~exited
  /\ G_STATE \in {"SYNC_INIT_S", "NW_RUNNING_S"}
  /\ sync_seq < MaxRounds
  /\ net' = net \cup [ptp_type : {1}, seq : {sync_seq}, imac : Slaves]
  /\ sync_seq' = sync_seq + 1
  /\ UNCHANGED <<G_STATE, exited, table, consequent_sync, cfg_finish, used>>

(* The mutant lets the round check of ptp_handle go, or accept the previous
   round as well. *)
InRound_Any(p) == TRUE
InRound_Previous(p) == p.seq \in {sync_seq - 1, sync_seq - 2}

InRound(p) == p.seq = sync_seq - 1

(* is_precision_in_shreshold, on a table tbl.  It looks at the first 50 of
   the 101 entries only.  A slave never heard of has the offset 0 that
   ptp_init gave it. *)
is_precision_in_shreshold(tbl) ==
  /\ sync_seq > 0
  /\ \A n \in Checked : tbl[n].Latest_Offset <= Precision

(* A stamped Sync of the current round: keep t1 and t2, send the request. *)
StampedSync(p) ==
  /\ p.ptp_type = 1
  /\ InRound(p)
  /\ table' = [table EXCEPT ![p.imac].ms = p.seq]
  /\ net' = (net \ {p}) \cup {[p EXCEPT !.ptp_type = 3]}
  /\ UNCHANGED <<G_STATE, exited, sync_seq, consequent_sync, cfg_finish, used>>

(* The slaves written cfg_finish 3, of all 101; the mutant stops at 50 as the
   check does. *)
FinishedSlaves_Fifty(tbl) == {n \in Checked : tbl[n].synced}
FinishedSlaves(tbl) == {n \in Slaves : tbl[n].synced}

(* The state after too many replies; the mutant goes back to configuring. *)
GivenUp_Restart == "BASIC_CFG_S"
GivenUp == "INIT_S"

(* The mutant is off by one reply. *)
CountedEnough_OffByOne == consequent_sync >= SyncEnough
CountedEnough == consequent_sync > SyncEnough

(* What counting a reply does to the state, with the table tbl it leaves.
   The master is told in any case. *)
CountReply(tbl) ==
  IF G_STATE # "SYNC_INIT_S"
  THEN UNCHANGED <<G_STATE, consequent_sync, cfg_finish>>
  ELSE IF is_precision_in_shreshold(tbl) /\ CountedEnough
  THEN /\ G_STATE' = "NW_RUNNING_S"
       /\ cfg_finish' = {Master} \cup FinishedSlaves(tbl)
       /\ consequent_sync' = 0
  ELSE /\ consequent_sync' = consequent_sync + 1
       /\ G_STATE' = IF consequent_sync' > SYNC_TO_INIT_SHRESHOLD
                     THEN GivenUp ELSE G_STATE
       /\ UNCHANGED cfg_finish

(* An offset that ends the process; the mutant only reports it. *)
OffsetFails_Never(offset) == FALSE
OffsetFails(offset) == G_STATE = "NW_RUNNING_S" /\ offset > ExitOffset

(* A stamped request of the current round: keep t3 and t4, compute the
   offset (offset_calu).  In NW_RUNNING_S an offset above ExitOffset makes
   ptp_handle fail before the slave's own count is advanced, and main()
   returns. *)
StampedRequest(p) ==
  /\ p.ptp_type = 3
  /\ InRound(p)
  /\ \E offset \in Offsets :
       LET tbl == [table EXCEPT ![p.imac].sm = p.seq,
                                ![p.imac].Latest_Offset = offset,
                                ![p.imac].synced = @ \/ ~OffsetFails(offset)]
       IN /\ table' = tbl
          /\ exited' = OffsetFails(offset)
          /\ CountReply(tbl)
  /\ used' = used \cup {[imac |-> p.imac, ms |-> table[p.imac].ms, sm |-> p.seq]}
  /\ net' = net \ {p}
  /\ UNCHANGED sync_seq

(* A packet of an earlier round is reported, but a request still leaves its
   t3 and t4 in the table. *)
LatePacket(p) ==
  /\ ~InRound(p)
  /\ table' = IF p.ptp_type = 3 THEN [table EXCEPT ![p.imac].sm = p.seq] ELSE table
  /\ net' = net \ {p}
  /\ UNCHANGED <<G_STATE, exited, sync_seq, consequent_sync, cfg_finish, used>>

(* main() hands a packet to ptp_handle in these two states only. *)
ptp_handle(p) ==
  /\ ~exited
  /\ G_STATE \in {"SYNC_INIT_S", "NW_RUNNING_S"}
  /\ p \in net
  /\ StampedSync(p) \/ StampedRequest(p) \/ LatePacket(p)

Next == sync_period_timeout \/ \E p \in Packet : ptp_handle(p)

Spec == Init /\ [][Next]_vars

-----------------------------------------------------------------------------

(* An offset is only ever computed from four stamps of one and the same
   round, although t1/t2 and t3/t4 come in two packets and a late request
   overwrites t3/t4 at any time. *)
OneRoundPerOffset == \A u \in used : u.ms = u.sm

(* No error is corrected twice: every offset of a slave is computed from a
   round after those of its earlier offsets, each of which offset_cfg_send
   has written to the slave's chip; a reply that was delayed past the next
   Sync measured the clock as it was before that correction. *)
NoErrorCorrectedTwice ==
  [][\A u \in used' \ used : \A v \in used : v.imac = u.imac => v.sm < u.sm]_vars

(* A reply counts towards NW_RUNNING_S once per slave and round, late ones
   not at all, so the 200 replies asked for are spread over enough rounds. *)
EnoughRounds ==
  /\ consequent_sync <= Cardinality(used)
  /\ Cardinality(used) <= sync_seq * Cardinality(Slaves)
  /\ Running => Cardinality(used) > SyncEnough + 1

(* While the network runs, a slave with an offset beyond the entry threshold
   is one that the check on entry does not look at, imac 50 and up, and it
   had been heard of, and told that synchronisation is complete, on entry.
   For all others the check on entry and the exit on a bad offset, with
   their different thresholds, leave no gap between them. *)
RunningIsPrecise ==
  Running => \A n \in Slaves :
    table[n].Latest_Offset <= Precision \/ n \in cfg_finish \ Checked

(* cfg_finish 3, which lets time-sensitive packets through, is written once,
   when the network begins to run: to the master and to exactly the slaves
   for which an offset has been computed by then.  None is told earlier and
   none is left out; one first heard of later is never told. *)
FinishedAreSynced ==
  [][cfg_finish' =
       IF G_STATE = "SYNC_INIT_S" /\ G_STATE' = "NW_RUNNING_S"
       THEN {Master} \cup {u.imac : u \in used'}
       ELSE cfg_finish]_vars

(* changlog line 28: the state must not change before all nodes have been
   synchronised. *)
AllSyncedBeforeRunning ==
  Running => \A n \in Slaves : table[n].synced
=============================================================================
