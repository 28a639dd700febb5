----------------------------- MODULE NetConfig -----------------------------
(***************************************************************************)
(* Configuring the network before it is synchronised (TSNLight: net_init,  *)
(* basic_cfg, local_cfg and the confirming writes of reg_cfg.c).           *)
(*                                                                         *)
(* The controller configures one node after the other.  It writes a piece  *)
(* of a table, writes which piece the chip is to report, and waits, for as *)
(* long as it takes, for a beacon that carries this piece as written.  The *)
(* wait compares the content, and for blocks the report type, never the    *)
(* sender; only basic_cfg, in the main loop, looks at the sender's imac.   *)
(* Nothing is ever written again.                                          *)
(*                                                                         *)
(* A piece that is confirmed on its own (a forwarding entry of the basic   *)
(* configuration, a block of 32 entries of the local plan) is a number;    *)
(* report type 0 stands for the single registers.  All nodes are given the *)
(* same contents, which is when they are most easily mistaken.             *)
(***************************************************************************)
EXTENDS Integers, Sequences, FiniteSets

CONSTANTS cur_node_num,    \* number of nodes, configured in the order of imac
          Entries,         \* forwarding entries per node in the basic configuration
          Blocks,          \* table blocks per node in the local plan
          ReportLimit,     \* beacons basic_cfg accepts for a node, 100
          SlotLenPreset,   \* the configured slot_len is the chip's reset value
          Backlog          \* capacity of the capture buffer, for model checking

ASSUME NetConfigAssumption ==
  /\ cur_node_num \in Nat \ {0}
  /\ Entries \in Nat /\ Blocks \in Nat \ {0}
  /\ ReportLimit \in Nat /\ Backlog \in Nat
  /\ SlotLenPreset \in BOOLEAN

Nodes == 0 .. cur_node_num - 1
Basic == 1 .. Entries
Local == Entries + 1 .. Entries + Blocks
CHIP_REG_REPORT == 0
ReportType == {CHIP_REG_REPORT} \cup Basic \cup Local

Write == [reg : {"CFG_STATE", "CFG_FINISH"}, val : 0 .. 3]
           \cup [reg : {"REPORT_EN"}, val : 0 .. 1]
           \cup [reg : {"REPORT_TYPE", "TABLE"}, val : ReportType]
           \cup [reg : {"REGS"}, val : {0}]

(* What matters of a chip's registers and tables.  A chip has an address to
   send beacons to once it was written. *)
Chip == [addressed : BOOLEAN, cfg_state : 0 .. 3, report_enable : 0 .. 1,
         cfg_finish : 0 .. 3, regs : BOOLEAN, report_type : ReportType,
         tables : SUBSET ReportType]

VARIABLES
  G_STATE,               \* the controller's state
  exited,                \* main() has returned
  node_idx,              \* the node being configured
  waiting,               \* the report type a blocking wait is for, or Loop
  basic_cfg_report_num,  \* beacons seen for this node by basic_cfg
  chip,                  \* the chips
  down,                  \* per node, the writes on their way
  up,                    \* the beacons captured and not yet read
  lost                   \* history: a write was lost

system == <<G_STATE, exited, node_idx, waiting, basic_cfg_report_num, chip, down, up>>
vars == <<system, lost>>

Loop == -1        \* no blocking wait: the main loop

SystemTypeOK ==
  /\ G_STATE \in {"INIT_S", "BASIC_CFG_S", "LOCAL_PLAN_CFG_S", "SYNC_INIT_S"}
  /\ exited \in BOOLEAN
  /\ node_idx \in Nodes
  /\ waiting \in ReportType \cup {Loop}
  /\ basic_cfg_report_num \in Nat
  /\ chip \in [Nodes -> Chip]
  /\ down \in [Nodes -> Seq(Write)]
  /\ up \in Seq([imac : Nodes, chip : Chip])

TypeOK == SystemTypeOK /\ lost \in BOOLEAN

-----------------------------------------------------------------------------
(* The chip: its nmac_parse_module applies the writes in order, its
   nmac_report_module sends beacons of the current report type every period,
   while reporting is enabled, as it is after a reset. *)

Reset == [addressed |-> FALSE, cfg_state |-> 0, report_enable |-> 1, cfg_finish |-> 1,
          regs |-> FALSE, report_type |-> CHIP_REG_REPORT, tables |-> {}]

Register(c, w) ==
  CASE w.reg = "CFG_STATE" -> [c EXCEPT !.cfg_state = w.val]
    [] w.reg = "REPORT_EN" -> [c EXCEPT !.report_enable = w.val]
    [] w.reg = "REPORT_TYPE" -> [c EXCEPT !.report_type = w.val]
    [] w.reg = "CFG_FINISH" -> [c EXCEPT !.cfg_finish = w.val]
    [] w.reg = "TABLE" -> [c EXCEPT !.tables = @ \cup {w.val}]
    [] w.reg = "REGS" -> [c EXCEPT !.regs = TRUE, !.cfg_finish = 2,
                                   !.report_enable = 1,
                                   !.report_type = CHIP_REG_REPORT]

Apply(c, w) == [Register(c, w) EXCEPT !.addressed = TRUE]

ChipStep(n) ==
  /\ down[n] # <<>>
  /\ chip' = [chip EXCEPT ![n] = Apply(chip[n], Head(down[n]))]
  /\ down' = [down EXCEPT ![n] = Tail(@)]
  /\ UNCHANGED <<G_STATE, exited, node_idx, waiting, basic_cfg_report_num, up>>

Beacon(n) ==
  /\ chip[n].report_enable = 1 /\ chip[n].addressed
  /\ Len(up) < Backlog
  /\ up' = Append(up, [imac |-> n, chip |-> chip[n]])
  /\ UNCHANGED <<G_STATE, exited, node_idx, waiting, basic_cfg_report_num, chip, down>>

LoseWrite(n) ==
  /\ down[n] # <<>>
  /\ down' = [down EXCEPT ![n] = Tail(@)]
  /\ lost' = TRUE
  /\ UNCHANGED <<G_STATE, exited, node_idx, waiting, basic_cfg_report_num, chip, up>>

-----------------------------------------------------------------------------
(* What the controller writes. *)

W(reg, val) == [reg |-> reg, val |-> val]

(* init_cfg_fun, before the forwarding entries. *)
Opening == <<W("CFG_STATE", 1), W("REPORT_EN", 1),
             W("REPORT_TYPE", CHIP_REG_REPORT), W("CFG_FINISH", 2)>>

(* A piece of a table and the report type that shows it. *)
Piece(k) == <<W("TABLE", k), W("REPORT_TYPE", k)>>

(* cfg_chip_single_register. *)
Registers == <<W("REGS", 0), W("REPORT_TYPE", CHIP_REG_REPORT), W("REPORT_EN", 1)>>

(* The next confirmation of init_cfg_fun after piece k: the next entry, or,
   after the last one, the single registers. *)
NextBasic(k) == IF k < Entries THEN k + 1 ELSE CHIP_REG_REPORT
BasicWrites(k) == IF k = CHIP_REG_REPORT THEN Registers ELSE Piece(k)

(* basic_cfg, once the node has been confirmed; the mutant leaves it
   reporting. *)
Closing_Reporting == <<W("CFG_STATE", 2)>>
Closing == <<W("REPORT_EN", 0), W("CFG_STATE", 2)>>

(* parse_offline_plan_node, first and last; the mutant relies on reporting
   being still enabled. *)
PlanOpening_Silent == <<>>
PlanOpening == <<W("REPORT_EN", 1)>>
PlanClosing == <<W("REPORT_EN", 0), W("CFG_STATE", 3)>>

Init ==
  /\ G_STATE = "INIT_S"
  /\ exited = FALSE
  /\ node_idx = 0
  /\ waiting = NextBasic(0)
  /\ basic_cfg_report_num = 0
  /\ chip = [n \in Nodes |-> Reset]
  /\ down = [n \in Nodes |-> IF n = 0 THEN Opening \o BasicWrites(NextBasic(0))
                                      ELSE <<>>]
  /\ up = <<>>
  /\ lost = FALSE

(* What the controller reads in a beacon when it takes it for one of the
   single registers.  The entries of a block may look like any registers, but
   for the upper bit of cfg_finish and for report_enable: these lie in the
   upper seven bits of 16, and entries have nine at most. *)
AsRegisters(c) ==
  IF c.report_type = CHIP_REG_REPORT
  THEN c
  ELSE [c EXCEPT !.regs = TRUE, !.cfg_state = 1, !.cfg_finish = 1, !.report_enable = 0]

(* The comparison a blocking wait makes with a beacon b.  The one for a block
   looks at the report type first.  The one for the registers computes it as
   high << (8 + low), which in 16 bits is 0, CHIP_REG_REPORT, for most blocks
   as well, so that the content must tell them apart. *)
Confirms(b, k) ==
  IF k = CHIP_REG_REPORT
  THEN LET c == AsRegisters(b.chip) IN
         c.regs /\ c.cfg_state = 1 /\ c.report_enable = 1
  ELSE b.chip.report_type = k /\ k \in b.chip.tables

(* A beacon that does not confirm is read and forgotten. *)
WaitOn ==
  /\ waiting # Loop
  /\ up # <<>>
  /\ ~Confirms(Head(up), waiting)
  /\ up' = Tail(up)
  /\ UNCHANGED <<G_STATE, exited, node_idx, waiting, basic_cfg_report_num, chip, down>>

(* init_cfg_fun: the piece is confirmed, the next is written.  After the
   single registers the call returns, the first time from net_init. *)
InitConfirmed ==
  /\ G_STATE \in {"INIT_S", "BASIC_CFG_S"}
  /\ waiting # Loop
  /\ up # <<>>
  /\ Confirms(Head(up), waiting)
  /\ up' = Tail(up)
  /\ IF waiting = CHIP_REG_REPORT
     THEN /\ waiting' = Loop
          /\ G_STATE' = "BASIC_CFG_S"
          /\ UNCHANGED down
     ELSE /\ waiting' = NextBasic(waiting)
          /\ down' = [down EXCEPT ![node_idx] = @ \o BasicWrites(NextBasic(waiting))]
          /\ UNCHANGED G_STATE
  /\ UNCHANGED <<exited, node_idx, basic_cfg_report_num, chip>>

(* basic_cfg's comparison: the sender, slot_len and cfg_finish, whatever the
   report type.  The mutant forgets the sender. *)
RegistersReported(c) == (c.regs \/ SlotLenPreset) /\ c.cfg_finish = 2

Reported_AnyNode(b) == RegistersReported(AsRegisters(b.chip))

Reported(b) == b.imac = node_idx /\ RegistersReported(AsRegisters(b.chip))

(* The node being configured is the last; the mutant is off by one. *)
LastNode_OffByOne == node_idx >= cur_node_num
LastNode == node_idx >= cur_node_num - 1

(* basic_cfg: every beacon counts; too many end the program. *)
basic_cfg ==
  /\ G_STATE = "BASIC_CFG_S" /\ ~exited
  /\ waiting = Loop
  /\ up # <<>>
  /\ up' = Tail(up)
  /\ IF basic_cfg_report_num + 1 > ReportLimit
     THEN /\ exited' = TRUE
          /\ basic_cfg_report_num' = basic_cfg_report_num + 1
          /\ UNCHANGED <<G_STATE, node_idx, waiting, down>>
     ELSE IF ~Reported(Head(up))
     THEN /\ basic_cfg_report_num' = basic_cfg_report_num + 1
          /\ UNCHANGED <<G_STATE, exited, node_idx, waiting, down>>
     ELSE IF LastNode
     THEN /\ G_STATE' = "LOCAL_PLAN_CFG_S"
          /\ down' = [down EXCEPT ![node_idx] = @ \o Closing]
          /\ basic_cfg_report_num' = basic_cfg_report_num + 1
          /\ UNCHANGED <<exited, node_idx, waiting>>
     ELSE /\ basic_cfg_report_num' = 0
          /\ node_idx' = node_idx + 1
          /\ waiting' = NextBasic(0)
          /\ down' = [down EXCEPT ![node_idx] = @ \o Closing,
                                  ![node_idx + 1] = @ \o Opening \o BasicWrites(NextBasic(0))]
          /\ UNCHANGED <<G_STATE, exited>>
  /\ UNCHANGED chip

(* local_cfg: the main loop calls it whether or not there is a beacon. *)
PlanWrites(k) == IF k = Entries + 1 THEN PlanOpening \o Piece(k) ELSE Piece(k)

local_cfg ==
  /\ G_STATE = "LOCAL_PLAN_CFG_S"
  /\ waiting = Loop
  /\ up' = IF up = <<>> THEN up ELSE Tail(up)
  /\ node_idx' = 0
  /\ waiting' = Entries + 1
  /\ down' = [down EXCEPT ![0] = @ \o PlanWrites(Entries + 1)]
  /\ UNCHANGED <<G_STATE, exited, basic_cfg_report_num, chip>>

(* cfg_chip_table: a block is confirmed; the next block, the next node of
   the plan, or the end of it. *)
PlanConfirmed ==
  /\ G_STATE = "LOCAL_PLAN_CFG_S"
  /\ waiting # Loop
  /\ up # <<>>
  /\ Confirms(Head(up), waiting)
  /\ up' = Tail(up)
  /\ IF waiting < Entries + Blocks
     THEN /\ waiting' = waiting + 1
          /\ down' = [down EXCEPT ![node_idx] = @ \o PlanWrites(waiting + 1)]
          /\ UNCHANGED <<G_STATE, node_idx>>
     ELSE IF node_idx < cur_node_num - 1
     THEN /\ node_idx' = node_idx + 1
          /\ waiting' = Entries + 1
          /\ down' = [down EXCEPT ![node_idx] = @ \o PlanClosing,
                                  ![node_idx + 1] = @ \o PlanWrites(Entries + 1)]
          /\ UNCHANGED G_STATE
     ELSE /\ G_STATE' = "SYNC_INIT_S"
          /\ waiting' = Loop
          /\ down' = [down EXCEPT ![node_idx] = @ \o PlanClosing]
          /\ UNCHANGED node_idx
  /\ UNCHANGED <<exited, basic_cfg_report_num, chip>>

Controller == WaitOn \/ InitConfirmed \/ basic_cfg \/ local_cfg \/ PlanConfirmed

Next == \/ Controller /\ UNCHANGED lost
        \/ \E n \in Nodes : (ChipStep(n) \/ Beacon(n)) /\ UNCHANGED lost
        \/ \E n \in Nodes : LoseWrite(n)

Spec == Init /\ [][Next]_vars

(* The program runs, writes that are not lost arrive, chips report. *)
Fairness == /\ WF_system(Controller)
            /\ \A n \in Nodes : WF_system(ChipStep(n)) /\ WF_system(Beacon(n))

FairSpec == Spec /\ Fairness

-----------------------------------------------------------------------------

(* The nodes whose basic configuration, or local plan, the controller takes
   to be in place. *)
BasicDone(n) == n < node_idx \/ G_STATE \in {"LOCAL_PLAN_CFG_S", "SYNC_INIT_S"}
PlanDone(n) == \/ G_STATE = "SYNC_INIT_S"
               \/ G_STATE = "LOCAL_PLAN_CFG_S" /\ waiting # Loop /\ n < node_idx

(* The nodes that are not being configured, after they have been. *)
Between(n) == \/ G_STATE = "BASIC_CFG_S" /\ n < node_idx
              \/ G_STATE = "LOCAL_PLAN_CFG_S" /\ (waiting = Loop \/ n > node_idx)
              \/ PlanDone(n)

(* The basic configuration of a node the controller has finished with is in
   the node's chip, lost writes and stale beacons of other nodes or not: an
   entry can only be confirmed by the node itself, since the earlier nodes
   report their single registers by then.  The registers are checked by
   slot_len, which shows nothing when it is configured to be what it is after
   a reset. *)
BasicInPlace ==
  \A n \in Nodes : BasicDone(n) =>
    Basic \subseteq chip[n].tables /\ (SlotLenPreset \/ chip[n].regs)

(* As long as no write was lost, a node the controller has finished with is
   quiet, or the write that silences it is on its way; so beacons of two
   nodes compete for a bounded time only. *)
QuietWhenDone ==
  ~lost => \A n \in Nodes : Between(n) =>
    \/ chip[n].report_enable = 0
    \/ \E i \in DOMAIN down[n] : down[n][i] = W("REPORT_EN", 0)

(* If no write is lost, the program either gives up or brings every chip to
   its final configuration, reporting off. *)
Configured(n) == /\ Basic \cup Local \subseteq chip[n].tables
                 /\ chip[n].regs
                 /\ chip[n].report_enable = 0
                 /\ chip[n].cfg_state = 3
ConfigTakesEffect ==
  <>[](lost \/ exited \/ (G_STATE = "SYNC_INIT_S" /\ \A n \in Nodes : Configured(n)))

(* reg_cfg.c line 457: cfg_chip_table configures the tables of a chip and
   confirms them. *)
PlanConfirmedInChip == \A n \in Nodes : PlanDone(n) => Local \subseteq chip[n].tables
=============================================================================
