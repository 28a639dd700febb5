---------------------------- MODULE OfflinePlan ----------------------------
(***************************************************************************)
(* What the configuration files and the remote planner put into the tables *)
(* of the chips (TSNLight: net_init.c, local_cfg.c, remote_cfg.c, and the  *)
(* table writes of reg_cfg.c).                                             *)
(*                                                                         *)
(* The initial configuration gives every switch its registers and the      *)
(* routes the configuration itself needs; the plan replaces whole tables.  *)
(* A local plan is read table by table, each written when it is read.  A   *)
(* remote plan comes in packets that are collected until the planner says  *)
(* a node is complete.  Both are collected in globals that the nodes share.*)
(* Which plan there is depends on local_cfg_flag, set in the source.       *)
(*                                                                         *)
(* A write of a chip table waits for the chip to report what was written;  *)
(* here each chip gets its writes and only the chip that was written       *)
(* answers: NetConfig has the losses and the answers of others.  An entry  *)
(* written is 32 bits wide, a chip keeps and reports 8 to 16 of them.  Of  *)
(* a chip table other than the forwarding table the first 1024 entries are *)
(* sent.  An XML document is the sequence of its elements.  0xFFFFFFFF is  *)
(* -1.                                                                     *)
(***************************************************************************)
EXTENDS Integers, Sequences, FiniteSets, SequencesExt

CONSTANTS Chips,       \* the imacs of the chips, the test nodes among them
          Index,       \* the indices of a table, 0 .. 16383
          ShortIndex,  \* those of the 32 blocks that are sent, 0 .. 1023
          Ports,       \* the ports that have a gate table, 0 .. 7
          InitDocs,    \* initial configurations
          PlanDocs,    \* local plans
          Packets,     \* packets of a remote plan, without imac and tail
          None,        \* no value
          MaxPackets   \* packets of the remote plan, for model checking

ASSUME OfflinePlanAssumption ==
  /\ Chips \subseteq Nat
  /\ Index \subseteq Nat /\ 0 \in Index /\ 1 \in Index
  /\ ShortIndex \subseteq Index
  /\ \E n \in 0 .. 8 : Ports = 0 .. n - 1
  /\ 0 \in Ports
  /\ None \notin Chips /\ None \notin Index /\ None \notin Ports
  /\ None \notin [imac : Chips, tail_flag : {1, 3}]
  /\ MaxPackets \in Nat

FLT == <<"FLT", 0>>       \* forwarding
TIS == <<"TIS", 0>>       \* injection times
TSS == <<"TSS", 0>>       \* submission times
QGC(p) == <<"QGC", p>>    \* gates of port p
MAP == <<"MAP", 0>>       \* from flow to address, in the HCP
REMAP == <<"REMAP", 0>>   \* back
ChipTable == {FLT, TIS, TSS} \cup {QGC(p) : p \in Ports}
HcpTable == {MAP, REMAP}
REG == <<"REG", 0>>       \* not a table: single registers

CHIP_PORT_TYPE_ADDR == 4
CHIP_OFFSET_PERIOD_ADDR == 11
CHIP_RC_REGULATION_ADDR == 12
CHIP_BE_REGULATION_ADDR == 13
CHIP_UNMAP_REGULATION_ADDR == 14
Reg == {CHIP_PORT_TYPE_ADDR, CHIP_RC_REGULATION_ADDR,
        CHIP_BE_REGULATION_ADDR, CHIP_UNMAP_REGULATION_ADDR}

(* The documents and packets.  A switch of an initial configuration has an
   imac, a forwarding packet has entries; values fit into what a chip keeps,
   times into their two fields, 5 and 10 bits wide. *)
Below(n) == {v \in Nat : v < n}
Word == Below(65536)
Routes == Seq(Index \X Below(512))
GateBytes == Seq(Index \X Below(256))
Mappings == Seq(Index \X Word)
Times == Seq(Index \X Below(32) \X Below(1024))

IsDocument(s) == Len(s) \in Nat /\ s = [k \in 1 .. Len(s) |-> s[k]]

Setting == ({"IMAC"} \X Chips) \cup ((STRING \ {"IMAC"}) \X Nat)
InitElementOK(e) ==
  /\ e.tag = "switch" => /\ e.register \in Seq(Setting)
                         /\ \E k \in DOMAIN e.register : e.register[k][1] = "IMAC"
                         /\ e.forward \in Routes
  /\ e.tag = "test" => e.imac \in Chips

PlanTableOK(t) ==
  \/ t.name = "forwarding_table" /\ t.entries \in Routes
  \/ /\ t.name = "gate_control_list_table"
     /\ t.port_id \in Ports \cup {None} /\ t.entries \in GateBytes
  \/ /\ t.name \in {"pkt_injection_table", "pkt_submission_table"}
     /\ t.entries \in Seq([time_slot : Below(1024), addr : Below(32)])
  \/ /\ t.name \in {"TX_FL-tag_mapping_table", "RX_FL-tag_remapping_table"}
     /\ t.entries \in Mappings

PacketOK(p) ==
  \/ p.type = FLT /\ p.entries \in Routes \ {<<>>}
  \/ p.type \in {TIS, TSS} /\ p.entries \in Times
  \/ p.type \in {QGC(q) : q \in Ports} /\ p.entries \in GateBytes
  \/ p.type \in HcpTable /\ p.entries \in Mappings
  \/ p.type = REG /\ p.entries \in Seq(Nat \X Nat)

ASSUME DocumentsAssumption ==
  /\ \A doc \in InitDocs : IsDocument(doc) /\ \A k \in DOMAIN doc : InitElementOK(doc[k])
  /\ \A doc \in PlanDocs : IsDocument(doc) /\ \A k \in DOMAIN doc :
       /\ doc[k].imac \in Chips
       /\ IsDocument(doc[k].tables)
       /\ \A j \in DOMAIN doc[k].tables : PlanTableOK(doc[k].tables[j])
  /\ \A p \in Packets : PacketOK(p)

(* A local plan names a switch once, and a table of it once. *)
NamesAnother(s, t) ==
  \/ s.name # t.name
  \/ /\ s.name = "gate_control_list_table"
     /\ s.port_id # None /\ t.port_id # None /\ s.port_id # t.port_id

ASSUME PlansAssumption ==
  \A doc \in PlanDocs :
    /\ \A k, l \in DOMAIN doc : k # l => doc[k].imac # doc[l].imac
    /\ \A k \in DOMAIN doc : \A i, j \in DOMAIN doc[k].tables :
         i # j => NamesAnother(doc[k].tables[i], doc[k].tables[j])

VARIABLES
  G_STATE,
  init_cfg,               \* the switches of the initial configuration
  init_test,              \* its test nodes
  chip,                   \* the chips: report_en, cfg_state, reg, table
  waiting,                \* the table whose confirmation is waited for, or None
  left,                   \* local: the switches of the plan not yet begun
  imac,                   \* local: the switch being read, or None
  tables,                 \* local: its tables not yet read
  port_id,                \* local: the port the last gate table was for
  chip_cfg_table,         \* local: the chip table being filled
  hcp_table,              \* local: map_table and remap_table
  remote,                 \* remote: the tables being filled
  send_init_cfg_flag,     \* remote: no packet has come yet
  remote_first_cfg_flag,  \* remote: no forwarding entries have come for the node
  tail,                   \* remote: the packet that completes a node, or None
  todo,                   \* remote: the tables still to be written for it
  plan,                   \* the local plan, or <<>>
  given,                  \* what the packets of a remote plan gave each node
  done,                   \* the nodes whose plan was written
  packets                 \* the number of remote packets

basic == <<init_cfg, init_test>>
local == <<left, imac, tables, port_id, chip_cfg_table, hcp_table>>
collected == <<remote, send_init_cfg_flag, remote_first_cfg_flag>>
writing == <<tail, todo>>
plans == <<plan, given, done>>
vars == <<G_STATE, basic, chip, waiting, local, collected, writing, plans, packets>>

---------------------------------------------------------------------------
(* Tables.  An entry is a pair of an index and a value. *)

All(v) == [i \in Index |-> v]

Overlay(table, entries) ==
  FoldLeft(LAMBDA t, e : [t EXCEPT ![e[1]] = e[2]], table, entries)

(* Entries of a mapping table get a value, and leave the address. *)
Mapped(table, entries) ==
  FoldLeft(LAMBDA t, e : [t EXCEPT ![e[1]].val = e[2]], table, entries)

(* The entries of a table that are sent to the chip: 512 blocks of the
   forwarding table, 32 of any other. *)
Sent(t) == IF t = FLT THEN Index ELSE ShortIndex

(* What a chip keeps, and reports, of the 32 bits it is sent. *)
Width(t) == CASE t = FLT -> 512 [] t \in {TIS, TSS} -> 65536 [] OTHER -> 256
Kept(t, data, before) ==
  [i \in Index |-> IF i \in Sent(t) THEN data[i] % Width(t) ELSE before[i]]

(* An injection or submission time: valid, the high and the low field. *)
Time(low, high) == 32768 + 32 * high + low

---------------------------------------------------------------------------
(* net_init: the initial configuration. *)

RegDefault == [r \in Reg |-> 0]

parse_test_xml(e) == e.imac

(* The thresholds are 9 bits wide; the registers left out do not matter here. *)
parse_register_xml(cfg, e) ==
  CASE e[1] = "IMAC" -> [cfg EXCEPT !.imac = e[2]]
    [] e[1] = "port_num" -> [cfg EXCEPT !.port_num = e[2]]
    [] e[1] = "qbv_or_qch" -> [cfg EXCEPT !.qbv_or_qch = e[2]]
    [] e[1] = "port_type" -> [cfg EXCEPT !.reg[CHIP_PORT_TYPE_ADDR] = e[2] % 256]
    [] e[1] = "ST_buf_threshold" ->
         [cfg EXCEPT !.reg = [@ EXCEPT ![CHIP_RC_REGULATION_ADDR] = (e[2] - 22) % 512,
                                       ![CHIP_BE_REGULATION_ADDR] = e[2] % 512,
                                       ![CHIP_UNMAP_REGULATION_ADDR] = (e[2] - 8) % 512]]
    [] OTHER -> cfg

parse_init_node(e) ==
  LET empty == [imac |-> 0, port_num |-> 0, qbv_or_qch |-> 0,
                reg |-> RegDefault, forward |-> e.forward]
  IN FoldLeft(parse_register_xml, empty, e.register)

InitElement(cfg, e) ==
  CASE e.tag = "switch" -> [cfg EXCEPT !.init_cfg = Append(@, parse_init_node(e))]
    [] e.tag = "test" -> [cfg EXCEPT !.init_test = Append(@, parse_test_xml(e))]
    [] OTHER -> cfg

parse_init_doc(doc) == FoldLeft(InitElement, [init_cfg |-> <<>>, init_test |-> <<>>], doc)

(* The routes of the initial configuration for this imac. *)
init_forward(n) ==
  FoldLeft(LAMBDA s, cfg : IF cfg.imac = n THEN s \o cfg.forward ELSE s, <<>>, init_cfg)

(* The ports init_cfg_fun opens the gates of, in Qbv mode. *)
OpenedPorts(cfg) ==
  IF cfg.qbv_or_qch # 0 THEN {}
  ELSE CASE cfg.port_num = 1 -> Ports \cap {1}
         [] cfg.port_num = 4 -> Ports \cap 0 .. 3
         [] OTHER -> Ports

(* A switch after basic_cfg.  It reports if the write that should have ended
   this was lost. *)
Configured(cfg, report_en) ==
  [report_en |-> report_en, cfg_state |-> 2, reg |-> cfg.reg,
   table |-> [t \in ChipTable \cup HcpTable |->
                IF t = FLT THEN Overlay(All(0), cfg.forward)
                ELSE IF t \in {QGC(p) : p \in OpenedPorts(cfg)} THEN Kept(t, All(255), All(0))
                ELSE All(0)]]

(* A chip after its reset: it reports. *)
Unconfigured == [report_en |-> 1, cfg_state |-> 0,
                 reg |-> [RegDefault EXCEPT ![CHIP_PORT_TYPE_ADDR] = 255],
                 table |-> [t \in ChipTable \cup HcpTable |-> All(0)]]

(* init_test_fun sets the state of a switch, by the number of the test node:
   it takes the imac from the wrong array. *)
AfterBasicCfg(parsed, n, report_en) ==
  LET at == {k \in DOMAIN parsed.init_cfg : parsed.init_cfg[k].imac = n}
      k == CHOOSE k \in at : TRUE
  IN IF at = {} THEN Unconfigured
     ELSE IF k > Len(parsed.init_test) THEN Configured(parsed.init_cfg[k], report_en)
     ELSE [Configured(parsed.init_cfg[k], report_en) EXCEPT !.cfg_state = 1]

NoEntries == [t \in ChipTable \cup HcpTable |-> <<>>]

Init ==
  /\ G_STATE \in {"LOCAL_PLAN_CFG_S", "REMOTE_PLAN_CFG_S"}
  /\ \E doc \in InitDocs : LET parsed == parse_init_doc(doc) IN
       /\ init_cfg = parsed.init_cfg /\ init_test = parsed.init_test
       /\ \E report_en \in 0 .. 1 :
            chip = [n \in Chips |-> AfterBasicCfg(parsed, n, report_en)]
  /\ waiting = None
  /\ IF G_STATE = "LOCAL_PLAN_CFG_S" THEN left \in PlanDocs ELSE left = <<>>
  /\ imac = None /\ tables = <<>> /\ port_id = 0
  /\ chip_cfg_table = All(0)
  /\ hcp_table = [t \in HcpTable |-> [i \in Index |-> [addr |-> None, val |-> 0]]]
  /\ remote = [t \in ChipTable \cup HcpTable |->
                 IF t \in HcpTable THEN [i \in Index |-> [addr |-> None, val |-> 0]] ELSE All(0)]
  /\ send_init_cfg_flag = 1 /\ remote_first_cfg_flag = 1
  /\ tail = None /\ todo = <<>>
  /\ plan = left /\ given = [n \in Chips |-> NoEntries]
  /\ done = {} /\ packets = 0

---------------------------------------------------------------------------
(* reg_cfg: writing tables. *)

(* The table is written block by block, each awaited. *)
cfg_chip_table(n, t, data) ==
  /\ chip' = [chip EXCEPT ![n].table[t] = Kept(t, data, @)]
  /\ waiting' = [imac |-> n, table |-> t, data |-> data]

(* An entry goes to the address it carries; nothing is awaited. *)
HcpWritten(table, data) ==
  [i \in Index |-> IF data[i].addr = i THEN data[i].val ELSE table[i]]

Confirmed ==
  /\ waiting # None
  /\ chip[waiting.imac].report_en = 1
  /\ \A i \in Sent(waiting.table) :
       chip[waiting.imac].table[waiting.table][i] = waiting.data[i]
  /\ waiting' = None
  /\ UNCHANGED <<G_STATE, basic, chip, local, collected, writing, plans, packets>>

---------------------------------------------------------------------------
(* local_cfg: parse_offline_plan_node for one switch after the other. *)

Reading == G_STATE = "LOCAL_PLAN_CFG_S" /\ waiting = None

OpenSwitch ==
  /\ Reading /\ imac = None /\ left # <<>>
  /\ imac' = Head(left).imac
  /\ tables' = Head(left).tables
  /\ left' = Tail(left)
  /\ chip' = [chip EXCEPT ![Head(left).imac].report_en = 1]
  /\ UNCHANGED <<G_STATE, basic, waiting, port_id, chip_cfg_table, hcp_table,
                 collected, writing, plans, packets>>

NextTable(name) ==
  /\ Reading /\ imac # None /\ tables # <<>>
  /\ Head(tables).name = name
  /\ tables' = Tail(tables)
  /\ UNCHANGED <<G_STATE, basic, left, imac, collected, writing, plans, packets>>

(* The memset before a table is filled; the mutants forget it, and rely on
   it where a loop sets the 32 bits of an entry to 255. *)
Cleared_Not == chip_cfg_table
Cleared == All(0)
GatesOpen_Memset == All(-1)
GatesOpen == All(255)

WriteChipTable(t, data) ==
  /\ chip_cfg_table' = data
  /\ cfg_chip_table(imac, t, data)
  /\ UNCHANGED hcp_table

ForwardingTable ==
  /\ NextTable("forwarding_table")
  /\ WriteChipTable(FLT, Overlay(Overlay(Cleared, init_forward(imac)), Head(tables).entries))
  /\ UNCHANGED port_id

(* The times are entered one after the other, wherever their slot is. *)
TimeTable(name, t) ==
  /\ NextTable(name)
  /\ LET times == Head(tables).entries IN
       WriteChipTable(t, [i \in Index |-> IF i < Len(times)
                                          THEN Time(times[i + 1].addr, times[i + 1].time_slot)
                                          ELSE Cleared[i]])
  /\ UNCHANGED port_id

GateTable ==
  /\ NextTable("gate_control_list_table")
  /\ port_id' = IF Head(tables).port_id = None THEN port_id ELSE Head(tables).port_id
  /\ WriteChipTable(QGC(port_id'), Overlay(GatesOpen, Head(tables).entries))

(* The memset clears the first entry only. *)
MappingTable(name, t) ==
  /\ NextTable(name)
  /\ hcp_table' =
       LET empty == [i \in Index |-> [addr |-> i, val |-> IF i = 0 THEN 0 ELSE hcp_table[t][i].val]]
       IN [hcp_table EXCEPT ![t] =
             Mapped(empty, Head(tables).entries)]
  /\ chip' = [chip EXCEPT ![imac].table[t] = HcpWritten(@, hcp_table'[t])]
  /\ UNCHANGED <<waiting, port_id, chip_cfg_table>>

CloseSwitch ==
  /\ Reading /\ imac # None /\ tables = <<>>
  /\ chip' = [chip EXCEPT ![imac].report_en = 0, ![imac].cfg_state = 3]
  /\ done' = done \cup {imac}
  /\ imac' = None
  /\ UNCHANGED <<G_STATE, basic, waiting, left, tables, port_id, chip_cfg_table, hcp_table,
                 collected, writing, plan, given, packets>>

EndPlan ==
  /\ Reading /\ imac = None /\ left = <<>>
  /\ G_STATE' = "SYNC_INIT_S"
  /\ UNCHANGED <<basic, chip, waiting, local, collected, writing, plans, packets>>

LocalCfg == \/ OpenSwitch \/ ForwardingTable \/ GateTable \/ CloseSwitch \/ EndPlan
            \/ TimeTable("pkt_injection_table", TIS)
            \/ TimeTable("pkt_submission_table", TSS)
            \/ MappingTable("TX_FL-tag_mapping_table", MAP)
            \/ MappingTable("RX_FL-tag_remapping_table", REMAP)

---------------------------------------------------------------------------
(* remote_cfg. *)

Listening == /\ G_STATE = "REMOTE_PLAN_CFG_S" /\ waiting = None /\ tail = None
             /\ packets < MaxPackets

(* The first packet is only answered. *)
FirstPacket ==
  /\ Listening
  /\ send_init_cfg_flag = 1
  /\ send_init_cfg_flag' = 0
  /\ remote' = [t \in DOMAIN remote |->
                  IF t \in {QGC(p) : p \in Ports} THEN All(-1) ELSE remote[t]]
  /\ UNCHANGED <<G_STATE, basic, chip, waiting, local, remote_first_cfg_flag, writing,
                 plans, packets>>

(* parse_forward_info; the mutant brings the routes of the initial
   configuration back with every packet. *)
ForwardBase_Again(n) == Overlay(remote[FLT], init_forward(n))
ForwardBase(n) ==
  IF remote_first_cfg_flag = 1 THEN Overlay(remote[FLT], init_forward(n)) ELSE remote[FLT]

parse_forward_info(n, entries) == Overlay(ForwardBase(n), entries)

(* parse_inject_info, parse_submit_info: index, and the two fields. *)
TimeEntries(entries) ==
  [k \in DOMAIN entries |-> <<entries[k][1], Time(entries[k][2], entries[k][3])>>]

parse_gate_info(t, entries) == Overlay(remote[t], entries)

(* An entry of the mapping tables gets no address. *)
parse_map_info(t, entries) == Mapped(remote[t], entries)

Collect(n, p) ==
  CASE p.type = FLT -> parse_forward_info(n, p.entries)
    [] p.type \in {TIS, TSS} -> Overlay(remote[p.type], TimeEntries(p.entries))
    [] p.type \in {QGC(q) : q \in Ports} -> parse_gate_info(p.type, p.entries)
    [] p.type \in HcpTable -> parse_map_info(p.type, p.entries)

(* parse_reg_info writes every register at once; one of them stands for
   the three thresholds. *)
RegBe_Below(v) == (v - 100) % 512
RegBe(v) == (v + 100) % 512
parse_reg_info(reg, e) ==
  CASE e[1] = CHIP_PORT_TYPE_ADDR -> [reg EXCEPT ![e[1]] = e[2] % 256]
    [] e[1] = CHIP_OFFSET_PERIOD_ADDR ->
         [reg EXCEPT ![CHIP_RC_REGULATION_ADDR] = e[2] % 512,
                     ![CHIP_BE_REGULATION_ADDR] = RegBe(e[2]),
                     ![CHIP_UNMAP_REGULATION_ADDR] = e[2] % 512]
    [] OTHER -> reg
Registers(reg, entries) == FoldLeft(parse_reg_info, reg, entries)

(* The chip tables, in the order they are written. *)
AllTables == <<FLT, TIS, TSS>> \o [k \in 1 .. Cardinality(Ports) |-> QGC(k - 1)]

(* The planner completes a node before it begins another. *)
Begun(n) == n \notin done /\ given[n] # NoEntries

(* The flag of the head packet: 1 and 3 complete the node, 3 the plan. *)
RemotePacket(n, p, tail_flag) ==
  /\ Listening
  /\ send_init_cfg_flag = 0
  /\ \A m \in Chips \ {n} : ~Begun(m)
  /\ packets' = packets + 1
  /\ IF p.type = REG
     THEN /\ chip' = [chip EXCEPT ![n].reg = Registers(@, p.entries)]
          /\ UNCHANGED <<remote, remote_first_cfg_flag>>
     ELSE /\ remote' = [remote EXCEPT ![p.type] = Collect(n, p)]
          /\ remote_first_cfg_flag' = IF p.type = FLT THEN 0 ELSE remote_first_cfg_flag
          /\ UNCHANGED chip
  /\ given' = LET before == IF n \in done THEN NoEntries ELSE given[n] IN
       [given EXCEPT ![n] = IF p.type = REG THEN before
                            ELSE [before EXCEPT ![p.type] = @ \o p.entries]]
  /\ done' = done \ {n}
  /\ IF tail_flag \in {1, 3}
     THEN /\ tail' = [imac |-> n, tail_flag |-> tail_flag]
          /\ todo' = AllTables
     ELSE UNCHANGED writing
  /\ UNCHANGED <<G_STATE, basic, waiting, local, send_init_cfg_flag, plan>>

WriteRemote ==
  /\ waiting = None /\ todo # <<>>
  /\ cfg_chip_table(tail.imac, Head(todo), remote[Head(todo)])
  /\ todo' = Tail(todo)
  /\ UNCHANGED <<G_STATE, basic, local, collected, tail, plans, packets>>

(* The mutant does not begin the next node afresh. *)
NextFirst_Kept == remote_first_cfg_flag
NextFirst == 1

(* The mapping tables, the confirmation to the planner, and the next node. *)
FinishRemote ==
  /\ waiting = None /\ todo = <<>> /\ tail # None
  /\ chip' = [chip EXCEPT ![tail.imac].table[MAP] = HcpWritten(@, remote[MAP]),
                          ![tail.imac].table[REMAP] = HcpWritten(@, remote[REMAP])]
  /\ done' = done \cup {tail.imac}
  /\ remote_first_cfg_flag' = NextFirst
  /\ G_STATE' = IF tail.tail_flag = 3 THEN "SYNC_INIT_S" ELSE G_STATE
  /\ tail' = None
  /\ UNCHANGED <<basic, waiting, local, remote, send_init_cfg_flag, todo, plan, given, packets>>

Controller == LocalCfg \/ Confirmed \/ WriteRemote \/ FinishRemote

Next == \/ Controller
        \/ FirstPacket
        \/ \E n \in Chips, p \in Packets, tail_flag \in {0, 1, 3} : RemotePacket(n, p, tail_flag)

Spec == Init /\ [][Next]_vars /\ WF_vars(Controller)

---------------------------------------------------------------------------
(* Properties. *)

Table == [Index -> Word]
HcpEntry == [addr : Index \cup {None}, val : Word]
Chip == [report_en : 0 .. 1, cfg_state : 0 .. 3, reg : [Reg -> Below(512)],
         table : [ChipTable \cup HcpTable -> Table]]

(* The variables have the values the code gives them.  A chip table of a
   local plan fits into the 16 bits the chip reports, without which its
   confirmation would never come; a remote one need not. *)
TypeOK ==
  /\ G_STATE \in {"LOCAL_PLAN_CFG_S", "REMOTE_PLAN_CFG_S", "SYNC_INIT_S"}
  /\ chip \in [Chips -> Chip]
  /\ waiting = None \/ (waiting.imac \in Chips /\ waiting.table \in ChipTable)
  /\ imac \in Chips \cup {None} /\ port_id \in Ports
  /\ chip_cfg_table \in Table
  /\ hcp_table \in [HcpTable -> [Index -> HcpEntry]]
  /\ DOMAIN remote = ChipTable \cup HcpTable
  /\ \A t \in ChipTable : remote[t] \in [Index -> {-1} \cup Word]
  /\ \A t \in HcpTable : remote[t] \in [Index -> HcpEntry]
  /\ send_init_cfg_flag \in 0 .. 1 /\ remote_first_cfg_flag \in 0 .. 1
  /\ tail = None \/ (tail.imac \in Chips /\ tail.tail_flag \in {1, 3})
  /\ \A k \in DOMAIN todo : todo[k] \in ChipTable
  /\ done \subseteq Chips /\ packets \in 0 .. MaxPackets

(* What a list of entries says of index i. *)
At(entries, i) == {k \in DOMAIN entries : entries[k][1] = i}
LastOf(entries, i, otherwise) ==
  IF At(entries, i) = {} THEN otherwise
  ELSE entries[CHOOSE k \in At(entries, i) : \A j \in At(entries, i) : j <= k][2]

(* A table of the local plan has its place, the number of its switch and its
   own; the places are read in order. *)
Places == UNION {{k} \X DOMAIN plan[k].tables : k \in DOMAIN plan}
TableAt(p) == plan[p[1]].tables[p[2]]
NotAfter(p, q) == p[1] < q[1] \/ (p[1] = q[1] /\ p[2] <= q[2])
Upto(S, q) == {p \in S : NotAfter(p, q)}
Latest(S) == CHOOSE p \in S : \A q \in S : NotAfter(q, p)

(* The port a gate table is for: its own or, when it names none, that of
   the last gate table before it that did, be it another switch's. *)
PortNamed == {p \in Places : /\ TableAt(p).name = "gate_control_list_table"
                             /\ TableAt(p).port_id # None}
PortAt(q) == LET named == Upto(PortNamed, q) IN
  IF named = {} THEN 0 ELSE TableAt(Latest(named)).port_id

(* The value of an entry of a mapping table: what the last table of this
   name to settle it says.  Every table settles entry 0, which it clears,
   and the entries it names; the others stay an earlier switch's. *)
Settles(name, i) == {p \in Places : /\ TableAt(p).name = name
                                    /\ i = 0 \/ At(TableAt(p).entries, i) # {}}
MappingAt(name, i, q) == LET settled == Upto(Settles(name, i), q) IN
  IF settled = {} THEN 0 ELSE LastOf(TableAt(Latest(settled)).entries, i, 0)

(* The table of the chip that the table at place p goes to, and the value
   that the plan gives its entry i. *)
Destination(p) == LET name == TableAt(p).name IN
  CASE name = "forwarding_table" -> FLT
    [] name = "gate_control_list_table" -> QGC(PortAt(p))
    [] name = "pkt_injection_table" -> TIS
    [] name = "pkt_submission_table" -> TSS
    [] name = "TX_FL-tag_mapping_table" -> MAP
    [] name = "RX_FL-tag_remapping_table" -> REMAP

Planned(p, i) == LET t == TableAt(p) IN
  CASE t.name = "forwarding_table" ->
         LastOf(t.entries, i, LastOf(init_forward(plan[p[1]].imac), i, 0))
    [] t.name = "gate_control_list_table" -> LastOf(t.entries, i, 255)
    [] t.name \in {"pkt_injection_table", "pkt_submission_table"} ->
         IF i < Len(t.entries) THEN Time(t.entries[i + 1].addr, t.entries[i + 1].time_slot)
                               ELSE 0
    [] t.name \in {"TX_FL-tag_mapping_table", "RX_FL-tag_remapping_table"} ->
         MappingAt(t.name, i, p)

(* The table of the plan at place p and the chip agree on every index that
   is sent.  A plan names a table once. *)
InForce(p) ==
  \A i \in Sent(Destination(p)) :
    chip[plan[p[1]].imac].table[Destination(p)][i] = Planned(p, i)

(* Once parse_offline_plan_node has left a node, its chip holds the tables
   of its plan, at every index that is sent.  All tables of all nodes are
   filled in the same variables: of these nothing comes through but the
   port of a gate table that names none, and the entries a mapping table
   neither names nor clears. *)
LocalPlanInForce ==
  \A p \in Places : plan[p[1]].imac \in done => InForce(p)

(* Once a node was confirmed to the remote planner, its chip holds the last
   value given for every entry of a chip table that is sent, over all
   packets for the node and whatever else the shared tables were filled
   with. *)
RemoteEntriesInForce ==
  \A n \in done, t \in ChipTable :
    LET entries == IF t \in {TIS, TSS} THEN TimeEntries(given[n][t]) ELSE given[n][t]
    IN \A k \in DOMAIN entries : entries[k][1] \in Sent(t) =>
         chip[n].table[t][entries[k][1]] = LastOf(entries, entries[k][1], 0)

(* A plan with forwarding entries for a node does not cut the routes of the
   initial configuration, unless it gives such a flow another way: the next
   nodes are configured, and all are synchronised, over these routes. *)
BasicRoutesKept ==
  \A n \in done : given[n][FLT] # <<>> =>
    \A i \in Index : At(init_forward(n), i) # {} /\ At(given[n][FLT], i) = {} =>
      chip[n].table[FLT][i] = LastOf(init_forward(n), i, 0)

(* The thresholds of the file reach from 22 up to what the registers hold,
   those of the remote planner leave room for the 100 that are added. *)
ThresholdsFit ==
  /\ \A doc \in InitDocs : \A k \in DOMAIN doc : doc[k].tag = "switch" =>
       \A j \in DOMAIN doc[k].register : LET setting == doc[k].register[j] IN
         setting[1] = "ST_buf_threshold" => 22 <= setting[2] /\ setting[2] < 512
  /\ \A p \in Packets : p.type = REG =>
       \A k \in DOMAIN p.entries :
         p.entries[k][1] = CHIP_OFFSET_PERIOD_ADDR => p.entries[k][2] < 412

(* Under memory pressure a chip discards best effort packets first and
   reserved ones last, whether its thresholds come from the file or from
   the remote planner. *)
PriorityOfThresholds ==
  \A k \in DOMAIN init_cfg : LET reg == chip[init_cfg[k].imac].reg IN
    /\ reg[CHIP_RC_REGULATION_ADDR] <= reg[CHIP_UNMAP_REGULATION_ADDR]
    /\ reg[CHIP_UNMAP_REGULATION_ADDR] <= reg[CHIP_BE_REGULATION_ADDR]

(* A local plan is read to its end: each of its tables is confirmed. *)
LocalPlanEnds == (G_STATE = "LOCAL_PLAN_CFG_S") ~> (G_STATE = "SYNC_INIT_S")

(* cfg_chip_table returns. *)
TableConfirmed == (waiting # None) ~> (waiting = None)
=============================================================================
