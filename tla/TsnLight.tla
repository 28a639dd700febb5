------------------------------ MODULE TsnLight ------------------------------
(***************************************************************************)
(* The main loop of TSNLight and the monitor of the running network        *)
(* (main.c, state_monitor.c).                                              *)
(*                                                                         *)
(* The loop takes a packet, gives it to the handler of the state, takes    *)
(* the time and calls time_handle.  What the handlers of the configuration *)
(* and of the synchronisation do is in NetConfig, OfflinePlan and PtpSync; *)
(* here they only have their outcomes.  Once the network runs, each node   *)
(* is told to report, and the program ends when it finds one silent.       *)
(*                                                                         *)
(* Time comes in units, and starts when monitoring does.  gettimeofday     *)
(* reads the wall clock, which somebody may set back; time_interval is an  *)
(* unsigned number, so a moment in the future is infinitely long ago.      *)
(*                                                                         *)
(* In two places C leaves open what happens, and the build decides: which  *)
(* value main() gets when time_handle falls off its end, and what lies     *)
(* behind tv_node.  The model has what the makefile's build does, gcc      *)
(* without optimisation, as the binary tsnlight beside the sources shows.  *)
(***************************************************************************)
EXTENDS Integers, Sequences, FiniteSetsExt, TLC

CONSTANTS Nodes,            \* the imacs of the nodes in the topology file
          MONITORED,        \* net_report_cfg and the monitor look at 0 .. MONITORED-1; 50
          Strangers,        \* imacs of packets that no node of the file has
          MAX_NODE_NUM,     \* 100
          MONITOR_TIMEOUT,  \* time between two checks
          NO_PKT_TIMEOUT,   \* silence a check lets pass
          REPORT_INTERVAL,  \* time between two reports to the planner
          Gap,              \* a node that works is heard again within this time
          MaxStep,          \* the loop calls time_handle at least this often
          MaxWait,          \* the loop takes a captured packet within this time
          MaxBack,          \* the wall clock is set back by no more, for model checking
          MaxClock,         \* last time looked at, for model checking
          Backlog           \* packets captured and not yet read, for model checking

ASSUME TsnLightAssumption ==
  /\ MAX_NODE_NUM \in Nat /\ MONITORED \in 0 .. MAX_NODE_NUM
  /\ Nodes \subseteq 0 .. MAX_NODE_NUM - 1
  /\ Strangers \subseteq Nat \ Nodes
  /\ REPORT_INTERVAL \in Nat
  /\ MONITOR_TIMEOUT \in Nat /\ NO_PKT_TIMEOUT \in Nat
  /\ Gap \in Nat /\ MaxStep \in Nat /\ MaxWait \in Nat
  /\ MaxBack \in Nat /\ MaxClock \in Nat /\ Backlog \in Nat
  /\ Gap + MaxWait <= NO_PKT_TIMEOUT

State == {"INIT_S", "BASIC_CFG_S", "LOCAL_PLAN_CFG_S", "REMOTE_PLAN_CFG_S",
          "CONF_VERIFY_S", "SYNC_INIT_S", "NW_RUNNING_S"}

(* A packet by the type net_run tells apart: 0 ARP, 1 beacon, 5 PTP. *)
Packet == [sub_type : {0, 5}] \cup
          [sub_type : {1}, imac : Nodes \cup Strangers, at : 0 .. MaxClock]

VARIABLES
  G_STATE,
  returned,            \* main() has returned, and after which message
  pc,                  \* what main() does next
  local_cfg_flag,      \* the plan comes from a file, not from a remote planner
  cfg_varify_flag,     \* a remote plan is verified; both flags are set in the source
  is_first_pkt,        \* state_monitor_timeout has been called before
  valid,               \* the nodes read from the topology file
  online,              \* per node, chip[].state.online: 1 means offline
  tv_node,             \* per node, when it was last heard, or monitoring began
  tv_monitor_timeout,  \* when the monitor last looked
  report_tv,           \* when it last had something to report to the planner
  up,                  \* the packets captured and not yet read
  now, back,           \* time, and by how much the wall clock was set back
  polled,              \* the time of the last call of time_handle
  alive,               \* the nodes that work
  reporting,           \* the nodes that were reached by the report configuration
  sent                 \* per node, when it last reported, or monitoring began

loop == <<G_STATE, returned, pc>>
flags == <<local_cfg_flag, cfg_varify_flag>>
monitor == <<is_first_pkt, valid, online, tv_node, tv_monitor_timeout, report_tv>>
time == <<now, back, polled>>
network == <<alive, reporting, sent>>
vars == <<loop, flags, monitor, up, time, network>>

Monitored == Nodes \cap 0 .. MONITORED - 1
Clock == now - back

Init ==
  /\ G_STATE = "INIT_S" /\ returned = "no" /\ pc = "net_init"
  /\ local_cfg_flag \in 0 .. 1 /\ cfg_varify_flag \in 0 .. 1
  /\ is_first_pkt = 0 /\ valid = {}
  /\ online = [n \in Nodes |-> 0]
  /\ tv_node = [n \in Nodes |-> 0] /\ tv_monitor_timeout = 0 /\ report_tv = 0
  /\ up = <<>>
  /\ now = 0 /\ back = 0 /\ polled = 0
  /\ alive = Nodes /\ reporting = {}
  /\ sent = [n \in Nodes |-> 0]

---------------------------------------------------------------------------
(* The handlers, called with the next packet. *)

(* net_init leaves the state as it is when one of its steps fails, and
   main() does not look at what it returns. *)
NetInit ==
  /\ pc = "net_init"
  /\ pc' = "receive"
  /\ G_STATE' \in {"INIT_S", "BASIC_CFG_S"}
  /\ UNCHANGED <<returned, flags, monitor, up, time, network>>

Handler(state) ==
  /\ pc = "receive" /\ returned = "no" /\ G_STATE = state

Goto(states) == G_STATE' \in states /\ pc' = "timer" /\ UNCHANGED returned

Exit(why) == returned' = why /\ UNCHANGED <<G_STATE, pc>>

BasicCfg ==
  /\ Handler("BASIC_CFG_S")
  /\ \/ Goto({"BASIC_CFG_S",
              IF local_cfg_flag = 1 THEN "LOCAL_PLAN_CFG_S" ELSE "REMOTE_PLAN_CFG_S"})
     \/ Exit("error")
  /\ UNCHANGED <<flags, monitor, up, time, network>>

(* Called with and without a packet. *)
LocalCfg ==
  /\ Handler("LOCAL_PLAN_CFG_S")
  /\ Goto({"SYNC_INIT_S"})
  /\ UNCHANGED <<flags, monitor, up, time, network>>

RemoteCfg ==
  /\ Handler("REMOTE_PLAN_CFG_S")
  /\ Goto({"REMOTE_PLAN_CFG_S",
           IF cfg_varify_flag = 1 THEN "CONF_VERIFY_S" ELSE "SYNC_INIT_S"})
  /\ UNCHANGED <<flags, monitor, up, time, network>>

(* INIT_S has no handler, and the one of CONF_VERIFY_S does nothing. *)
NoHandler ==
  /\ Handler("INIT_S") \/ Handler("CONF_VERIFY_S")
  /\ Goto({G_STATE})
  /\ UNCHANGED <<flags, monitor, up, time, network>>

(* Of ptp_handle, main() ignores the -1 for an offset that is too large. *)
SyncInit ==
  /\ Handler("SYNC_INIT_S")
  /\ Goto({"SYNC_INIT_S", "NW_RUNNING_S", "INIT_S"})
  /\ UNCHANGED <<flags, monitor, up, time, network>>

(* The mutants: the time is not taken; imac is not looked at. *)
state_monitor_Bug(pkt) == UNCHANGED <<tv_node, report_tv>>
state_monitor_NoGuard(pkt) ==
  tv_node' = [n \in {pkt.imac} |-> Clock] @@ tv_node /\ UNCHANGED report_tv

(* Whatever a beacon reports, its node was heard.  The entries of no node
   are never read.  The check lets imac MAX_NODE_NUM through, one more than
   tv_node has entries; what lies there is report_tv. *)
state_monitor(pkt) ==
  \/ pkt.imac > MAX_NODE_NUM /\ UNCHANGED <<tv_node, report_tv>>
  \/ /\ pkt.imac < MAX_NODE_NUM
     /\ tv_node' = [n \in Nodes |-> IF n = pkt.imac THEN Clock ELSE tv_node[n]]
     /\ UNCHANGED report_tv
  \/ pkt.imac = MAX_NODE_NUM /\ report_tv' = Clock /\ UNCHANGED tv_node

NetRun ==
  /\ Handler("NW_RUNNING_S")
  /\ up # <<>>
  /\ up' = Tail(up)
  /\ LET pkt == Head(up) IN
       \/ /\ pkt.sub_type = 1
          /\ state_monitor(pkt)
          /\ Goto({G_STATE})
       \/ /\ pkt.sub_type # 1
          /\ UNCHANGED <<tv_node, report_tv>>
          /\ Goto({G_STATE}) \/ (pkt.sub_type = 5 /\ Exit("error"))
  /\ UNCHANGED <<flags, is_first_pkt, valid, online, tv_monitor_timeout, time, network>>

NoPacket ==
  /\ Handler("NW_RUNNING_S")
  /\ up = <<>>
  /\ Goto({G_STATE})
  /\ UNCHANGED <<flags, monitor, up, time, network>>

---------------------------------------------------------------------------
(* The monitor. *)

(* time_interval > limit *)
Longer(since, limit) == Clock < since \/ Clock - since > limit

(* The topology is read, or it cannot be. *)
parse_topology_info == valid' \in {{}, Nodes}

(* The nodes are told to report; each write may be lost. *)
net_report_cfg == reporting' \in SUBSET (valid' \cap Monitored)

(* The first call does not look whether the topology was read. *)
FirstCall ==
  /\ is_first_pkt = 0
  /\ is_first_pkt' = 1
  /\ parse_topology_info
  /\ net_report_cfg
  /\ tv_node' = [n \in Nodes |-> IF n \in Monitored THEN Clock ELSE tv_node[n]]
  /\ tv_monitor_timeout' = Clock /\ report_tv' = Clock
  /\ sent' = [n \in Nodes |-> now]
  /\ UNCHANGED <<online, alive>>

TooEarly ==
  /\ is_first_pkt = 1
  /\ ~Longer(tv_monitor_timeout, MONITOR_TIMEOUT)
  /\ UNCHANGED <<monitor, alive, reporting, sent>>

Late == {n \in valid \cap Monitored : Longer(tv_node[n], NO_PKT_TIMEOUT)}

Check ==
  /\ is_first_pkt = 1
  /\ Longer(tv_monitor_timeout, MONITOR_TIMEOUT)
  /\ tv_monitor_timeout' = Clock
  /\ online' = IF Late = {} THEN online ELSE [online EXCEPT ![Min(Late)] = 1]
  /\ report_tv' = IF Late = {} /\ Longer(report_tv, REPORT_INTERVAL)
                  THEN Clock ELSE report_tv
  /\ UNCHANGED <<is_first_pkt, valid, tv_node, alive, reporting, sent>>

state_monitor_timeout == FirstCall \/ TooEarly \/ Check

(* The mutant: main() gets the u16 that time_handle has, for which
   ret == -1 is never true. *)
time_handle_is_minus_1_u16 == FALSE

(* What main() gets is what the last function called by time_handle left in
   the return register.  Only state_monitor_timeout leaves a -1 there, when
   it has found a node late. *)
time_handle_is_minus_1 ==
  /\ G_STATE = "NW_RUNNING_S"
  /\ is_first_pkt = 1
  /\ Longer(tv_monitor_timeout, MONITOR_TIMEOUT)
  /\ Late # {}

TimeHandle ==
  /\ pc = "timer" /\ returned = "no"
  /\ polled' = now
  /\ IF G_STATE = "NW_RUNNING_S"
     THEN /\ state_monitor_timeout
          /\ G_STATE' = G_STATE
     ELSE /\ G_STATE' = IF G_STATE = "CONF_VERIFY_S" THEN "SYNC_INIT_S" ELSE G_STATE
          /\ UNCHANGED <<monitor, network>>
  /\ IF time_handle_is_minus_1
     THEN returned' = "node offline" /\ UNCHANGED pc
     ELSE pc' = "receive" /\ UNCHANGED returned
  /\ UNCHANGED <<flags, up, now, back>>

---------------------------------------------------------------------------
(* The network and the wall clock. *)

Running == is_first_pkt = 1 /\ returned = "no"

Arrive(pkt) == Len(up) < Backlog /\ up' = Append(up, pkt)

Report(n) ==
  /\ Running
  /\ n \in alive \cap reporting
  /\ sent[n] < now
  /\ Arrive([sub_type |-> 1, imac |-> n, at |-> now])
  /\ sent' = [sent EXCEPT ![n] = now]
  /\ UNCHANGED <<loop, flags, monitor, time, alive, reporting>>

OtherPacket ==
  /\ Running
  /\ up = <<>>
  /\ \E pkt \in [sub_type : {0, 5}] \cup
                [sub_type : {1}, imac : Strangers, at : {now}] : Arrive(pkt)
  /\ UNCHANGED <<loop, flags, monitor, time, network>>

Fail(n) ==
  /\ Running
  /\ n \in alive
  /\ alive' = alive \ {n}
  /\ UNCHANGED <<loop, flags, monitor, up, time, reporting, sent>>

SetBack ==
  /\ Running
  /\ back < MaxBack
  /\ back' = back + 1
  /\ UNCHANGED <<loop, flags, monitor, up, now, polled, network>>

(* Time passes while the loop keeps up and the nodes that work report. *)
Tick ==
  /\ Running
  /\ now < MaxClock
  /\ now - polled < MaxStep
  /\ \A n \in alive \cap reporting : now - sent[n] < Gap
  /\ \A i \in DOMAIN up : up[i].sub_type = 1 => now - up[i].at < MaxWait
  /\ now' = now + 1
  /\ UNCHANGED <<loop, flags, monitor, up, back, polled, network>>

Main == NetInit \/ BasicCfg \/ LocalCfg \/ RemoteCfg \/ NoHandler \/ SyncInit
          \/ NetRun \/ NoPacket \/ TimeHandle

Next == \/ Main
        \/ \E n \in Nodes : Report(n) \/ Fail(n)
        \/ OtherPacket \/ SetBack \/ Tick

Spec == Init /\ [][Next]_vars /\ WF_vars(Main)

---------------------------------------------------------------------------
(* Properties. *)

(* The variables have the values main.c and state_monitor.c give them. *)
TypeOK ==
  /\ G_STATE \in State
  /\ returned \in {"no", "error", "node offline"}
  /\ pc \in {"net_init", "receive", "timer"}
  /\ local_cfg_flag \in 0 .. 1 /\ cfg_varify_flag \in 0 .. 1
  /\ is_first_pkt \in 0 .. 1 /\ valid \subseteq Nodes
  /\ online \in [Nodes -> 0 .. 1]
  /\ tv_node \in [Nodes -> Int] /\ tv_monitor_timeout \in Int /\ report_tv \in Int
  /\ up \in Seq(Packet)
  /\ now \in 0 .. MaxClock /\ back \in 0 .. MaxBack /\ polled \in 0 .. MaxClock
  /\ alive \subseteq Nodes /\ reporting \subseteq Nodes
  /\ sent \in [Nodes -> 0 .. MaxClock]

(* A monitored node that falls silent, or never reports because the write
   that tells it to was lost, ends the program within two periods and what
   the loop takes; setting the clock back delays this by no more than that.
   A check that comes just before the timeout finds nothing, and the next
   one comes a whole MONITOR_TIMEOUT later.  That the program ends at all
   rests on the -1 of the monitor getting through time_handle. *)
SilentIsFound ==
  Running => \A n \in valid \cap Monitored :
    now - sent[n] <= NO_PKT_TIMEOUT + MONITOR_TIMEOUT + MaxStep + MaxWait + back

(* As long as nobody sets the clock back, the program never ends because of
   a node that works and was told to report. *)
AliveIsKept ==
  returned = "node offline" /\ back = 0 =>
    \A n \in alive \cap reporting : online[n] = 0

(* state_monitor.h line 20 says there are at most MAX_NODE_NUM chips, and
   state_monitor checks the imac for that, so no packet writes anything but
   tv_node: report_tv is the monitor's alone. *)
ReportTimeIsTheMonitors == [][pc = "receive" => UNCHANGED report_tv]_vars
=============================================================================
