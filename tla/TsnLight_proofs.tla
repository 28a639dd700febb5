--------------------------- MODULE TsnLight_proofs ---------------------------
(***************************************************************************)
(* Proofs about TsnLight, for any topology and any times that let a node   *)
(* that works be heard before the timeout.                                 *)
(***************************************************************************)
EXTENDS TsnLight, Lemmas, TLAPS

IsBeaconOf(pkt, n) == pkt.sub_type = 1 /\ pkt.imac = n

(* The inductive invariant.  That a silent node is found needs what the last
   check has established (Checked), which rests on a node being heard only
   soon after it reported (HeardIsSent).  That a working node is kept needs
   that it was heard after its last report, or else a beacon of it waits that
   it sent at most a Gap after it was heard (Heard). *)
Phases == /\ is_first_pkt = 1 => G_STATE = "NW_RUNNING_S" /\ pc # "net_init"
          /\ is_first_pkt = 0 => up = <<>> /\ valid = {} /\ reporting = {}
LoopKeepsUp == polled <= now /\ now - polled <= MaxStep
InThePast == /\ \A n \in Nodes : sent[n] <= now /\ tv_node[n] <= now
             /\ \A i \in DOMAIN up : up[i].sub_type = 1 =>
                  /\ up[i].at <= now
                  /\ now - up[i].at <= MaxWait
                  /\ up[i].imac \in Nodes => up[i].at <= sent[up[i].imac]
NodesKeepUp == \A n \in alive \cap reporting : now - sent[n] <= Gap
HeardIsSent == \A n \in valid \cap Monitored : tv_node[n] <= sent[n] + MaxWait
Checked ==
  Running => /\ polled - back - tv_monitor_timeout <= MONITOR_TIMEOUT
             /\ \A n \in valid \cap Monitored :
                  tv_monitor_timeout <= NO_PKT_TIMEOUT + sent[n] + MaxWait
Heard ==
  back = 0 => \A n \in alive \cap reporting :
    \/ tv_node[n] >= sent[n]
    \/ \E i \in DOMAIN up : IsBeaconOf(up[i], n) /\ tv_node[n] >= up[i].at - Gap

NobodyOffline == returned = "no" => \A n \in Nodes : online[n] = 0

IInv ==
  /\ TypeOK
  /\ Phases
  /\ LoopKeepsUp
  /\ InThePast
  /\ NodesKeepUp
  /\ HeardIsSent
  /\ Checked
  /\ Heard
  /\ NobodyOffline
  /\ AliveIsKept

-----------------------------------------------------------------------------

LEMMA MinOfNaturals ==
  ASSUME NEW S \in SUBSET Nat, S # {}
  PROVE  Min(S) \in S
BY LeastNatural DEF Min

LEMMA PacketFields ==
  ASSUME NEW pkt \in Packet
  PROVE  /\ pkt.sub_type \in {0, 1, 5}
         /\ pkt.sub_type = 1 => /\ pkt.imac \in Nodes \cup Strangers
                                /\ pkt.at \in 0 .. MaxClock
BY DEF Packet

LEMMA NodesAreNaturals ==
  /\ Nodes \subseteq Nat
  /\ Monitored \subseteq Nodes
  /\ \A n \in Nodes : n < MAX_NODE_NUM
  /\ \A n \in Strangers : n \in Nat /\ n \notin Nodes
  /\ MAX_NODE_NUM \in Nat
BY TsnLightAssumption DEF Monitored

LEMMA Parameters ==
  /\ MONITOR_TIMEOUT \in Nat /\ NO_PKT_TIMEOUT \in Nat
  /\ Gap \in Nat /\ MaxStep \in Nat /\ MaxWait \in Nat
  /\ MaxBack \in Nat /\ MaxClock \in Nat
  /\ Gap + MaxWait <= NO_PKT_TIMEOUT
BY TsnLightAssumption

LEMMA Numbers ==
  ASSUME TypeOK
  PROVE  /\ now \in 0 .. MaxClock /\ back \in 0 .. MaxBack /\ polled \in 0 .. MaxClock
         /\ tv_monitor_timeout \in Int
         /\ \A n \in Nodes : tv_node[n] \in Int /\ sent[n] \in 0 .. MaxClock
BY DEF TypeOK

LEMMA Tables ==
  ASSUME TypeOK
  PROVE  /\ tv_node \in [Nodes -> Int]
         /\ sent \in [Nodes -> 0 .. MaxClock]
         /\ online \in [Nodes -> 0 .. 1]
BY DEF TypeOK

LEMMA Packets ==
  ASSUME TypeOK
  PROVE  /\ up \in Seq(Packet) /\ Len(up) \in Nat /\ DOMAIN up = 1 .. Len(up)
         /\ \A i \in DOMAIN up : up[i] \in Packet
         /\ \A i \in DOMAIN up : up[i].sub_type = 1 => up[i].at \in 0 .. MaxClock
<1>1. up \in Seq(Packet)
  BY DEF TypeOK
<1>2. Len(up) \in Nat /\ DOMAIN up = 1 .. Len(up)
  BY <1>1, LenProperties
<1>3. \A i \in DOMAIN up : up[i] \in Packet
  BY <1>1, <1>2, ElementOfSeq
<1> QED
  BY <1>1, <1>2, <1>3, PacketFields

-----------------------------------------------------------------------------

LEMMA InitIInv == Init => IInv
<1> SUFFICES ASSUME Init PROVE IInv
  OBVIOUS
<1>1. up \in Seq(Packet) /\ DOMAIN up = {}
  BY DEF Init
<1>2. MaxClock \in Nat /\ MaxBack \in Nat /\ MaxStep \in Nat /\ MaxWait \in Nat
  BY TsnLightAssumption
<1>3. TypeOK
  BY <1>1, <1>2 DEF Init, TypeOK, State
<1>4. LoopKeepsUp /\ InThePast
  BY <1>1, <1>2 DEF Init, LoopKeepsUp, InThePast
<1> QED
  BY <1>3, <1>4 DEF Init, IInv, Phases, NodesKeepUp, HeardIsSent, Checked, Running, Heard,
                    NobodyOffline, AliveIsKept

(* A step of main() that touches neither the monitor nor the packets. *)
LEMMA HandlerStep ==
  ASSUME IInv, UNCHANGED <<flags, monitor, up, time, network>>,
         G_STATE' \in State, pc' \in {"receive", "timer"},
         is_first_pkt = 1 => G_STATE' = G_STATE,
         returned' = returned \/ (returned = "no" /\ returned' = "error")
  PROVE  IInv'
<1> USE DEF flags, monitor, time, network
<1>1. TypeOK'
  BY DEF IInv, TypeOK
<1>2. Phases' /\ LoopKeepsUp' /\ NodesKeepUp' /\ HeardIsSent'
  BY DEF IInv, Phases, LoopKeepsUp, NodesKeepUp, HeardIsSent
<1>3. InThePast'
  BY DEF IInv, InThePast
<1>4. Checked'
  BY DEF IInv, Checked, Running
<1>5. Heard'
  BY DEF IInv, Heard
<1>6. NobodyOffline' /\ AliveIsKept'
  BY DEF IInv, NobodyOffline, AliveIsKept
<1> QED
  BY <1>1, <1>2, <1>3, <1>4, <1>5, <1>6 DEF IInv

LEMMA HandlersIInv ==
  ASSUME IInv, NetInit \/ BasicCfg \/ LocalCfg \/ RemoteCfg \/ NoHandler \/ SyncInit \/ NoPacket
  PROVE  IInv'
<1>1. UNCHANGED <<flags, monitor, up, time, network>>
  BY DEF NetInit, BasicCfg, LocalCfg, RemoteCfg, NoHandler, SyncInit, NoPacket
<1>2. pc \in {"net_init", "receive", "timer"} /\ G_STATE \in State
  BY DEF IInv, TypeOK
<1>3. G_STATE' \in State /\ pc' \in {"receive", "timer"}
  BY <1>2 DEF NetInit, BasicCfg, LocalCfg, RemoteCfg, NoHandler, SyncInit, NoPacket,
              Handler, Goto, Exit, State
<1>4. is_first_pkt = 1 => G_STATE' = G_STATE
  BY DEF IInv, Phases, NetInit, BasicCfg, LocalCfg, RemoteCfg, NoHandler, SyncInit, NoPacket,
         Handler, Goto, Exit
<1>5. returned' = returned \/ (returned = "no" /\ returned' = "error")
  BY DEF NetInit, BasicCfg, LocalCfg, RemoteCfg, NoHandler, SyncInit, NoPacket,
         Handler, Goto, Exit
<1> QED
  BY <1>1, <1>3, <1>4, <1>5, HandlerStep

-----------------------------------------------------------------------------

(* The steps of the network and of the wall clock. *)

LEMMA FailIInv == \A n \in Nodes : IInv /\ Fail(n) => IInv'
<1> SUFFICES ASSUME NEW n \in Nodes, IInv, Fail(n) PROVE IInv'
  OBVIOUS
<1>1. /\ alive' = alive \ {n}
      /\ UNCHANGED <<loop, flags, monitor, up, time, reporting, sent>>
  BY DEF Fail
<1> USE <1>1 DEF loop, flags, monitor, time
<1>2. TypeOK'
  BY DEF IInv, TypeOK
<1>3. Phases' /\ LoopKeepsUp' /\ InThePast'
  BY DEF IInv, Phases, LoopKeepsUp, InThePast
<1>4. NodesKeepUp' /\ HeardIsSent' /\ Checked'
  BY DEF IInv, NodesKeepUp, HeardIsSent, Checked, Running
<1>5. Heard'
  BY DEF IInv, Heard
<1>6. NobodyOffline' /\ AliveIsKept'
  BY DEF IInv, NobodyOffline, AliveIsKept
<1> QED
  BY <1>2, <1>3, <1>4, <1>5, <1>6 DEF IInv

LEMMA SetBackIInv == IInv /\ SetBack => IInv'
<1> SUFFICES ASSUME IInv, SetBack PROVE IInv'
  OBVIOUS
<1>1. /\ back < MaxBack /\ back' = back + 1
      /\ UNCHANGED <<loop, flags, monitor, up, now, polled, network>>
  BY DEF SetBack
<1>2. TypeOK
  BY DEF IInv
<1>3. back \in Nat /\ back' \in 0 .. MaxBack /\ back' # 0
  BY <1>1, <1>2, Numbers, Parameters
<1> USE DEF loop, flags, monitor, network
<1>4. TypeOK'
  BY <1>1, <1>2, <1>3 DEF TypeOK
<1>5. Phases' /\ LoopKeepsUp' /\ InThePast'
  BY <1>1 DEF IInv, Phases, LoopKeepsUp, InThePast
<1>6. NodesKeepUp' /\ HeardIsSent'
  BY <1>1 DEF IInv, NodesKeepUp, HeardIsSent
<1>7. Checked'
  <2>1. polled - back - tv_monitor_timeout <= MONITOR_TIMEOUT
          => polled - back' - tv_monitor_timeout <= MONITOR_TIMEOUT
    BY <1>1, <1>2, Numbers, Parameters
  <2> QED
    BY <1>1, <2>1 DEF IInv, Checked, Running
<1>8. Heard' /\ AliveIsKept'
  BY <1>3 DEF Heard, AliveIsKept
<1>9. NobodyOffline'
  BY <1>1 DEF IInv, NobodyOffline
<1> QED
  BY <1>4, <1>5, <1>6, <1>7, <1>8, <1>9 DEF IInv

LEMMA TickIInv == IInv /\ Tick => IInv'
<1> SUFFICES ASSUME IInv, Tick PROVE IInv'
  OBVIOUS
<1>1. /\ now < MaxClock /\ now' = now + 1
      /\ now - polled < MaxStep
      /\ UNCHANGED <<loop, flags, monitor, up, back, polled, network>>
  BY DEF Tick
<1>2. \A n \in alive \cap reporting : now - sent[n] < Gap
  BY DEF Tick
<1>3. \A i \in DOMAIN up : up[i].sub_type = 1 => now - up[i].at < MaxWait
  BY DEF Tick
<1>4. TypeOK
  BY DEF IInv
<1>5. now \in Nat /\ now' \in 0 .. MaxClock /\ polled \in Nat /\ now' = now + 1
  BY <1>1, <1>4, Numbers, Parameters
<1>6. \A i \in DOMAIN up : up[i].sub_type = 1 => up[i].at \in Nat
  BY <1>4, Packets, Parameters
<1> USE DEF loop, flags, monitor, network
<1>7. TypeOK'
  BY <1>1, <1>4, <1>5 DEF TypeOK
<1>8. LoopKeepsUp'
  BY <1>1, <1>5, Parameters DEF IInv, LoopKeepsUp
<1>9. InThePast'
  <2>1. \A n \in Nodes : sent[n] <= now' /\ tv_node[n] <= now'
    BY <1>4, <1>5, Numbers, Parameters DEF IInv, InThePast
  <2>2. ASSUME NEW i \in DOMAIN up, up[i].sub_type = 1
        PROVE  /\ up[i].at <= now'
               /\ now' - up[i].at <= MaxWait
               /\ up[i].imac \in Nodes => up[i].at <= sent[up[i].imac]
    BY <1>3, <1>5, <1>6, <2>2, Parameters DEF IInv, InThePast
  <2> QED
    BY <1>1, <2>1, <2>2 DEF InThePast
<1>10. NodesKeepUp'
  <2>1. ASSUME NEW n \in alive \cap reporting PROVE now' - sent[n] <= Gap
    <3>1. n \in Nodes
      BY <1>4 DEF TypeOK
    <3> QED
      BY <1>2, <1>4, <1>5, <3>1, Numbers, Parameters
  <2> QED
    BY <1>1, <2>1 DEF NodesKeepUp
<1>11. Phases' /\ HeardIsSent' /\ Checked'
  BY <1>1 DEF IInv, Phases, HeardIsSent, Checked, Running
<1>12. Heard'
  BY <1>1 DEF IInv, Heard
<1>13. NobodyOffline' /\ AliveIsKept'
  BY <1>1 DEF IInv, NobodyOffline, AliveIsKept
<1> QED
  BY <1>7, <1>8, <1>9, <1>10, <1>11, <1>12, <1>13 DEF IInv

LEMMA Arrival ==
  ASSUME TypeOK, NEW pkt \in Packet, up' = Append(up, pkt)
  PROVE  /\ up' \in Seq(Packet)
         /\ DOMAIN up \subseteq DOMAIN up'
         /\ \A i \in DOMAIN up : up'[i] = up[i]
         /\ \E k \in DOMAIN up' : up'[k] = pkt /\ DOMAIN up' \subseteq DOMAIN up \cup {k}
<1>1. /\ up' \in Seq(Packet) /\ Len(up') = Len(up) + 1
      /\ \A i \in 1 .. Len(up) : up'[i] = up[i]
      /\ up'[Len(up) + 1] = pkt
      /\ DOMAIN up' = 1 .. Len(up')
  BY Packets, AppendProperties, LenProperties
<1>2. Len(up) + 1 \in DOMAIN up' /\ DOMAIN up' \subseteq DOMAIN up \cup {Len(up) + 1}
  BY <1>1, Packets
<1> QED
  BY <1>1, <1>2, Packets

LEMMA Departure ==
  ASSUME TypeOK, up # <<>>, up' = Tail(up)
  PROVE  /\ up' \in Seq(Packet)
         /\ 1 \in DOMAIN up /\ Head(up) = up[1]
         /\ \A i \in DOMAIN up' : i + 1 \in DOMAIN up /\ up'[i] = up[i + 1]
         /\ \A i \in DOMAIN up : i = 1 \/ \E k \in DOMAIN up' : up'[k] = up[i]
<1>1. /\ up' \in Seq(Packet) /\ Len(up') = Len(up) - 1
      /\ \A i \in 1 .. Len(up') : up'[i] = up[i + 1]
      /\ DOMAIN up' = 1 .. Len(up')
      /\ Len(up) > 0
      /\ Head(up) = up[1]
  BY Packets, HeadTailProperties, LenProperties, EmptySeq
<1>2. ASSUME NEW i \in DOMAIN up, i # 1
      PROVE  i - 1 \in DOMAIN up' /\ up'[i - 1] = up[i]
  BY <1>1, <1>2, Packets
<1>3. \A i \in DOMAIN up' : i + 1 \in DOMAIN up /\ up'[i] = up[i + 1]
  BY <1>1, Packets
<1>4. 1 \in DOMAIN up
  BY <1>1, Packets
<1>5. \A i \in DOMAIN up : i = 1 \/ \E k \in DOMAIN up' : up'[k] = up[i]
  BY <1>2
<1> QED
  BY <1>1, <1>3, <1>4, <1>5

(* A packet that is captured leaves what is known of the other packets. *)
LEMMA ReportIInv == \A n \in Nodes : IInv /\ Report(n) => IInv'
<1> SUFFICES ASSUME NEW n \in Nodes, IInv, Report(n) PROVE IInv'
  OBVIOUS
<1> DEFINE pkt == [sub_type |-> 1, imac |-> n, at |-> now]
<1>1. /\ Running
      /\ n \in alive \cap reporting
      /\ sent[n] < now
      /\ up' = Append(up, pkt)
      /\ sent' = [sent EXCEPT ![n] = now]
      /\ UNCHANGED <<loop, flags, monitor, time, alive, reporting>>
  BY DEF Report, Arrive
<1>2. TypeOK
  BY DEF IInv
<1>3. pkt \in Packet
  BY <1>2, Numbers DEF Packet
<1>4. pkt.sub_type = 1 /\ pkt.imac = n /\ pkt.at = now
  OBVIOUS
<1> HIDE DEF pkt
<1>5. PICK k \in DOMAIN up' : up'[k] = pkt /\ DOMAIN up' \subseteq DOMAIN up \cup {k}
  BY <1>1, <1>2, <1>3, Arrival
<1>6. /\ up' \in Seq(Packet)
      /\ DOMAIN up \subseteq DOMAIN up'
      /\ \A i \in DOMAIN up : up'[i] = up[i]
  BY <1>1, <1>2, <1>3, Arrival
<1>7. /\ \A m \in Nodes : sent'[m] = IF m = n THEN now ELSE sent[m]
      /\ \A m \in Nodes : sent[m] <= sent'[m] /\ sent'[m] \in 0 .. MaxClock
  <2>1. \A m \in Nodes : sent'[m] = IF m = n THEN now ELSE sent[m]
    BY <1>1, <1>2, Tables
  <2> QED
    BY <1>1, <1>2, <2>1, Numbers, Parameters
<1> USE DEF loop, flags, monitor, time
<1>8. TypeOK'
  <2>1. sent' \in [Nodes -> 0 .. MaxClock]
    BY <1>1, <1>2, Numbers, Tables
  <2> QED
    BY <1>1, <1>2, <1>6, <2>1 DEF TypeOK
<1>9. Phases' /\ LoopKeepsUp'
  BY <1>1 DEF IInv, Phases, LoopKeepsUp, Running
<1>10. InThePast'
  <2>1. \A m \in Nodes : sent'[m] <= now /\ tv_node[m] <= now
    BY <1>2, <1>7, Numbers DEF IInv, InThePast
  <2>2. ASSUME NEW i \in DOMAIN up', up'[i].sub_type = 1
        PROVE  /\ up'[i].at <= now
               /\ now - up'[i].at <= MaxWait
               /\ up'[i].imac \in Nodes => up'[i].at <= sent'[up'[i].imac]
    <3>1. CASE up'[i] = pkt
      BY <1>2, <1>4, <1>7, <3>1, Numbers, Parameters
    <3>2. CASE i \in DOMAIN up /\ up'[i] = up[i]
      <4>1. /\ up[i].at <= now /\ now - up[i].at <= MaxWait
            /\ up[i].imac \in Nodes => up[i].at <= sent[up[i].imac]
        BY <2>2, <3>2 DEF IInv, InThePast
      <4>2. up[i].at \in Int
        BY <1>2, <2>2, <3>2, Packets
      <4> QED
        BY <1>2, <1>7, <3>2, <4>1, <4>2, Numbers
    <3> QED
      BY <1>5, <1>6, <3>1, <3>2
  <2> QED
    BY <1>1, <2>1, <2>2 DEF InThePast
<1>11. NodesKeepUp'
  <2>1. ASSUME NEW m \in alive \cap reporting PROVE now - sent'[m] <= Gap
    <3>1. m \in Nodes
      BY <1>2 DEF TypeOK
    <3>2. now - sent[m] <= Gap
      BY DEF IInv, NodesKeepUp
    <3> QED
      BY <1>2, <1>7, <3>1, <3>2, Numbers, Parameters
  <2> QED
    BY <1>1, <2>1 DEF NodesKeepUp
<1>12. HeardIsSent'
  <2>1. ASSUME NEW m \in valid \cap Monitored PROVE tv_node[m] <= sent'[m] + MaxWait
    <3>1. m \in Nodes
      BY NodesAreNaturals
    <3>2. tv_node[m] <= sent[m] + MaxWait
      BY DEF IInv, HeardIsSent
    <3> QED
      BY <1>2, <1>7, <3>1, <3>2, Numbers, Parameters
  <2> QED
    BY <1>1, <2>1 DEF HeardIsSent
<1>13. Checked'
  <2>1. ASSUME NEW m \in valid \cap Monitored
        PROVE  tv_monitor_timeout <= NO_PKT_TIMEOUT + sent'[m] + MaxWait
    <3>1. m \in Nodes
      BY NodesAreNaturals
    <3>2. tv_monitor_timeout <= NO_PKT_TIMEOUT + sent[m] + MaxWait
      BY <1>1 DEF IInv, Checked
    <3> QED
      BY <1>2, <1>7, <3>1, <3>2, Numbers, Parameters
  <2> QED
    BY <1>1, <2>1 DEF IInv, Checked
<1>14. Heard'
  <2> SUFFICES ASSUME back = 0, NEW m \in alive \cap reporting
               PROVE  \/ tv_node[m] >= sent'[m]
                      \/ \E i \in DOMAIN up' : /\ IsBeaconOf(up'[i], m)
                                               /\ tv_node[m] >= up'[i].at - Gap
    BY <1>1 DEF Heard, IsBeaconOf
  <2>1. m \in Nodes
    BY <1>2 DEF TypeOK
  <2>2. CASE tv_node[m] >= sent[m] /\ m = n
    <3>1. now - sent[m] <= Gap
      BY DEF IInv, NodesKeepUp
    <3>2. tv_node[m] >= now - Gap
      BY <1>2, <2>1, <2>2, <3>1, Numbers, Parameters
    <3> QED
      BY <1>4, <1>5, <2>2, <3>2 DEF IsBeaconOf
  <2>3. CASE tv_node[m] >= sent[m] /\ m # n
    BY <1>7, <2>1, <2>3
  <2>4. ASSUME NEW i \in DOMAIN up, IsBeaconOf(up[i], m), tv_node[m] >= up[i].at - Gap
        PROVE  \E j \in DOMAIN up' : IsBeaconOf(up'[j], m) /\ tv_node[m] >= up'[j].at - Gap
    BY <1>6, <2>4
  <2>5. \/ tv_node[m] >= sent[m]
        \/ \E i \in DOMAIN up : IsBeaconOf(up[i], m) /\ tv_node[m] >= up[i].at - Gap
    BY DEF IInv, Heard
  <2> QED
    BY <2>2, <2>3, <2>4, <2>5
<1>15. NobodyOffline' /\ AliveIsKept'
  BY <1>1 DEF IInv, NobodyOffline, AliveIsKept
<1> QED
  BY <1>8, <1>9, <1>10, <1>11, <1>12, <1>13, <1>14, <1>15 DEF IInv

LEMMA OtherPacketIInv == IInv /\ OtherPacket => IInv'
<1> SUFFICES ASSUME IInv, OtherPacket PROVE IInv'
  OBVIOUS
<1>1. PICK pkt \in [sub_type : {0, 5}] \cup
                   [sub_type : {1}, imac : Strangers, at : {now}] : up' = Append(up, pkt)
  BY DEF OtherPacket, Arrive
<1>2. /\ Running /\ up = <<>>
      /\ UNCHANGED <<loop, flags, monitor, time, network>>
  BY DEF OtherPacket
<1>3. TypeOK
  BY DEF IInv
<1>4. /\ pkt \in Packet
      /\ pkt.sub_type = 1 => pkt.imac \in Strangers /\ pkt.at = now
  BY <1>1, <1>3, Numbers DEF Packet
<1>5. DOMAIN up = {}
  BY <1>2
<1>6. up' \in Seq(Packet) /\ \A i \in DOMAIN up' : up'[i] = pkt
  BY <1>1, <1>3, <1>4, <1>5, Arrival
<1> USE DEF loop, flags, monitor, time, network
<1>7. TypeOK'
  BY <1>2, <1>3, <1>6 DEF TypeOK
<1>8. InThePast'
  <2>1. now - now <= MaxWait /\ now <= now
    BY <1>3, Numbers, Parameters
  <2> QED
    BY <1>2, <1>4, <1>6, <2>1, NodesAreNaturals DEF IInv, InThePast
<1>9. Heard'
  BY <1>2, <1>5 DEF IInv, Heard
<1>10. Phases' /\ LoopKeepsUp' /\ NodesKeepUp' /\ HeardIsSent' /\ Checked'
  BY <1>2 DEF IInv, Phases, LoopKeepsUp, NodesKeepUp, HeardIsSent, Checked, Running
<1>11. NobodyOffline' /\ AliveIsKept'
  BY <1>2 DEF IInv, NobodyOffline, AliveIsKept
<1> QED
  BY <1>7, <1>8, <1>9, <1>10, <1>11 DEF IInv

-----------------------------------------------------------------------------

(* The packet net_run takes is a beacon of a node, whose entry of tv_node it
   renews, or it is none and leaves tv_node. *)
LEMMA NetRunHears ==
  ASSUME IInv, NetRun
  PROVE  \/ /\ up[1].sub_type = 1 /\ up[1].imac \in Nodes
            /\ tv_node' = [n \in Nodes |-> IF n = up[1].imac THEN Clock ELSE tv_node[n]]
         \/ /\ ~(up[1].sub_type = 1 /\ up[1].imac \in Nodes)
            /\ UNCHANGED tv_node
<1>1. TypeOK /\ up # <<>> /\ up' = Tail(up)
  BY DEF IInv, NetRun
<1>2. 1 \in DOMAIN up /\ Head(up) = up[1]
  BY <1>1, Departure
<1>3. up[1] \in Packet
  BY <1>1, <1>2, Packets
<1>4. CASE up[1].sub_type = 1
  <2>1. state_monitor(up[1])
    BY <1>2, <1>4 DEF NetRun
  <2>2. up[1].imac \in Nodes \cup Strangers
    BY <1>3, <1>4, PacketFields
  <2>3. CASE up[1].imac \in Nodes
    <3>1. up[1].imac < MAX_NODE_NUM /\ up[1].imac \in Nat /\ MAX_NODE_NUM \in Nat
      BY <2>3, NodesAreNaturals
    <3> QED
      BY <1>4, <2>1, <2>3, <3>1 DEF state_monitor
  <2>4. CASE up[1].imac \notin Nodes
    <3>1. tv_node = [n \in Nodes |-> tv_node[n]]
      BY <1>1, Tables
    <3>2. UNCHANGED tv_node
      BY <2>1, <2>4, <3>1 DEF state_monitor
    <3> QED
      BY <2>4, <3>2
  <2> QED
    BY <2>3, <2>4
<1>5. CASE up[1].sub_type # 1
  BY <1>2, <1>5 DEF NetRun
<1> QED
  BY <1>4, <1>5

LEMMA NetRunIInv == IInv /\ NetRun => IInv'
<1> SUFFICES ASSUME IInv, NetRun PROVE IInv'
  OBVIOUS
<1>1. TypeOK
  BY DEF IInv
<1>2. /\ up # <<>> /\ up' = Tail(up)
      /\ G_STATE = "NW_RUNNING_S" /\ pc = "receive" /\ returned = "no"
      /\ UNCHANGED <<flags, is_first_pkt, valid, online, tv_monitor_timeout, time, network>>
  BY DEF NetRun, Handler
<1>3. /\ G_STATE' = G_STATE /\ pc' \in {"receive", "timer"}
      /\ returned' \in {"no", "error"}
  BY <1>2 DEF NetRun, Goto, Exit
<1>4. /\ up' \in Seq(Packet)
      /\ 1 \in DOMAIN up
      /\ \A i \in DOMAIN up' : i + 1 \in DOMAIN up /\ up'[i] = up[i + 1]
      /\ \A i \in DOMAIN up : i = 1 \/ \E k \in DOMAIN up' : up'[k] = up[i]
  BY <1>1, <1>2, Departure
<1>5. Clock \in Int /\ Clock <= now
  BY <1>1, Numbers, Parameters DEF Clock
<1>6. tv_node' \in [Nodes -> Int] /\ report_tv' \in Int
  <2>1. tv_node' \in [Nodes -> Int]
    BY <1>1, <1>5, Tables, NetRunHears
  <2>2. report_tv' \in {report_tv, Clock}
    BY DEF NetRun, state_monitor
  <2>3. report_tv \in Int
    BY <1>1 DEF TypeOK
  <2> QED
    BY <1>5, <2>1, <2>2, <2>3
<1>7. ASSUME NEW n \in Nodes
      PROVE  \/ tv_node'[n] = tv_node[n] /\ ~IsBeaconOf(up[1], n)
             \/ tv_node'[n] = Clock /\ IsBeaconOf(up[1], n)
  BY <1>1, Tables, NetRunHears DEF IsBeaconOf
<1> USE DEF loop, flags, time, network
<1>8. TypeOK'
  BY <1>1, <1>2, <1>3, <1>4, <1>6 DEF TypeOK
<1>9. InThePast'
  <2>1. \A n \in Nodes : sent[n] <= now /\ tv_node'[n] <= now
    BY <1>5, <1>7 DEF IInv, InThePast
  <2>2. ASSUME NEW i \in DOMAIN up', up'[i].sub_type = 1
        PROVE  /\ up'[i].at <= now
               /\ now - up'[i].at <= MaxWait
               /\ up'[i].imac \in Nodes => up'[i].at <= sent[up'[i].imac]
    BY <1>4, <2>2 DEF IInv, InThePast
  <2> QED
    BY <1>2, <2>1, <2>2 DEF InThePast
<1>10. HeardIsSent'
  <2>1. ASSUME NEW n \in valid \cap Monitored PROVE tv_node'[n] <= sent[n] + MaxWait
    <3>1. n \in Nodes
      BY NodesAreNaturals
    <3>2. tv_node[n] <= sent[n] + MaxWait
      BY DEF IInv, HeardIsSent
    <3>3. ASSUME IsBeaconOf(up[1], n) PROVE Clock <= sent[n] + MaxWait
      <4>1. now - up[1].at <= MaxWait /\ up[1].at <= sent[n]
        BY <1>4, <3>1, <3>3 DEF IInv, InThePast, IsBeaconOf
      <4>2. up[1].at \in Int
        BY <1>1, <1>4, <3>3, Packets DEF IsBeaconOf
      <4> QED
        BY <1>1, <1>5, <3>1, <4>1, <4>2, Numbers, Parameters
    <3> QED
      BY <1>7, <3>1, <3>2, <3>3
  <2> QED
    BY <1>2, <2>1 DEF HeardIsSent
<1>11. Heard'
  <2> SUFFICES ASSUME back = 0, NEW m \in alive \cap reporting
               PROVE  \/ tv_node'[m] >= sent[m]
                      \/ \E i \in DOMAIN up' : /\ IsBeaconOf(up'[i], m)
                                               /\ tv_node'[m] >= up'[i].at - Gap
    BY <1>2 DEF Heard, IsBeaconOf
  <2>1. m \in Nodes
    BY <1>1 DEF TypeOK
  <2>2. CASE IsBeaconOf(up[1], m)
    <3>1. tv_node'[m] = now
      BY <1>1, <1>7, <2>1, <2>2, Numbers DEF Clock
    <3>2. sent[m] <= now
      BY <2>1 DEF IInv, InThePast
    <3> QED
      BY <1>1, <2>1, <3>1, <3>2, Numbers
  <2>3. CASE ~IsBeaconOf(up[1], m)
    <3>1. tv_node'[m] = tv_node[m]
      BY <1>7, <2>1, <2>3
    <3>2. ASSUME NEW i \in DOMAIN up, IsBeaconOf(up[i], m), tv_node[m] >= up[i].at - Gap
          PROVE  \E j \in DOMAIN up' : IsBeaconOf(up'[j], m) /\ tv_node[m] >= up'[j].at - Gap
      BY <1>4, <2>3, <3>2
    <3>3. \/ tv_node[m] >= sent[m]
          \/ \E i \in DOMAIN up : IsBeaconOf(up[i], m) /\ tv_node[m] >= up[i].at - Gap
      BY DEF IInv, Heard
    <3> QED
      BY <3>1, <3>2, <3>3
  <2> QED
    BY <2>2, <2>3
<1>12. is_first_pkt = 1
  <2>1. is_first_pkt \in 0 .. 1
    BY <1>1 DEF TypeOK
  <2>2. is_first_pkt # 0
    BY <1>2 DEF IInv, Phases
  <2> QED
    BY <2>1, <2>2
<1>13. Phases' /\ LoopKeepsUp' /\ NodesKeepUp' /\ Checked'
  BY <1>2, <1>3, <1>12 DEF IInv, Phases, LoopKeepsUp, NodesKeepUp, Checked, Running
<1>14. NobodyOffline' /\ AliveIsKept'
  BY <1>2, <1>3 DEF IInv, NobodyOffline, AliveIsKept
<1> QED
  BY <1>8, <1>9, <1>10, <1>11, <1>13, <1>14 DEF IInv

-----------------------------------------------------------------------------

(* The steps of time_handle.  A node that works and was told to report is
   not late while nobody sets the clock back. *)
LEMMA AliveIsNotLate ==
  ASSUME IInv, back = 0, NEW n \in alive \cap reporting
  PROVE  n \notin Late
<1>1. TypeOK /\ n \in Nodes
  BY DEF IInv, TypeOK
<1>2. Clock = now
  BY <1>1, Numbers DEF Clock
<1>3. tv_node[n] <= now
  BY <1>1 DEF IInv, InThePast
<1>4. now - tv_node[n] <= NO_PKT_TIMEOUT
  <2>1. CASE tv_node[n] >= sent[n]
    <3>1. now - sent[n] <= Gap
      BY DEF IInv, NodesKeepUp
    <3> QED
      BY <1>1, <2>1, <3>1, Numbers, Parameters
  <2>2. ASSUME NEW i \in DOMAIN up, IsBeaconOf(up[i], n), tv_node[n] >= up[i].at - Gap
        PROVE  now - tv_node[n] <= NO_PKT_TIMEOUT
    <3>1. up[i].sub_type = 1
      BY <2>2 DEF IsBeaconOf
    <3>2. now - up[i].at <= MaxWait
      BY <3>1 DEF IInv, InThePast
    <3>3. up[i].at \in 0 .. MaxClock
      BY <1>1, <3>1, Packets
    <3> QED
      BY <1>1, <2>2, <3>2, <3>3, Numbers, Parameters
  <2> QED
    BY <2>1, <2>2 DEF IInv, Heard
<1>5. ~Longer(tv_node[n], NO_PKT_TIMEOUT)
  BY <1>1, <1>2, <1>3, <1>4, Numbers, Parameters DEF Longer
<1> QED
  BY <1>5 DEF Late

(* The state is not NW_RUNNING_S: only the time is taken. *)
LEMMA OtherTimeIInv ==
  ASSUME IInv, TimeHandle, G_STATE # "NW_RUNNING_S"
  PROVE  IInv'
<1>1. UNCHANGED <<monitor, network>>
  BY DEF TimeHandle
<1>2. /\ polled' = now /\ pc' = "receive"
      /\ UNCHANGED <<flags, returned, up, now, back>>
  BY <1>1 DEF TimeHandle, time_handle_is_minus_1, monitor
<1>3. TypeOK /\ is_first_pkt = 0
  <2>1. TypeOK /\ is_first_pkt # 1
    BY DEF IInv, Phases
  <2>2. is_first_pkt \in 0 .. 1
    BY <2>1 DEF TypeOK
  <2> QED
    BY <2>1, <2>2
<1>4. G_STATE' \in State
  BY <1>3 DEF TimeHandle, TypeOK, State
<1> USE DEF flags, monitor, network
<1>5. TypeOK'
  <2>1. polled' \in 0 .. MaxClock
    BY <1>2, <1>3, Numbers
  <2> QED
    BY <1>1, <1>2, <1>3, <1>4, <2>1 DEF TypeOK
<1>6. LoopKeepsUp'
  BY <1>2, <1>3, Numbers, Parameters DEF LoopKeepsUp
<1>7. Phases' /\ Checked'
  BY <1>1, <1>2, <1>3 DEF IInv, Phases, Checked, Running
<1>8. InThePast' /\ NodesKeepUp' /\ HeardIsSent'
  BY <1>1, <1>2 DEF IInv, InThePast, NodesKeepUp, HeardIsSent
<1>9. Heard'
  BY <1>1, <1>2 DEF IInv, Heard
<1>10. NobodyOffline' /\ AliveIsKept'
  BY <1>1, <1>2 DEF IInv, NobodyOffline, AliveIsKept
<1> QED
  BY <1>5, <1>6, <1>7, <1>8, <1>9, <1>10 DEF IInv

LEMMA FirstCallIInv ==
  ASSUME IInv, TimeHandle, G_STATE = "NW_RUNNING_S", FirstCall
  PROVE  IInv'
<1>1. /\ is_first_pkt = 0 /\ is_first_pkt' = 1
      /\ valid' \subseteq Nodes
      /\ reporting' \subseteq valid' \cap Monitored
      /\ tv_node' = [n \in Nodes |-> IF n \in Monitored THEN Clock ELSE tv_node[n]]
      /\ tv_monitor_timeout' = Clock /\ report_tv' = Clock
      /\ sent' = [n \in Nodes |-> now]
      /\ UNCHANGED <<online, alive>>
  BY DEF FirstCall, parse_topology_info, net_report_cfg
<1>2. /\ polled' = now /\ pc' = "receive"
      /\ UNCHANGED <<flags, G_STATE, returned, up, now, back>>
  BY <1>1 DEF TimeHandle, time_handle_is_minus_1
<1>3. TypeOK /\ DOMAIN up = {}
  BY <1>1 DEF IInv, Phases
<1>4. Clock \in Int /\ Clock <= now /\ Clock = now - back
  BY <1>3, Numbers, Parameters DEF Clock
<1>5. ASSUME NEW n \in Nodes
      PROVE  /\ tv_node'[n] \in Int /\ tv_node'[n] <= now /\ sent'[n] = now
             /\ n \in Monitored => tv_node'[n] = Clock
  BY <1>1, <1>3, <1>4, Numbers DEF IInv, InThePast
<1> USE DEF flags
<1>6. TypeOK'
  <2>1. polled' \in 0 .. MaxClock /\ now \in 0 .. MaxClock
    BY <1>2, <1>3, Numbers
  <2>2. tv_node' \in [Nodes -> Int]
    BY <1>1, <1>5
  <2>3. sent' \in [Nodes -> 0 .. MaxClock]
    BY <1>1, <2>1
  <2> QED
    <3>1. /\ tv_monitor_timeout' \in Int /\ report_tv' \in Int
          /\ is_first_pkt' \in 0 .. 1
          /\ reporting' \subseteq Nodes
      BY <1>1, <1>4, NodesAreNaturals
    <3> QED
      BY <1>1, <1>2, <1>3, <2>1, <2>2, <2>3, <3>1 DEF TypeOK
<1>7. LoopKeepsUp'
  BY <1>2, <1>3, Numbers, Parameters DEF LoopKeepsUp
<1>8. Phases'
  BY <1>1, <1>2 DEF IInv, Phases
<1>9. now <= now /\ now - now <= Gap /\ now \in Int
  BY <1>3, Numbers, Parameters
<1>10. InThePast'
  BY <1>2, <1>3, <1>5, <1>9 DEF InThePast
<1>11. NodesKeepUp'
  BY <1>1, <1>2, <1>5, <1>9, NodesAreNaturals DEF NodesKeepUp
<1>12. HeardIsSent' /\ Checked'
  <2>1. ASSUME NEW n \in Monitored
        PROVE  /\ tv_node'[n] <= sent'[n] + MaxWait
               /\ tv_monitor_timeout' <= NO_PKT_TIMEOUT + sent'[n] + MaxWait
    BY <1>1, <1>4, <1>5, <1>9, NodesAreNaturals, Parameters
  <2>2. polled' - back' - tv_monitor_timeout' <= MONITOR_TIMEOUT
    BY <1>1, <1>2, <1>3, <1>4, Numbers, Parameters
  <2> QED
    BY <2>1, <2>2 DEF HeardIsSent, Checked
<1>13. Heard'
  <2>1. ASSUME back = 0, NEW n \in alive \cap reporting' PROVE tv_node'[n] >= sent'[n]
    <3>1. n \in Monitored /\ n \in Nodes
      BY <1>1, NodesAreNaturals
    <3>2. tv_node'[n] = now /\ sent'[n] = now
      BY <1>4, <1>5, <1>9, <2>1, <3>1
    <3> QED
      BY <1>9, <3>2
  <2> QED
    BY <1>1, <1>2, <2>1 DEF Heard
<1>14. NobodyOffline' /\ AliveIsKept'
  <2>1. returned = "no"
    BY DEF TimeHandle
  <2> QED
    BY <1>1, <1>2, <2>1 DEF IInv, NobodyOffline, AliveIsKept
<1> QED
  BY <1>6, <1>7, <1>8, <1>10, <1>11, <1>12, <1>13, <1>14 DEF IInv

LEMMA TooEarlyIInv ==
  ASSUME IInv, TimeHandle, G_STATE = "NW_RUNNING_S", TooEarly
  PROVE  IInv'
<1>1. /\ is_first_pkt = 1
      /\ ~Longer(tv_monitor_timeout, MONITOR_TIMEOUT)
      /\ UNCHANGED <<monitor, alive, reporting, sent>>
  BY DEF TooEarly
<1>2. /\ polled' = now /\ pc' = "receive"
      /\ UNCHANGED <<flags, G_STATE, returned, up, now, back>>
  BY <1>1 DEF TimeHandle, time_handle_is_minus_1, monitor
<1>3. TypeOK
  BY DEF IInv
<1> USE DEF flags, monitor
<1>4. TypeOK'
  <2>1. polled' \in 0 .. MaxClock
    BY <1>2, <1>3, Numbers
  <2> QED
    BY <1>1, <1>2, <1>3, <2>1 DEF TypeOK
<1>5. LoopKeepsUp'
  BY <1>2, <1>3, Numbers, Parameters DEF LoopKeepsUp
<1>6. Checked'
  <2>1. now - back - tv_monitor_timeout <= MONITOR_TIMEOUT
    BY <1>1, <1>3, Numbers, Parameters DEF Longer, Clock
  <2> QED
    BY <1>1, <1>2, <2>1 DEF IInv, Checked, Running
<1>7. Phases' /\ NodesKeepUp' /\ HeardIsSent'
  BY <1>1, <1>2 DEF IInv, Phases, NodesKeepUp, HeardIsSent
<1>8. InThePast'
  BY <1>1, <1>2 DEF IInv, InThePast
<1>9. Heard'
  BY <1>1, <1>2 DEF IInv, Heard
<1>10. NobodyOffline' /\ AliveIsKept'
  BY <1>1, <1>2 DEF IInv, NobodyOffline, AliveIsKept
<1> QED
  BY <1>4, <1>5, <1>6, <1>7, <1>8, <1>9, <1>10 DEF IInv

(* A check that finds nobody late knows that everybody reported lately; one
   that finds somebody ends the program. *)
LEMMA CheckIInv ==
  ASSUME IInv, TimeHandle, G_STATE = "NW_RUNNING_S", Check
  PROVE  IInv'
<1>1. /\ tv_monitor_timeout' = Clock /\ report_tv' \in {Clock, report_tv}
      /\ is_first_pkt = 1 /\ Longer(tv_monitor_timeout, MONITOR_TIMEOUT)
      /\ online' = IF Late = {} THEN online ELSE [online EXCEPT ![Min(Late)] = 1]
      /\ UNCHANGED <<is_first_pkt, valid, tv_node, alive, reporting, sent>>
  BY DEF Check
<1>2. /\ polled' = now /\ returned = "no"
      /\ UNCHANGED <<flags, G_STATE, up, now, back>>
  BY DEF TimeHandle
<1>3. TypeOK
  BY DEF IInv
<1>4. \A n \in Nodes : online[n] = 0
  BY <1>2, <1>3, Tables DEF IInv, NobodyOffline
<1>5. Clock \in Int /\ Clock = now - back
  BY <1>3, Numbers, Parameters DEF Clock
<1>6. Late \subseteq Nodes /\ Late \in SUBSET Nat
  BY NodesAreNaturals DEF Late
<1>7. CASE Late = {}
  <2>1. online' = online /\ returned' = returned /\ pc' = "receive"
    BY <1>1, <1>7 DEF TimeHandle, time_handle_is_minus_1
  <2>2. ASSUME NEW n \in valid \cap Monitored
        PROVE  Clock <= NO_PKT_TIMEOUT + sent[n] + MaxWait
    <3>1. n \in Nodes
      BY NodesAreNaturals
    <3>2. ~Longer(tv_node[n], NO_PKT_TIMEOUT)
      BY <1>7 DEF Late
    <3>3. tv_node[n] <= sent[n] + MaxWait
      BY DEF IInv, HeardIsSent
    <3>4. Clock - tv_node[n] <= NO_PKT_TIMEOUT
      BY <1>3, <1>5, <3>1, <3>2, Numbers, Parameters DEF Longer
    <3> QED
      BY <1>3, <1>5, <3>1, <3>3, <3>4, Numbers, Parameters
  <2>3. TypeOK'
    <3>1. polled' \in 0 .. MaxClock
      BY <1>2, <1>3, Numbers
    <3> QED
      BY <1>1, <1>2, <1>3, <1>5, <2>1, <3>1 DEF TypeOK, flags
  <2>4. LoopKeepsUp'
    BY <1>2, <1>3, Numbers, Parameters DEF LoopKeepsUp
  <2>5. Checked'
    <3>1. polled' - back' - tv_monitor_timeout' <= MONITOR_TIMEOUT
      BY <1>1, <1>2, <1>3, <1>5, Numbers, Parameters
    <3> QED
      BY <1>1, <2>2, <3>1 DEF Checked
  <2>6. Phases' /\ NodesKeepUp' /\ HeardIsSent'
    BY <1>1, <1>2, <2>1 DEF IInv, Phases, NodesKeepUp, HeardIsSent
  <2>7. InThePast'
    BY <1>1, <1>2 DEF IInv, InThePast
  <2>8. Heard'
    BY <1>1, <1>2 DEF IInv, Heard
  <2>9. NobodyOffline' /\ AliveIsKept'
    BY <1>1, <1>2, <2>1 DEF IInv, NobodyOffline, AliveIsKept
  <2> QED
    BY <2>3, <2>4, <2>5, <2>6, <2>7, <2>8, <2>9 DEF IInv
<1>8. CASE Late # {}
  <2>1. PICK m \in Late : m = Min(Late)
    BY <1>6, <1>8, MinOfNaturals
  <2>2. /\ online' = [online EXCEPT ![m] = 1]
        /\ \A n \in Nodes : online'[n] = IF n = m THEN 1 ELSE 0
    BY <1>1, <1>3, <1>4, <1>8, <2>1, Tables
  <2>3. time_handle_is_minus_1
    BY <1>1, <1>8 DEF time_handle_is_minus_1
  <2>4. returned' = "node offline" /\ pc' = pc
    BY <2>3 DEF TimeHandle
  <2>5. TypeOK'
    <3>1. polled' \in 0 .. MaxClock
      BY <1>2, <1>3, Numbers
    <3>2. online' \in [Nodes -> 0 .. 1]
      <4>1. online \in [Nodes -> 0 .. 1] /\ 1 \in 0 .. 1
        BY <1>3, Tables
      <4> QED
        BY <2>2, <4>1
    <3> QED
      BY <1>1, <1>2, <1>3, <1>5, <2>4, <3>1, <3>2 DEF TypeOK, flags
  <2>6. LoopKeepsUp'
    BY <1>2, <1>3, Numbers, Parameters DEF LoopKeepsUp
  <2>7. Checked'
    BY <2>4 DEF Checked, Running
  <2>8. Phases' /\ NodesKeepUp' /\ HeardIsSent'
    BY <1>1, <1>2, <2>4 DEF IInv, Phases, NodesKeepUp, HeardIsSent
  <2>9. InThePast'
    BY <1>1, <1>2 DEF IInv, InThePast
  <2>10. Heard'
    BY <1>1, <1>2 DEF IInv, Heard
  <2>11. NobodyOffline'
    BY <1>6, <2>1, <2>2, <2>4 DEF NobodyOffline
  <2>12. AliveIsKept'
    <3>1. ASSUME back = 0, NEW n \in alive \cap reporting PROVE online'[n] = 0
      <4>1. n # m
        BY <2>1, <3>1, AliveIsNotLate
      <4>2. n \in Nodes
        BY <1>3 DEF TypeOK
      <4> QED
        BY <2>2, <4>1, <4>2
    <3> QED
      BY <1>1, <1>2, <3>1 DEF AliveIsKept
  <2> QED
    BY <2>5, <2>6, <2>7, <2>8, <2>9, <2>10, <2>11, <2>12 DEF IInv
<1> QED
  BY <1>7, <1>8

-----------------------------------------------------------------------------

LEMMA NextIInv == IInv /\ [Next]_vars => IInv'
<1> SUFFICES ASSUME IInv, [Next]_vars PROVE IInv'
  OBVIOUS
<1>1. CASE TimeHandle
  <2>1. CASE G_STATE # "NW_RUNNING_S"
    BY <1>1, <2>1, OtherTimeIInv
  <2>2. CASE G_STATE = "NW_RUNNING_S"
    <3>1. FirstCall \/ TooEarly \/ Check
      BY <1>1, <2>2 DEF TimeHandle, state_monitor_timeout
    <3> QED
      BY <1>1, <2>2, <3>1, FirstCallIInv, TooEarlyIInv, CheckIInv
  <2> QED
    BY <2>1, <2>2
<1>2. CASE Main /\ ~TimeHandle
  BY <1>2, HandlersIInv, NetRunIInv DEF Main
<1>3. ASSUME NEW n \in Nodes, Report(n) \/ Fail(n) PROVE IInv'
  BY <1>3, ReportIInv, FailIInv
<1>4. CASE OtherPacket \/ SetBack \/ Tick
  BY <1>4, OtherPacketIInv, SetBackIInv, TickIInv
<1>5. CASE UNCHANGED vars
  <2>1. UNCHANGED <<G_STATE, returned, pc, flags, monitor, up, time, network>>
    BY <1>5 DEF vars, loop
  <2> USE <2>1 DEF flags, monitor, time, network
  <2>2. TypeOK'
    BY DEF IInv, TypeOK
  <2>3. Phases' /\ LoopKeepsUp' /\ InThePast' /\ NodesKeepUp'
    BY DEF IInv, Phases, LoopKeepsUp, InThePast, NodesKeepUp
  <2>4. HeardIsSent' /\ Checked'
    BY DEF IInv, HeardIsSent, Checked, Running
  <2>5. Heard'
    BY DEF IInv, Heard
  <2>6. NobodyOffline' /\ AliveIsKept'
    BY DEF IInv, NobodyOffline, AliveIsKept
  <2> QED
    BY <2>2, <2>3, <2>4, <2>5, <2>6 DEF IInv
<1> QED
  BY <1>1, <1>2, <1>3, <1>4, <1>5 DEF Next

LEMMA Invariant == Spec => []IInv
BY InitIInv, NextIInv, PTL DEF Spec

(* The variables keep the values main.c and state_monitor.c give them, with
   packets from anybody. *)
THEOREM TypeCorrect == Spec => []TypeOK
BY Invariant, PTL DEF IInv

(* With timeouts that fit, the monitor never ends the program because of a
   node that works and was told to report, unless somebody sets the clock
   back. *)
THEOREM WorkingNodeIsKept == Spec => []AliveIsKept
BY Invariant, PTL DEF IInv

(* The monitor does not let a node be silent for longer than the silence a
   check lets pass, the time to the next check, and the delays of the loop
   and of the clock. *)
THEOREM SilentNodeIsFound == Spec => []SilentIsFound
<1>1. ASSUME IInv PROVE SilentIsFound
  <2> SUFFICES ASSUME Running, NEW n \in valid \cap Monitored
               PROVE  now - sent[n] <= NO_PKT_TIMEOUT + MONITOR_TIMEOUT + MaxStep + MaxWait + back
    BY DEF SilentIsFound
  <2>1. TypeOK /\ n \in Nodes
    BY <1>1, NodesAreNaturals DEF IInv
  <2>2. polled - back - tv_monitor_timeout <= MONITOR_TIMEOUT
    BY <1>1 DEF IInv, Checked
  <2>3. tv_monitor_timeout <= NO_PKT_TIMEOUT + sent[n] + MaxWait
    BY <1>1 DEF IInv, Checked
  <2>4. now - polled <= MaxStep
    BY <1>1 DEF IInv, LoopKeepsUp
  <2> QED
    BY <2>1, <2>2, <2>3, <2>4, Numbers, Parameters
<1> QED
  BY <1>1, Invariant, PTL

=============================================================================
