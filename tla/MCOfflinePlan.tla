---------------------------- MODULE MCOfflinePlan ----------------------------
(* Two switches and a test node, tables of three entries of which two are
   sent of the short ones, two ports with gates.  The plans name both
   switches, so that one's entries could be taken for the other's, and so
   that a gate table without a port goes to the port of the other; the
   packets give every gate, without which no remote node is ever completed. *)
EXTENDS OfflinePlan

MCChips == {2, 3, 9}
MCIndex == 0 .. 2
MCShortIndex == 0 .. 1
MCPorts == 0 .. 1

Switch(n, registers, forward) ==
  [tag |-> "switch", register |-> <<<<"IMAC", n>>>> \o registers, forward |-> forward]

MCInitDocs == {
  << [tag |-> "tsnlight_info"],
     Switch(3, <<<<"port_num", 4>>, <<"ST_buf_threshold", 200>>>>, << <<0, 4>> >>),
     [tag |-> "test", imac |-> 9],
     Switch(2, <<<<"qbv_or_qch", 1>>, <<"port_type", 1>>, <<"ST_buf_threshold", 30>>>>,
            << <<1, 2>>, <<0, 1>>, <<1, 4>> >>) >>,
  << Switch(2, <<<<"port_num", 1>>>>, <<>>),
     Switch(3, <<<<"ST_buf_threshold", 22>>>>, << <<0, 4>>, <<1, 4>> >>) >> }

Plan(name, entries) == [name |-> name, entries |-> entries]
Gates(p, entries) ==
  [name |-> "gate_control_list_table", port_id |-> p, entries |-> entries]
Slot(slot, a) == [time_slot |-> slot, addr |-> a]

MCPlanDocs == {
  << [imac |-> 3, tables |-> <<Plan("forwarding_table", << <<1, 8>> >>),
                               Gates(1, << <<1, 15>>, <<2, 3>> >>),
                               Plan("pkt_injection_table", << Slot(1, 1) >>),
                               Plan("TX_FL-tag_mapping_table", << <<1, 7>>, <<0, 5>> >>)>>],
     [imac |-> 2, tables |-> <<Plan("pkt_submission_table", << Slot(0, 1), Slot(2, 0) >>),
                               Gates(None, << <<0, 1>>, <<0, 3>> >>),
                               Plan("RX_FL-tag_remapping_table", << <<0, 6>> >>),
                               Plan("forwarding_table", << <<0, 8>> >>),
                               Plan("TX_FL-tag_mapping_table", << <<2, 9>> >>)>>] >>,
  << [imac |-> 2, tables |-> <<>>],
     [imac |-> 3, tables |-> <<Plan("forwarding_table", <<>>),
                               Plan("pkt_injection_table", << Slot(3, 0), Slot(1, 1) >>),
                               Plan("pkt_submission_table", << Slot(1, 0) >>)>>] >> }

Packet(t, entries) == [type |-> t, entries |-> entries]
MCPackets == {
  Packet(FLT, << <<0, 8>> >>), Packet(FLT, << <<1, 16>>, <<1, 2>> >>),
  Packet(TIS, << <<1, 1, 2>> >>),
  Packet(QGC(0), << <<0, 15>>, <<1, 255>>, <<2, 1>> >>),
  Packet(QGC(1), << <<1, 7>>, <<0, 255>> >>),
  Packet(MAP, << <<0, 5>> >>),
  Packet(REG, << <<CHIP_OFFSET_PERIOD_ADDR, 150>>, <<CHIP_PORT_TYPE_ADDR, 1>> >>) }

(* Otherwise PriorityOfThresholds does not hold. *)
ASSUME MCThresholds == ThresholdsFit
=============================================================================
