# OpenTSN 3.2 in TLA+

OpenTSN 3.2 is a time-sensitive network: switches and network cards in Verilog,
and a controller, TSNLight, in C, which configures them, synchronises their
clocks and watches over them. This directory holds TLA+ models of the parts of
it whose correctness depends on the order of events, the TLC configurations
that check them on small instances, and theorems about them checked by TLAPS.

All paths below are relative to `src/`; `code/` stands for
`Software/TSNLight3.2/code/`, `tss/` and `hcp/` for the two halves of
`Hardware/code/TSNSwitch3.2/rtl/`.

## The system

### The controller, `code/`

One process, one thread. `main()` takes a packet at a time from libpcap
(`data_pkt_receive_dispatch_1`, which does not block) and hands it to the
handler of the global state `G_STATE`; after each packet, or without one,
`time_handle` does what the state requires periodically.

| Part | State it keeps | Operations | What makes it correct |
|---|---|---|---|
| `net_init/` | `init_cfg`, the nodes and their registers | parse the XML, initialise the other parts, configure the first node | the first node is configured before `BASIC_CFG_S` |
| `basic_cfg/` | `node_idx`, `basic_cfg_report_num` | `init_cfg_fun` writes registers and forwarding entries and waits for each; `basic_cfg` takes the beacon that ends a node | a node is left only when its configuration is in place, and stops reporting |
| `cnc_api/src/reg_cfg.c` | none | write a block, select the report that shows it, wait for a beacon with it | what was confirmed is in the chip |
| `local_cfg/` | a chip table and two mapping tables that all nodes share | read the local plan table by table, write each as it is read | every chip holds the tables of its own plan (the chip tables are confirmed; the waits for the mapping tables are compiled out) |
| `remote_cfg/` | all tables of the node being planned, two flags | fill the tables from packets, write them when the planner says the node is complete | the same, over all packets for a node; the routes of the initial configuration remain |
| `ptp/` | `sync_seq`, `table`, `consequent_sync` | send a Sync each period, take the stamped replies, compute and write offsets | offsets come from one, the current, round; the network runs only when precise |
| `state_monitor/` | `chip`, `tv_node`, timers | note when a node was heard, give up when one is silent | silent nodes are found within bounds, others never given up |
| `arp_proxy/` | a table read at the start | answer ARP | stateless |
| `main.c` | `G_STATE`, `work_run` | dispatch, timers; what to make of what a handler returns | the monitor's `-1` ends the program, nothing else does unasked |

### The switch, `tss/` and `hcp/`

Synchronous hardware: all registers change at the edge of one clock (the
interfaces and the management half have others, with FIFOs between them).
The management half (`hcp/`) takes the controller's packets, applies their
writes to registers and tables and reports them back in beacons; it also
stamps PTP packets and applies clock offsets. The switching half (`tss/`):

| Part | State it keeps | Operations | What makes it correct |
|---|---|---|---|
| `pkt_centralized_buffer/` | free bufids, the offer to each port, the count per bufid | offer, renew, count down, return | a buffer belongs to one packet until its last port has sent it; none are lost |
| `network_input_process/` | the packet being received | take a bufid, write the packet, send a descriptor | a bufid is taken once |
| `forward_lookup_table/` | the tables | look up output ports, write their number, queue the bufid at each | number and queues agree |
| `network_output_process/` | linked lists of bufids in a RAM, counts, heads and tails, a scheduler | append, schedule, take the head, send, release | first in, first out in each queue, nothing lost or duplicated, no overrun |
| `queue_gate_control/` | time slot, gate vectors | open and close gates | exactly one of two Qch gates open |
| `control_output_process/` | the host's FIFO | send to the host | first in, first out |
| `hcp/configure_state_manage/` | registers, report type | apply writes, report | the report shows what is stored |
| `hcp/ip/afifo*.v` | pointers in Gray code | write in one clock, read in another | neither overrun nor underrun |

The network card (`TSNNic3.2`) is built from copies of the same modules.

### How they interact

The controller and the chips exchange Ethernet packets, which may be lost, and
which the controller reads from a capture buffer, so late. Within a switch the
parts hand each other bufids by a word and a strobe, some with an
acknowledgement; a multicast packet is one bufid in several queues.

Hard to test, and what the models are for: beacons of several nodes and of
earlier questions in one buffer; lost writes that nothing repeats; replies of
earlier synchronisation rounds; tables that are filled in the same variables for
one node after the other; a node that falls silent just before or after a check;
numbers whose lower digit is of base 125 and which are halved as binary ones;
ports that release the same buffer in any
order; list pipelines of different length that meet on one entry in any of a
dozen alignments. The field `hazards` of `PROJECT.json` lists them by line.

## The modules

| Module | Models | Composes |
|---|---|---|
| `PtpSync` | the controller's rounds of synchronisation and the states they lead to | |
| `PtpSync_proofs` | theorems about `PtpSync` | extends `PtpSync`, `TLAPS` |
| `NetConfig` | configuration of all nodes, with the chips' registers, the two directions of packets | controller and chips in one module |
| `NetConfig_proofs` | theorems about `NetConfig` | extends `NetConfig`, `Lemmas`, `TLAPS` |
| `OfflinePlan` | the initial configuration, the local and the remote plan, what each chip holds in the end | controller and chips in one module |
| `OfflinePlan_proofs` | theorems about `OfflinePlan` | extends `OfflinePlan`, `Lemmas`, `TLAPS` |
| `TsnLight` | `main()`, its states and timers, and the state monitor of the running network | the other controller modules, by their outcomes |
| `TsnLight_proofs` | theorems about `TsnLight` | extends `TsnLight`, `Lemmas`, `TLAPS` |
| `PtpTime` | the arithmetic of time stamps and the clocks it corrects | `offset_calu` and a switch's clock |
| `PtpTime_proofs` | theorems about `PtpTime` | extends `PtpTime`, `TLAPS` |
| `SharedBuffer` | abstract: what the buffers promise the ports | |
| `BufferPool` | bufids from the offer through lookup, queues and release | implements `SharedBuffer` |
| `BufferPool_proofs` | theorems about `BufferPool`, and its refinement of `SharedBuffer` | extends `BufferPool`, `Lemmas`, `TLAPS` |
| `OutputQueue` | one output port's lists and scheduler, per clock | |
| `OutputQueue_proofs` | theorems about `OutputQueue` | extends `OutputQueue`, `Lemmas`, `TLAPS` |
| `Lemmas` | what several proofs need of queues without duplicates, indices of a sequence that grows or shrinks, and least numbers | extends `TLAPS` and its theorems |
| `MCPtpSync`, `MCPtpTime`, `MCOfflinePlan`, `MCTsnLight`, `MCBufferPool` | values of the constants for TLC | |

### PtpSync

An action is a call: `sync_period_timeout` sends the next Sync and
`ptp_handle(p)` takes one packet, in the four ways of the code
(`StampedSync`, `StampedRequest`, and both kinds of `LatePacket`). `table`
keeps for each slave the round of its stamps t1/t2 (`ms`) and t3/t4 (`sm`), its
offset, and whether an offset was ever computed to the end (`synced`, in the
code `sync_seq # 0` of its entry). The table has 101 entries, but the check on entry into
`NW_RUNNING_S` looks at the first 50 only: `Checked` are the slaves among these.
`Master` is a node of its own, told with the slaves. `net` holds packets on their way: one that is
never taken is lost, one taken after the next Sync is late. `used` is a history
variable, the rounds behind each offset computed. `exited` stands for the
return of `main`.

The comparison `pkt->sync_seq == sync_seq-1` is all that protects the table;
the properties say that it is enough although two packets contribute to an
offset and late requests still overwrite t3/t4 (`OneRoundPerOffset`), and that no error is
corrected twice, an offset being measured after the earlier ones were sent
(`NoErrorCorrectedTwice`); that the count of replies means what it is meant to mean
(`EnoughRounds`); that the test of the offsets on entry and of each one later
leave no gap but for the slaves of imac 50 and up, which the first does not test
(`RunningIsPrecise`); and that exactly the master and the slaves heard of are told, once
(`FinishedAreSynced`).

`ptp_handle` also notes replies in `get_sync_reply[10]` and `get_req_reply[10]`, by imac,
for its debug output. With ten slaves or more it writes beyond them. What lies there is
up to the build; in the one of the makefile it is nothing that `PtpSync` has, so they
are left out.

### NetConfig

The controller's program counter is `G_STATE`, `node_idx` and `waiting`, the
report type of the confirming wait it is in (`Loop` outside of them). A step
takes one beacon from `up` and, if it confirms, does everything up to the next
wait, in the code's order of writes, which are appended to `down[n]`. A chip
applies one write (`ChipStep`), sends a beacon of its present state
(`Beacon`), or the network loses a write (`LoseWrite`, noted in the history
variable `lost`). Losing beacons needs no action: they come as often as they are enabled to.

Tables are abstracted to the set of pieces in place, and all nodes have the same
contents, the case in which a wait that does not look at the sender errs. The
values of a chip before its configuration are those of its reset.

The two waits compare differently (`Confirms`). The one for a block tests the report type;
the one for the single registers computes it as `high << 8 + low`, which C reads as
`high << (8 + low)`: in 16 bits 0, the type of the registers, for most blocks as well.
`basic_cfg` does not look at the type at all. A block of entries may therefore be
read as registers (`AsRegisters`). It then shows anything in the lower bits, but not the upper
bit of `cfg_finish` or `report_enable`, since entries of routes have nine bits at most.
`basic_cfg` recognises the registers by `slot_len` and `cfg_finish`; if the configured
`slot_len` is what a chip has after its reset (`SlotLenPreset`), this shows nothing of them,
and `BasicInPlace` leaves them out. The runs have it `FALSE`.

### OfflinePlan

`NetConfig` has a few pieces, losses and other nodes' answers; `OfflinePlan` has
the contents, and lets every write arrive. `Init` is the state after `net_init` and
`basic_cfg`: what the parsers of the initial XML make of a sequence of
elements (`parse_init_doc`), and what `init_cfg_fun` writes of it to each switch. Two
oddities are kept: `init_test_fun` takes the imac of the state it writes
from the array of switches (`AfterBasicCfg`), and the write that ends the
reporting of a node is not confirmed, so it may be lost and the node report on
(`report_en` 0 or 1 in `Init`). A chip that is not in the file is as its reset left it, and
reports (`Unconfigured`).

A local plan is read by `parse_offline_plan_node`: an action opens a switch, reads and
writes one table, or closes the switch. The variables are those of the code, shared by
all switches: `chip_cfg_table`, cleared (or set to 255, for gates) before each
table, `map_table` and `remap_table`, of which the `memset` clears one entry, and
`port_id`, which a gate table without a port leaves as it was. `cfg_chip_table` sends all
512 blocks of a forwarding table, and the first 32 blocks, 1024 entries, of any other
(`Sent`); beyond these a chip keeps what it had.

`LocalPlanInForce` says what a chip holds at every index that is sent, for every
table of the plan, also where something of an earlier switch does come through: a gate
table without a port goes to the port of the last gate table before it that named one
(`PortAt`), and an entry that a mapping table neither names nor clears is what the last
table that did gave it (`MappingAt`). Both are defined on the plan alone, by the
places of its tables, not by the variables of the code; so the property also says that
nothing else comes through.

A remote plan is collected by `remote_cfg` from packets, and all tables of a node are
written when a packet says that it completes the node. `RemotePacket` is one
such packet, `WriteRemote` the write of one table with its wait, `FinishRemote` the
rest. Which packets come in which order is open, except that the planner completes a
node before it begins another (`Begun`; the code keeps one set of tables and does
not look). The mapping entries of a remote plan get no address, so they are all written
to address 0; no property claims otherwise.

A write is 32 bits wide, of which a chip keeps 8 to 16 and reports those (`Kept`); a
wait ends when the reported entries equal the written ones (`Confirmed`). This is why
gates must be opened with 255 rather than by filling the memory with ones, and
why a remote node of which not every gate was given is waited for without end.

### TsnLight

The loop of `main()`: a packet or none goes to the handler of `G_STATE`, then
`time_handle` is called. The handlers modelled elsewhere are here by their outcomes, the
states they may go to and the errors on which `main()` returns. The flags
`local_cfg_flag` and `cfg_varify_flag` are set in the source and never assigned; both
values are initial states. `INIT_S` has no handler: `net_init` failing, or the
synchronisation given up, leaves the program there for good.

In `NW_RUNNING_S`, `state_monitor` notes when a node was heard and
`state_monitor_timeout` looks once per `MONITOR_TIMEOUT` for a node silent for longer
than `NO_PKT_TIMEOUT`. Its first call sets the times of all nodes below
`MONITORED` (50 in the code) and sends each the writes that make it report, once and
unconfirmed. When it finds a node it returns -1, which `time_handle` stores in a `u16`
and compares with -1; `main()` tests what `time_handle` returns, though it returns
nothing. `state_monitor` turns away imacs above `MAX_NODE_NUM`, but `MAX_NODE_NUM`
itself it enters into an array of that many entries.

In these two places C leaves the behaviour to the build, and the model has what the
build of the makefile does, gcc without optimisation. The return register still holds the
monitor's -1 when `main()` looks at it (`time_handle_is_minus_1`, true under the conditions on
which `state_monitor_timeout` returns it); and what lies behind `tv_node` is `report_tv`
(see `tsnlight`, the binary beside the sources). `Strangers` are the imacs of
packets that no node has, `MAX_NODE_NUM` among them.

Around the loop: packets are captured and wait, nodes fail, the wall clock is
set back by somebody. `gettimeofday` is the wall clock and the difference of two times is
unsigned, so a time in the future is infinitely long ago (`Longer`).

### PtpTime

A clock has 48 bits, 41 for microseconds and 7 for ticks of 8 ns, the latter
from 0 to 124. `ts_add`, `ts_sub`, `corr_trans` and `offset_calu` are operators with the
names and the case distinctions of the code, in words of 64 bits; `Count`, `Forward`,
`Back` and `Corrected` are the register transfers of `global_time_sync.v`. An action is
a packet of a round: `Sync` (stamps t1, t2), `Request` (t3, t4), and `Correct`, which
computes the offset and applies it with the next tick; between two of these steps time
passes, `Elapse` ticks at once. `sound` says whether the slave's clock was at a proper
time when the Sync came, `delay` what the wires really took, so that what is computed can
be compared with what is true.

Two things make this less simple than it looks. `ts_sub(...)/2` halves a
number of mixed base: an odd number of microseconds leaves 64 instead of 62 and a half
ticks, so offsets are up to one and a half ticks too large. And a slave that is 124
ticks off is given an offset of 125 or 126 ticks, which is not a time. Applied to the
clock it may leave the lower counter at 125 to 127; the counter carries only at 124, so
the clock runs on to 127, falls back to 0 and loses a microsecond, possibly while the
next round is being measured. `Settles` says that the third correction repairs
this, whenever it happens. It needs a delay of at least a tick, which every registered
interface has: over wires without any delay no time need pass while the clock counts beyond
124, it may lose its microsecond too late, and `Settles` fails (TLC finds such a run with
`Delays = {0, 1}`).

### SharedBuffer and BufferPool

A buffer in `SharedBuffer` is free, of an incoming packet, or being sent by a set
of ports. `BufferPool` has instead what the hardware has: the FIFO of free
bufids, the bufid on offer to each port, the number in the RAM, each port's
queue, packet being sent and release register, and the release that
`address_write` is in the middle of. The refinement maps `status` from where the
bufid is and `users` to the ports that still hold it (`Holders`).

The states of one register transfer that no other part can observe are one
action; reading the count and writing it back are two (`TakeRelease`, `Count`),
with anything in between. So are merged taking a bufid and withdrawing its offer, the
clock after (`Receive`; `descriptor_send` takes nothing in that clock), and queueing a packet
and writing its count (`Forward`; sending a packet takes longer than the write): these two
windows rest on timing, and nothing is checked of them. Bits 4 to 7 of the output bitmap have no port
(`Unwired`), bufids 5 to 8 are offered to ports that are not there (`Parked`).
With `ModeSwitch`, a packet may meet the clock after a switch to Qch in which both
gates are open and a port drops it. The buffers of packets that are dropped, or that have
only bits without a port, are never returned: that is what the code does, and no property
excludes it. `RefCount` then says only that no buffer is freed early.

### OutputQueue

The only action is `Tick`, an edge of the clock: each primed variable is a
register with the value the code assigns to it from the values before the edge.
`fifo` is a history variable, what the queues ought to contain. An input at each
edge: a bufid not in this port arriving in any queue or none, any gates, any
moment for the end of a packet. Reading a packet's words is one state, `READ_S`.

## The runs

| Run | Checks | Bounds | States |
|---|---|---|---|
| `ptp_sync` | all of PtpSync's properties | 2 slaves, the check on entry looks at one of them, 4 rounds, thresholds 2 and 4, offsets below, between and above 50 and 100 | 681 917 |
| `ptp_all_synced` | a statement of the changelog, violated | 2 slaves, threshold 2 | |
| `config` | basic configuration under loss; as long as nothing is lost, quiet nodes, and that configuration ends | 2 nodes, 1 entry and 2 blocks each, 2 beacons buffered, limit 2, fairness | 96 832 |
| `config_plan_lost` | a statement of a comment, violated | as `config`, 1 block | |
| `buffer_pool` | exclusive use and counts | 3 ports, 4 bufids one of them parked, one unwired bit, mode switch | 1 627 489 |
| `buffer_pool_live` | exact counts, refinement, liveness | 2 ports, 3 bufids, fairness | 14 902 |
| `output_queue` | order, counts, no overrun, the port keeps sending | 2 queues, 3 bufids, fairness | 348 856 |
| `plan` | all of OfflinePlan's properties but one | 2 switches and a test node, 2 initial configurations, 2 local plans, 6 kinds of remote packets of which up to 4 come, tables of 3 entries of which 2 are sent of the short ones, 2 gate tables | 225 506 |
| `plan_remote` | a statement of a comment, violated | 1 remote packet | |
| `running` | all of TsnLight's properties | 2 monitored nodes and one beyond, packets of two strangers, 8 units of time, timeouts of 2, clock set back by up to 1, 2 packets captured | 4 692 821 |
| `running_stranger` | a statement of a comment, violated | as `running` | |
| `ptp_time` | the offset, its effect, types | clocks of 32 us; the master begins at each of the 125 ticks of a microsecond, the slave up to 311 ticks away; delays of 1 and 2 ticks, with which a Sync, a request or a correction may each be the first to meet the clock after it has lost its microsecond; 2 residences, 3 rounds | 3 181 721 |

Why the bounds are enough. Two slaves or nodes are the least that can be mistaken
for each other, four rounds allow a packet to be late by one round and by two,
and thresholds of 2 and 4 replies are passed in more ways than one. Two buffered
beacons are an old one ahead of a new one. Three ports allow a multicast to the
host and to both network ports while the third bufid moves; a fourth bufid only
adds a packet that waits. In a queue the pipeline can tell empty, one entry and
more than one apart; three bufids over two queues give all of them at once.
Two switches are what it takes to get another's entries, two entries per table to
keep one and lose the other, a third that is not sent, two gate tables to take
one for the other, and four remote packets complete one node and begin the next.
The monitor's bounds need two checks and the silence between them, for which eight
units suffice; a third node stands for all beyond the bound of 50. The arithmetic of
time stamps depends on the lower seven bits, of which every value occurs, and on
borrows from the upper ones, which 32 microseconds show; for 48 bits it is proved.

Deadlock is checked for `OutputQueue`, where the clock never stops. The others may
stop: `PtpSync` at the bound of rounds or after `main` returned, `NetConfig` in
`SYNC_INIT_S`, or in a wait for a lost write, and `BufferPool` when no packets
come. `OfflinePlan` stops when the plan is done or a wait never ends, `TsnLight`
when the program ends, `PtpTime` after its last round.

Fairness. `OfflinePlan` and `TsnLight`: the program runs (weak fairness of
`Controller` and `Main`); what comes from outside need not come. `NetConfig`: the program runs (weak fairness of `Controller`), writes that
are not lost arrive, enabled chips report. `BufferPool`: a register transfer whose
condition holds takes place, round robins come round, a port sends; it is not
assumed that the packet sent is any particular one, since queues have
priorities, nor that packets come. `OutputQueue`: the clock runs, packets being sent
come to an end, and a queue that waits again and again is found open again and
again (strong fairness, as gates open and close).

### Findings

`ptp_all_synced`: the changelog says that the controller no longer leaves
`SYNC_INIT_S` before all nodes are synchronised; it does when one node answers
often enough, since a node never heard of has offset 0.

`config_plan_lost`: `cfg_chip_table` is said to confirm what it configures; it
accepts another chip's beacon of the same block. The basic configuration is not
exposed to this, as `BasicInPlace` shows: nodes configured before report
registers, never entries, and `basic_cfg` looks at the sender.

`plan_remote`: `cfg_chip_table` is said to return success or failure; for the first
node of a remote plan it returns neither. `basic_cfg` has turned the node's reporting off,
and `remote_cfg`, unlike the local plan, does not turn it on again. If the chip happens to
report (the closing write was lost) the gates nobody named are the next obstacle.
The source sets `local_cfg_flag` to 1, so that this path is not taken as delivered.

`running_stranger`: `state_monitor` tests imacs against the number of chips there can
be, and lets one too many through: its beacon is noted in the variable behind `tv_node`, in the
makefile's build the time of the last report to the planner, which then comes late.

### Assumptions on documents

What a document or packet may be is stated as assumptions on the constants, which
TLC evaluates for the documents of the runs. `DocumentsAssumption`: a switch has an
imac, among those of the chips; values fit into what a chip keeps (9 bits of routes, 8 of gates), times
into their fields; a packet of routes is not empty. `PlansAssumption`: a local plan names a switch
once, and a table of it once, gate tables by different ports. The plans that come with
the code (`code/local_cfg/*.xml`) are of this kind. The code looks at none of it.
`ThresholdsFit` is not assumed but a hypothesis of the one theorem that needs it.

## The proofs

### PtpSync_proofs

`PtpSync_proofs` proves all properties of `PtpSync` that TLC checks, for any
number of slaves, any offsets, thresholds and bound of rounds that satisfy
`PtpSyncAssumption`: the set of slaves is finite, 0 is an offset (the cleared
table), `SyncEnough` does not exceed the threshold for giving up, and the
threshold of the exit does not exceed that of the entry.

The properties are not inductive. A packet of type 3 in the current round is
harmless only because the slave's t1/t2 are already of this round, and packets
of rounds not yet sent do not exist; whether the count is backed by rounds needs
that `used` has at most one element per slave and round. The invariant of
the theorem `Invariance` adds these facts. Each theorem follows from it.

### PtpTime_proofs

TLC checks clocks of 12 bits; these theorems hold for clocks of any width (`SIGN` any
multiple of 128), any delays, residences, waits and starting points that satisfy
`PtpTimeAssumption`.

`OffsetCorrect`: the offset computed is right. `AddExact`, `DistanceExact` and
`SubExact` say that `ts_add` and `ts_sub` add and subtract the ticks two times stand
for, and set the bit for a minus when they should, as long as no 64-bit word
overflows; `Monotone` and `Bounded` supply that. It also follows that a difference is
never the bit for a minus alone, the value that `offset_calu`'s strict comparisons
leave to their last case. `Half` is the exact effect of halving
as a binary number, `OffsetExact` puts the four cases of `offset_calu`
together. The invariant `IInv` says what the stamps of a round are: t2 minus t1 is the
residence, the delay and the slave's true lead (`ThereIsTrue`), and likewise on the way
back (`BackIsTrue`). It is needed because `OffsetIsRight` only speaks of the end of a
round, when nothing in the state but the stamps remembers its beginning. `sound` cannot
be dropped: a clock that counts beyond 124 is not at the time it shows.

`TypeCorrect`: whatever offset is written, also one that is no time, the clock stays within
its bits, and the master's, which nobody corrects, at a time.

`ElapseCounts` justifies the model's only liberty, that several ticks pass in one step:
`Elapse` is what the counter of `global_time_sync.v` does tick by tick, also from a value
beyond 124.

`Settled`: three rounds over wires of equal delays, of at least a tick, bring the clocks within
a tick of each other, from any clocks whatever. A round with two sound measurements
leaves the slave within a tick (`CorrectSound`, from the exact effect of halving an even
number of ticks, `HalfEven`, and of applying it, `ForwardExact` and `BackwardExact`), but
its lower counter at 125 if the slave was behind by 124 ticks, or by as much and full periods
of 250. What follows is the invariant `SettlesInv`. After the first round the slave is at a
time and in `Leads`, from 128 ticks behind to one ahead but not 124 behind, from where a
sound round cannot leave 125 again; or it counts beyond 124 and is one tick ahead. In that
case it loses its microsecond in one of several places. Before the Sync comes: the
round is sound and begins 127 ticks behind. Later: the difference t2 - t1 is one of the
three of `LosesThere` (`ThereLost`; the third is a minus one that stands for a plus two),
t4 - t3 follows from where the request is stamped (`BackLost`), and `OffsetLost` computes the
four offsets that are possible, all so small that the slave is in `Leads` after the
second round; or the clock is set back from 127 to 127 and loses the microsecond then. In
the third round the Sync therefore meets a clock that is at a time, and two sound
measurements of a slave in `Leads` end within a tick, at a time.

### BufferPool_proofs

For any finite set of ports, any bufids, any first offers that differ and any FIFO that
has room for all bufids: `TypeOK`, `Exclusive`, `RefCount`, and that every step of
`BufferPool` is a step of `SharedBuffer` or none (`ImplementsSharedBuffer`).

`Exclusive` and `RefCount` need each other: a bufid is returned to the pool when the
number in the RAM is one, which is right because the number is that of the ports left, which
is right because nobody else was given the bufid. The invariant `IInv` adds where a bufid
is within a port: in its queue, being sent, in the release register or in
`address_write`, but in one of these only (`OnePlaceAtPort`), so that a release takes exactly one
port from `Holders`; that what `address_write` writes back is still what the RAM
contains (`WriterReads`), although all other parts go on between its read and its
write; that a renewed offer replaces none (`AckedIsTaken`); and that the bufids initially in
nobody's hands are in nobody's hands (`UnsentApart`).

The proof of the refinement takes one step of `Next` after the other. Most stutter;
the packet that is queued in several ports, the release that is
counted and the last one are the three operations of `SharedBuffer`. `SharedBuffer` may
lose a buffer if packets can be dropped at a change of mode or bits of the bitmap have no
port; if neither is so, none is lost.

### OutputQueue_proofs

For any number of queues and bufids: `TypeOK`, `CountIsLength`, `FirstInFirstOut`,
`NoOverrun`. There is one action, in which everything changes, and the invariant
describes all of the pipeline between two edges.

- The bufids: no queue has one twice, no two queues share one, and those in the
  cache or being sent are in none (`Placed`).
- The list: each entry's successor in the RAM, or in the link that will be written next
  clock (`Successor`), is the next entry of the queue (`Chained`), the last address
  is that of the last entry counted, and the first address that of the first unless
  the link is about to make it so (`FirstIsFirst`, `FromEmpty`, `LinkFits`).
- The pipeline that takes a bufid out is in one of seven stages (`Stages`), in each of
  which one register or none says that something is under way, and the scheduler
  waits in `ACK_S`. This is what makes `NoOverrun` true: `cache` is
  empty in all stages before `Cached`.
- While the head is looked up, the address read is that of the first entry, and the
  data are what the RAM has there (`HeadRead`, `DataRead`), also if a bufid is linked
  behind it meanwhile.

`FirstInFirstOut` follows from `HeadRead`; `DataRead` and `Chained` keep it true for
the entry after.

### TsnLight_proofs

For any topology, any bound of monitored nodes and any timeouts for which the gap
between two reports and the longest wait of a packet fit into the timeout
(`TsnLightAssumption`): `TypeOK`, `AliveIsKept`, `SilentIsFound`. The last also says that
the program ends, in the build that is modelled: a node found late and a program that runs
on would contradict it.

A check knows only when a node was last heard; the properties are about when it last
sent. `HeardIsSent` and `Heard` relate the two, from above and from below: a node is
heard at most the wait of a packet after it sent, and if it was not heard since it sent
last, a beacon waits that it sent at most a gap after it was heard. `Checked` is what the last check has
established of every node, and `InThePast` that no stored time is in the
future, which is where the wrap-around of an unsigned difference would begin; a clock set
back is counted in `back`, for which `AliveIsKept` makes its exception.

### NetConfig_proofs

For any number of nodes, entries and blocks, and any limit of beacons:
`TypeOK`, `BasicInPlace` and `QuietWhenDone`.

`BasicInPlace` holds although no wait looks at the sender of a beacon. The reason, and the
invariant: nodes configured before show their single registers, in the chip, in
every beacon not yet read and after everything on its way (`Earlier`); nodes not yet
configured have no address to send to (`Later`); so what shows an entry comes from the node
that is being configured, and it shows entry k only after it has entries 1 to k
(`Entering`, `Snapshots`). A beacon of single registers may be an earlier node's, so
that this confirmation alone shows nothing; but by then the entries are in place, and
`basic_cfg`, which looks at the sender, sees to the registers. A node that has shown its
single registers then goes on to (`Entered`), which is what `Earlier` says of it once the next
one is begun. The local plan has no such second look, and
`config_plan_lost` shows what follows.

`QuietWhenDone` as stated is not inductive, since what makes the node report again might be on its
way behind the write that silences it. `Quiet` says that there is no such write.

### OfflinePlan_proofs

For any set of chips, tables of any size, up to 8 gate tables, any number of documents and packets
that satisfy the assumptions: `TypeOK`, `LocalPlanInForce`, `RemoteEntriesInForce`,
`BasicRoutesKept`, and, if `ThresholdsFit`, `PriorityOfThresholds`.

The tables are folds over entries (`Overlay`, `Mapped`, `Registers`, `parse_init_doc`). What a
fold does for sequences of every length is an induction, which the library's theorems cannot be
used for here; it is done by hand. `PrefixInduction` is the induction, over the least number for
which a claim fails. `FoldExists` puts the partial results, each a function on the subsets below its
bound, together to the function by which the library defines a fold, and `FoldPrefixes` has the
results after 0, 1, ..., n elements. Hence `OverlayIs` and
`MappedIs`: index i of the result is what the last entry for i says (`LastOf`), or what was there.

`Typed` is the type invariant with two additions: what is left of a plan is the end of
its document (`InPlan`), and which of the variables are in use in which state (`Modes`).
A local plan is followed by the places of its tables. `Read` are those read so far;
`PortFollows` says that `port_id` is the port of the last gate table read that named one,
`MappingFollows` that `map_table` and `remap_table` hold the value of the last table
read that settled an entry (`NextPortIs` and `NextValueIs`: what one more place changes of
either), and `LocalWritten` that the chip has every table read, those of the switch that is
open included. The step that reads another table disturbs none of them because a plan
names a table once (without it, a second table of the same name would replace the first)
and a table without a port can only be the one gate table of its switch. For a remote plan, which table of which node is where
takes more: at most one node is begun (`OneBegun`), the shared tables hold all its
packets gave (`Shared`), over the routes of the initial configuration (`BaseLaid`) once the flag says so
(`FlagSet`), a chip holds those already written (`Written`), and nodes that are done
keep theirs (`Final`, `FinalRoutes`). A packet for a node that is done begins it afresh. The gate entries that no packet
gives, which a chip can never report, do not matter here: the theorem is about the
nodes that get done, and says nothing of whether one does.

### Not proved

Every invariant that a passing run checks is proved. Only model-checked is
everything about liveness (`ConfigTakesEffect`, `Refilled`, `KeepsSending`,
`LocalPlanEnds`), which TLAPS does not prove.

## Not modelled

- Parsing of XML text and packet headers, libpcap and libnet. One consequence lies
  outside the models: the capture filter passes packets of type 0xff01, so that a
  remote plan in UDP packets would only come through a filter set otherwise.
- The guide offset (from the tenth round on a slave is corrected periodically at a
  rate the controller computes), the drift of clocks that makes it necessary, and
  clocks that reach their end after 25 days.
- The contents of status reports, which are printed and forwarded; the statistics,
  compiled out; `dynamic_remote_cfg` and `send_remote_state`, never called; the
  confirmation sent to the remote planner, output only.
- The ARP proxy, which answers from a table read at the start.
- That `command_parser` of the switch stores no injection and submission times, and gate
  tables for ports 0 to 4 only, so that a wait for another of these tables cannot end there
  (`LocalPlanEnds` is about chips that store what they are sent); and that the two time fields of an
  injection entry are swapped between the local and the remote plan: what a chip makes of
  its tables is beyond `OfflinePlan`.
- Of the hardware: the lookup, gate timing, address learning, the interfaces and
  clock domains, the words of the packets; the network card, a copy; the tester.

Under `components`, `PROJECT.json` gives the reason for each.

## Plan

In order: `AsyncFifo`, the FIFO between clock domains, with the proof that it is neither
overrun nor underrun; gate control and the multiplexing of the lookup.
