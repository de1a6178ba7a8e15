# Verification of rv_p4

TLA+ models of rv_p4, a programmable switch: a P4 pipeline in SystemVerilog
(`src/rtl`), and the control-plane firmware in C that fills its tables
(`src/sw`). TLC checks the models on small instances; the TLA+ proof system
proves the theorems of `FdbProof`, `ArpProof`, `RulesProof`, `TueProof`,
`PuntRingProof`, `MauStageProof`, `RxProof` and `TmProof` for every value of the
constants.

## 1. Inventory

The repository has a data plane, a control plane and the engine between them.

```
 MAC ports -> mac_rx_arb -> p4_parser -> MAU stages 0..23 -> traffic_manager -> MAC ports
                               |  cells                          |
                               +---------> pkt_buffer <----------+
                                             ^ clk_dp
   firmware (C) -> HAL -> APB -> TUE --------+ writes MAU TCAM/SRAM and parser TCAM
        \-> punt rings (shared memory)         clk_ctrl -> clk_dp
```

### Control plane

| component | state | operations | correct when |
|---|---|---|---|
| Forwarding database, `firmware/fdb.c` | `fdb_table[256]`; the stage-2 rules it has installed | `fdb_init`, `fdb_learn`, `fdb_add_static`, `fdb_delete`, `fdb_age` | table and rules agree; one entry per address; dynamic entries are forgotten, static ones are not |
| ARP neighbours, `firmware/arp.c` | `arp_table[256]`, open-addressed; `l3_intf[32]` | `arp_init`, `arp_add`, `arp_delete`, `arp_lookup`, `arp_probe`, `arp_process_pkt`, `arp_age` | what was heard is found; silent neighbours are asked and then forgotten |
| Routes, `firmware/route.c` | `route_table[256]`, stage-0 rules | `route_init`, `route_add`, `route_del`, main's default rule | table and rules agree; a route that was deleted has no rule |
| ACL, `firmware/acl.c` | `acl_table[]`, `acl_next_id`, stage-1 rules | `acl_init`, `acl_add_deny`, `acl_add_permit`, `acl_delete` | the oldest rule goes first; a deleted rule is gone |
| VLAN, `firmware/vlan.c` | `vlan_db`, port configuration, their registers, stage-4 and stage-6 rules | `vlan_init`, create, delete, port add and remove, PVID, mode | database, registers and rules agree on who is in a VLAN and leaves with a tag |
| QoS, `firmware/qos.c` | port configuration, DSCP map, registers, stage-5 rules | `qos_init`, weights, PIR, mode, DSCP map | a port's registers hold that port's settings; register and rule give a DSCP value one queue |
| Main loop, `firmware/cp_main.c` | `sec_tick`, `loop_cnt` | boot sequence; poll the punt ring, CLI, once a second age ARP and FDB | every module is initialised before it is used |
| CLI, `firmware/cli*.c` | a line buffer | parse, call the modules above | - |
| HAL, `hal/rv_p4_hal.c` | none of its own: registers and shared memory | table calls through the TUE, punt rings, counters, meters | one call, one effect; whole packets in order |

The firmware is one thread with no interrupts. It interacts with the hardware
by single register and memory accesses, each of which the hardware may answer
from a state that has moved on since the last one.

### Table update engine

`rtl/tue/tue.sv`: command registers, a four-state machine (`TS_IDLE`,
`TS_WAIT_DRAIN`, `TS_APPLY`, `TS_DONE`) on `clk_ctrl`, a two-flop synchroniser
and the write enables of the memories on `clk_dp`. Correct when one HAL call
changes one rule, at one instant, before it returns.

### Data plane

| component | state | operations | hard |
|---|---|---|---|
| Receive arbiter, `common/mac_rx_arb.sv` and `top/mac_rx_arb.sv` | grant pointer, in-frame flag | choose a port per frame, or per cell | fairness; two frames in one stream |
| Parser, `parser/p4_parser.sv`, `parser_tcam.sv` | frame state machine, header buffer, cell id | latch cells, walk the state TCAM, write cells, emit a header vector | back-pressure and drop in mid-frame; allocation failure |
| Packet buffer, `pkt_buffer/pkt_buffer.sv` | free list, cells, next pointers | allocate, write, read, free | allocate and free on one edge; double use of a cell |
| MAU stage, `mau/mau_stage.sv`, `mau_tcam.sv`, `mau_alu.sv` | four pipeline registers, TCAM, action SRAM | look up, read the action, execute; write a rule | update between match and action; stall |
| Traffic manager, `tm/traffic_manager.sv` | 32 port queues and transmit machines | enqueue, read cells back, free them | queue and dequeue on one edge; one read port for all |
| Deparser, `deparser/deparser.sv` | - | - | instantiated nowhere |

### Hard behaviours

- Registers read by one actor and changed by another between two accesses: the
  TUE's status, the punt rings' pointers.
- Two clocks, and operands that must not change while a pulse crosses.
- Indices cut to fewer bits than the key: FDB rules (12 of 48 bits), TCAM
  addresses (11 of 16), route ids, egress VLAN ids.
- Ignored results: `fdb.c` and `arp.c` go on as if the HAL had succeeded.
- Clocks and counters that wrap: `sec_tick`, ring pointers, ACL ids.
- Tables walked while they change: `arp_age` calling `arp_probe`.
- Registers that overlap: the upper word of a rate and the next port's register.
- Two assignments to one register on one edge: the queues' counts.
- One resource for all ports: the parser, and the read port of the packet buffer,
  whose answer every port takes.

`PROJECT.json` lists each of them at the line where it bites, with the
properties that cover it.

## 2. What is modelled

| module | models | notes |
|---|---|---|
| `Fdb` | `fdb.c`, the part of `cp_main.c` that drives it | every call is one step |
| `Arp` | `arp.c`, composed with `Fdb` (`F == INSTANCE Fdb`) | every call is one step; `arp_age` is a fold over the slots |
| `StageRules` | `hal_tcam_insert`, `hal_tcam_delete` as a caller sees them | operators on a record; shared by the next four |
| `Route` | `route.c`, main's and the CLI's use of it | every call is one step |
| `Acl` | `acl.c`, the same | every call is one step |
| `Vlan` | `vlan.c`, the same | every call is one step |
| `Qos` | `qos.c`, the same, with the HAL's QoS registers | every call is one step |
| `TcamTable` | the promise of a HAL table call | abstract |
| `Tue` | `tue.sv`, six HAL calls, the memories' write ports | one bus access, one clock edge per step |
| `Fifo` | the promise of a punt ring | abstract |
| `PuntRing` | `hal_punt_tx_send`, `hal_punt_rx_poll` | one access per step |
| `MauStage` | `mau_stage.sv` with `mau_tcam.sv`, `mau_hash.sv`, the ALU's register, under the write port of `tue.sv` | one `clk_dp` edge per step |
| `Rx` | `common/mac_rx_arb.sv`, `p4_parser.sv` | one edge of both per step |
| `Tm` | `traffic_manager.sv`, the read port of `pkt_buffer.sv` | one `clk_dp` edge per step |

An `MC` module gives each a small instance; the `.cfg` files give the constants
their values. A `Proof` module holds the theorems of the module it is named for.
`RulesProof` holds those of `Route`, `Acl`, `Vlan` and `Qos`, which all speak of
rules in a stage, and the lemmas about `StageRules` and about numbers they share;
it extends all four, whose names are kept apart for that (`RouteTypeOK`,
`AclTypeOK`, ...).

### Fdb

`fdb_table` is the array (`NoEntry` is `valid = 0`); `rules` is what stage 2
holds at `dmac & 0xFFF` (`TidOf`). Every call of `fdb.h` that changes something
is an operator with the two effects the C function has, on the table and on the
rule. A call that returns `HAL_ERR_FULL` or `HAL_ERR_INVAL` changes nothing and
is no step. A HAL command has one of the fates in `HalApplies`: applied, or
lost, which is what an ignored `HAL_ERR_BUSY` or an early `HAL_ERR_TIMEOUT`
comes to. The history variable `lost` remembers where the last command was
lost, so that the invariants claim nothing there. `boot` follows `main`:
`arp_add` of the gateway, `fdb_init`, two static entries, the loop. `fdb_delete`
and `fdb_add_static` are public calls; no caller in the loop uses them, and
they are modelled as if one did. `TimeMod` stands for 2^32: `sec_tick` wraps.

### Arp

The variables of `Fdb` and `arp_table`. `arp_find` is the walk over the open
addressing; with `find_free` it stops at the first free slot, whether or not the
address stands further on. `arp_age` folds `AgeSlot` over the slots, since the
`arp_probe` it calls may fill a slot behind or ahead of the scan. `Add` is
`arp_add` from a punted packet or the CLI with the `fdb_learn` it makes,
including the one that the FDB refuses. `asked` counts the requests `arp_age` has
sent for an entry; `quiet`, set at most once, says that no packet and no command
comes any more. VLAN tags are left out, and so is the ring: the firmware ignores
whether it took the request. `l3_intf` is the constant set of ports that have an
interface.

### Route, Acl, Vlan, Qos over StageRules

Each has the software table of its C file beside the rules of its stage, a record
of `StageRules`: `at`, the rule at each TCAM index, and `lost`, the indices whose
last command was not applied. Of the rules that match, the TCAM takes the one with
the lowest index, whatever matching is; only `OlderGoesFirst` is about that order.
`route_boot`, `acl_boot`, `vlan_boot`
and `qos_boot` follow `main` through the module's initialisation and its boot calls; then come the CLI's commands, with
the checks `cli_cmds.c` makes, and where it checks nothing, the casts (an ACL
port and id to 16 bits, `sp_queues` to 8). Each module has its own boot order
only: the stages and the tables are disjoint, and no call of one reads another.
The modules say which rules stand at which index, not which packets they match:
the firmware writes masks in one sense and the TCAM reads them in the other
(section 5), so what the C files mean a rule to select is not what it selects. A
rule is therefore an entry of its software table or a value with the fields the
C file gives it, and the properties relate rules, tables and registers.

- `Route`: addresses are numbers. `route_tcam_id` is the
  shift by the prefix length with its special case for length 0, cut to the bits
  the TCAM has. `route_del` clears the first slot that holds the prefix and
  deletes the rule at the index, in the table or not; the entry of an add stays
  though the HAL fails.
- `Acl`: `acl_next_id` counts modulo `IdMod`, advances on an add that fails, and
  is cut to the `AclDepth` of the TCAM. A failed add gives the slot back; a delete
  frees it before the HAL is asked. A rule's addresses and masks are one value.
  `adds` counts the ids taken, for `OlderGoesFirst`.
- `Vlan`: the database, the port configuration, the two registers that mirror
  them, and two stages. `vlan_init` installs egress rules for all ports at once,
  the highest port's standing where ports share an index; ingress rules come with
  the first PVID or mode of a port. `VLAN_EGRESS_ENTRY` is cut to the TCAM.
  Lost commands are bounded by `VlanMaxLost` at one time.
- `Qos`: the PIR and scheduling-mode registers are one array of words in the order
  of their addresses, since a rate's upper word is written one word on. `qos_init`
  writes the ports in ascending order (`qos_apply_all`), which is a recursive
  function.

### Tue

Three actors. `DpEdge` is a `clk_dp` edge: the synchroniser moves, and if the
pulse is out the memories are written, addressed by the *live* `table_id`
register, with the *latched* operands. `Access` and `NoAccess` are `clk_ctrl`
edges with and without a bus access of the driver; both step the state machine
(`Fsm`), and both see the registers as they were before the edge. `Call` enters
a HAL call. The driver polls, writes its registers in the order of
`rv_p4_hal.c` (`Program`), writes COMMIT and polls again.

Key and mask words are one register, action words another: each is written
before COMMIT and latched at the same edge, so no property tells them apart. The
synchroniser flops and the memories have no reset; they start at zero, as in a
Verilator build. `reg_commit` is assigned from two `always_ff` blocks; the clash
would need a second COMMIT on the edge that clears the first, and bus accesses
are at least two edges apart (`gap`). The direct request port is read by nothing
and is left out.

### PuntRing

Both ends of a ring, one access per step: read the own pointer, read the other's,
write or read the descriptor, the words one by one, publish. The RX and TX rings
are the same code with the roles exchanged; the hardware end is not in the
repository and is taken to mirror the firmware's. Accesses take effect in
program order, as uncached MMIO does. A packet is its sequence of words; packets
of length 0 are excluded (nothing sends one), and the truncation of lengths over
256 is left out. The slots' memory belongs to the ring alone here; of the TX ring
that is true of slots 0 to 7 only, the others lying on the UART's page (section 5),
so the model is that of the TX ring as long as nothing else writes that page.

### MauStage

One stage, one `clk_dp` edge per step. `Edge(in, w)` moves all four pipeline
registers at once from the state before the edge, as `always_ff` does, one
operator for each: `Crossbar`, `Match`, `ReadAction`, `Execute`, beside them
`Hash` and the write of the memories (`WriteRule`). `in` is the vector offered,
`w` the rule the update engine writes, on any edge. The engine repeats a write
while its pulse lasts, and drains by counting cycles, without stopping the
vectors; the model lets it write anything on any edge, which includes that. The
operands a command does not set (the action of DELETE, FLUSH) are those of an
earlier call to any stage, so they are arbitrary. The memories have no reset;
they start empty. A vector is its key, a rule's key and mask are the set of keys
they match, and what the ALU makes of a vector is the vector with the action and
the hash it used.

`Gap` is the distance between two vectors. `GapAssumption` asks for two edges;
the parser's shortest frame takes five (`PS_IDLE`, `PS_LATCH`, `PS_TCAM_WAIT`,
`PS_PROCESS`, `PS_EMIT`), and a stage passes the spacing on. `said` is history:
what the rules said of each vector before and after the edge of its lookup, and
whether that edge's write took the rule it hit away.

### Rx

The arbiter and the parser on one clock (section 6). `Edge` is `Arbitrate`,
`HandOver` and `Parse`: the grant, the cell that leaves its port if the parser
is ready, and the parser's state machine, all from the state before the edge.
Between edges a MAC that offers nothing may put its next cell up (`Offer`). The
three outcomes of the parser's TCAM, accept, next header and miss, are chosen,
and so is the edge on which the pipeline takes a header vector. `frame` is
history: the cells and bytes each port has given.

### Tm

A frame is its egress port and its number of cells; a cell is a frame and a
position. `Edge(frame, tx_ready)` queues the frame offered, if its queue has room,
takes frames from the queues whose transmitter is idle, moves the transmitters and
answers the one read. Two assignments to `q_cnt` on one edge leave the second
standing, as in the code. `pending` is history: the frames accepted and not taken,
the truth against which ring and count are held; of a queue in which a pending
frame was overwritten (`overrun`) no account is kept.

## 3. Runs

| run | shows | bounds |
|---|---|---|
| `fdb` | `OneEntryPerMac`, `NoOrphanRule`, `UnsharedInstalled`, `DynamicForgotten` with lost commands | 3 addresses, two on one index, 2 slots: the table fills; the clock wraps at 4 |
| `arp` | `FdbSpec` (the FDB under ARP is the FDB of its module), `QuietForgets`, `AskedBeforeForgotten`, `HeardIsFound` | 2 slots, 2 addresses with the same hash, a port with and one without interface, 3 FDB slots of which 2 are static: both tables fill |
| `route` | `NoOrphanRoute`, `UnsharedInstalled`, `WithdrawnIsGone` (a prefix withdrawn leaves the table and the TCAM) with lost commands | addresses of 4 bits, a TCAM of 4, 2 slots; of 6 prefixes two share an index, two are spellings of one network, one is 0.0.0.0/0, one falls on the default rule |
| `acl` | `NoOrphanRule`, `OlderGoesFirst` (order in the TCAM is order of age until the ids have gone round it) with failing commands | 3 slots, a TCAM of 3, ids modulo 6: ids wrap round both; ports modulo 3, one of them typed out of range, and an id too |
| `vlan` | `MembershipAgrees`, `PortRulesAgree` (register and both ingress rules are those of PVID and mode), `OneVlanPerCall` with a lost command | 2 VLANs, 3 ports of which two share their egress rules, every command on one VLAN and those that meet it on the other, every PVID, an access and a trunk port |
| `qos` | `WordsAreCurrent`, `DscpAgrees` with a lost command | 2 ports: each is the next one's neighbour or the last; words of 2 bits, rates of one and of two words |
| `tue` | `Implements` (refines `TcamTable`, with its liveness), `NeverTimesOut` | 2 rules, 2 keys, 2 actions, drain 4 for 32, 4 polls for 100000 |
| `punt_ring` | `Implements` (refines `Fifo`), `RefusedOnlyWhenFull` | 2 slots, packets of 1 and 2 words, pointers wrap at 4 = two rounds |
| `mau` | `UntornVerdict` (the verdict of one moment, though match and action are read on different edges and a bubble leaves the last hit standing), `OwnHash` | 2 keys, a rule for one and a rule for both, 2 actions, 2 entries, a third id on the second entry, `Gap` 2 for 5 |
| `rx` | `WholeFrames`, `StuckOnlyInDrop` | 3 ports, frames of 1 to 3 cells of 2 bytes, the last of 1, up to 2 headers |
| `rx_drop` | violation of `DropEnds`: a dropped frame of several cells holds the parser, and with it every port, for ever | same |
| `tm` | `QueueHoldsPending`, `LeaksUpwardOnly` | 2 ports, queues of 2, frames of 1 and 2 cells |

Why the bounds suffice. The interesting cases of the tables are sharing (two
addresses on an index, two hashes on a slot, two routes or ports on a rule), a
full table, and a wrap; each occurs, and one more slot or address only repeats
them. In `Route` the 4 bits leave room for lengths 0, 2 and 4, so routes share an
index with a longer and with an equally long one. In `Acl` the three ids that fit
the TCAM are as many as it takes to add, delete and add behind a rule that still
stands. In `Tue` what matters is
the order of edges: `TimingAssumption` keeps the scaled numbers in the relation
the code's have (a poll takes two `clk_ctrl` cycles, and the polls outlast the
drain), and `DpPerCtrl = 2` is the slowest `clk_dp` for which the synchroniser
settles in time; the chip's is 8 (1.6 GHz and 200 MHz). In `MauStage` the
pipeline is four edges long and `Gap = 2` is the tightest spacing assumed, so two
vectors are in it at once; an overlap of two rules needs two keys. In `PuntRing` the
pointers must wrap at a multiple of the slots and at least twice them
(`RingAssumption`), as 2^32 does for 16. In `Rx` three ports tell the next port
from the first, and three cells a first, a middle and a last one. In `Tm` a queue
of two wraps, fills and is overrun, two ports are the lower and the higher one,
and a frame of two cells is one whose transmitter has to ask again.

Every property of a passing run has a mutant, an operator `Mut...` standing
before the definition it replaces, for which TLC finds the property violated.

### Fairness

- `Fdb`, `Arp`: `main` gets through its boot sequence and its loop never stops,
  so a second always passes (`WF(Boot)`, `WF(Tick)`). This takes for granted that
  the two inner loops of a pass end: `hal_punt_rx_poll` until the ring is empty
  (`cp_main.c:137`) and the CLI's reading of what was typed (`cli_poll`). Nothing
  in the code bounds them: packets or input that came as fast as they are read
  would hold the clock, and with it ageing. In `Arp` the clock's
  fairness is stated on `ClockStep`, that the clock moves: only `Tick` moves it,
  and it can whenever `main` is in its loop.
- `Tue`: both clocks run (`WF(DpEdge)`, `WF(NoAccess)`). `SF(Access)`: the
  processor in a call makes its next access some time; strong, because the bus's
  setup cycle makes an access impossible on every other edge. No fairness on
  `Call`: the firmware need not call.
- `PuntRing`: the consumer polls for ever (`WF(Consume)`), as `main`'s loop does
  with the RX ring. The producer may stop in the middle of a send; what it never
  published is not in the queue.
- `Rx`: the clock runs (`WF(Edge)`); a MAC sends the rest of a frame it has
  started (`WF` of `Offer(p)` within a frame), which a MAC must, the line not
  waiting; the pipeline takes a header vector that is held for it
  (`WF(Edge /\ Emit)`), for its ready goes straight through to a traffic manager
  whose queues drain. No fairness on the start of a frame, and none on the parser
  accepting one.
- `Route`, `Acl`, `Vlan`, `Qos`, `MauStage`, `Tm`: none; their properties are safety.

## 4. What is proved

Every theorem holds for every value of the constants that the `ASSUME`s of its
module allow; only `ImplementsSafely` of `TueProof` assumes more, and says what. The assumptions are those sizes,
widths and null values the code has (a size is positive, a null is not data), the
spacing of vectors in `MauStage`, the division of the pointers' range by the
slots in `PuntRing` and of the TCAM's depth by the egress indices of a port in
`Vlan` (2048 by 256), and in `Tue` the ratio of the clocks and that the polls
outlast the drain (`TimingAssumption`). Every component has an inductive
invariant, `Init => IInv` and `IInv /\ [Next]_vars => IInv'`, from which its
claims follow.

| module | theorems |
|---|---|
| `FdbProof` | `InductiveInvariant`; `TypeCorrect`; `UniqueEntries`: `OneEntryPerMac`; `NoOrphans`: `NoOrphanRule`; `UnsharedRules`: `UnsharedInstalled` |
| `ArpProof` | `ImplementsFdb`: `FdbSpec`; `ForwardingHolds`: what `FdbProof` shows, under ARP; `ArpInductiveInvariant`; `ArpTypeCorrect`: `TypeOK`; `AskedFirst`: `AskedBeforeForgotten`; `HeardFound`: `HeardIsFound` |
| `RulesProof`, routes | `RouteInductiveInvariant`; `RouteTypeCorrect`; `NoOrphanRoutes`: `NoOrphanRoute`; `UnsharedRoutes`: `UnsharedInstalled`; `WithdrawnGone`: `WithdrawnIsGone` |
| `RulesProof`, ACL | `AclInductiveInvariant`; `AclTypeCorrect`; `NoOrphanRules`: `NoOrphanRule`; `OldestFirst`: `OlderGoesFirst` |
| `RulesProof`, VLAN | `VlanInductiveInvariant`; `VlanTypeCorrect`; `TagsFollowMembership`: `MembershipAgrees`; `PortRulesFollow`: `PortRulesAgree`; `ChangesStayInVlan`: `OneVlanPerCall` |
| `RulesProof`, QoS | `QosInductiveInvariant`; `QosTypeCorrect`; `NothingStale`: `WordsAreCurrent`; `OneQueuePerDscp`: `DscpAgrees` |
| `TueProof` | `InductiveInvariant`; `TypeCorrect`; `NoTimeout`: `NeverTimesOut`; `ImplementsSafely`: for INSERT and DELETE, the safety of `Implements` |
| `PuntRingProof` | `InductiveInvariant`; `TypeCorrect`; `RefusedWhenFull`: `RefusedOnlyWhenFull`; `ImplementsSafely`: `Spec => Queue!Init /\ [][Queue!Next]_(Queue!vars)` |
| `MauStageProof` | `StageInvariant`; `StageType`: `TypeOK`; `VerdictsUntorn`: `UntornVerdict`; `HashesOwn`: `OwnHash` |
| `RxProof` | `InductiveInvariant`; `TypeCorrect`; `FramesWhole`: `WholeFrames` |
| `TmProof` | `InductiveInvariant`; `TypeCorrect`; `QueuesHoldPending`: `QueueHoldsPending`; `LeakUpward`: `LeaksUpwardOnly` |

`FdbProof`. `NoOrphanRule` is not inductive. To keep it when an address is
deleted one must know that the rule removed is the only rule that named the
address, that is, that every rule stands at its own address's index
(`RuleAtHome`), and that no second slot still holds the address
(`OneEntryPerMac`). To establish it at the end of boot one must know what
`fdb_init` left behind: the only rule that outlives the wiped table is the
gateway's, and the first static entry is for the same address, so it takes that
rule over (`BootInv`). `IInv` is the conjunction of the four. The proof that a
step keeps it has one lemma per action; the table part of each lemma shows
`TypeOK` and `OneEntryPerMac`, the rule part `RuleAtHome` and `Backed`.
`UnsharedInstalled` has an invariant of its own over `IInv`.

`ArpProof`. Every event of `Arp` is one of `Fdb` or leaves its variables alone
(`StepImplements`); `FdbProof` is instantiated, and its theorems then hold of the
database under ARP. For the neighbours two facts are carried along. An entry that
is not being asked has all its retries (`AllRetries`), so `arp_age` never reaches
the `arp_delete` of a STALE neighbour, which could clear another slot of the same
address. And retries left and requests sent come to `ARP_PROBE_RETRY_MAX`
(`RetriesAsked`). `arp_age` passes the table from slot to slot: its recursive
function exists because its first k values do for every k, a least k for which
they did not being impossible (`PassExists`), and by the same argument each slot
has one turn and is otherwise left alone, except that a free one may be filled
(`PassFacts`; `SlotCases` lists what can come of it). `HeardIsFound` is about the
walk: the slot `arp_add` takes is the first that holds the address, or becomes the
only one (`RecordIsFound`).

`RulesProof`, routes. As in `FdbProof`: a prefix is in one slot
(`OneSlotPerPrefix`), a rule stands at its own index (`RuleAtHome`), and
`route_init`, which wipes the table and not the stage, runs before the first rule
(`NoRulesBeforeInit`). That an index lies in the TCAM needs a power of two to be
positive, which the solver does not know of a symbolic exponent; `PowerOfTwo` counts
the subsets of a set. `WithdrawnIsGone` follows from the invariant before and after
a step: a slot that gives its prefix up was freed by `route_init` or `route_del`,
never by an add, which fills a slot that is free or holds the very prefix
(`SlotGivenUp`); the prefix was in that slot only, and a rule that still named it
would be a route of the table (`NoOrphanRoute`).

`RulesProof`, ACL. `NoOrphanRule` needs little beyond the types: an entry and its
rule come together, and a rule that a wrapped id replaces takes the new entry's
place. `OlderGoesFirst` rests on `IdsInOrder`: while no more ids have been taken
than the TCAM has entries, id and index are one, and nothing stands at an id not yet
given, so a new rule comes last (`NewEntryIsLast`), and only an add makes an entry
(`OnlyAddsFill`). The invariant is kept although failed adds leave gaps and lost
deletes leave rules, and it ends, as it must, when the ids go round.

`RulesProof`, VLAN. Ports share egress indices, but VLANs never do: the remainder
of an index by the span tells the VLAN whatever the port (`EgressEntryFacts`),
which is `OneVlanPerCall`, and why a call on one VLAN cannot spoil another's rules.
`VlanIInv` says that the registers mirror the database (`RegistersMirror`), that a
rule stands at the index of its own port and VLAN (`EgAtHome`), does what the
database asks of a member (`EgBacked`), and is there when the member has the index
to itself (`AloneInstalled`). The ingress half (`IngressInv`) is kept by itself: both
rules are written in one call, at indices no other port has (`PortEntryFacts`),
and `vlan_init`, which changes the configuration without them, runs before the
first. `PortRulesAgree` is the two together.

`RulesProof`, QoS. A rate is written over two words, the second of them the next
port's. So what a register may hold is a set (`MayHold`): its own port's setting, or
the upper word of the rate below; `Current` says it of all registers, and each
call keeps it, whichever word it writes over. `qos_apply_all` writes the ports one
by one; as in `ArpProof` its recursive function exists by the argument of the least
counterexample (`ApplyAllExists`), and after n ports the registers of n ports are
current (`ApplyAll`), whatever they held before.

`TueProof`. The driver's place and the engine's state agree only in eight ways,
the phases of a call: `Resting`, `Waiting`, `Writing`, `Committed`, `Draining`,
`Applying`, `Finishing`, `Finished`. Each says what the registers, the latches and
the synchroniser hold; `Phase` is their disjunction, and every clock edge keeps a
phase or goes on to the next. `NeverTimesOut` is counted along the phases: twice
the polls plus what is left of the drain is bounded. For the refinement, the
operands in the registers and the latches are those of the call until its pulse is
over (`OperandsAgree`), so the first write of the pulse is `TcamTable`'s `Apply`
(`ApplyStep`), the further writes repeat it, and the last poll is its return.
`hal_tcam_modify` and `hal_tcam_flush` do not do to the one rule what their names
say (section 5); the theorem therefore assumes `OneRuleCmds`, that the calls are
INSERT and DELETE, as the firmware's are and the run's.

`PuntRingProof`. Each end acts on what it read some steps before. `ProducerInv`
and `ConsumerInv` say what of that is still true: an end's own pointer is what it
read, a slot found free stays free and one found full stays full, and the words
moved so far are those of the packet. Register values less than a ring apart
name different slots, across the wrap, since the slots divide the registers' range
(`SlotsDiffer`); so what one end writes the other does not read (`Apart`). The
refinement reads the slots in use as a sequence, `Contents`: publishing appends the
packet (`PublishSends`), advancing takes the head (`AdvanceReceives`), every other
step is a stutter.

`MauStageProof`. `UntornVerdict` is about the output; `VerdictInv` says it of each
register on the way: what the lookup found still gives a verdict of the lookup's
edge, and so does the action that was read. A write on the lookup's edge changes
the action under a hit only at the hit's own index, and then either the write
is seen by `Says` after the edge or the rule is `gone`; this needs every rule to
stand at its own address (`RuleAtHome`). A write one edge later is too late,
because the action is read on that edge from the memory as it was before.
`HashInv` follows a vector and its hash; the key register must keep the key
until the vector has left `s1`, which is what `wait > 0` and the gap give.

`RxProof`. `WholeFrames` is true because two machines that never speak to each
other agree: while the parser is in a frame the grant is its port's, and the port
is in the middle of a frame; otherwise the grant is for a frame of which no cell
has been taken (`GrantFits`). `OffersFit` says a port's next cell starts a frame
exactly when it should, `CountFits` that the parser's count is what the port gave.

`TmProof`. `q_cnt` loses increments, so it says little; the ring is judged by its
tail, which never does: until a frame is overwritten the tail is as far from the
head as frames are pending (`RingInOrder`). That a transmitter never takes an
unwritten entry is not about order at all: either the whole ring is written, or it
has not wrapped and head plus count does not pass the tail (`CountedAreWritten`).
`LeaksUpwardOnly` needs every queue to hold frames of its own port (`OwnFrames`)
and every transmitter that is not idle to have a cell (`CellsInFrames`), so that
the lowest one that asks is served for a frame of its own port or a lower one.

Only model-checked:

- liveness, for which the prover has no rule: `DynamicForgotten`, `QuietForgets`,
  `StuckOnlyInDrop`, and the liveness of `Tue`'s and `PuntRing`'s `Implements`;
- `DropEnds`, which is violated.

What a recursive function computes for every input cannot be proved by the
library's induction theorems, whose parameter is an operator. Where it was needed
(`LeftAlone`, `PassExists`, `ApplyAllExists`), the least natural number for which a
fact fails is taken instead, with `MinOfNaturals`.

## 5. Disagreements found

`PROJECT.json` has each with its lines. One has a run of its own (`rx_drop`); the
rest are visible in the model, where an invariant says what remains true.

Receive and transmit path:

- `PS_DROP` waits for the last cell with `ready` low: a dropped frame of several
  cells stops the receive path for ever (`rx_drop`; `StuckOnlyInDrop` shows that
  nothing else does).
- `top/mac_rx_arb.sv` and `common/mac_rx_arb.sv` are one module name with two
  behaviours; with the one that grants single cells, frames mix (it is the mutant
  of `WholeFrames`).
- The last cell of a frame is written to a cell that was not allocated;
  `fl_count` loses a decrement; the chain assumes that cell ids follow each other;
  only port 0 frees cells, and of each frame only one.
- `q_cnt` loses an increment when a frame is queued on the edge another is taken.
- A read response reaches every sending port: a port sends cells of lower ports.
- A stage's pipeline moves on whatever `ready` is: a vector at a blocked output is
  lost. A vector gets the action of a rule written over the one it hit. The stage
  promises a vector on every edge, which would break `OwnHash`; the parser never
  sends them so close.

Update engine and HAL:

- `hal_tcam_modify` removes the rule; `hal_tcam_flush` writes one action and no
  entry; parser states are written without their valid bit, and never deleted.
- `table_id`s that agree in 11 bits are one entry, whatever `table_map.h` promises.
- The firmware's masks have 1 for a bit that must agree, the TCAM's 1 for one that
  need not (`mau_tcam.sv:53-59`), and `rv_p4_hal.c:61-62` writes them as they are;
  the conversion the architecture describes is in the co-simulation only. A /24
  route compares the host bits, a VLAN rule ignores its port, and the rest of the
  key must be 0. Which packets the rules of `route.c`, `acl.c` and `vlan.c` hit is
  not what those files mean, and the models claim nothing about it.
- The upper word of a rate is written over the next port's register. The last
  slots of the TX ring lie on the UART's page.

Firmware:

- A route's index follows its length, not the reverse: 0.0.0.0/0 stands before
  every other route, routes of different lengths replace each other's rules, and a
  /32 can replace the default rule. `route_del` deletes whatever is at the index.
- ACL ids go round the TCAM after 2048 adds, not 4096; `acl_delete` forgets the
  rule before it is gone; the CLI casts ids and ports without looking.
- The mask of the VLAN rule for untagged frames is 0, of which the code's comments
  say two things, neither of them what the TCAM does; ports eight apart share
  egress rules; a PVID may name a VLAN that does not exist.
- `sp_queues` is never written to the hardware.
- A static address loses its rule when an address with the same low 12 bits ages
  out; an address just learned may age out at the next second (`age_ticks` is 0,
  not the time).
- A neighbour entered twice survives `arp_delete`, which does not touch the FDB.

## 6. Not modelled

- The packet buffer's free list and the contents of cells. The parser does not wait
  for an allocation and the transmitters return next to nothing (section 5), so
  no property about cells being used once holds; in `Rx` and `Tm` frames are
  followed by their cells' order instead.
- The crossing from the arbiter's `clk_mac` to the parser's `clk_dp`: the top level
  wires a handshake straight across, with no synchroniser, though `clk_mac` is the slower: a cell may
  be seen ready on several edges of the parser's. `Rx` is the two on one clock.
- Which packets a route, an access rule or a VLAN rule matches, and so what becomes of
  a packet: with the masks as they reach the TCAM (section 5) the rules do not
  select by prefix, port or VLAN.
- What the parser's TCAM says and the fields it extracts; the hash functions and
  the ALU's arithmetic: functions of their inputs with no control.
- The deparser: instantiated nowhere. Top-level wiring, the bus bridge, reset
  synchronisers.
- HAL calls for port enables, statistics, counters, meters and the UART:
  independent accesses to registers that no RTL in the repository implements.
- The CLI's line editor, the parsing of numbers and addresses, its show, port and
  help commands, which change nothing modelled; `hal_init` and the statistics
  that `main` prints.
- The compiler (`rvp4cc.py`), test benches and co-simulation, ASIC flow scripts.

## 7. Plan

Done: `Fdb`, `TcamTable` and `Tue`, `Fifo` and `PuntRing`, `Arp` over `Fdb`,
`MauStage`, `Rx`, `Tm`, `Route`, `Acl`, `Vlan`, `Qos`, and the proofs of section 4.

Left, in this order:

1. `Tue` with MODIFY and FLUSH: an abstract table that says what these calls do,
   and the refinement for all four commands.
2. `Arp`: the exact count of requests, in place of the bound that `RetriesAsked`
   carries, and what `arp_delete` leaves when an address is entered twice.
3. `Rx` and `Tm` joined at the header vector, if an abstraction of the packet
   buffer can be found that the code keeps to (section 6).
