# A formal model of RRPP

This directory models the Rapid Ring Protection Protocol daemon of this
repository and the state that the switch driver under it keeps, in TLA+. It
holds the specifications, the TLC configurations that check them, and TLAPS
proofs of the results that matter most for every value of the constants.
`PROJECT.json` lists the components, the runs, the theorems, the source lines of
every definition, the hazards, the mutants that show that a property can fail,
and the disagreements between code and comments.

## 1. The program

Switches (IP1829 chips with a CPU) are cabled into a ring. An Ethernet ring
without protection is a loop: broadcast frames go round for ever. RRPP keeps
one port closed, at the *major node*, and opens it when a link breaks. One
process runs per node: `src/src/main.c` parses the command line, constructs a
major or a transport node and waits for SIGINT.

| Component | Source | State | Operations |
|---|---|---|---|
| process of a node | `node/*_node.c` constructor and destructor, `main.c` | step of the boot or the kill, threads, STP of the switch, VLAN data file | boot, start a thread, SIGINT, failures, exit |
| major node | `node/major_node.c` | status (COMPLETE, FAILED), `recv_hello_timeout` | hello, link-down and link-up received; check tick; hello tick; jobs |
| transport node | `node/transport_node.c` | status (UP, DOWN, PREFORWARDING), `preforwarded_port`, `recv_complete_timeout`, link states of the last round | detect round, flush frames received, condition variable, check tick; jobs |
| the ring | the nodes and the cables | links, frames under way | links fail and return, frames are lost |
| VLAN table access | `kit/vlan_raw.c` | the switch's VLAN table and its register window | add ports to a VLAN, remove them |
| VLAN data file and port switching | `kit/vlan.c` | `/home/rrpp/vlan-data` | create it, block a port, release a port |
| MAC learning, STP, FDB | `kit/kit.c` | registers of the switch | `enable_mac_learning`, `kill_stp`, `refresh_fdb` |
| RRPP frames | `protocol/rrpp_frame.c`, `kit/sendto_port.c` | none | build a frame, put the special tag on, take it off |
| frame classification | `judge_frame_type` in both nodes | none | decide which handler runs |
| link status | `kit/link_status.c` | none | read a link's state |
| register set-up | `kit/rrpp_regs.c` | registers of the switch | sends RRPP frames to the CPU |
| raw socket, thread wrapper | `kit/raw_socket.c`, `kit/thread.c` | none | I/O, `pthread_create` |
| ACL rules of the driver | `setAclRule`, `aclCleanTable` in `ip1829func.c` | rule list, mask of used entries, counters, rule and action tables of the switch | set, change and clean a rule |
| VLAN entries of the driver | `setVlanEntry*`, `getVlanEntry*` in `ip1829func.c` | the same table and window | set and get five fields of an entry, clear it |
| settings of the driver | most commands of `ip1829func.c` | registers of the switch | some two hundred pairs of set and get commands |
| address tables of the driver | `setLutEntry`, `setImpEntry` and their get commands | the LUT of MAC addresses, the IMP table of IP addresses | create, change, delete and find an entry; learning |
| IGMP tables of the driver | `setIGMPMctTable`, `setIGMPSltTable` and their get commands | the MCT and SLT, the registers they share | set and get an entry |
| the rest of the driver | `icplib/driver/switchdriver` | | ioctl chain, raw registers, MDIO lines, counters |
| vendor headers | `icplib/include`, `icplib/lib` | | not part of RRPP |

**How they interact.** Each node's threads share the status and a counter
under `access_mutex`. A thread *decides* inside the mutex and *acts* after the
unlock: it reads the data file, changes the membership of a port in each VLAN
through the driver, clears the FDB and sends frames. Nothing orders the actions
of two threads. Nodes exchange RRPP frames; `rrpp_regs_config` makes the switch
hand every RRPP frame to the CPU, so a frame travels on only when a handler
sends it on. The receive thread of a transport node wakes the *complete* thread
by a condition variable that has no predicate. The constructor writes the data
file that all jobs read and the destructor removes it.

**What is hard.** The jobs of two threads interleave on one port. Timeouts race
with late frames. Signals of the condition variable get lost, or come without
a cause. Register accesses fail half-way and nobody looks at the result. The
process may be killed between any two steps of a job while the switch keeps
what was done. Link changes may follow each other faster than the frames about
them. The list with source lines is under `hazards` in `PROJECT.json`.

**What makes each part correct.**

* Process: a job never finds the data file missing, except in the last window
  of the destructor.
* Major node: the second port is closed in COMPLETE and open in FAILED once the
  jobs are done; flush frames leave when the switching that they announce is
  done. The complete-flush-fdb, on which transport nodes open their ports,
  leaves the receive thread after that port is closed and the check thread, on a
  timeout, after it is opened; a silent ring is noticed after exactly `Limit`+1
  ticks.
* Transport node: a port that comes back is closed before anyone is told;
  PREFORWARDING ends; ports that were closed open again and a flush of the FDB
  is asked for after that; no change of the links leaves the node DOWN on a
  whole ring.
* Ring: no loop outlasts the frames about a change (one that a wakeup without a
  signal opens ends with the next hello), and the ring ends up closed in exactly
  one place.
* Frames: a frame means at its receiver what its sender meant, through any number
  of hops; frames of other rings change nothing.
* VLAN entries and settings of the driver: what is set is what is read, whatever
  other commands come between.
* Address and IGMP tables: an address's entry is found as it was set, though
  addresses share slots with each other and with what the switch learns.
* VLAN table: of its ports a call changes those that it names, and adds the
  CPU's, at once or not at all. It does not keep what it was not asked to
  change: tag maps, priority and FID of the entry are overwritten.
* ACL rules: list, mask and hardware agree; a rule is refused only
  when there is no room; every field that a caller names is compared.

## 2. The modules

| Module | What it is |
|---|---|
| `NodeProcess` | boot, kill and exit of a node, for any threads in any order; its theorem |
| `MajorNode` | the major node: `NodeProcess` instantiated, critical sections, jobs step by step |
| `MajorSpec` | abstract state machine of the major node's status; `MajorNode` implements it |
| `TransportNode` | the transport node, in the same way |
| `TransportSpec` | abstract state machine of the transport node's status |
| `RrppFrame` | what a frame holds, the special tag, and both `judge_frame_type` |
| `Ring` | one major node and `N` transport nodes, links and the frames of `RrppFrame` |
| `VlanRaw` | `raw_vlan_add_ports` and `raw_vlan_rm_ports`, one action per register access |
| `VlanTable` | the VLAN entry commands of the switch driver, bit by bit |
| `SwitchRegs` | registers, places in them, and what a setting is |
| `PortSettings`, `BridgeSettings`, `CaptureSettings`, `VlanSettings`, `QosSettings` | the settings of the switch driver, one definition for each pair of commands |
| `SwitchSettings` | all settings together: the dispatch tables, and the commands as steps |
| `AddressTables` | the LUT and the IMP table |
| `IgmpTables` | the MCT and the SLT, with `makeTable` and `getTable` |
| `AclRules` | `setAclRule` and `aclCleanTable` |
| `MCSwitchDriver` | `VlanTable`, `SwitchSettings`, `AddressTables` and `IgmpTables` in one run, and their constants |
| `MCVlanAcl` | `VlanRaw` and `AclRules` in one run |
| `MCRing` | port numbers of the ring, the bound on frames under way |
| `MCMajorNode`, `MCTransportNode`, `MCVlanRaw`, `MCAclRules` | constants and the properties that the code does not keep |
| `MajorNodeProofs`, `TransportNodeProofs`, `RingProofs`, `VlanRawProofs`, `AclRulesProofs` | the proofs of one component each |
| `SwitchTablesProofs` | the proofs of `VlanTable`, `AddressTables` and `IgmpTables` |
| `SwitchSettingsProofs` | the proof of `SwitchSettings`, with the register map it rests on |

### NodeProcess

`phase` is the next step of the main thread: `stp` (kill_stp), `regs`, `file`
(vlan_create_data_file), `control` (join the control VLANs), then the name of
each thread that is created next, `up`, and for the destructor `leave`,
`remove`, `restore`. A failing step of the constructor exits without the
destructor (`BootFails`), as `main()` does. SIGINT may arrive at any step of
the boot, since the constructor installs the handler first. `Crash` is
`fopen` returning NULL in `block_port` or `release_port` followed by `fread`
through that NULL stream; the model lets it end the process.

The major and the transport node `INSTANCE` this module with their own threads
and orders, conjoin their steps with its actions, and so share its life cycle.
It has no run of its own: `DataFilePresent` is checked in the runs of the nodes.

### MajorNode

The status and the counter are touched only inside `access_mutex`, in sections
that call nothing: a section is one action (`RecvHello`, `RecvLinkDown`,
`RecvLinkUp`, `CheckTick`). What the thread then does is a *job*: `stage[w]` is
the step that worker `w` is about to take, `op[w]` what the job is, and
`next[w]` the next entry of the data file. The steps are `SwitchLearning`,
`OpenDataFile`, `SwitchVlan` (once per VLAN), `RefreshFdb`, `SendMain`,
`SendSecond`, `SendHello`. Every register access may fail; the loop over the
VLANs then stops and the caller goes on, as in the code. Of the switch the model
keeps `learning` and `member`, the VLANs that hold the second port; they survive
an exit. The destructor takes ports out of the control VLANs through the same
unserialized window of registers (see VlanRaw) that the jobs use: a job on the
second port that runs while it does counts as overlapped. `by` and `history` are
history variables: who changed the status last, and whether jobs ever overlapped
or an access failed. They do not restrict any step and only qualify properties.

On a timeout the check thread sends the frame that it filled once at its start,
a COMPLETE-FLUSH-FDB (`FlushFrame`), although the comment at major_node.c
228-229 speaks of COMMON-FLUSH-FDB. The model follows the code: this frame leaves
with the second port open, and `FlushAfterSwitch` says so.

### TransportNode

Four threads. `detect` reads both links (`DetectRound` takes any pair of states,
which includes a failed read that counts as up), then runs the handler for the
main and the second port with the *new* state of the other (`DetectPort`),
stores the readings (`DetectStore`) and starts again. It reads the status
outside the mutex; the module's header says why reading and acting are one step
all the same. `recv` clears the FDB or signals the condition variable; a signal
is lost when *complete* does not wait. `complete` and `check` set UP and release
the port afterwards. `fdb` is `stale` from a change of a port until the next
flush. `refresh_fdb` may fail in every thread and nobody looks at its result;
`failed` says that the flush of the job that opened a port was asked for and
refused. `calm` ends when jobs overlap with each other or with the destructor.

### RrppFrame

A frame is its header (the byte of the destination that tells the type), the
special tag between CPU and switch, and the body that receivers look at: TPID
and VLAN, domain, ring. `fill_special_frame` puts a tag with a map of ports on
a frame that a node sends, the switch takes it off (`Leaving`) and puts one with
the number of the port on a frame for the CPU (`Arriving`; the number counts
from 0, which `SrcPort` undoes), and a transport node takes that one off before
it sends the frame on (`cp_remove_special_tag`). `MajorJudges` and
`TransportJudges` are the two `judge_frame_type`, check by check. The VLAN field
is 12 bits wide; `main.c` lets larger numbers pass, and with one of those no node
would know its own frames (`FrameAssumption`).

### Ring

A frame under way is a frame of `RrppFrame` with the node and the port it will
reach. What a node does with it follows from what it *judges* it to be, not
from what the sender meant. `RecvStray` lets frames in that are not the ring's:
of another VLAN, domain, ring or type, at a port that is not in the ring, or
without a tag. If one of them got through the checks it would be handled like
the ring's own.

Handlers with their jobs are single steps here: interleavings inside a node are
the subject of the two node modules. What *complete* does when it wakes up
without a signal is a step of its own (`WakesSpuriously`); `early` says that it
happened since the last tick. `wire` is a set of frames addressed to the next
node; `LinkFails` destroys the frames on the link and `FrameLost` any other.
Frames that no handler forwards end at the next CPU: LINK_UP, LINK_DOWN and
COMMON_FLUSH reach the major node only from its neighbours, and on a longer ring
it learns of a break by its own timeout. Time passes (`Tick`, one hello period)
only when frames and detection have settled, since these take milliseconds and
the timers a second or more. `calm` says that since the ring was last whole no
frame was lost, links changed one at a time and none failed at a node in
PREFORWARDING.

### VlanRaw

One action per access to the register window, by any number of callers that
nothing serializes. An access may fail, and the call returns at once. The code
takes all of register 0xd4 for ports: twelve ports, the port of the CPU (`Cpu`),
which `raw_vlan_write_member` puts into every VLAN it writes, and the first
three bits of a tag map (`Tag`), which it reads and writes back. Registers 0xd5
to 0xd8 it writes with constants, so that tag maps, priority and FID of the
entry are lost: `rest` is `reset` from then on.

### VlanTable

The driver's view of the same table: an entry is six words, a word is the set of
its bits that are 1. `SetMember`, `GetMember` and so on list which bits of a
value each setter writes, and each getter reads, in which word and from which
bit on; `Stored` and `Loaded` apply such a list. A command runs under
`ip1829_mutex` and is one action. `RawFill` and `RawStore` stand for the single
register accesses of `vlan_raw.c`, which come between commands and leave the
window as they like. `setVlanEntryClear` zeroes five of the six words and does
not read the entry first (line 9683), so that the valid bit, the priority, the
FID and the upper tag bits of a cleared entry are those of the entry used last.
The model keeps this; `FieldsKept` promises nothing for them.

### Settings of the switch driver

A *place* is one bit of one register, a *setting* a name, the places its set
command writes for each value it accepts, those its get command reads, and the
settings that make the driver refuse it. The five modules list the settings as
the code computes them: `Run` for a field, `EachPort` for a bit of each port in
a map of two registers, `WholeMap` for a command that writes the whole map and
clears the rest. `SwitchSettings` collects them by the driver's tables of
functions. Every command reads registers, changes its places and writes the
registers back under `ip1829_mutex`, so it is one action (`Command`).

`SettingsKept` says that a get command returns what its set command was given
last. It holds for each setting by itself, so one setting is followed per
behaviour, with the commands that touch a place it looks at (`Rivals`). The
module lists what is not kept, and why:

* `Companions`: commands that set the same thing on purpose.
* `Clashes`: commands that share places though they set different things. To-all-
  ports of IPv6 headers is written to the bit of stop-finding (1892); the modes
  for unknown source addresses overlap the binding's enable bits (5268); the VIDs
  of ACL actions start at the register of the protocol VLANs (12809).
* `Misread`: get commands that do not find what was set, because of an unassigned
  register number, a complement instead of a bit, or a wrong shift.

Neither clashes nor misreadings are counted as findings: no comment in the
repository says what these commands should do, and the manual of the chip is
not part of it.

### AddressTables

Each address has one slot, its hash, in each block of the LUT (or in the IMP
table); the LUT's hash is computed by the switch, the IMP's by `IMP_Hash`, and
`Hash` is any function. The values of an entry are packed into words as the code
does (`LutPacked`, `ImpPacked`), with what the range checks let through: a
priority of 8 sets the drop bit, port 0 becomes port 32, and block 2 turns the
read that looks at the slot into a write, so that block 0 loses its entry
(`Probed`). The switch learns and forgets addresses as it likes but leaves
static entries alone. `EntriesKept` follows one address: what was made of it is
what the get command finds, whatever is done to the addresses of the same slot.
The IMP table is reached through the registers of the IGMP tables, and its
commands wait after an access but not before the first: while the switch stores
an SLT entry (`storing`), `setImpEntry` judges its slot by whatever it finds
there and may take the slot of another address. `EntriesKept` promises nothing
for an entry lost that way, nor for what is read while the switch is storing.

### IgmpTables

Numbers are sets of bits here, words are pairs of a word's number and a bit, and
`makeTable` and `getTable` are translated statement by statement: a value is cut
at 16 bits and may take three words. `setIGMPSltTable` returns without waiting for
the switch, unlike every other command of a table; `pending` is what the switch is
still to store, and a command that comes meanwhile (`Overtake`, `OtherCommand`)
may spoil it. `IgmpKept` promises an SLT entry only if the switch had the time.
The get command of the SLT reads 39 words and takes the last map of an IPv6 entry
from 40: ports 26 to 29 of that map are whatever lies beyond the array.
Addresses come back in reverse order and port 29 of an MCT entry is not kept;
`MctPromise` and `SltPromise` say so. Where the fields of an entry lie is said
once (`MctPorts`, `LastPart`, `UsedPorts`, `Addresses`, `Buffer`), for `makeTable`
and `getTable` and for the proofs. `IgmpAssumption` says that entries are records
of sets of bits; what does not fit is refused, or cut off as the code does.

### AclRules

A rule needs one entry of the table per *mode* (a set of fields that an entry
compares), and one more for an action that the rule itself holds. `Modes` is
the decision tree of `setAclRule`, `Compares` the fields that each
`acl_write_table_*` writes, `Taken` the shifting test of `acl_find_index` over
two words of the mask. An ioctl call runs under `ip1829_mutex`, so a command is
one action. The constants give the width of a word (16 in the code), the
number of words (8) and the field sets that callers ask for.

Reading the code for this module showed four things that the model keeps as they
are: the branch for DMAC at lines 12202, 12257 and 12319 tests SMAC again and is
dead; a call without a field counts a rule that it does not keep (line 12120),
which the check at 12658-12659 calls an error (`acl_clean_count`); an IPv6 rule
drops every field but the addresses and two ports; and the select of modes
ignores COS and the routing port, which no module here models.

## 3. The runs

| Run | Question | Bounds | Distinct states (approx.) |
|---|---|---|---|
| `major_node` | Do jobs find the data file, whatever fails at boot and whenever the node is killed? Does the port follow the status, the flush the block, and the status MajorSpec? Is silence noticed, and does the port settle? | `Vlans` = 2, `Limit` = 2 | 213,000 |
| `major_race` | Is a port blocked in COMPLETE? (No.) | `Vlans` = 1, `Limit` = 1 | until violated |
| `transport_node` | The same question, and: do the ports follow the status, and block, frame, release and flush their order? Is a node never stuck with both links up? Does the status implement TransportSpec? | `Vlans` = 1, `Limit` = 1 | 5,800,000 |
| `transport_live` | Does PREFORWARDING end, and does a whole ring get its ports? | `Vlans` = 1, `Limit` = 1 | 1,100,000 |
| `transport_open` | Are both ports open in UP? (No.) | `Vlans` = 1, `Limit` = 1 | until violated |
| `transport_links` | Are both links up in UP? (No.) | `Vlans` = 1, `Limit` = 1 | until violated |
| `vlan_acl` | Does a VLAN call change the ports that it names, add the CPU's, reset the rest and change no more, and does success mean that it is done? Do list, mask and table of the ACL rules agree, and is every field of a rule compared? | 2 callers, 1 VLAN, a low port, a high port, the CPU's, a tag bit; ACL: 2 words of 3 bits, one action, 4 field sets, 1 empty rule | 825,000 |
| `vlan_race` | Do two calls leave the ports that neither names alone? (No.) | 2 callers, 2 VLANs, a low and a high port | until violated |
| `ring` | Does no loop last, and is no node stuck down with its links up? | `N` = 2, `Limit` = 2, `Busy` = 3 | 1,970,000 |
| `ring_live` | Does the ring close at exactly one place once its links stop changing, whatever frames of other rings come in? Is every frame understood? | `N` = 2, `Limit` = 3 | 178,000 |
| `switch_driver` | Does every field of a VLAN entry, every setting, every address and every IGMP entry read as it was last set, whatever comes between? | 2 VLANs with 2 port sets, 1 code and one value too wide of each; 8 ports; 3 MAC and 3 IP addresses in 2 slots; 5 and 9 IGMP entries | 493,000 |
| `acl_clean_count` | Is no rule counted once the ACL table is clean? (No.) | 1 word of 3 bits, 1 field set and the empty one | until violated |

Why the bounds are enough. Two VLANs are the smallest data file whose loop can
stop between two entries; with one VLAN a job still has its first entry, its end
and its failure, which is what the interleavings of three workers in
TransportNode need. `Limit` counts equal ticks: 1 and 2 give a first, a middle
and a last one. A ring of two transport nodes has a node next to the major node
on each side, and a link between two transport nodes that the major node does
not hear of; the interesting failures (a link that comes back at two nodes at
once, a break that nobody reports) need no third. Two callers and a port in each
half of the port set give every overlap of two calls; that a call of its own
leaves other VLANs alone needs a second VLAN, which `VlanRawProofs` has for any
number and `vlan_race` for overlapping calls. Two words of three entries give
runs inside a word, over its end and at the end of the table, and enough rules
to fragment it. In a VLAN entry all bits set and no bit set show every mask that
is too wide or too narrow and every wrong shift. The ports are those at both
ends of a register, of the map and of the fast ports; values of a setting are no
bit, the lowest alone and all but the lowest, and registers start with all
places 0 or all 1. Three addresses are two in one slot and one in another. IGMP
entries set every second field and leave the fields between empty, so that a
field that reaches into its neighbour shows. In `switch_driver` a behaviour
moves one of the five parts and leaves the others alone. The registers of most
are apart, and so are their tables. The IMP table and the tables for IGMP share
command and data registers: what commands of the one do to the other is in the
models of both, `SltIsTold` in AddressTables and `OtherCommand` in IgmpTables,
so each part has the interference without the other's moves. In `vlan_acl` a
behaviour moves the VLAN table or the ACL rules, which share no register. The
ring has the first and the last port number; `ring` and `ring_live` have a
`Limit` of 2 and of 3. In `ring` links change and frames are lost only while at
most `Busy` frames are under way (`MCRing!MCNext`); `RingProofs` proves the
three invariants of the run without that bound and for every `N`.

Every property has a mutant: a plausible bug in one mapped operator, under
which TLC finds the property violated with the same configuration. The bugs
stand beside the operators they replace, with a comment that says so.

### Fairness

`MajorNode!FairSpec`: weak fairness on the check thread's tick, on each
worker's job steps, and on the main thread's boot and kill. The threads are
plain POSIX threads with equal priority that sleep and wake, no step of a job
waits on another thread, and the mutex is held for a few assignments only.
Nothing forces a frame to arrive, a boot or a SIGINT. `TransportNode!FairSpec`
is the same, for a process that nobody ends; wakeups without a signal and
incoming frames are not fair. `Ring!FairSpec` makes frames arrive, links be
noticed and time pass, and excludes losses: a ring that loses every frame never
heals. Foreign frames may come in at any time and need not. Links may change at
any time that no frame is under way, and `RingHeals` asks for nothing until they
stop.

## 4. Disagreements found

Five runs are expected to fail; each states what a comment or a check in the
code says.

* `major_race` (`CompleteMeansBlocked`): the jobs of the receive and the check
  thread overlap, and the node ends COMPLETE with the second port open in some
  VLAN. The comment at major_node.c:343-344 promises a blocked port.
* `transport_open` (`UpMeansOpen`): *complete* or *check* release the port
  while *detect* still blocks it; the node is UP with the port closed, for good.
* `transport_links` (`UpMeansLinksUp`): a port that goes down during
  PREFORWARDING is not handled, and the node becomes UP with a broken link.
* `vlan_race` (`OnlyNamedPortsChange`): two calls share the register window and
  one stores the other's port set.
* `acl_clean_count` (`NothingCountedAfterClean`): `setAclRule` without a field
  counts a rule that it does not keep, so that `num_used_rules`, which
  `getAclUsedRules` reports, is not 0 when `aclCleanTable` has cleaned the whole
  table. Its last lines (12658-12659) print "something error" then.

## 5. The proofs

All proofs hold for every value of the constants, under the assumptions named in
the modules: at least one VLAN and a natural `Limit`; threads with names that
are no phases; at least one entry and one word in the ACL mask, and no rule with
more modes than a word has bits; the driver's ports among 1 to 29; ports, VLAN,
domain and ring numbers in their ranges; a hash that maps addresses to slots,
values within the driver's range checks, and IGMP entries of sets of bits (TLC
evaluates these assumptions on every run).

| Theorem | Says |
|---|---|
| `NodeProcess!DataFileAlwaysPresent`, and the same of `MajorNodeProofs` and `TransportNodeProofs` | the data file is there for every job, until the destructor's last step |
| `MajorNodeProofs!TypeCorrect` | type correctness |
| `MajorNodeProofs!SecondPortFollowsStatus` | between undisturbed jobs the second port is what the status says |
| `MajorNodeProofs!FlushIsAfterSwitch` | a thread's flush frames leave when its own switching of the port is done: closed before recv's complete-flush-fdb, open before the frames on a link-down or a timeout |
| `MajorNodeProofs!MajorImplementsStatusMachine` | MajorNode implements MajorSpec (safety) |
| `MajorNodeProofs!EachSilentTickCounts` | without hellos COMPLETE ends or counts on, from every count to the last |
| `MajorNodeProofs!SettledPortStays` | a settled second port stays as the status says while the status stays |
| `TransportNodeProofs!TypeCorrect` | type correctness |
| `TransportNodeProofs!NeverStuckDown` | no change of the links is missed in DOWN |
| `TransportNodeProofs!TransportImplementsStatusMachine` | TransportNode implements TransportSpec (safety) |
| `TransportNodeProofs!PortsFollowTheStatus` | between undisturbed jobs every ring port is what the status says |
| `TransportNodeProofs!LinkUpIsAfterBlock` | the link-up frame leaves after the port is closed in every VLAN |
| `TransportNodeProofs!FlushFollowsOpening` | a thread that opened a port asks for a flush before it goes on; the FDB is then clean or the flush was refused |
| `TransportNodeProofs!EachTickCounts` | PREFORWARDING ends or counts on, from every count to the last |
| `TransportNodeProofs!OpenPortsStayOpen` | ports that are open in UP stay open while both links are up |
| `RingProofs!TypeCorrect` | type correctness, for rings of any size |
| `RingProofs!NeverStuckDown` | a node in DOWN knows a link that is down |
| `RingProofs!NoLoopEverLasts` | on a ring of any size that is calm no loop is left once frames and nodes have settled, but for one that a wakeup without a signal opened since the last tick |
| `RingProofs!AlwaysUnderstood` | a frame means at its receiver what its sender meant, for any numbers, and foreign frames change nothing |
| `RingProofs!WholeRingIsClosed` | a whole ring of any size ends up closed by its major node, for good, if nothing is lost and time passes |
| `RingProofs!BrokenRingStaysOpen`, `BreakIsNoticed` | while a link is down, a major node that has noticed it stays open, and one that has not counts on until it does |
| `RingProofs!OpenNodeStaysOpen`, `WaitingNodeCounts` | a transport node whose links no longer change closes no port again, and one that waits counts on until it opens |
| `VlanRawProofs!TypeCorrect`, `LoneCallsAreExact`, `LoneSuccessMeansDone` | a call that no other overlaps changes the ports that it names, adds the CPU's and resets the rest of one entry, at once or not at all; success means that the ports are as asked |
| `SwitchTablesProofs!TypeCorrect`, `FieldsAlwaysKept` | every field of a VLAN entry reads as it was last set, for any VLANs and values |
| `SwitchTablesProofs!AddressTypeCorrect`, `EntriesAlwaysKept` | an address's entry is found as it was set, for any addresses and any hash, with IMP commands that misread their slot while an SLT entry is stored |
| `SwitchTablesProofs!IgmpTypeCorrect`, `IgmpAlwaysKept` | `getTable` finds what `makeTable` packed, for any entries, with the stated exceptions |
| `SwitchSettingsProofs!SettingsAlwaysKept` | a get command answers what its set command was given last, for any ports and any commands in any order |
| `AclRulesProofs!TypeCorrect` | type correctness; every entry that is written has a mode |
| `AclRulesProofs!AlwaysApart`, `TableAlwaysFollows` | list, mask, number of entries and tables agree |
| `AclRulesProofs!NeverRefusedWithRoom` | a run of free entries that is long enough is found |
| `AclRulesProofs!FieldsAlwaysCompared` | each field of a rule is compared by one of its entries, with the stated exceptions |

**The arguments.** None of the safety properties is inductive as it stands.

*NodeProcess.* `FileOrder` ties the phase to the file: no thread before the
file, the file from then on until the destructor removes it.

*MajorNode.* `ThreadInv` says which stages a worker can be in and what they
mean for its job, `ProcInv` that jobs run only while their thread lives.
`PortInv` is the heart: as long as nothing has disturbed the port, the worker
`by` that changed the status last is the only one that switches it, and the
port is exactly as far as that worker's stage and entry say: VLANs below `next`
are done, those from `next` on are as before. Once the loop is over the whole
port is as the status says. `JobInv` rules out a second job on the port without
`overlapped`. Refinement is a step-by-step match with `MajorSpec`; the mapped
`silent` hides a counter that a link-down leaves behind in FAILED, and the next
hello clears before it counts.

*TransportNode.* `DetectInv` relates `seen`, `now`, the status and the place in
a round: in DOWN a port was seen down, or the change is still to be handled in
this round. `StatusInv` ties `preport` and `by` to the status. `Progress`
states for each worker how far the port of its job is, and `FlushInv` that the
FDB is stale only while a job that will ask for a flush runs. The two openers and
detect exclude each other only when nothing disturbed the ports, so the history
variable `calm` guards all but the first two.

*Ring.* `SentIsHop` and `Understood` reduce sending, tags and judging to the
type of a frame, once for all values of the constants; from there on a frame is
its type and place. `LoopInv` holds while the ring is calm and has three parts.
`LinksKnown`: a node that has seen a link down is DOWN, and one in PREFORWARDING
has both its links. A LINK_DOWN is under way only while some link is down.
`WholeAgain`: if every link is up and the major node is still FAILED, either a
hello is on its way to its second port, at which it will close that port, or
some node keeps the ring open (it has a link to see, or a blocked port) and no
COMPLETE_FLUSH is under way that would unblock it; or a node has opened its
ports early since the last tick, after which the hello of the next tick makes
the first case true. `AlwaysUnderstood` is about `FairSpec`, where foreign
frames come in: `StraysChangeNothing` shows that no judge lets one pass, so that
every such behaviour is one of `Spec`.

*What liveness rests on.* Liveness here is of two kinds: a count of ticks comes
to its end, and what was reached then stays. Of the first kind a single tick is
proved, as a leads-to from each count to the next, with the assumption that the
thread's ticks (or time) go on, which `TicksGoOn` and `TimeGoesOn` say without
ENABLED: until what is waited for has happened there is always another tick. At
the last count there is no next one, so what is waited for happens. These are
`EachSilentTickCounts` for `SilenceNoticed`, `EachTickCounts` for
`PreforwardingEnds`, and `BreakIsNoticed` and `WaitingNodeCounts` for
`RingHeals`. The second kind needs no fairness and is proved: `SettledPortStays`
for `PortSettles`, `OpenPortsStayOpen` for `PortsOpenForGood`, and for
`RingHeals` `BrokenRingStaysOpen` and `OpenNodeStaysOpen`. On a broken ring
`Cut` is the invariant: hellos are only under way between the major node and the
broken link, so none comes round. On a whole one it is `Closing`: a hello is
under way, or one has come round since the last tick. It holds from the first
tick on whatever was under way before, makes the major node COMPLETE by the
second, and keeps its count below the timeout; so `WholeRingIsClosed` is a
liveness result that needs no induction.

*AddressTables.* `AddressInv` is the types and `EntriesThere`, which is
`EntriesKept` without regard to what the switch is storing: the tables hold the
entry all along, only a look at them may mislead. `LutStep` splits on whether
the command is for the address that is followed, for another in its slot or for
another slot; an entry of another address makes `LutMatches` false and a static
one makes CREATE and learning give up, which is what keeps it.

*VlanRaw.* `WindowInv` describes, for a caller that is alone, what the window
and `o_portset` hold after each access.

*IgmpTables.* `IgmpInv` says beside `IgmpKept` what the row of the entry that is
followed holds: the words that `makeTable` packed, as they are, or with a store
still pending that will put them there. The rest is about the two functions.
`MakeTable` says which bit of which word a bit of a value becomes, over at most
three words, and `GetTable` which bit of the value a bit of a word was; `Lies`
is a field that lies apart in the row, `ValueFound` that it is found.
`MctFound`, `SourceFound` and `LongSourceFound` add up the offsets of the fields
of each kind of entry. The promise that is proved has the exceptions of
`SltPromise`: of the last map of an IPv6 entry only the bits that are inside the
array.

*SwitchSettings.* TLC goes through pairs of commands; the proof does not. It
states a register map, `Owners`: for each place, numbered through its page, the
names of the settings that have it. Two facts are shown of each of the 177
families of commands (`Good`): the set command writes only places that carry its
name (`Stays`), and the get command reads places that carry no other name but of
companions and clashes, and finds there the value (`Found`). `AllGood` collects
them from one lemma for each of the driver's tables of functions. They rest on
one lemma for each shape of a command: `WordGood` for a field, `OnOffGood` for a
bit, `EachPortGood` for a bit of each port, `EachFieldGood` for a row of fields,
`WholeMapGood`, `PrefixGood` for a field of which part is read back; and
`RunBits` says once and for all which bit of which register a place of a run is.
`SettingsInv` then is inductive: beside `SettingsKept`, a place that the map
gives to nobody is 0. That part is needed for `QOSMethod`, whose get command
reads a bit that no command writes.

*VlanTable.* The layout carries the proof: `SamePieces` (a getter reads what its
setter writes), `PiecesCover` (the pieces make up the whole value) and
`PiecesApart` (no two pieces share a bit) give `LoadStored` and `LoadOther`, and
with them `FieldsKept` is inductive beside the types.

*AclRules.* `Consistent` is stated of a record and not of the state, since it
must hold of the table between the two halves of a change as well: when the old
rule is gone and the new one not yet placed. `FitsIsFree` and `NoneMissed` are
the two directions of `acl_find_index`: what it accepts is free and within the
table, and what it turns down overlaps a used entry. `RankExact` says that the
modes in ascending order fill exactly the first entries, by counting: ranks are
an injection of a finite set into an interval of its size.

**Only model-checked.** Liveness as the runs state it (`SilenceNoticed`,
`PortSettles`, `PreforwardingEnds`, `PortsOpenForGood`, `RingHeals`). The parts
named above are proved; what is left to TLC is what this prover cannot do: that
the fairness of a specification makes ticks and jobs go on (ENABLED), and that
finitely many counts, or the finitely many VLANs of a job, come to an end
(induction over a number inside a temporal formula). Every invariant and every
action property of the passing runs is proved. What is excepted from
`SettingsKept` by `Companions`, `Clashes` and `Misread` is neither checked nor
proved.

## 6. Not modelled

* The command line and the daemon's fork (`main.c`): parsing of text. What it lets
  through matters in one place, the VLAN number, which `FrameAssumption` names.
* The raw socket: pure I/O, its failure is `RecvFails`.
* The text that `cli_vlan` prints and its parsing: the format is outside this
  repository.
* Of the switch driver: the chain of requests in one ioctl call and the copying
  from and to user space; the miscellaneous commands of the chip, for which
  `ip1829_ioctl` has no case; raw register access (`setReg`, `getReg`), the MDIO
  lines and the page register under it; settings that have no get command as
  settings to be followed (they are rivals of others); reading the LUT and the IMP
  table by index and the scan of the LUT; the packet counters, which only the
  hardware changes; the values of the fields of ACL rules.
* The vendor headers and the port-number library: other programs' code.
* Undefined behaviour beyond the three cases above (a NULL stream; the status read
  outside the mutex; the word beyond an array): the bit-width of shared fields
  makes no torn read.

## 7. Plan

In order of importance; all but the last three are done.

1. `NodeProcess`, `MajorNode`, `MajorSpec`, with proofs.
2. `TransportNode`, `TransportSpec`, with proofs.
3. `VlanRaw`, with proofs.
4. `Ring` with the frames of `RrppFrame`, with proofs for any `N`.
5. `AclRules` and `VlanTable`, with proofs.
6. The settings of the driver, all in one run with `VlanTable`.
7. `AddressTables` and `IgmpTables`, with proofs, and a proof for the settings.
8. The chain of requests in one ioctl call, and reading tables by index.
9. The layout of ACL entries field by field, as for VLAN entries.
10. `Ring` refined by nodes whose jobs take several steps.
