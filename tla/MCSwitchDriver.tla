--------------------------- MODULE MCSwitchDriver ---------------------------
(***************************************************************************)
(* The switch driver's own state in one run: the entries of its VLAN table,*)
(* its settings, the entries of its two tables of addresses and of its two *)
(* tables for IGMP.  A behaviour moves one of the five and the others stay *)
(* as they are.  Two of them share registers: what a command for IGMP does *)
(* to one of the IMP table, and the other way round, are SltIsTold in      *)
(* AddressTables and OtherCommand in IgmpTables.                           *)
(***************************************************************************)
EXTENDS VlanTable, SwitchSettings, AddressTables, IgmpTables

\* No bit, every bit, and one bit too many.
PortMaps   == {{}, 0..28, {29}}
CodeValues == {0..3, {4}}

\* No two VLANs differ in what is done to them: one of them is followed.
Followed == CHOOSE v \in Vid : TRUE

\* Addresses that share a slot, and one that has its own.
HashOf == [m1 |-> 1, m2 |-> 1, m3 |-> 2, a1 |-> 1, a2 |-> 1, b1 |-> 1]

\* Values at both ends, and values that are let through and do not fit.
LutInfos == {[priority |-> 8, drop |-> 0, srcport |-> 0],
             [priority |-> 7, drop |-> 0, srcport |-> 32],
             [priority |-> 0, drop |-> 1, srcport |-> 1]}
ImpInfos == {[checks |-> {"port"}, filter |-> 1, srcport |-> 0],
             [checks |-> {"ip"}, filter |-> 1, srcport |-> 0],
             [checks |-> {"mac", "port"}, filter |-> 0, srcport |-> 29]}

\* Every second field with its lowest bit, or with all but its lowest, and the
\* fields between without any; one field with a bit too many.
Contrast == {"low", "high"} \X {0, 1}
Bits(c, field, n) ==
  CASE field % 2 # c[2] -> {}
    [] field % 2 = c[2] -> IF c[1] = "low" THEN {0} ELSE 1..(n - 1)

Group(c) ==
  [group |-> [i \in 0..3 |-> Bits(c, i, 8)], fid |-> Bits(c, 0, 4),
   port_mem |-> Bits(c, 1, 29), slt_index |-> Bits(c, 0, 6),
   port_filter_mode |-> Bits(c, 1, 29), flag |-> Bits(c, 0, 7)]
MctEntries ==
  {Group(c) : c \in Contrast} \union {[Group(<<"low", 0>>) EXCEPT !.fid = {4}]}

Sources(c, t) ==
  [type |-> t,
   ip |-> [i \in Source(t) |-> [j \in Part(t) |-> Bits(c, j + i, IF t = 4 THEN 8 ELSE 16)]],
   used_port |-> [i \in Source(t) |-> Bits(c, i, 29)]]
SltEntries ==
  {Sources(c, t) : c \in Contrast, t \in {4, 6}}
  \union {[Sources(<<"low", 0>>, 6) EXCEPT !.used_port[0] = {29}]}

VARIABLE moves

driverVars == <<vars, settingVars, addressVars, igmpVars, moves>>

MCInit ==
  /\ Init /\ SettingsInit /\ AddressInit /\ IgmpInit
  /\ moves \in {"entries", "settings", "macs", "ips", "groups"}
  /\ moves # "settings" => setting = <<"VlanType">> /\ lit = {}
  /\ watched.vid = Followed /\ (moves # "entries" => watched.field = "valid")
  /\ IF moves = "macs" THEN address[2] \in Mac ELSE address[2] \in Ip
  /\ moves \notin {"macs", "ips"} => address = <<0, "a1">>

EntriesMove  == moves = "entries" /\ Next
                /\ UNCHANGED <<settingVars, addressVars, igmpVars, moves>>
SettingsMove == moves = "settings" /\ SettingsNext
                /\ UNCHANGED <<vars, addressVars, igmpVars, moves>>
MacsMove     == moves = "macs" /\ LutNext
                /\ UNCHANGED <<vars, settingVars, igmpVars, moves>>
IpsMove      == moves = "ips" /\ ImpNext
                /\ UNCHANGED <<vars, settingVars, igmpVars, moves>>
GroupsMove   == moves = "groups" /\ IgmpNext
                /\ UNCHANGED <<vars, settingVars, addressVars, moves>>

MCNext == EntriesMove \/ SettingsMove \/ MacsMove \/ IpsMove \/ GroupsMove

MCSpec == MCInit /\ [][MCNext]_driverVars
=============================================================================
