------------------------------- MODULE VlanRaw -------------------------------
(***************************************************************************)
(* Adding ports to a VLAN and removing them: kit/vlan_raw.c.               *)
(*                                                                         *)
(* The VLAN table of the switch is reached through a window of registers   *)
(* of page 2: 0xd2 takes the command and the VLAN, 0xd3 to 0xd8 hold an    *)
(* entry.  Of this the code wants the port set, of which 0xd3 and 0xd4     *)
(* hold the halves; what else is in 0xd4 it takes for ports.  The driver   *)
(* serializes single register accesses, and nothing serializes calls:      *)
(* every thread of a node that blocks or releases a port, and the main     *)
(* thread, use the one window.                                             *)
(***************************************************************************)
EXTENDS FiniteSets

CONSTANTS Caller,  \* the threads that call raw_vlan_add_ports, raw_vlan_rm_ports
          Vid,     \* VLANs
          Low,     \* ports in the low half of the port set, bits 0 to 15
          High,    \* ports in the high half, bits 0 to 11
          Cpu,     \* the port of the CPU, bit 12 of the high half
          Tag      \* bits 13 to 15 of 0xd4, where the map of tagged ports begins

ASSUME VlanAssumption ==
  /\ Vid # {} /\ Low \intersect (High \union {Cpu} \union Tag) = {}
  /\ Cpu \notin High \union Tag

VARIABLES
  table,      \* switch: the entry of each VLAN
  window,     \* switch: what registers 0xd3 to 0xd8 hold
  pc,         \* for each caller, the register access it is about to make
  call,       \* for each caller, its last call
  old,        \* for each caller, o_portset
  result,     \* for each caller, what its last call returned
  overlapped  \* history: the last call to begin found another under way

vars == <<table, window, pc, call, old, result, overlapped>>

\* What 0xd4 holds, and what the code takes for a port set.
HighWord == High \union {Cpu} \union Tag
PortSet == Low \union HighWord

\* An entry.  rest: the tag maps, priority and FID in 0xd5 to 0xd8, which are as
\* raw_vlan_write_member leaves them or otherwise.
Rest == {"reset", "other"}
Entry == [bits : SUBSET PortSet, rest : Rest]

\* Nobody names the port of the CPU: the ports of a ring are 1 to 28.
Call == [op : {"add", "rm"}, vid : Vid, ports : SUBSET (Low \union High)]
NoCall == [op |-> "rm", vid |-> CHOOSE v \in Vid : TRUE, ports |-> Low \union High]
Access == {"select", "command", "low", "high", "setlow", "sethigh", "settail", "commit"}

TypeOK ==
  /\ table \in [Vid -> Entry]
  /\ window \in [low : SUBSET Low, high : SUBSET HighWord, rest : Rest]
  /\ pc \in [Caller -> Access \union {"idle"}] /\ call \in [Caller -> Call]
  /\ old \in [Caller -> SUBSET PortSet]
  /\ result \in [Caller -> {"none", "ok", "error"}]
  /\ overlapped \in {"yes", "no"}

Init ==
  /\ table \in [Vid -> Entry]
  /\ window = [low |-> {}, high |-> {}, rest |-> "other"]
  /\ pc = [c \in Caller |-> "idle"]
  /\ call = [c \in Caller |-> NoCall]
  /\ old = [c \in Caller |-> {}]
  /\ result = [c \in Caller |-> "none"]
  /\ overlapped = "no"

-----------------------------------------------------------------------------

Goto(c, a) == pc' = [pc EXCEPT ![c] = a]
\* The locals of a call end with it.
Return(c, r) ==
  /\ Goto(c, "idle")
  /\ result' = [result EXCEPT ![c] = r]
  /\ call' = [call EXCEPT ![c] = NoCall]
  /\ old' = [old EXCEPT ![c] = {}]

Begin(c) ==
  /\ pc[c] = "idle"
  /\ \E k \in Call : k.ports # {} /\ call' = [call EXCEPT ![c] = k]
  /\ result' = [result EXCEPT ![c] = "none"]
  /\ Goto(c, "select")
  /\ overlapped' = IF \E d \in Caller \ {c} : pc[d] # "idle" THEN "yes" ELSE "no"
  /\ UNCHANGED <<table, window, old>>

\* Any register access may fail; the call returns -1 at once.
Fails(c) ==
  /\ pc[c] # "idle"
  /\ Return(c, "error")
  /\ UNCHANGED <<table, window, overlapped>>

\* raw_vlan_read_member.  Command 0x8000 has the switch fill the window.
Select(c) ==
  /\ pc[c] = "select"
  /\ LET entry == table[call[c].vid]
     IN  window' = [low  |-> entry.bits \intersect Low,
                    high |-> entry.bits \intersect HighWord, rest |-> entry.rest]
  /\ Goto(c, "command")
  /\ UNCHANGED <<table, call, old, result, overlapped>>

\* 0xd2 is read as well; its value is not used.
GetCommand(c) ==
  /\ pc[c] = "command"
  /\ Goto(c, "low")
  /\ UNCHANGED <<table, window, call, old, result, overlapped>>

GetLow(c) ==
  /\ pc[c] = "low"
  /\ old' = [old EXCEPT ![c] = window.low]
  /\ Goto(c, "high")
  /\ UNCHANGED <<table, window, call, result, overlapped>>

\* A bug to be caught: adding is skipped when one of the ports is there.
SettledSome(c, ports) ==
  IF call[c].op = "add" THEN call[c].ports \intersect ports # {}
                        ELSE call[c].ports \intersect ports = {}

\* "no change": lines 58 and 79.
Settled(c, ports) ==
  IF call[c].op = "add" THEN call[c].ports \subseteq ports
                        ELSE call[c].ports \intersect ports = {}

\* A bug to be caught: the high half is not merged into o_portset.
WithHighNot(c) == old[c]

\* Line 25.
WithHigh(c) == old[c] \union window.high

GetHigh(c) ==
  /\ pc[c] = "high"
  /\ \/ Settled(c, WithHigh(c)) /\ Return(c, "ok")
     \/ /\ ~Settled(c, WithHigh(c))
        /\ old' = [old EXCEPT ![c] = WithHigh(c)]
        /\ Goto(c, "setlow")
        /\ UNCHANGED <<call, result>>
  /\ UNCHANGED <<table, window, overlapped>>

\* The port set to write: lines 64 and 85.
NewPorts(c) ==
  IF call[c].op = "add" THEN old[c] \union call[c].ports ELSE old[c] \ call[c].ports

\* A bug to be caught: the mask of the low half is forgotten.
LowHalfNot(ports) == ports

\* "& 0xffff", line 32.
LowHalf(ports) == ports \intersect Low

\* raw_vlan_write_member.
SetLow(c) ==
  /\ pc[c] = "setlow"
  /\ window' = [window EXCEPT !.low = LowHalf(NewPorts(c))]
  /\ Goto(c, "sethigh")
  /\ UNCHANGED <<table, call, old, result, overlapped>>

\* Line 33: the CPU is made a member of every VLAN.
SetHigh(c) ==
  /\ pc[c] = "sethigh"
  /\ window' = [window EXCEPT !.high = (NewPorts(c) \intersect HighWord) \union {Cpu}]
  /\ Goto(c, "settail")
  /\ UNCHANGED <<table, call, old, result, overlapped>>

\* Registers 0xd5 to 0xd8, in one step: always 0, 0, 0 and 0x8000, whatever was read.
SetTail(c) ==
  /\ pc[c] = "settail"
  /\ window' = [window EXCEPT !.rest = "reset"]
  /\ Goto(c, "commit")
  /\ UNCHANGED <<table, call, old, result, overlapped>>

\* Command 0xc000 has the switch store the window.
Commit(c) ==
  /\ pc[c] = "commit"
  /\ table' = [table EXCEPT ![call[c].vid] =
                  [bits |-> window.low \union window.high, rest |-> window.rest]]
  /\ Return(c, "ok")
  /\ UNCHANGED <<window, overlapped>>

Next == \E c \in Caller :
  \/ Begin(c) \/ Fails(c)
  \/ Select(c) \/ GetCommand(c) \/ GetLow(c) \/ GetHigh(c)
  \/ SetLow(c) \/ SetHigh(c) \/ SetTail(c) \/ Commit(c)

Spec == Init /\ [][Next]_vars

-----------------------------------------------------------------------------
(* Properties.                                                              *)

Wanted(c, ports) ==
  IF call[c].op = "add" THEN ports \union call[c].ports ELSE ports \ call[c].ports

\* As long as calls do not overlap, a call changes the table in one step, and only
\* if the port set of its VLAN is not yet as asked.  Of the bits that it takes for
\* ports it then changes those it was given, no other but the CPU's, which joins;
\* the tag maps, priority and FID are lost.  The other VLANs stay as they are, and
\* a call that fails half-way leaves every VLAN so: nothing of the window reaches
\* the table before the last access.
ChangesAreExact ==
  [][(table' # table /\ overlapped = "no") =>
        \E c \in Caller :
          LET bits == table[call[c].vid].bits
          IN  /\ Wanted(c, bits) # bits
              /\ table' = [table EXCEPT ![call[c].vid] =
                             [bits |-> Wanted(c, bits) \union {Cpu}, rest |-> "reset"]]]_vars

\* As long as calls do not overlap, a call that returns 0 has done its work,
\* whether it wrote the entry or found no change: blocking a port counts on it.
SuccessMeansDone ==
  [][\A c \in Caller :
        (pc[c] # "idle" /\ pc'[c] = "idle" /\ result'[c] = "ok" /\ overlapped = "no")
           => LET bits == table'[call[c].vid].bits IN bits = Wanted(c, bits)]_vars

=============================================================================
