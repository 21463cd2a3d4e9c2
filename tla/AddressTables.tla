--------------------------- MODULE AddressTables ---------------------------
(***************************************************************************)
(* Two tables of the switch with an entry for each address: the LUT of MAC *)
(* addresses and the IMP table of IP addresses (setLutEntry, getLutEntry,  *)
(* setImpEntry and getImpEntry in icplib/driver/switchdriver/ip1829func.c).*)
(*                                                                         *)
(* An address has one slot, its hash, which other addresses share.  Every  *)
(* command looks first at what the slot holds, and holds ip1829_mutex, so  *)
(* that it is one step.  The switch changes the LUT as well: it learns     *)
(* addresses and forgets them, unless their entries are static.            *)
(*                                                                         *)
(* The IMP table is reached through the registers of the tables for IGMP   *)
(* (see IgmpTables).  Its commands wait for the switch after each access,  *)
(* but not before the first, when the switch may still be storing an entry *)
(* for which setIGMPSltTable did not wait.                                 *)
(***************************************************************************)
EXTENDS Integers

CONSTANTS Mac,      \* MAC addresses, each with its FID
          Ip4, Ip6, \* IP addresses
          Slot,     \* slots of a table
          Hash,     \* the slot of an address
          LutInfo,  \* what callers pass for a MAC address
          ImpInfo   \* what callers pass for an IP address

Ip == Ip4 \union Ip6
Check == {"ip", "mac", "port"}

\* A priority of 8 and port 0 are let through.
ASSUME AddressAssumption ==
  /\ Hash \in [Mac \union Ip -> Slot]
  /\ Ip4 \intersect Ip6 = {} /\ Mac \intersect Ip = {}
  /\ LutInfo \subseteq [priority : 0..8, drop : {0, 1}, srcport : 0..32]
  /\ ImpInfo \subseteq [checks : SUBSET Check, filter : {0, 1}, srcport : 0..29]

VARIABLES
  lut,      \* switch: {} or {entry} for each block and slot
  imp,      \* switch: {} or {entry} for each slot
  storing,  \* switch: "yes" if it is still storing an entry of the SLT
  address,  \* history: some address and its block, which is 0 for IP
  due       \* history: {e} if e, {} or {info}, is what the commands made of the
            \* address, {} if that is not known
addressVars == <<lut, imp, storing, address, due>>

-----------------------------------------------------------------------------
(* The LUT.                                                                 *)

Block == {0, 1}
Action == {"CREATE", "CONFIG", "DELETE"}

\* An aging time of 15 is for ever and 0 marks an invalid entry; the switch counts the
\* others down, and 1 stands for them.
Aging == {0, 1, 15}

\* A bug to be caught: the priority is let into the bit above its place.
LutPackedWide(x) ==
  [priority |-> x.priority, drop |-> x.drop, srcport |-> (x.srcport - 1) % 32]

\* Bits 4 to 15 of the fourth word: each value is put in its place by or.
LutPacked(x) ==
  [priority |-> x.priority % 8,
   drop |-> IF x.priority = 8 THEN 1 ELSE x.drop,
   srcport |-> (x.srcport - 1) % 32]

LutUnpacked(w) == [priority |-> w.priority, drop |-> w.drop, srcport |-> w.srcport + 1]

\* An entry that the switch has learned is kept without its info.
Static(m, x) == [mac |-> m, info |-> {LutPacked(x)}]
Learned(m)   == [mac |-> m, info |-> {}]

With(m, x, aging) ==
  IF aging = 0 THEN {} ELSE IF aging = 15 THEN {Static(m, x)} ELSE {Learned(m)}

\* A bug to be caught: the slot is taken to be the address's.
LutMatchesAny(there, m) == there # {}

LutMatches(there, m) == \E e \in there : e.mac = m

\* The switch sees the lowest bit of the block; the next one, which is let
\* through, tells it to write what the driver means it to read.
Reached(block) == block % 2
Probed(block, m) == IF block = 2 THEN {} ELSE lut[<<Reached(block), Hash[m]>>]

LutAccepts(action, there, m) ==
  CASE action = "CREATE" -> \A e \in there : e.info = {}
    [] action = "CONFIG" -> LutMatches(there, m)
    [] action = "DELETE" -> LutMatches(there, m) /\ \A e \in there : e.info # {}

\* A value that does not fit its place comes back as another.
LutFits(x) == x.priority < 8 /\ x.srcport > 0

\* What is to be found, as a static entry, once the command is accepted.
LutPromise(action, x, aging) ==
  IF action = "CREATE" \/ (action = "CONFIG" /\ aging = 15)
  THEN IF LutFits(x) THEN {{x}} ELSE {}
  ELSE {{}}

\* aging is what the command writes.
setLutEntry(action, block, m, x, aging) ==
  LET cell == <<Reached(block), Hash[m]>>
      there == Probed(block, m)
      accepts == LutAccepts(action, there, m)
  IN  /\ lut' = [lut EXCEPT ![cell] =
                   IF accepts THEN With(m, x, aging) ELSE there]
      /\ due' = CASE block = 2 /\ \E w \in Mac : address = <<0, w>> /\ Hash[w] = Hash[m] -> {}
                  [] block < 2 /\ accepts /\ address = <<block, m>>
                       -> LutPromise(action, x, aging)
                  [] OTHER -> due
      /\ UNCHANGED <<imp, storing, address>>

\* getLutEntry by address, when it says OP_ENTRY_EXISTS.
getLutEntry(block, m) ==
  LET there == lut[<<block, Hash[m]>>]
  IN  {LutUnpacked(w) : w \in UNION {e.info : e \in {e \in there : e.mac = m}}}

\* The switch learns and forgets, by itself or told to by setLutPortFlush.
LutLearns(block, slot) ==
  /\ \A e \in lut[<<block, slot>>] : e.info = {}
  /\ \E now \in {{}} \union {{Learned(m)} : m \in {m \in Mac : Hash[m] = slot}} :
       lut' = [lut EXCEPT ![<<block, slot>>] = now]
  /\ UNCHANGED <<imp, storing, address, due>>

-----------------------------------------------------------------------------
(* The IMP table.                                                           *)

\* The twelfth word.  Port 0 to be checked is -1, which sets every bit, that
\* of the IP type too; the filter bit means that there is no filter.
ImpPacked(ip, x) ==
  IF "port" \in x.checks /\ x.srcport = 0
  THEN [ip |-> ip, type |-> 6, checks |-> Check, nofilter |-> 1]
  ELSE [ip |-> ip, type |-> IF ip \in Ip4 THEN 4 ELSE 6, checks |-> x.checks,
        nofilter |-> 1 - x.filter]

ImpMatches(there, ip) ==
  \E e \in there : e.ip = ip /\ e.type = IF ip \in Ip4 THEN 4 ELSE 6

\* A bug to be caught: an entry is created where another is.
ImpAcceptsAny(action, there, ip) == action = "CREATE" \/ ImpMatches(there, ip)

ImpAccepts(action, there, ip) ==
  IF action = "CREATE" THEN there = {} ELSE ImpMatches(there, ip)

\* The number of the port comes back one less, so it is left out.
ImpPromise(action, x) ==
  IF action = "DELETE" THEN {{}}
  ELSE IF "port" \in x.checks /\ x.srcport = 0 THEN {}
  ELSE {{[checks |-> x.checks, filter |-> x.filter]}}

\* The command looks at its slot by what it finds in the registers, which while the
\* switch is storing may be anything: a slot that is taken passes for free, or one
\* that is free for taken, and an address is mistaken for another.  When it writes the
\* switch is ready, and if the slot was another address's that entry is gone.
setImpEntry(action, ip, x) ==
  \E accepts \in IF storing = "yes" THEN BOOLEAN
                 ELSE {ImpAccepts(action, imp[Hash[ip]], ip)} :
    /\ imp' = IF accepts
              THEN [imp EXCEPT ![Hash[ip]] =
                      IF action = "DELETE" THEN {} ELSE {ImpPacked(ip, x)}]
              ELSE imp
    /\ due' = CASE accepts /\ address = <<0, ip>> -> ImpPromise(action, x)
                [] accepts /\ storing = "yes"
                     /\ \E w \in Ip \ {ip} : address = <<0, w>> /\ Hash[w] = Hash[ip]
                     -> due \intersect {{}}
                [] OTHER -> due
    /\ storing' = "no"
    /\ UNCHANGED <<lut, address>>

\* setIGMPSltTable has returned.
SltIsTold ==
  /\ storing' = "yes"
  /\ UNCHANGED <<lut, imp, address, due>>

\* The switch has stored the entry, or another command has waited for it.
SltIsStored ==
  /\ storing = "yes"
  /\ storing' = "no"
  /\ UNCHANGED <<lut, imp, address, due>>

\* getImpEntry by address, when it says OP_ENTRY_EXISTS.
getImpEntry(ip) ==
  {[checks |-> e.checks, filter |-> 1 - e.nofilter] :
     e \in {e \in imp[Hash[ip]] : ImpMatches({e}, ip)}}

-----------------------------------------------------------------------------

\* A slot holds one entry at most, with one info at most.
AtMostOne(S) == \A x, y \in S : x = y
LutWord == [priority : 0..7, drop : {0, 1}, srcport : 0..31]
LutCell(c) ==
  AtMostOne(c) /\ \A e \in c : e.mac \in Mac /\ e.info \subseteq LutWord /\ AtMostOne(e.info)
ImpEntry == [ip : Ip, type : {4, 6}, checks : SUBSET Check, nofilter : {0, 1}]

AddressTypeOK ==
  /\ DOMAIN lut = Block \X Slot /\ \A c \in DOMAIN lut : LutCell(lut[c])
  /\ DOMAIN imp = Slot /\ \A s \in Slot : imp[s] \subseteq ImpEntry /\ AtMostOne(imp[s])
  /\ storing \in {"yes", "no"}
  /\ address \in (Block \X Mac) \union ({0} \X Ip)

AddressInit ==
  /\ lut = [c \in Block \X Slot |-> {}] /\ imp = [s \in Slot |-> {}]
  /\ storing = "no"
  /\ address \in (Block \X Mac) \union ({0} \X Ip)
  /\ due = {{}}

\* CREATE makes a static entry, DELETE leaves pri_en as the aging time.
LutNext ==
  \/ \E block \in 0..2, m \in Mac, x \in LutInfo :
       \/ setLutEntry("CREATE", block, m, x, 15)
       \/ \E aging \in Aging : setLutEntry("CONFIG", block, m, x, aging)
       \/ \E pri_en \in {0, 1} : setLutEntry("DELETE", block, m, x, pri_en)
  \/ \E block \in Block, slot \in Slot : LutLearns(block, slot)

ImpNext ==
  \/ \E action \in Action, ip \in Ip, x \in ImpInfo : setImpEntry(action, ip, x)
  \/ SltIsTold \/ SltIsStored

AddressNext == LutNext \/ ImpNext

AddressSpec == AddressInit /\ [][AddressNext]_addressVars

-----------------------------------------------------------------------------

\* What the get command finds; it too waits only after its access.
Found ==
  IF address[2] \in Ip THEN getImpEntry(address[2]) ELSE getLutEntry(address[1], address[2])

\* The get command finds the entry that was set for an address, with its
\* values, until a command for the same address changes it or takes it away, and
\* none after that: commands for other addresses in the same slot, and what the
\* switch learns, come to nothing.  Not promised: entries of block 0 once a
\* command named block 2, values that do not fit their place, and while the switch
\* is storing an entry of the SLT, what getImpEntry finds and the entry of an address
\* whose slot another setImpEntry then takes.
EntriesKept == (address[2] \in Ip => storing = "no") => due \subseteq {Found}

=============================================================================
