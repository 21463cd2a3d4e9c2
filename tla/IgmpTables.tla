----------------------------- MODULE IgmpTables -----------------------------
(***************************************************************************)
(* The two tables of the switch for IGMP: an entry of the MCT says what    *)
(* becomes of a multicast group, an entry of the SLT holds the sources its *)
(* members want (setIGMPMctTable, getIGMPMctTable, setIGMPSltTable and     *)
(* getIGMPSltTable in icplib/driver/switchdriver/ip1829func.c).            *)
(*                                                                         *)
(* A command packs an entry into words, writes them to the registers that  *)
(* all tables share, and tells the switch to store them.  Storing takes    *)
(* time, which every command but setIGMPSltTable waits for.  The model     *)
(* follows one entry of each table.                                        *)
(***************************************************************************)
EXTENDS Integers

CONSTANTS MctEntry, \* what callers pass for a group
          SltEntry  \* what callers pass for sources

\* Addresses are made of bytes and words; the fields may be too wide.
ASSUME IgmpAssumption ==
  /\ MctEntry \subseteq [group : [0..3 -> SUBSET (0..7)], fid : SUBSET Nat,
                          port_mem : SUBSET Nat, slt_index : SUBSET Nat,
                          port_filter_mode : SUBSET Nat, flag : SUBSET Nat]
  /\ SltEntry \subseteq
       [type : {4}, ip : [0..9 -> [0..3 -> SUBSET (0..7)]], used_port : [0..9 -> SUBSET Nat]]
       \union
       [type : {6}, ip : [0..3 -> [0..7 -> SUBSET (0..15)]], used_port : [0..3 -> SUBSET Nat]]

Table == {"mct", "slt"}

VARIABLES
  stored,   \* switch: the bits that are 1 in the entry of each table
  pending,  \* switch: {} or {[table, row]} that it is still to store
  asked     \* history: for each table {e} if e was set last, {} if what it
            \* holds is not known
igmpVars == <<stored, pending, asked>>

-----------------------------------------------------------------------------
(* Numbers, as sets of bits counted from 0, and their places in words:     *)
(* <<word, bit>>.                                                          *)

Moved(value, n) == {b + n : b \in value}

\* A bug to be caught: a value runs over the end of its word.
CutNot(value) == {b \in value : b >= 0}

Cut(value) == value \intersect (0..15)

At(ptr, value) == {<<ptr, b>> : b \in Cut(value)}
WordOf(buf, ptr) == {b \in 0..15 : <<ptr, b>> \in buf}

\* A bug to be caught: a value takes two words at most.
makeTableTwo(offset, value, len) ==
  LET ptr == offset \div 16
      set == offset % 16
  IN  At(ptr, Moved(value, set)) \union
      IF len > 16 - set THEN At(ptr + 1, Moved(value, set - 16)) ELSE {}

\* The bits that makeTable sets; a value too wide for len is not cut there.
makeTable(offset, value, len) ==
  LET ptr == offset \div 16
      set == offset % 16
  IN  At(ptr, Moved(value, set)) \union
      (IF len > 16 - set THEN At(ptr + 1, Moved(value, set - 16)) ELSE {}) \union
      (IF len - (16 - set) > 16 THEN At(ptr + 2, Moved(value, set - 32)) ELSE {})

\* The last word the value is in comes first, its lower part if need be from
\* one or two words before it.
getTable(buf, offset, len) ==
  LET ptr == (offset + len) \div 16
      set == (offset + len) % 16
      last == {b \in WordOf(buf, ptr) : b < set}
      before(p, n) == {b \in Moved(WordOf(buf, p), n - 16) : b >= 0}
  IN  CASE len < set -> {b \in Moved(last, len - set) : b >= 0}
        [] len = set -> last
        [] len > set /\ len - set < 16 -> Moved(last, len - set) \union before(ptr - 1, len - set)
        [] len - set >= 16 ->
             Moved(Moved(last, 16) \union WordOf(buf, ptr - 1), len - set - 16)
             \union before(ptr - 2, len - set - 16)

TwoBytes(ptr, high, low) == At(ptr, Moved(high, 8)) \union At(ptr, low)

-----------------------------------------------------------------------------
(* Entries of the MCT.                                                      *)

\* Three bits for every port; there are 28 places.
MctPorts(e) == UNION {makeTable(36 + 3 * i, 0..2, 3) : i \in e.port_mem \intersect (0..27)}

MctRow(e) ==
  TwoBytes(0, e.group[2], e.group[3]) \union TwoBytes(1, e.group[0], e.group[1])
  \union makeTable(32, e.fid, 4)
  \union MctPorts(e)
  \union makeTable(123, e.slt_index, 6)
  \union makeTable(129, e.port_filter_mode, 29)
  \union makeTable(158, e.flag, 7)

getIGMPMctTable(row) ==
  [group |-> [i \in 0..3 |-> getTable(row, 8 * i, 8)],
   fid |-> getTable(row, 32, 4),
   port_mem |-> {i \in 0..28 : getTable(row, 36 + 3 * i, 3) # {}},
   slt_index |-> getTable(row, 123, 6),
   port_filter_mode |-> getTable(row, 129, 29),
   flag |-> getTable(row, 158, 7)]

MctFits(e) ==
  /\ e.fid \subseteq 0..3 /\ e.slt_index \subseteq 0..5
  /\ e.port_filter_mode \subseteq 0..28 /\ e.flag \subseteq 0..6

\* The bytes of the group come back in reverse order, and ports from 29 on are
\* not kept.
MctPromise(e) ==
  [e EXCEPT !.group = [i \in 0..3 |-> e.group[3 - i]],
            !.port_mem = e.port_mem \intersect (0..27)]

-----------------------------------------------------------------------------
(* Entries of the SLT: ten IPv4 addresses of four bytes or four IPv6       *)
(* addresses of eight words, and the ports that each is used for.          *)

Source(type) == IF type = 4 THEN 0..9 ELSE 0..3
LastPart(type) == IF type = 4 THEN 3 ELSE 7
Part(type)   == 0..LastPart(type)
UsedAt(type, i) == (IF type = 4 THEN 320 ELSE 512) + 29 * i

UsedPorts(e) == UNION {makeTable(UsedAt(e.type, i), e.used_port[i], 29) : i \in Source(e.type)}

Addresses(e) ==
  IF e.type = 4
  THEN UNION {TwoBytes(2 * i, e.ip[i][2], e.ip[i][3]) \union
              TwoBytes(2 * i + 1, e.ip[i][0], e.ip[i][1]) : i \in Source(4)}
  ELSE UNION {makeTable(128 * i + 16 * j, e.ip[i][7 - j], 16) : i \in Source(6), j \in Part(6)}

SltRow(e) == UsedPorts(e) \union Addresses(e)

\* The words are read into 39, so that the fortieth is whatever lies beyond.
Buffer(row, beyond) == {p \in row : p[1] < 39} \union At(39, beyond)

getIGMPSltTable(row, type, beyond) ==
  LET buf == Buffer(row, beyond)
      ip(i, j) == IF type = 4 THEN getTable(buf, 32 * i + 8 * j, 8)
                              ELSE getTable(buf, 128 * i + 16 * j, 16)
  IN  [type |-> type,
       ip |-> [i \in Source(type) |-> [j \in Part(type) |-> ip(i, j)]],
       used_port |-> [i \in Source(type) |-> getTable(buf, UsedAt(type, i), 29)]]

SltFits(e) == \A i \in Source(e.type) : e.used_port[i] \subseteq 0..28

\* The parts of an address come back in reverse order.
SltPromise(e) ==
  [e EXCEPT !.ip = [i \in Source(e.type) |->
                      [j \in Part(e.type) |-> e.ip[i][LastPart(e.type) - j]]]]

\* Ports 26 to 29 of the last IPv6 address are in the fortieth word.
Known(e) ==
  IF e.type = 6 THEN [e EXCEPT !.used_port[3] = @ \ (25..28)] ELSE e

-----------------------------------------------------------------------------
(* The commands.                                                            *)

\* setIGMPSltTable returns at once.
Waits(table) == table = "mct"

\* A row goes to the registers while the switch stores nothing.
Tell(table, row) ==
  IF Waits(table)
  THEN stored' = [stored EXCEPT ![table] = row] /\ pending' = {}
  ELSE pending' = {[table |-> table, row |-> row]} /\ UNCHANGED stored

\* The registers change under a switch that is storing p, and it is told to do
\* something else: what it makes of the one and of the other is not known.
Overtake(p, table, row) ==
  /\ \E x \in {stored[p.table], p.row, row}, y \in {stored[table], row} :
       stored' = [stored EXCEPT ![table] = y, ![p.table] = x]
  /\ pending' = IF Waits(table) THEN {} ELSE {[table |-> table, row |-> row]}

SetEntry(table, row, fits, e) ==
  IF pending = {}
  THEN /\ Tell(table, row)
       /\ asked' = [asked EXCEPT ![table] = IF fits THEN {e} ELSE {}]
  ELSE /\ \E p \in pending : Overtake(p, table, row)
       /\ asked' = [t \in Table |-> {}]

setIGMPMctTable(e) == SetEntry("mct", MctRow(e), MctFits(e), e)

setIGMPSltTable(e) == SetEntry("slt", SltRow(e), SltFits(e), e)

\* A get command of a table, a command of the IMP table or one for another
\* entry, while the switch is storing.
OtherCommand ==
  /\ \E p \in pending : stored' \in {stored, [stored EXCEPT ![p.table] = p.row]}
  /\ pending' = {}
  /\ asked' = [asked EXCEPT !.slt = {}]

\* The switch has stored what it was told to.
Stores ==
  /\ \E p \in pending : stored' = [stored EXCEPT ![p.table] = p.row]
  /\ pending' = {}
  /\ UNCHANGED asked

-----------------------------------------------------------------------------

Row == (0..39) \X (0..15)

IgmpTypeOK ==
  /\ DOMAIN stored = Table /\ \A t \in Table : stored[t] \subseteq Row
  /\ \A p, q \in pending : p = q /\ p.table \in Table /\ p.row \subseteq Row
  /\ DOMAIN asked = Table
  /\ asked["mct"] \subseteq MctEntry /\ asked["slt"] \subseteq SltEntry

IgmpInit ==
  /\ stored = [t \in Table |-> {}]
  /\ pending = {}
  /\ asked = [t \in Table |-> {}]

IgmpNext ==
  \/ \E e \in MctEntry : setIGMPMctTable(e)
  \/ \E e \in SltEntry : setIGMPSltTable(e)
  \/ OtherCommand
  \/ Stores

IgmpSpec == IgmpInit /\ [][IgmpNext]_igmpVars

-----------------------------------------------------------------------------

\* The get commands return the entry that was set last: every field is where
\* they look for it, none reaches into another, none is cut short.  This is so
\* as soon as setIGMPMctTable returns, and for the SLT once the switch has
\* stored the entry.  Not promised: an SLT entry while it is being stored, when
\* another command overtakes it, values too wide for their field, and what
\* MctPromise and SltPromise change.
IgmpKept ==
  /\ \A e \in asked["mct"] : getIGMPMctTable(stored["mct"]) = MctPromise(e)
  /\ pending = {} => \A e \in asked["slt"], beyond \in {{}, 0..15} :
       LET there == getIGMPSltTable(stored["slt"], e.type, beyond)
       IN  Known(there) = Known(SltPromise(e))

=============================================================================
