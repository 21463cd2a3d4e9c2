------------------------------ MODULE VlanTable ------------------------------
(***************************************************************************)
(* The VLAN entry commands of the switch driver: setVlanEntry* and         *)
(* getVlanEntry* in icplib/driver/switchdriver/ip1829func.c.               *)
(*                                                                         *)
(* An entry of the switch's VLAN table is six words wide and is reached    *)
(* through six window registers.  Five fields share the six words, cut     *)
(* where the words end.  A command holds ip1829_mutex and is one step, but *)
(* kit/vlan_raw.c writes the same registers one command at a time, so that *)
(* a command finds them as anybody may have left them.  A word is the set  *)
(* of its bits that are 1, and so is the value of a field.                 *)
(***************************************************************************)
EXTENDS Integers

CONSTANTS Vid,      \* VLANs
          PortMap,  \* values that callers pass for a set of ports
          Code      \* values that callers pass for a priority or a FID

VARIABLES
  table,    \* switch: the words of each entry
  window,   \* switch: P2REG_VLANDAT0 and the five registers after it
  watched,  \* history: some field of some entry
  said      \* history: {x} if x is what the commands gave this field, {} if
            \* something else may have written it

vars == <<table, window, watched, said>>

WordNo == 0..5
Bit    == 0..15
Entry  == [WordNo -> SUBSET Bit]
Zero   == [w \in WordNo |-> {}]

PortField == {"member", "addtag", "rmvtag"}
CodeField == {"priority", "fid"}
\* "valid" belongs to the switch: commands set it and none reads it.
Field == PortField \union CodeField \union {"valid"}

\* The bits of a value.
Width(f) == IF f \in PortField THEN 0..28 ELSE IF f \in CodeField THEN 0..3 ELSE {0}

\* A bug to be caught: a value is not checked.
AcceptedAny(f, x) == x \in IF f \in PortField THEN PortMap ELSE Code

\* Other values return -EINVAL.
Accepted(f, x) == x \subseteq Width(f) /\ x \in IF f \in PortField THEN PortMap ELSE Code

TypeOK ==
  /\ table \in [Vid -> Entry] /\ window \in Entry
  /\ watched \in [vid : Vid, field : Field]
  /\ \A x, y \in said : x = y /\ x \subseteq Width(watched.field)

Init ==
  /\ table = [v \in Vid |-> Zero] /\ window = Zero
  /\ watched \in [vid : Vid, field : Field]
  /\ said = {{}}

-----------------------------------------------------------------------------
(* The layout of an entry.                                                  *)

\* Bits from to to of a value are in a word, from bit at on.
Piece(word, from, to, at) == [word |-> word, from |-> from, to |-> to, at |-> at]
Place(p) == p.at .. p.at + p.to - p.from

\* The pieces that each setter writes.
SetMember   == {Piece(0, 0, 15, 0), Piece(1, 16, 28, 0)}
SetAddtag   == {Piece(1, 0, 2, 13), Piece(2, 3, 18, 0), Piece(3, 19, 28, 0)}
\* A bug to be caught: the mask of the last word is one bit too wide.
SetRmvtagWide == {Piece(3, 0, 5, 10), Piece(4, 6, 21, 0), Piece(5, 22, 29, 0)}
SetRmvtag   == {Piece(3, 0, 5, 10), Piece(4, 6, 21, 0), Piece(5, 22, 28, 0)}
SetPriority == {Piece(5, 0, 3, 7)}
SetFid      == {Piece(5, 0, 3, 11)}
SetValid    == {Piece(5, 0, 0, 15)}

Written == [member |-> SetMember, addtag |-> SetAddtag, rmvtag |-> SetRmvtag,
            priority |-> SetPriority, fid |-> SetFid, valid |-> SetValid]

\* The pieces that each getter reads.  The valid bit is read by the switch.
GetMember   == {Piece(1, 16, 28, 0), Piece(0, 0, 15, 0)}
GetAddtag   == {Piece(1, 0, 2, 13), Piece(2, 3, 18, 0), Piece(3, 19, 28, 0)}
GetRmvtag   == {Piece(3, 0, 5, 10), Piece(4, 6, 21, 0), Piece(5, 22, 28, 0)}
GetPriority == {Piece(5, 0, 3, 7)}
GetFid      == {Piece(5, 0, 3, 11)}
UsesValid   == {Piece(5, 0, 0, 15)}

ReadFrom == [member |-> GetMember, addtag |-> GetAddtag, rmvtag |-> GetRmvtag,
             priority |-> GetPriority, fid |-> GetFid, valid |-> UsesValid]

\* "&= ~mask" and "|= bits" in the words that hold a piece of the field.
Stored(e, f, x) ==
  [w \in WordNo |->
     LET in == {p \in Written[f] : p.word = w}
     IN  (e[w] \ UNION {Place(p) : p \in in})
           \union UNION {{b \in Place(p) : b - p.at + p.from \in x} : p \in in}]

Loaded(e, f) ==
  UNION {{b \in p.from .. p.to : b - p.from + p.at \in e[p.word]} : p \in ReadFrom[f]}

-----------------------------------------------------------------------------
(* The commands.                                                            *)

\* A bug to be caught: a setter starts from what the window holds.
StartStale(v) == window

\* Command 0x8000 has the switch fill the window.
Start(v) == table[v]

\* 0xc000 stores the window.
Store(v, e) == window' = e /\ table' = [table EXCEPT ![v] = e]

SetField(v, f, x) ==
  /\ Accepted(f, x)
  /\ Store(v, Stored(Stored(Start(v), f, x), "valid", {0}))
  /\ said' = CASE watched = [vid |-> v, field |-> f]       -> {x}
               [] watched = [vid |-> v, field |-> "valid"] -> {{0}}
               [] OTHER                                    -> said
  /\ UNCHANGED watched

GetField(v) ==
  /\ window' = table[v]
  /\ UNCHANGED <<table, watched, said>>

\* Five words of six, and the entry is not read before.
Cleared(e) == [w \in WordNo |-> IF w < 5 THEN {} ELSE e[w]]

ClearEntry(v) ==
  /\ Store(v, Cleared(window))
  /\ said' = IF watched.vid # v THEN said
             ELSE IF watched.field \in {"member", "addtag"} THEN {{}} ELSE {}
  /\ UNCHANGED watched

\* raw_vlan_write_member up to its last command, alone or over the words of
\* another caller: here all six in one step.  It always adds port 28, and it
\* writes back the tag bits of the second word, which it has read as ports.
RawFill(x) ==
  /\ Accepted("member", x)
  /\ window' = [w \in WordNo |->
                  CASE w = 0 -> x \intersect Bit
                    [] w = 1 -> {b \in 0..12 : b + 16 \in x} \union {12}
                                  \union (window[1] \intersect 13..15)
                    [] w = 5 -> {15}
                    [] OTHER -> {}]
  /\ UNCHANGED <<table, watched, said>>

\* The last command, and the command that reads an entry.
RawStore(v) ==
  /\ Store(v, window)
  /\ said' = IF watched.vid = v THEN {} ELSE said
  /\ UNCHANGED watched

Next == \E v \in Vid :
  \/ \E f \in Field \ {"valid"}, x \in PortMap \union Code : SetField(v, f, x)
  \/ GetField(v) \/ ClearEntry(v) \/ RawStore(v)
  \/ \E x \in PortMap : RawFill(x)

Spec == Init /\ [][Next]_vars

-----------------------------------------------------------------------------

\* Every field of every entry reads as the last command on it said, whatever
\* commands on other fields or entries and whatever register accesses of
\* vlan_raw.c came between: no setter's mask touches a neighbour in the same
\* word, no getter shifts otherwise than its setter, and nothing that the window
\* held before a setter reaches the entry.  Not promised: a field that vlan_raw.c
\* may have stored, and those that share the sixth word once the entry is cleared.
FieldsKept == said \subseteq {Loaded(table[watched.vid], watched.field)}

=============================================================================
