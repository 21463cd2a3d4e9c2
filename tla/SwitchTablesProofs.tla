-------------------------- MODULE SwitchTablesProofs --------------------------
(***************************************************************************)
(* The tables of the switch, for any constants: in the entries of VLANs,   *)
(* of addresses and of multicast groups, what a command set is what the    *)
(* get command finds.                                                      *)
(***************************************************************************)
EXTENDS VlanTable, AddressTables, IgmpTables, TLAPS

(***************************************************************************)
(* VlanTable: a field of an entry reads as it was written.  That is a fact *)
(* about the layout: a getter reads the pieces that its setter writes,     *)
(* these pieces make up the value, and no two pieces share a bit.          *)
(***************************************************************************)

-----------------------------------------------------------------------------
(* The layout.                                                              *)

\* Each getter reads what its setter writes.
LEMMA SamePieces == ASSUME NEW f \in Field PROVE ReadFrom[f] = Written[f]
BY DEF Field, PortField, CodeField, ReadFrom, Written, SetMember, SetAddtag, SetRmvtag,
       SetPriority, SetFid, SetValid, GetMember, GetAddtag, GetRmvtag, GetPriority, GetFid,
       UsesValid

\* A piece lies in one word, and holds bits of the value.
LEMMA PiecesFit ==
  ASSUME NEW f \in Field, NEW p \in Written[f]
  PROVE  /\ p.word \in WordNo /\ p.from \in Nat /\ p.to \in Nat /\ p.at \in Nat
         /\ p.from <= p.to /\ p.at + p.to - p.from <= 15
         /\ p.from .. p.to \subseteq Width(f)
BY DEF Field, PortField, CodeField, Written, SetMember, SetAddtag, SetRmvtag, SetPriority,
       SetFid, SetValid, Piece, WordNo, Width

\* The pieces of a field hold all bits of its value.
LEMMA PiecesCover ==
  ASSUME NEW f \in Field, NEW b \in Width(f)
  PROVE  \E p \in Written[f] : b \in p.from .. p.to
<1> USE DEF Piece
<1>1. CASE f = "member"
  <2>1. b \in 0..15 \/ b \in 16..28
    BY <1>1 DEF Width, PortField
  <2>2. Piece(0, 0, 15, 0) \in Written[f] /\ Piece(1, 16, 28, 0) \in Written[f]
    BY <1>1 DEF Written, SetMember
  <2>3. QED
    BY <2>1, <2>2
<1>2. CASE f = "addtag"
  <2>1. b \in 0..2 \/ b \in 3..18 \/ b \in 19..28
    BY <1>2 DEF Width, PortField
  <2>2. /\ Piece(1, 0, 2, 13) \in Written[f] /\ Piece(2, 3, 18, 0) \in Written[f]
        /\ Piece(3, 19, 28, 0) \in Written[f]
    BY <1>2 DEF Written, SetAddtag
  <2>3. QED
    BY <2>1, <2>2
<1>3. CASE f = "rmvtag"
  <2>1. b \in 0..5 \/ b \in 6..21 \/ b \in 22..28
    BY <1>3 DEF Width, PortField
  <2>2. /\ Piece(3, 0, 5, 10) \in Written[f] /\ Piece(4, 6, 21, 0) \in Written[f]
        /\ Piece(5, 22, 28, 0) \in Written[f]
    BY <1>3 DEF Written, SetRmvtag
  <2>3. QED
    BY <2>1, <2>2
<1>4. CASE f \in CodeField \union {"valid"}
  <2>1. /\ f \in {"priority", "fid"} => b \in 0..3
        /\ f = "valid" => b \in 0..0
    BY <1>4 DEF Width, PortField, CodeField
  <2>2. /\ f = "priority" => Piece(5, 0, 3, 7) \in Written[f]
        /\ f = "fid" => Piece(5, 0, 3, 11) \in Written[f]
        /\ f = "valid" => Piece(5, 0, 0, 15) \in Written[f]
    BY <1>4 DEF Written, SetPriority, SetFid, SetValid
  <2>3. QED
    BY <1>4, <2>1, <2>2 DEF CodeField
<1>5. QED
  BY <1>1, <1>2, <1>3, <1>4 DEF Field, PortField

\* Two pieces in the same word do not share a bit, whatever their fields.
LEMMA PiecesApart ==
  ASSUME NEW f \in Field, NEW g \in Field, NEW p \in Written[f], NEW q \in Written[g],
         p.word = q.word, f # g \/ p # q
  PROVE  p.at + p.to - p.from < q.at \/ q.at + q.to - q.from < p.at
BY DEF Field, PortField, CodeField, Written, SetMember, SetAddtag, SetRmvtag, SetPriority,
       SetFid, SetValid, Piece

-----------------------------------------------------------------------------
(* What Stored and Loaded do to each other.                                 *)

LEMMA StoredIsEntry ==
  ASSUME NEW e \in Entry, NEW f \in Field, NEW x
  PROVE  Stored(e, f, x) \in Entry
<1> SUFFICES ASSUME NEW w \in WordNo PROVE Stored(e, f, x)[w] \in SUBSET Bit
  BY DEF Stored, Entry
<1>1. \A p \in Written[f] : Place(p) \subseteq Bit
  BY PiecesFit DEF Place, Bit
<1>2. QED
  BY <1>1 DEF Stored, Entry

\* A bit inside a piece of the field is the value's, and the others are kept.
LEMMA StoredBit ==
  ASSUME NEW e \in Entry, NEW f \in Field, NEW x,
         NEW g \in Field, NEW p \in Written[g], NEW b \in p.from .. p.to
  PROVE  LET c == b - p.from + p.at IN
         c \in Stored(e, f, x)[p.word] <=> IF f = g THEN b \in x ELSE c \in e[p.word]
<1> DEFINE c == b - p.from + p.at
           in == {q \in Written[f] : q.word = p.word}
<1>1. /\ p.word \in WordNo /\ p.from \in Nat /\ p.to \in Nat /\ p.at \in Nat
      /\ p.from <= p.to
  BY PiecesFit
<1>2. b \in Int /\ c \in Int /\ c \in Place(p) /\ c - p.at + p.from = b
  BY <1>1 DEF Place
<1>3. \A q \in in : c \in Place(q) => f = g /\ q = p
  <2> SUFFICES ASSUME NEW q \in in, c \in Place(q), f # g \/ q # p PROVE FALSE
    OBVIOUS
  <2>1. q.from \in Nat /\ q.to \in Nat /\ q.at \in Nat
    BY PiecesFit
  <2>2. q.at + q.to - q.from < p.at \/ p.at + p.to - p.from < q.at
    BY PiecesApart
  <2>3. QED
    BY <1>1, <1>2, <2>1, <2>2 DEF Place
<1>4. f = g => p \in in
  OBVIOUS
<1>5. Stored(e, f, x)[p.word] =
        (e[p.word] \ UNION {Place(q) : q \in in})
          \union UNION {{a \in Place(q) : a - q.at + q.from \in x} : q \in in}
  BY <1>1 DEF Stored
<1>6. c \in UNION {Place(q) : q \in in} <=> f = g
  BY <1>2, <1>3, <1>4
<1>7. c \in UNION {{a \in Place(q) : a - q.at + q.from \in x} : q \in in} <=> f = g /\ b \in x
  BY <1>2, <1>3, <1>4
<1>8. QED
  BY <1>5, <1>6, <1>7

\* What was written is read.
LEMMA LoadStored ==
  ASSUME NEW e \in Entry, NEW f \in Field, NEW x, x \subseteq Width(f)
  PROVE  Loaded(Stored(e, f, x), f) = x
<1>1. ASSUME NEW b PROVE b \in Loaded(Stored(e, f, x), f) <=> b \in x
  <2>1. ASSUME b \in Loaded(Stored(e, f, x), f) PROVE b \in x
    <3>1. PICK p \in Written[f] : /\ b \in p.from .. p.to
                                  /\ b - p.from + p.at \in Stored(e, f, x)[p.word]
      BY <2>1, SamePieces DEF Loaded
    <3>2. QED
      BY <3>1, StoredBit
  <2>2. ASSUME b \in x PROVE b \in Loaded(Stored(e, f, x), f)
    <3>1. PICK p \in Written[f] : b \in p.from .. p.to
      BY <2>2, PiecesCover
    <3>2. b - p.from + p.at \in Stored(e, f, x)[p.word]
      BY <2>2, <3>1, StoredBit
    <3>3. QED
      BY <3>1, <3>2, SamePieces DEF Loaded
  <2>3. QED
    BY <2>1, <2>2
<1>2. QED
  BY <1>1

\* No other field reads differently.
LEMMA LoadOther ==
  ASSUME NEW e \in Entry, NEW f \in Field, NEW x, NEW g \in Field, f # g
  PROVE  Loaded(Stored(e, f, x), g) = Loaded(e, g)
<1>1. \A p \in Written[g] : \A b \in p.from .. p.to :
        b - p.from + p.at \in Stored(e, f, x)[p.word] <=> b - p.from + p.at \in e[p.word]
  BY StoredBit
<1>2. ASSUME NEW b PROVE b \in Loaded(Stored(e, f, x), g) <=> b \in Loaded(e, g)
  BY <1>1, SamePieces DEF Loaded
<1>3. QED
  BY <1>2

\* The words of a cleared entry, and of a switch as it starts.
LEMMA LoadCleared ==
  ASSUME NEW e \in Entry, NEW f \in {"member", "addtag"}
  PROVE  Loaded(Cleared(e), f) = {}
<1>1. \A p \in ReadFrom[f] : p.word \in 0..4
  BY DEF ReadFrom, GetMember, GetAddtag, Piece
<1>2. \A p \in ReadFrom[f] : Cleared(e)[p.word] = {}
  BY <1>1 DEF Cleared, WordNo
<1>3. QED
  BY <1>2 DEF Loaded

LEMMA LoadZero == ASSUME NEW f \in Field PROVE Loaded(Zero, f) = {}
<1>1. \A p \in ReadFrom[f] : Zero[p.word] = {}
  BY SamePieces, PiecesFit DEF Zero
<1>2. QED
  BY <1>1 DEF Loaded

-----------------------------------------------------------------------------
(* The commands.                                                            *)

\* Every action keeps the types, for any values that callers pass: a value with
\* a bit too many is refused.
THEOREM TypeCorrect == Spec => []TypeOK
<1>1. Init => TypeOK
  BY DEF Init, TypeOK, Zero, Entry, Width
<1>2. TypeOK /\ [Next]_vars => TypeOK'
  <2> SUFFICES ASSUME TypeOK, [Next]_vars PROVE TypeOK'
    OBVIOUS
  <2> USE DEF TypeOK
  <2>1. ASSUME NEW v \in Vid, NEW f \in Field \ {"valid"}, NEW x, SetField(v, f, x)
        PROVE  TypeOK'
    <3> DEFINE e == Stored(Stored(Start(v), f, x), "valid", {0})
    <3>1. e \in Entry
      BY StoredIsEntry DEF Start, Field
    <3>2. window' = e /\ table' = [table EXCEPT ![v] = e]
      BY <2>1 DEF SetField, Store
    <3> HIDE DEF e
    <3>3. /\ table' \in [Vid -> Entry] /\ window' \in Entry /\ watched' = watched
          /\ x \subseteq Width(f)
      BY <2>1, <3>1, <3>2 DEF SetField, Accepted
    <3>4. CASE watched = [vid |-> v, field |-> f]
      <4>1. said' = {x} /\ watched.field = f
        BY <2>1, <3>4 DEF SetField
      <4>2. QED
        BY <3>3, <4>1
    <3>5. CASE watched # [vid |-> v, field |-> f] /\ watched = [vid |-> v, field |-> "valid"]
      <4>1. said' = {{0}} /\ watched.field = "valid" /\ Width("valid") = {0}
        BY <2>1, <3>5 DEF SetField, Width, PortField, CodeField
      <4>2. QED
        BY <3>3, <4>1
    <3>6. CASE watched \notin {[vid |-> v, field |-> f], [vid |-> v, field |-> "valid"]}
      BY <2>1, <3>3, <3>6 DEF SetField
    <3>7. QED
      BY <3>4, <3>5, <3>6
  <2>2. ASSUME NEW v \in Vid, GetField(v) PROVE TypeOK'
    BY <2>2 DEF GetField
  <2>3. ASSUME NEW v \in Vid, ClearEntry(v) PROVE TypeOK'
    <3>1. Cleared(window) \in Entry
      BY DEF Cleared, Entry
    <3>2. QED
      BY <2>3, <3>1 DEF ClearEntry, Store
  <2>4. ASSUME NEW v \in Vid, RawStore(v) PROVE TypeOK'
    BY <2>4 DEF RawStore, Store
  <2>5. ASSUME NEW x, RawFill(x) PROVE TypeOK'
    <3>1. window' \in Entry
      BY <2>5 DEF RawFill, Entry, Bit, WordNo
    <3>2. QED
      BY <2>5, <3>1 DEF RawFill
  <2>6. CASE UNCHANGED vars
    BY <2>6 DEF vars
  <2>7. QED
    BY <2>1, <2>2, <2>3, <2>4, <2>5, <2>6 DEF Next
<1>3. QED
  BY <1>1, <1>2, PTL DEF Spec

\* The field that the history watches reads as the last command on it said,
\* whatever other commands and register accesses came between.
THEOREM FieldsAlwaysKept == Spec => []FieldsKept
<1>1. Init => FieldsKept
  BY LoadZero DEF Init, FieldsKept
<1>2. TypeOK /\ FieldsKept /\ [Next]_vars => FieldsKept'
  <2> SUFFICES ASSUME TypeOK, FieldsKept, [Next]_vars PROVE FieldsKept'
    OBVIOUS
  <2> USE DEF TypeOK, FieldsKept
  <2>w. watched' = watched /\ watched.vid \in Vid /\ watched.field \in Field
    BY DEF Next, SetField, GetField, ClearEntry, RawStore, RawFill, vars
  <2>1. ASSUME NEW v \in Vid, NEW f \in Field \ {"valid"}, NEW x, SetField(v, f, x)
        PROVE  FieldsKept'
    <3> DEFINE s == Stored(table[v], f, x)
               e == Stored(s, "valid", {0})
    <3>1. table[v] \in Entry /\ s \in Entry /\ e \in Entry
      BY StoredIsEntry DEF Field
    <3>2. table' = [table EXCEPT ![v] = e] /\ x \subseteq Width(f)
      BY <2>1 DEF SetField, Store, Start, Accepted
    <3>3. Loaded(e, f) = x
      BY <3>1, <3>2, LoadStored, LoadOther DEF Field
    <3>4. Loaded(e, "valid") = {0}
      BY <3>1, LoadStored DEF Field, Width, PortField, CodeField
    <3>5. \A g \in Field \ {f, "valid"} : Loaded(e, g) = Loaded(table[v], g)
      BY <3>1, LoadOther DEF Field
    <3>6. table'[v] = e /\ \A u \in Vid \ {v} : table'[u] = table[u]
      BY <3>2
    <3> HIDE DEF e, s
    <3>7. CASE watched.vid # v
      BY <2>1, <2>w, <3>6, <3>7 DEF SetField
    <3>8. CASE watched.vid = v /\ watched.field = f
      <4>1. watched = [vid |-> v, field |-> f]
        BY <3>8
      <4>2. QED
        BY <2>1, <2>w, <3>3, <3>6, <3>8, <4>1 DEF SetField
    <3>9. CASE watched.vid = v /\ watched.field = "valid"
      <4>1. watched = [vid |-> v, field |-> "valid"]
        BY <3>9
      <4>2. QED
        BY <2>1, <2>w, <3>4, <3>6, <3>9, <4>1 DEF SetField
    <3>10. CASE watched.vid = v /\ watched.field \notin {f, "valid"}
      BY <2>1, <2>w, <3>5, <3>6, <3>10 DEF SetField
    <3>11. QED
      BY <3>7, <3>8, <3>9, <3>10
  <2>2. ASSUME NEW v \in Vid, GetField(v) PROVE FieldsKept'
    BY <2>2 DEF GetField
  <2>3. ASSUME NEW v \in Vid, ClearEntry(v) PROVE FieldsKept'
    <3>1. CASE watched.vid # v
      BY <2>3, <2>w, <3>1 DEF ClearEntry, Store
    <3>2. CASE watched.vid = v /\ watched.field \in {"member", "addtag"}
      <4>1. table'[v] = Cleared(window) /\ said' = {{}}
        BY <2>3, <3>2 DEF ClearEntry, Store
      <4>2. Loaded(Cleared(window), watched.field) = {}
        BY <3>2, LoadCleared
      <4>3. QED
        BY <2>w, <3>2, <4>1, <4>2
    <3>3. CASE watched.vid = v /\ watched.field \notin {"member", "addtag"}
      BY <2>3, <3>3 DEF ClearEntry
    <3>4. QED
      BY <3>1, <3>2, <3>3
  <2>4. ASSUME NEW v \in Vid, RawStore(v) PROVE FieldsKept'
    BY <2>4, <2>w DEF RawStore, Store
  <2>5. ASSUME NEW x, RawFill(x) PROVE FieldsKept'
    BY <2>5 DEF RawFill
  <2>6. CASE UNCHANGED vars
    BY <2>6 DEF vars
  <2>7. QED
    BY <2>1, <2>2, <2>3, <2>4, <2>5, <2>6 DEF Next
<1>3. QED
  BY <1>1, <1>2, TypeCorrect, PTL DEF Spec

-----------------------------------------------------------------------------
(***************************************************************************)
(* AddressTables: what is set for an address is found, whatever addresses  *)
(* share its slot.                                                         *)
(***************************************************************************)

Key == (Block \X Mac) \union ({0} \X Ip)

\* The strengthening: what is in the tables does not depend on whether the switch is
\* storing, only what is read from them.
EntriesThere == due \subseteq {Found}
AddressInv == AddressTypeOK /\ EntriesThere

-----------------------------------------------------------------------------
(* What an entry holds.                                                     *)

LEMMA PackedFits ==
  ASSUME NEW x \in LutInfo
  PROVE  /\ LutPacked(x) \in LutWord
         /\ LutFits(x) => LutUnpacked(LutPacked(x)) = x
<1>1. x \in [priority : 0..8, drop : {0, 1}, srcport : 0..32]
  BY AddressAssumption DEF AddressAssumption
<1>2. PICK p \in 0..8, d \in {0, 1}, s \in 0..32 : x = [priority |-> p, drop |-> d, srcport |-> s]
  BY <1>1
<1>3. p % 8 \in 0..7 /\ (s - 1) % 32 \in 0..31
  OBVIOUS
<1>4. p < 8 => p % 8 = p
  OBVIOUS
<1>5. s > 0 => ((s - 1) % 32) + 1 = s
  OBVIOUS
<1>6. QED
  BY <1>2, <1>3, <1>4, <1>5 DEF LutPacked, LutUnpacked, LutWord, LutFits

LEMMA ImpPackedFits ==
  ASSUME NEW ip \in Ip, NEW x \in ImpInfo
  PROVE  ImpPacked(ip, x) \in ImpEntry
BY AddressAssumption DEF AddressAssumption, ImpPacked, ImpEntry, Check

LEMMA WithCell ==
  ASSUME NEW m \in Mac, NEW x \in LutInfo, NEW aging \in 0..15
  PROVE  LutCell(With(m, x, aging))
BY PackedFits DEF With, LutCell, Static, Learned, AtMostOne

LEMMA Cells ==
  ASSUME NEW block \in 0..2, NEW m \in Mac
  PROVE  <<Reached(block), Hash[m]>> \in Block \X Slot
BY AddressAssumption DEF AddressAssumption, Reached, Block

-----------------------------------------------------------------------------
(* The commands.                                                            *)

\* What getLutEntry finds depends on one slot.
LutFound(cell, m) ==
  {LutUnpacked(w) : w \in UNION {e.info : e \in {e \in cell : e.mac = m}}}

LEMMA LutStep ==
  ASSUME AddressInv, NEW action \in Action, NEW block \in 0..2, NEW m \in Mac,
         NEW x \in LutInfo, NEW aging \in 0..15,
         action = "CREATE" => aging = 15, action = "DELETE" => aging \in {0, 1},
         setLutEntry(action, block, m, x, aging)
  PROVE  AddressInv'
<1> DEFINE cell == <<Reached(block), Hash[m]>>
           there == Probed(block, m)
           accepts == LutAccepts(action, there, m)
           now == IF accepts THEN With(m, x, aging) ELSE there
<1>1. cell \in Block \X Slot
  BY Cells
<1>2. /\ lut' = [lut EXCEPT ![cell] = now] /\ UNCHANGED <<imp, storing, address>>
      /\ due' = CASE block = 2 /\ \E w \in Mac : address = <<0, w>> /\ Hash[w] = Hash[m] -> {}
                  [] block < 2 /\ accepts /\ address = <<block, m>>
                       -> LutPromise(action, x, aging)
                  [] OTHER -> due
  BY DEF setLutEntry
<1>3. block < 2 => Reached(block) = block /\ there = lut[cell]
  BY DEF Reached, Probed
<1>4. LutCell(there)
  BY <1>1 DEF AddressInv, AddressTypeOK, Probed, LutCell, AtMostOne
<1>5. LutCell(now)
  BY <1>4, WithCell
<1>6. AddressTypeOK'
  BY <1>1, <1>2, <1>5 DEF AddressInv, AddressTypeOK
<1>7. EntriesThere'
  <2>1. CASE address[2] \in Ip
    <3>1. \A w \in Mac, b \in Block : address # <<b, w>>
      BY <2>1, AddressAssumption DEF AddressAssumption
    <3>2. due' = due
      BY <1>2, <3>1 DEF Block
    <3>3. QED
      BY <1>2, <2>1, <3>2 DEF AddressInv, EntriesThere, Found, getImpEntry
  <2>2. CASE address[2] \notin Ip
    <3>1. PICK b \in Block, w \in Mac : address = <<b, w>>
      BY <2>2 DEF AddressInv, AddressTypeOK
    <3> DEFINE own == <<b, Hash[w]>>
    <3>2. own \in Block \X Slot
      BY AddressAssumption DEF AddressAssumption
    <3>3. /\ Found = LutFound(lut[own], w) /\ Found' = LutFound(lut'[own], w)
      BY <1>2, <2>2, <3>1 DEF Found, getLutEntry, LutFound
    <3>4. due \subseteq {LutFound(lut[own], w)}
      BY <3>3 DEF AddressInv, EntriesThere
    <3>5. CASE own # cell
      <4>1. lut'[own] = lut[own]
        BY <1>2, <3>5, <3>2 DEF AddressInv, AddressTypeOK
      <4>2. ~(block < 2 /\ address = <<block, m>>)
        BY <1>3, <3>1, <3>5
      <4>3. due' \subseteq due
        BY <1>2, <4>2
      <4>4. QED
        BY <3>3, <3>4, <4>1, <4>3 DEF EntriesThere
    <3>6. CASE own = cell /\ block = 2
      <4>1. b = 0 /\ Hash[w] = Hash[m]
        BY <3>6 DEF Reached
      <4>2. due' = {}
        BY <1>2, <3>1, <3>6, <4>1
      <4>3. QED
        BY <4>2 DEF EntriesThere
    <3>7. CASE own = cell /\ block # 2
      <4>1. block < 2 /\ block = b /\ there = lut[own] /\ lut'[own] = now
        BY <1>1, <1>2, <1>3, <3>7 DEF AddressInv, AddressTypeOK
      <4>2. CASE ~accepts
        BY <1>2, <3>1, <3>3, <3>4, <4>1, <4>2 DEF EntriesThere
      <4>3. CASE accepts /\ m = w
        <5>1. due' = LutPromise(action, x, aging)
          BY <1>2, <3>1, <4>1, <4>3
        <5>2. lut'[own] = With(w, x, aging)
          BY <4>1, <4>3
        <5>3. CASE aging = 15
          <6>1. action # "DELETE"
            BY <5>3
          <6>2. LutFound(lut'[own], w) = {LutUnpacked(LutPacked(x))}
            <7> DEFINE e == Static(w, x)
                       p == LutPacked(x)
            <7>1. lut'[own] = {e} /\ e.mac = w /\ e.info = {p}
              BY <5>2, <5>3 DEF With, Static
            <7> HIDE DEF e, p
            <7>2. {f \in lut'[own] : f.mac = w} = {e}
              BY <7>1
            <7>3. UNION {f.info : f \in {f \in lut'[own] : f.mac = w}} = {p}
              BY <7>1, <7>2
            <7>4. LutFound(lut'[own], w) = {LutUnpacked(p)}
              BY <7>3 DEF LutFound
            <7>5. QED
              BY <7>4 DEF p
          <6>3. due' \subseteq {{x}} /\ (~LutFits(x) => due' = {})
            BY <5>1, <5>3, <6>1 DEF LutPromise, Action
          <6>4. QED
            BY <3>3, <6>2, <6>3, PackedFits DEF EntriesThere
        <5>4. CASE aging # 15
          <6>1. action # "CREATE"
            BY <5>4
          <6>2. LutFound(lut'[own], w) = {}
            BY <5>2, <5>4 DEF With, Learned, LutFound
          <6>3. due' = {{}}
            BY <5>1, <5>4, <6>1 DEF LutPromise
          <6>4. QED
            BY <3>3, <6>2, <6>3 DEF EntriesThere
        <5>5. QED
          BY <5>3, <5>4
      <4>4. CASE accepts /\ m # w
        <5>1. due' = due
          BY <1>2, <3>1, <4>1, <4>4
        <5>2. LutFound(lut'[own], w) = {}
          BY <4>1, <4>4 DEF With, Static, Learned, LutFound
        <5>3. LutFound(lut[own], w) = {}
          <6>1. \A e \in there : e.mac # w \/ e.info = {}
            <7>1. CASE action = "CREATE"
              BY <4>4, <7>1 DEF LutAccepts
            <7>2. CASE action # "CREATE"
              <8>1. LutMatches(there, m) /\ AtMostOne(there)
                BY <1>4, <4>4, <7>2 DEF LutAccepts, Action, LutCell
              <8>2. QED
                BY <4>4, <8>1 DEF LutMatches, AtMostOne
            <7>3. QED
              BY <7>1, <7>2
          <6>2. QED
            BY <4>1, <6>1 DEF LutFound
        <5>4. QED
          BY <3>3, <3>4, <5>1, <5>2, <5>3 DEF EntriesThere
      <4>5. QED
        BY <4>2, <4>3, <4>4
    <3>8. QED
      BY <3>5, <3>6, <3>7
  <2>3. QED
    BY <2>1, <2>2
<1>8. QED
  BY <1>6, <1>7 DEF AddressInv

LEMMA LearnStep ==
  ASSUME AddressInv, NEW block \in Block, NEW slot \in Slot, LutLearns(block, slot)
  PROVE  AddressInv'
<1> DEFINE cell == <<block, slot>>
<1>1. PICK now \in {{}} \union {{Learned(m)} : m \in {m \in Mac : Hash[m] = slot}} :
        lut' = [lut EXCEPT ![cell] = now]
  BY DEF LutLearns
<1>2. UNCHANGED <<imp, storing, address, due>> /\ \A e \in lut[cell] : e.info = {}
  BY DEF LutLearns
<1>3. LutCell(now) /\ \A e \in now : e.info = {}
  BY DEF LutCell, Learned, AtMostOne
<1>4. AddressTypeOK'
  BY <1>1, <1>2, <1>3 DEF AddressInv, AddressTypeOK
<1>5. \A c, m : c \in DOMAIN lut => LutFound(lut'[c], m) = LutFound(lut[c], m)
  BY <1>1, <1>2, <1>3 DEF LutFound, AddressInv, AddressTypeOK
<1>6. Found' = Found
  <2>1. CASE address[2] \in Ip
    BY <1>2, <2>1 DEF Found, getImpEntry
  <2>2. CASE address[2] \notin Ip
    <3>1. PICK b \in Block, w \in Mac : address = <<b, w>>
      BY <2>2 DEF AddressInv, AddressTypeOK
    <3>2. <<b, Hash[w]>> \in DOMAIN lut
      BY AddressAssumption DEF AddressAssumption, AddressInv, AddressTypeOK
    <3>3. Found = LutFound(lut[<<b, Hash[w]>>], w)
      BY <2>2, <3>1 DEF Found, getLutEntry, LutFound
    <3>4. Found' = LutFound(lut'[<<b, Hash[w]>>], w)
      BY <1>2, <2>2, <3>1 DEF Found, getLutEntry, LutFound
    <3>5. QED
      BY <1>5, <3>2, <3>3, <3>4
  <2>3. QED
    BY <2>1, <2>2
<1>7. QED
  BY <1>2, <1>4, <1>6 DEF AddressInv, EntriesThere

\* What getImpEntry finds depends on one slot.
ImpFound(cell, ip) ==
  {[checks |-> e.checks, filter |-> 1 - e.nofilter] : e \in {e \in cell : ImpMatches({e}, ip)}}

LEMMA ImpStep ==
  ASSUME AddressInv, NEW action \in Action, NEW ip \in Ip, NEW x \in ImpInfo,
         setImpEntry(action, ip, x)
  PROVE  AddressInv'
<1> DEFINE slot == Hash[ip]
           now == IF action = "DELETE" THEN {} ELSE {ImpPacked(ip, x)}
           sharing == \E w \in Ip \ {ip} : address = <<0, w>> /\ Hash[w] = slot
<1>1. slot \in Slot
  BY AddressAssumption DEF AddressAssumption
<1>2. PICK accepts \in BOOLEAN :
        /\ storing = "no" => accepts = ImpAccepts(action, imp[slot], ip)
        /\ imp' = IF accepts THEN [imp EXCEPT ![slot] = now] ELSE imp
        /\ due' = CASE accepts /\ address = <<0, ip>> -> ImpPromise(action, x)
                    [] accepts /\ storing = "yes" /\ sharing -> due \intersect {{}}
                    [] OTHER -> due
        /\ UNCHANGED <<lut, address>> /\ storing' = "no"
  <2>1. ImpAccepts(action, imp[slot], ip) \in BOOLEAN
    BY DEF ImpAccepts, ImpMatches
  <2>2. QED
    BY <2>1 DEF setImpEntry
<1>3. now \subseteq ImpEntry /\ AtMostOne(now)
  BY ImpPackedFits DEF AtMostOne
<1>4. AddressTypeOK'
  BY <1>1, <1>2, <1>3 DEF AddressInv, AddressTypeOK
<1>5. EntriesThere'
  <2>1. CASE ~accepts
    <3>1. Found' = Found /\ due' = due
      BY <1>2, <2>1 DEF Found, getImpEntry, getLutEntry
    <3>2. QED
      BY <3>1 DEF AddressInv, EntriesThere
  <2>2. CASE accepts /\ address[2] \notin Ip
    <3>1. Found' = Found
      BY <1>2, <2>2 DEF Found, getLutEntry
    <3>2. ~sharing /\ address # <<0, ip>>
      BY <2>2
    <3>3. due' = due
      BY <1>2, <3>2
    <3>4. QED
      BY <3>1, <3>3 DEF AddressInv, EntriesThere
  <2>3. CASE accepts /\ address[2] \in Ip
    <3>1. PICK w \in Ip : address = <<0, w>>
      BY <2>3, AddressAssumption DEF AddressInv, AddressTypeOK, AddressAssumption
    <3>2. Found = ImpFound(imp[Hash[w]], w) /\ Found' = ImpFound(imp'[Hash[w]], w)
      BY <1>2, <3>1 DEF Found, getImpEntry, ImpFound
    <3>3. Hash[w] \in Slot
      BY AddressAssumption DEF AddressAssumption
    <3>4. CASE w = ip
      <4>1. imp'[Hash[w]] = now /\ due' = ImpPromise(action, x)
        BY <1>1, <1>2, <2>3, <3>1, <3>4 DEF AddressInv, AddressTypeOK
      <4>2. CASE action = "DELETE"
        BY <3>2, <4>1, <4>2 DEF ImpFound, ImpPromise, EntriesThere
      <4>3. CASE action # "DELETE" /\ "port" \in x.checks /\ x.srcport = 0
        BY <4>1, <4>3 DEF ImpPromise, EntriesThere
      <4>4. CASE action # "DELETE" /\ ~("port" \in x.checks /\ x.srcport = 0)
        <5> DEFINE e == ImpPacked(ip, x)
        <5>1. /\ e.ip = ip /\ e.type = IF ip \in Ip4 THEN 4 ELSE 6
              /\ e.checks = x.checks /\ e.nofilter = 1 - x.filter
          BY <4>4 DEF ImpPacked
        <5>2. x.filter \in {0, 1}
          BY AddressAssumption DEF AddressAssumption
        <5>3. ImpMatches({e}, w)
          BY <3>4, <5>1 DEF ImpMatches
        <5> HIDE DEF e
        <5>4. ImpFound({e}, w) = {[checks |-> e.checks, filter |-> 1 - e.nofilter]}
          BY <5>3 DEF ImpFound
        <5>5. 1 - e.nofilter = x.filter
          BY <5>1, <5>2
        <5>6. ImpFound({e}, w) = {[checks |-> x.checks, filter |-> x.filter]}
          BY <5>1, <5>4, <5>5
        <5>7. due' = {{[checks |-> x.checks, filter |-> x.filter]}}
          BY <4>1, <4>4 DEF ImpPromise
        <5>8. imp'[Hash[w]] = {e}
          BY <4>1, <4>4 DEF e
        <5>9. QED
          BY <3>2, <5>6, <5>7, <5>8 DEF EntriesThere
      <4>5. QED
        BY <4>2, <4>3, <4>4
    <3>5. CASE w # ip
      <4>1. due' = IF storing = "yes" /\ Hash[w] = slot THEN due \intersect {{}} ELSE due
        <5>1. sharing <=> Hash[w] = slot
          BY <3>1, <3>5
        <5>2. address # <<0, ip>>
          BY <3>1, <3>5
        <5>3. QED
          BY <1>2, <2>3, <5>1, <5>2
      <4>2. CASE Hash[w] # slot
        <5>1. imp'[Hash[w]] = imp[Hash[w]]
          BY <1>2, <3>3, <4>2 DEF AddressInv, AddressTypeOK
        <5>2. QED
          BY <3>2, <4>1, <4>2, <5>1 DEF AddressInv, EntriesThere
      <4>3. CASE Hash[w] = slot
        <5>1. imp'[slot] = now
          BY <1>1, <1>2, <2>3 DEF AddressInv, AddressTypeOK
        <5>2. \A e \in now : e.ip = ip
          BY DEF ImpPacked
        <5>3. ImpFound(now, w) = {}
          BY <3>5, <5>2 DEF ImpFound, ImpMatches
        <5>4. CASE storing = "yes"
          BY <3>2, <4>1, <4>3, <5>1, <5>3, <5>4 DEF EntriesThere
        <5>5. CASE storing = "no"
          <6>1. ImpAccepts(action, imp[slot], ip)
            BY <1>2, <2>3, <5>5
          <6>2. \A e \in imp[slot] : e.ip = ip
            BY <1>1, <6>1 DEF ImpAccepts, ImpMatches, AddressInv, AddressTypeOK, AtMostOne
          <6>3. ImpFound(imp[slot], w) = {}
            BY <3>5, <6>2 DEF ImpFound, ImpMatches
          <6>4. QED
            BY <3>2, <4>1, <4>3, <5>1, <5>3, <5>5, <6>3 DEF AddressInv, EntriesThere
        <5>6. QED
          BY <5>4, <5>5 DEF AddressInv, AddressTypeOK
      <4>4. QED
        BY <4>2, <4>3
    <3>6. QED
      BY <3>4, <3>5
  <2>4. QED
    BY <2>1, <2>2, <2>3
<1>6. QED
  BY <1>4, <1>5 DEF AddressInv

-----------------------------------------------------------------------------

LEMMA AddressInvInit == AddressInit => AddressInv
<1> SUFFICES ASSUME AddressInit PROVE AddressInv
  OBVIOUS
<1>1. AddressTypeOK
  BY DEF AddressInit, AddressTypeOK, LutCell, AtMostOne
<1>2. Found = {}
  <2>1. CASE address[2] \in Ip
    <3>1. Hash[address[2]] \in Slot
      BY <2>1, AddressAssumption DEF AddressAssumption
    <3>2. QED
      BY <2>1, <3>1 DEF AddressInit, Found, getImpEntry
  <2>2. CASE address[2] \notin Ip
    <3>1. PICK b \in Block, w \in Mac : address = <<b, w>>
      BY <2>2 DEF AddressInit
    <3>2. <<b, Hash[w]>> \in Block \X Slot
      BY AddressAssumption DEF AddressAssumption
    <3>3. lut[<<b, Hash[w]>>] = {}
      BY <3>2 DEF AddressInit
    <3>4. QED
      BY <2>2, <3>1, <3>3 DEF Found, getLutEntry
  <2>3. QED
    BY <2>1, <2>2
<1>3. QED
  BY <1>1, <1>2 DEF AddressInit, AddressInv, EntriesThere

LEMMA AddressInvNext == AddressInv /\ [AddressNext]_addressVars => AddressInv'
<1> SUFFICES ASSUME AddressInv, [AddressNext]_addressVars PROVE AddressInv'
  OBVIOUS
<1>1. CASE LutNext
  <2>1. \A a \in {"CREATE", "CONFIG", "DELETE"} : a \in Action
    BY DEF Action
  <2>2. ASSUME NEW block \in 0..2, NEW m \in Mac, NEW x \in LutInfo,
               setLutEntry("CREATE", block, m, x, 15)
        PROVE  AddressInv'
    BY <2>1, <2>2, LutStep
  <2>3. ASSUME NEW block \in 0..2, NEW m \in Mac, NEW x \in LutInfo, NEW aging \in Aging,
               setLutEntry("CONFIG", block, m, x, aging)
        PROVE  AddressInv'
    BY <2>1, <2>3, LutStep DEF Aging
  <2>4. ASSUME NEW block \in 0..2, NEW m \in Mac, NEW x \in LutInfo, NEW pri_en \in {0, 1},
               setLutEntry("DELETE", block, m, x, pri_en)
        PROVE  AddressInv'
    BY <2>1, <2>4, LutStep
  <2>5. QED
    BY <1>1, <2>2, <2>3, <2>4, LearnStep DEF LutNext
<1>2. CASE ImpNext
  <2>1. ASSUME SltIsTold \/ SltIsStored PROVE AddressInv'
    <3>1. UNCHANGED <<lut, imp, address, due>> /\ storing' \in {"yes", "no"}
      BY <2>1 DEF SltIsTold, SltIsStored
    <3>2. AddressTypeOK'
      BY <3>1 DEF AddressInv, AddressTypeOK
    <3>3. Found' = Found
      BY <3>1 DEF Found, getLutEntry, getImpEntry
    <3>4. QED
      BY <3>1, <3>2, <3>3 DEF AddressInv, EntriesThere
  <2>2. QED
    BY <1>2, <2>1, ImpStep DEF ImpNext
<1>3. CASE UNCHANGED addressVars
  <2>1. UNCHANGED <<lut, imp, storing, address, due>>
    BY <1>3 DEF addressVars
  <2>2. AddressTypeOK'
    BY <2>1 DEF AddressInv, AddressTypeOK
  <2>3. Found' = Found
    BY <2>1 DEF Found, getLutEntry, getImpEntry
  <2>4. QED
    BY <2>1, <2>2, <2>3 DEF AddressInv, EntriesThere
<1>4. QED
  BY <1>1, <1>2, <1>3 DEF AddressNext

\* The types of the two tables.
THEOREM AddressTypeCorrect == AddressSpec => []AddressTypeOK
<1>1. AddressInv => AddressTypeOK
  BY DEF AddressInv
<1>2. QED
  BY <1>1, AddressInvInit, AddressInvNext, PTL DEF AddressSpec

\* What is set for an address is found, see EntriesKept: whatever addresses share its
\* slot, and for an IP address as long as no entry of the SLT is being stored
\* when the table is read or the slot is taken.
THEOREM EntriesAlwaysKept == AddressSpec => []EntriesKept
<1>1. AddressInv => EntriesKept
  BY DEF AddressInv, EntriesThere, EntriesKept
<1>2. QED
  BY <1>1, AddressInvInit, AddressInvNext, PTL DEF AddressSpec

-----------------------------------------------------------------------------
(***************************************************************************)
(* IgmpTables: makeTable and getTable agree on every bit, no field of an   *)
(* entry reaches into another, and the one row that is stored behind the   *)
(* callers' backs is the row asked for.                                    *)
(***************************************************************************)

\* Bit k of what begins at offset.
Nth(offset, k) == <<(offset + k) \div 16, (offset + k) % 16>>

LEMMA Split ==
  ASSUME NEW x \in Nat
  PROVE  x \div 16 \in Nat /\ x % 16 \in 0..15 /\ x % 16 = x - 16 * (x \div 16)
OBVIOUS

LEMMA Joined ==
  ASSUME NEW w \in Int, NEW b \in 0..15, NEW x \in Nat, x = 16 * w + b
  PROVE  w = x \div 16 /\ b = x % 16
OBVIOUS

LEMMA AtBit ==
  ASSUME NEW p, NEW value, NEW w, NEW b
  PROVE  <<w, b>> \in At(p, value) <=> w = p /\ b \in 0..15 /\ b \in value
BY DEF At, Cut

LEMMA MovedBit ==
  ASSUME NEW value \in SUBSET Int, NEW n \in Int, NEW b \in Int
  PROVE  b \in Moved(value, n) <=> b - n \in value
BY DEF Moved

\* makeTable sets the bits of a value, shifted by its offset.
LEMMA MakeTable ==
  ASSUME NEW offset \in Nat, NEW len \in 1..32, NEW value, value \subseteq 0..(len - 1),
         NEW w \in Nat, NEW b \in 0..15
  PROVE  <<w, b>> \in makeTable(offset, value, len) <=> 16 * w + b - offset \in value
<1> DEFINE ptr == offset \div 16
           set == offset % 16
           k == 16 * w + b - offset
<1>1. ptr \in Nat /\ set \in 0..15 /\ set = offset - 16 * ptr
  BY Split
<1> HIDE DEF ptr, set
<1>2. \A n \in Int : b \in Moved(value, n) <=> b - n \in value
  <2>1. value \in SUBSET Int /\ b \in Int
    OBVIOUS
  <2>2. QED
    BY <2>1, MovedBit
<1>3. <<w, b>> \in makeTable(offset, value, len)
        <=> \/ w = ptr /\ b - set \in value
            \/ len > 16 - set /\ w = ptr + 1 /\ b - (set - 16) \in value
            \/ len - (16 - set) > 16 /\ w = ptr + 2 /\ b - (set - 32) \in value
  BY <1>1, <1>2, AtBit DEF makeTable, ptr, set
<1>4. k \in value => w = ptr \/ w = ptr + 1 \/ w = ptr + 2
  BY <1>1
<1>5. /\ w = ptr => k = b - set
      /\ w = ptr + 1 => k = b - (set - 16)
      /\ w = ptr + 2 => k = b - (set - 32)
  BY <1>1
<1>6. k \in value => /\ w = ptr + 1 => len > 16 - set
                     /\ w = ptr + 2 => len - (16 - set) > 16
  BY <1>1
<1>7. QED
  BY <1>3, <1>4, <1>5, <1>6

LEMMA MovedInt ==
  ASSUME NEW value \in SUBSET Int, NEW n \in Int
  PROVE  Moved(value, n) \in SUBSET Int
BY DEF Moved

\* What getTable makes of three words, of which the last one is read below bit
\* set.
Gather(first, middle, end, set, len) ==
  LET last == {b \in end : b < set}
      before(word, n) == {b \in Moved(word, n - 16) : b >= 0}
  IN  CASE len < set -> {b \in Moved(last, len - set) : b >= 0}
        [] len = set -> last
        [] len > set /\ len - set < 16 -> Moved(last, len - set) \union before(middle, len - set)
        [] len - set >= 16 ->
             Moved(Moved(last, 16) \union middle, len - set - 16)
             \union before(first, len - set - 16)

LEMMA Gathered ==
  ASSUME NEW set \in 0..15, NEW len \in 1..32,
         NEW first \in SUBSET (0..15), NEW middle \in SUBSET (0..15), NEW end \in SUBSET (0..15),
         NEW k \in Int
  PROVE  LET found == Gather(first, middle, end, set, len)
             j == k - len + set
         IN  /\ found \subseteq Int
             /\ k \in found <=> /\ k \in 0..(len - 1)
                                /\ j >= 0 => j \in end
                                /\ -16 <= j /\ j < 0 => j + 16 \in middle
                                /\ j < -16 => j + 32 \in first
<1> DEFINE last == {b \in end : b < set}
           before(word, n) == {b \in Moved(word, n - 16) : b >= 0}
           j == k - len + set
           Right(found) == /\ found \subseteq Int
                           /\ k \in found <=> /\ k \in 0..(len - 1)
                                              /\ j >= 0 => j \in end
                                              /\ -16 <= j /\ j < 0 => j + 16 \in middle
                                              /\ j < -16 => j + 32 \in first
<1>1. /\ last \in SUBSET Int /\ middle \in SUBSET Int /\ first \in SUBSET Int
      /\ \A b \in Int : b \in last <=> b \in end /\ b < set
  <2>1. \A S \in SUBSET (0..15) : S \in SUBSET Int
    OBVIOUS
  <2>2. \A b \in last : b \in end
    OBVIOUS
  <2>3. QED
    BY <2>1, <2>2
<1> HIDE DEF last
<1>2. ASSUME NEW n \in Int
      PROVE  /\ k \in Moved(last, n) <=> k - n \in last
             /\ k \in Moved(middle, n) <=> k - n \in middle
             /\ k \in Moved(first, n) <=> k - n \in first
  BY <1>1, MovedBit
<1>3. ASSUME NEW n \in Int
      PROVE  /\ Moved(last, n) \in SUBSET Int
             /\ Moved(middle, n) \in SUBSET Int
             /\ Moved(first, n) \in SUBSET Int
  BY <1>1, MovedInt
<1>4. Moved(last, 16) \union middle \in SUBSET Int
  <2>1. Moved(last, 16) \in SUBSET Int
    BY <1>3
  <2>2. QED
    BY <1>1, <2>1
<1>5. ASSUME NEW n \in Int
      PROVE  k \in Moved(Moved(last, 16) \union middle, n)
                <=> k - n - 16 \in last \/ k - n \in middle
  <2>1. k \in Moved(Moved(last, 16) \union middle, n)
          <=> k - n \in Moved(last, 16) \union middle
    BY <1>4, MovedBit
  <2>2. k - n \in Int /\ k - n \in Moved(last, 16) <=> k - n - 16 \in last
    BY <1>1, MovedBit
  <2>3. QED
    BY <2>1, <2>2
<1>6. ASSUME NEW n \in Int
      PROVE  Moved(Moved(last, 16) \union middle, n) \in SUBSET Int
  BY <1>4, MovedInt
<1>7. CASE len < set
  <2>1. k \in Moved(last, len - set) <=> j \in last
    BY <1>2
  <2>2. Moved(last, len - set) \in SUBSET Int
    BY <1>3
  <2>3. Right({b \in Moved(last, len - set) : b >= 0})
    BY <1>1, <1>7, <2>1, <2>2
  <2>4. QED
    BY <1>7, <2>3 DEF last, Gather
<1>8. CASE len = set
  <2>1. Right(last)
    BY <1>1, <1>8
  <2>2. QED
    BY <1>8, <2>1 DEF last, Gather
<1>9. CASE len > set /\ len - set < 16
  <2>1. Right(Moved(last, len - set) \union before(middle, len - set))
    BY <1>1, <1>2, <1>3, <1>9
  <2>2. QED
    BY <1>9, <2>1 DEF last, Gather
<1>10. CASE len - set >= 16
  <2> DEFINE n == len - set - 16
             above == Moved(Moved(last, 16) \union middle, n)
  <2>1. n \in Int /\ n - 16 \in Int /\ k - n - 16 = j /\ k - n = j + 16 /\ k - (n - 16) = j + 32
    OBVIOUS
  <2>2. above \in SUBSET Int /\ (k \in above <=> j \in last \/ j + 16 \in middle)
    BY <1>5, <1>6, <2>1
  <2>3. /\ Moved(first, n - 16) \in SUBSET Int
        /\ k \in Moved(first, n - 16) <=> j + 32 \in first
    BY <1>2, <1>3, <2>1
  <2> HIDE DEF above
  <2>4. k \in 0..(len - 1) <=> k >= 0 /\ j < set
    OBVIOUS
  <2>5. k \in above \union before(first, n)
          <=> j \in last \/ j + 16 \in middle \/ (k >= 0 /\ j + 32 \in first)
    BY <2>2, <2>3
  <2>6. Right(above \union before(first, n))
    <3>1. above \union before(first, n) \subseteq Int
      BY <2>2, <2>3
    <3>2. j \in last => j >= 0 /\ j < set
      BY <1>1
    <3>3. j + 16 \in middle => -16 <= j /\ j < 0
      OBVIOUS
    <3>4. j + 32 \in first => -32 <= j /\ j < -16
      OBVIOUS
    <3>5. CASE j >= 0
      BY <1>1, <1>10, <2>4, <2>5, <3>1, <3>3, <3>4, <3>5
    <3>6. CASE j < 0
      BY <1>1, <1>10, <2>4, <2>5, <3>1, <3>2, <3>3, <3>4, <3>6
    <3>7. QED
      BY <3>5, <3>6
  <2>7. Gather(first, middle, end, set, len) = above \union before(first, n)
    <3>1. ~ (len < set) /\ len # set /\ ~ (len - set < 16)
      BY <1>10
    <3> HIDE DEF before
    <3>2. QED
      BY <1>10, <3>1 DEF last, above, before, Gather
  <2> HIDE DEF before, last, n
  <2>8. QED
    BY <2>6, <2>7
<1>11. QED
  BY <1>7, <1>8, <1>9, <1>10

\* getTable reads the bits from offset on.
LEMMA GetTable ==
  ASSUME NEW buf, NEW offset \in Nat, NEW len \in 1..32
  PROVE  getTable(buf, offset, len) = {k \in 0..(len - 1) : Nth(offset, k) \in buf}
<1> DEFINE ptr == (offset + len) \div 16
           set == (offset + len) % 16
           found == getTable(buf, offset, len)
<1>1. ptr \in Nat /\ set \in 0..15 /\ set = offset + len - 16 * ptr
  <2>1. offset + len \in Nat
    OBVIOUS
  <2>2. QED
    BY <2>1, Split
<1>2. \A p : WordOf(buf, p) \in SUBSET (0..15)
             /\ \A b \in 0..15 : b \in WordOf(buf, p) <=> <<p, b>> \in buf
  BY DEF WordOf
<1>3. ASSUME NEW k \in Int
      PROVE  LET j == k - len + set
             IN  /\ found \subseteq Int
                 /\ k \in found <=> /\ k \in 0..(len - 1)
                                    /\ j >= 0 => j \in WordOf(buf, ptr)
                                    /\ -16 <= j /\ j < 0 => j + 16 \in WordOf(buf, ptr - 1)
                                    /\ j < -16 => j + 32 \in WordOf(buf, ptr - 2)
  <2>1. /\ WordOf(buf, ptr) \in SUBSET (0..15) /\ WordOf(buf, ptr - 1) \in SUBSET (0..15)
        /\ WordOf(buf, ptr - 2) \in SUBSET (0..15)
    BY <1>2
  <2>2. found = Gather(WordOf(buf, ptr - 2), WordOf(buf, ptr - 1), WordOf(buf, ptr), set, len)
    BY DEF getTable, Gather
  <2> HIDE DEF found, ptr, set
  <2>3. set \in 0..15
    BY <1>1
  <2> DEFINE end == WordOf(buf, ptr)
             middle == WordOf(buf, ptr - 1)
             beginning == WordOf(buf, ptr - 2)
  <2>4. end \in SUBSET (0..15) /\ middle \in SUBSET (0..15) /\ beginning \in SUBSET (0..15)
    BY <2>1
  <2>5. found = Gather(beginning, middle, end, set, len)
    BY <2>2
  <2> HIDE DEF end, middle, beginning
  <2>6. LET there == Gather(beginning, middle, end, set, len)
            j == k - len + set
        IN  /\ there \subseteq Int
            /\ k \in there <=> /\ k \in 0..(len - 1)
                               /\ j >= 0 => j \in end
                               /\ -16 <= j /\ j < 0 => j + 16 \in middle
                               /\ j < -16 => j + 32 \in beginning
    BY <2>3, <2>4, Gathered
  <2>7. QED
    BY <2>5, <2>6 DEF end, middle, beginning
<1> HIDE DEF ptr, set, found
<1>4. ASSUME NEW k \in 0..(len - 1), NEW w \in Int, NEW b \in 0..15, 16 * w + b = offset + k
      PROVE  Nth(offset, k) = <<w, b>>
  BY <1>4, Joined DEF Nth
<1>5. ASSUME NEW k \in 0..(len - 1)
      PROVE  k \in found <=> Nth(offset, k) \in buf
  <2> DEFINE j == k - len + set
  <2>0. k \in found <=> /\ j >= 0 => j \in WordOf(buf, ptr)
                        /\ -16 <= j /\ j < 0 => j + 16 \in WordOf(buf, ptr - 1)
                        /\ j < -16 => j + 32 \in WordOf(buf, ptr - 2)
    BY <1>3
  <2>1. CASE j >= 0
    <3>1. j \in 0..15 /\ ptr \in Int /\ 16 * (ptr) + (j) = offset + k
      BY <1>1, <2>1
    <3>2. Nth(offset, k) = <<ptr, j>>
      BY <1>4, <3>1
    <3>3. j \in WordOf(buf, ptr) <=> <<ptr, j>> \in buf
      BY <1>2, <3>1
    <3>4. QED
      BY <1>1, <2>0, <2>1, <3>2, <3>3
  <2>2. CASE -16 <= j /\ j < 0
    <3>1. j + 16 \in 0..15 /\ ptr - 1 \in Int /\ 16 * (ptr - 1) + (j + 16) = offset + k
      BY <1>1, <2>2
    <3>2. Nth(offset, k) = <<ptr - 1, j + 16>>
      BY <1>4, <3>1
    <3>3. j + 16 \in WordOf(buf, ptr - 1) <=> <<ptr - 1, j + 16>> \in buf
      BY <1>2, <3>1
    <3>4. QED
      BY <1>1, <2>0, <2>2, <3>2, <3>3
  <2>3. CASE j < -16
    <3>1. j + 32 \in 0..15 /\ ptr - 2 \in Int /\ 16 * (ptr - 2) + (j + 32) = offset + k
      BY <1>1, <2>3
    <3>2. Nth(offset, k) = <<ptr - 2, j + 32>>
      BY <1>4, <3>1
    <3>3. j + 32 \in WordOf(buf, ptr - 2) <=> <<ptr - 2, j + 32>> \in buf
      BY <1>2, <3>1
    <3>4. QED
      BY <1>1, <2>0, <2>3, <3>2, <3>3
  <2>4. QED
    BY <1>1, <2>1, <2>2, <2>3
<1>6. \A k \in found : k \in 0..(len - 1)
  BY <1>3
<1>7. QED
  BY <1>5, <1>6 DEF found

-----------------------------------------------------------------------------
(* Entries for IGMP: rows.                                                  *)

LEMMA MakeSpot ==
  ASSUME NEW offset \in Nat, NEW len \in 1..32, NEW value \in SUBSET (0..(len - 1)), NEW x \in Nat
  PROVE  Nth(x, 0) \in makeTable(offset, value, len) <=> x - offset \in value
<1>1. x + 0 = x
  OBVIOUS
<1>2. /\ x \div 16 \in Nat /\ x % 16 \in 0..15
      /\ 16 * (x \div 16) + (x % 16) - offset = x - offset
  BY Split
<1>3. QED
  BY <1>1, <1>2, MakeTable DEF Nth

LEMMA TwoBytesSpot ==
  ASSUME NEW p \in Nat, NEW high \in SUBSET (0..7), NEW low \in SUBSET (0..7), NEW x \in Nat
  PROVE  Nth(x, 0) \in TwoBytes(p, high, low) <=> x - 16 * p - 8 \in high \/ x - 16 * p \in low
<1> DEFINE w == x \div 16
           b == x % 16
<1>1. w \in Nat /\ b \in 0..15 /\ b = x - 16 * w /\ Nth(x, 0) = <<w, b>>
  BY Split DEF Nth
<1> HIDE DEF w, b
<1>2. high \in SUBSET Int
  OBVIOUS
<1>3. b \in Moved(high, 8) <=> b - 8 \in high
  BY <1>1, <1>2, MovedBit
<1>4. <<w, b>> \in TwoBytes(p, high, low) <=> w = p /\ (b - 8 \in high \/ b \in low)
  BY <1>1, <1>3, AtBit DEF TwoBytes
<1>5. x - 16 * p - 8 \in high \/ x - 16 * p \in low => w = p
  BY <1>1
<1>6. w = p => b = x - 16 * p
  BY <1>1
<1>7. QED
  BY <1>1, <1>4, <1>5, <1>6

\* A value that starts before the end of the row does not leave it.
LEMMA MakeRow ==
  ASSUME NEW offset \in Nat, NEW len \in 1..32, NEW value, offset + len <= 640
  PROVE  makeTable(offset, value, len) \subseteq Row
<1> DEFINE ptr == offset \div 16
           set == offset % 16
<1>1. ptr \in Nat /\ set \in 0..15 /\ set = offset - 16 * ptr
  BY Split
<1>2. \A p \in 0..39 : \A v : At(p, v) \subseteq Row
  BY DEF At, Cut, Row
<1>3. ptr \in 0..39
  BY <1>1
<1>4. len > 16 - set => ptr + 1 \in 0..39
  BY <1>1
<1>5. len - (16 - set) > 16 => ptr + 2 \in 0..39
  BY <1>1
<1> HIDE DEF ptr, set
<1>6. QED
  BY <1>2, <1>3, <1>4, <1>5 DEF makeTable, ptr, set

LEMMA TwoBytesRow ==
  ASSUME NEW p \in 0..39, NEW high, NEW low
  PROVE  TwoBytes(p, high, low) \subseteq Row
BY DEF TwoBytes, At, Cut, Row

LEMMA GroupTypes ==
  ASSUME NEW e \in MctEntry
  PROVE  e \in [group : [0..3 -> SUBSET (0..7)], fid : SUBSET Nat,
                port_mem : SUBSET Nat, slt_index : SUBSET Nat,
                port_filter_mode : SUBSET Nat, flag : SUBSET Nat]
BY IgmpAssumption DEF IgmpAssumption

LEMMA MctRowType == ASSUME NEW e \in MctEntry PROVE MctRow(e) \subseteq Row
<1>1. TwoBytes(0, e.group[2], e.group[3]) \union TwoBytes(1, e.group[0], e.group[1]) \subseteq Row
  BY TwoBytesRow
<1>2. /\ makeTable(32, e.fid, 4) \subseteq Row /\ makeTable(123, e.slt_index, 6) \subseteq Row
      /\ makeTable(129, e.port_filter_mode, 29) \subseteq Row
      /\ makeTable(158, e.flag, 7) \subseteq Row
  BY MakeRow
<1>3. \A i \in 0..27 : makeTable(36 + 3 * i, 0..2, 3) \subseteq Row
  BY MakeRow
<1>4. MctPorts(e) \subseteq Row
  BY <1>3 DEF MctPorts
<1>5. QED
  BY <1>1, <1>2, <1>4 DEF MctRow

\* The bits of an entry of the MCT.
LEMMA MctSpot ==
  ASSUME NEW e \in MctEntry, MctFits(e), NEW x \in Nat
  PROVE  Nth(x, 0) \in MctRow(e) <=>
           \/ x - 8 \in e.group[2] \/ x \in e.group[3]
           \/ x - 24 \in e.group[0] \/ x - 16 \in e.group[1]
           \/ x - 32 \in e.fid
           \/ \E i \in e.port_mem \intersect (0..27) : x - (36 + 3 * i) \in 0..2
           \/ x - 123 \in e.slt_index
           \/ x - 129 \in e.port_filter_mode
           \/ x - 158 \in e.flag
<1>1. \A i \in 0..3 : e.group[i] \in SUBSET (0..7)
  BY GroupTypes
<1>2. /\ Nth(x, 0) \in TwoBytes(0, e.group[2], e.group[3])
           <=> x - 8 \in e.group[2] \/ x \in e.group[3]
      /\ Nth(x, 0) \in TwoBytes(1, e.group[0], e.group[1])
           <=> x - 24 \in e.group[0] \/ x - 16 \in e.group[1]
  <2>1. /\ e.group[2] \in SUBSET (0..7) /\ e.group[3] \in SUBSET (0..7)
        /\ e.group[0] \in SUBSET (0..7) /\ e.group[1] \in SUBSET (0..7)
    BY <1>1
  <2>2. x - 16 * 0 - 8 = x - 8 /\ x - 16 * 0 = x /\ x - 16 * 1 - 8 = x - 24 /\ x - 16 * 1 = x - 16
    OBVIOUS
  <2>3. Nth(x, 0) \in TwoBytes(0, e.group[2], e.group[3])
           <=> x - 16 * 0 - 8 \in e.group[2] \/ x - 16 * 0 \in e.group[3]
    BY <2>1, TwoBytesSpot
  <2>4. Nth(x, 0) \in TwoBytes(1, e.group[0], e.group[1])
           <=> x - 16 * 1 - 8 \in e.group[0] \/ x - 16 * 1 \in e.group[1]
    BY <2>1, TwoBytesSpot
  <2>5. QED
    BY <2>2, <2>3, <2>4
<1>3. /\ Nth(x, 0) \in makeTable(32, e.fid, 4) <=> x - 32 \in e.fid
      /\ Nth(x, 0) \in makeTable(123, e.slt_index, 6) <=> x - 123 \in e.slt_index
      /\ Nth(x, 0) \in makeTable(129, e.port_filter_mode, 29) <=> x - 129 \in e.port_filter_mode
      /\ Nth(x, 0) \in makeTable(158, e.flag, 7) <=> x - 158 \in e.flag
  <2>1. /\ e.fid \in SUBSET (0..(4 - 1)) /\ e.slt_index \in SUBSET (0..(6 - 1))
        /\ e.port_filter_mode \in SUBSET (0..(29 - 1)) /\ e.flag \in SUBSET (0..(7 - 1))
    BY DEF MctFits
  <2>2. QED
    BY <2>1, MakeSpot
<1>4. \A i \in 0..27 : Nth(x, 0) \in makeTable(36 + 3 * i, 0..2, 3) <=> x - (36 + 3 * i) \in 0..2
  <2>1. 0..2 \in SUBSET (0..(3 - 1))
    OBVIOUS
  <2>2. QED
    BY <2>1, MakeSpot
<1>5. Nth(x, 0) \in MctPorts(e)
        <=> \E i \in e.port_mem \intersect (0..27) : x - (36 + 3 * i) \in 0..2
  BY <1>4 DEF MctPorts
<1>6. QED
  BY <1>2, <1>3, <1>5 DEF MctRow

\* One field of the entry in each range of bits.
LEMMA MctRanges ==
  ASSUME NEW e \in MctEntry, MctFits(e), NEW x \in Nat
  PROVE  LET in == Nth(x, 0) \in MctRow(e)
         IN  /\ x \in 0..7 => (in <=> x \in e.group[3])
             /\ x \in 8..15 => (in <=> x - 8 \in e.group[2])
             /\ x \in 16..23 => (in <=> x - 16 \in e.group[1])
             /\ x \in 24..31 => (in <=> x - 24 \in e.group[0])
             /\ x \in 32..35 => (in <=> x - 32 \in e.fid)
             /\ \A i \in 0..28 : x - (36 + 3 * i) \in 0..2 => (in <=> i \in e.port_mem \intersect (0..27))
             /\ x \in 123..128 => (in <=> x - 123 \in e.slt_index)
             /\ x \in 129..157 => (in <=> x - 129 \in e.port_filter_mode)
             /\ x \in 158..164 => (in <=> x - 158 \in e.flag)
<1> DEFINE ports == \E i \in e.port_mem \intersect (0..27) : x - (36 + 3 * i) \in 0..2
<1>1. /\ x - 8 \in e.group[2] => x \in 8..15
      /\ x \in e.group[3] => x \in 0..7
      /\ x - 24 \in e.group[0] => x \in 24..31
      /\ x - 16 \in e.group[1] => x \in 16..23
  <2>1. /\ e.group[0] \in SUBSET (0..7) /\ e.group[1] \in SUBSET (0..7)
        /\ e.group[2] \in SUBSET (0..7) /\ e.group[3] \in SUBSET (0..7)
    BY GroupTypes
  <2>2. \A S \in SUBSET (0..7), y \in Int : y \in S => 0 <= y /\ y <= 7
    OBVIOUS
  <2>3. QED
    BY <2>1, <2>2
<1>2. /\ x - 32 \in e.fid => x \in 32..35
      /\ x - 123 \in e.slt_index => x \in 123..128
      /\ x - 129 \in e.port_filter_mode => x \in 129..157
      /\ x - 158 \in e.flag => x \in 158..164
  <2>1. /\ e.fid \subseteq 0..3 /\ e.slt_index \subseteq 0..5
        /\ e.port_filter_mode \subseteq 0..28 /\ e.flag \subseteq 0..6
    BY DEF MctFits
  <2>2. QED
    BY <2>1
<1>3. ports => x \in 36..119
  OBVIOUS
<1>4. \A i \in 0..28 : x - (36 + 3 * i) \in 0..2 => (ports <=> i \in e.port_mem \intersect (0..27))
  <2> SUFFICES ASSUME NEW i \in 0..28, x - (36 + 3 * i) \in 0..2
               PROVE  ports <=> i \in e.port_mem \intersect (0..27)
    OBVIOUS
  <2>1. \A j \in 0..27 : x - (36 + 3 * j) \in 0..2 => j = i
    OBVIOUS
  <2>2. QED
    BY <2>1
<1>5. \A i \in 0..28 : x - (36 + 3 * i) \in 0..2 => x \in 36..122
  OBVIOUS
<1>6. Nth(x, 0) \in MctRow(e) <=>
           \/ x - 8 \in e.group[2] \/ x \in e.group[3]
           \/ x - 24 \in e.group[0] \/ x - 16 \in e.group[1]
           \/ x - 32 \in e.fid
           \/ ports
           \/ x - 123 \in e.slt_index
           \/ x - 129 \in e.port_filter_mode
           \/ x - 158 \in e.flag
  BY MctSpot
<1> HIDE DEF ports
<1>7. QED
  BY <1>1, <1>2, <1>3, <1>4, <1>5, <1>6

\* A value lies at a place of a row.
Lies(row, offset, len, value) ==
  /\ value \in SUBSET (0..(len - 1))
  /\ \A x \in Nat : x - offset \in 0..(len - 1) => (Nth(x, 0) \in row <=> x - offset \in value)

\* getTable finds a value that lies where it looks.
LEMMA ValueFound ==
  ASSUME NEW row, NEW offset \in Nat, NEW len \in 1..32, NEW value,
         Lies(row, offset, len, value)
  PROVE  getTable(row, offset, len) = value
<1>1. \A k \in 0..(len - 1) : Nth(offset, k) = Nth(offset + k, 0)
  BY DEF Nth
<1>2. \A k \in 0..(len - 1) : offset + k \in Nat /\ offset + k - offset = k
  OBVIOUS
<1>3. \A k \in 0..(len - 1) : Nth(offset, k) \in row <=> k \in value
  BY <1>1, <1>2 DEF Lies
<1>4. getTable(row, offset, len) = {k \in 0..(len - 1) : Nth(offset, k) \in row}
  BY GetTable
<1>5. value \subseteq 0..(len - 1)
  BY DEF Lies
<1>6. QED
  BY <1>3, <1>4, <1>5

\* getIGMPMctTable finds what setIGMPMctTable packed.
LEMMA MctFound ==
  ASSUME NEW e \in MctEntry, MctFits(e)
  PROVE  getIGMPMctTable(MctRow(e)) = MctPromise(e)
<1> DEFINE R == MctRow(e)
<1>1. /\ e.group[0] \in SUBSET (0..7) /\ e.group[1] \in SUBSET (0..7)
      /\ e.group[2] \in SUBSET (0..7) /\ e.group[3] \in SUBSET (0..7)
      /\ e.fid \in SUBSET (0..3) /\ e.slt_index \in SUBSET (0..5)
      /\ e.port_filter_mode \in SUBSET (0..28) /\ e.flag \in SUBSET (0..6)
  BY GroupTypes DEF MctFits
<1>4. /\ getTable(R, 0, 8) = e.group[3] /\ getTable(R, 8, 8) = e.group[2]
      /\ getTable(R, 16, 8) = e.group[1] /\ getTable(R, 24, 8) = e.group[0]
  <2>1. getTable(R, 0, 8) = e.group[3]
    <3>1. \A x \in Nat : x \in 0..7 => (Nth(x, 0) \in R <=> x \in e.group[3])
      BY MctRanges
    <3>2. Lies(R, 0, 8, e.group[3])
      BY <1>1, <3>1 DEF Lies
    <3>3. QED
      BY <3>2, ValueFound
  <2>2. getTable(R, 8, 8) = e.group[2]
    <3>1. \A x \in Nat : x \in 8..15 => (Nth(x, 0) \in R <=> x - 8 \in e.group[2])
      BY MctRanges
    <3>2. Lies(R, 8, 8, e.group[2])
      BY <1>1, <3>1 DEF Lies
    <3>3. QED
      BY <3>2, ValueFound
  <2>3. getTable(R, 16, 8) = e.group[1]
    <3>1. \A x \in Nat : x \in 16..23 => (Nth(x, 0) \in R <=> x - 16 \in e.group[1])
      BY MctRanges
    <3>2. Lies(R, 16, 8, e.group[1])
      BY <1>1, <3>1 DEF Lies
    <3>3. QED
      BY <3>2, ValueFound
  <2>4. getTable(R, 24, 8) = e.group[0]
    <3>1. \A x \in Nat : x \in 24..31 => (Nth(x, 0) \in R <=> x - 24 \in e.group[0])
      BY MctRanges
    <3>2. Lies(R, 24, 8, e.group[0])
      BY <1>1, <3>1 DEF Lies
    <3>3. QED
      BY <3>2, ValueFound
  <2>5. QED
    BY <2>1, <2>2, <2>3, <2>4
<1>5. getTable(R, 32, 4) = e.fid
  <2>1. \A x \in Nat : x \in 32..35 => (Nth(x, 0) \in R <=> x - 32 \in e.fid)
    BY MctRanges
  <2>2. Lies(R, 32, 4, e.fid)
    BY <1>1, <2>1 DEF Lies
  <2>3. QED
    BY <2>2, ValueFound
<1>6. getTable(R, 123, 6) = e.slt_index
  <2>1. \A x \in Nat : x \in 123..128 => (Nth(x, 0) \in R <=> x - 123 \in e.slt_index)
    BY MctRanges
  <2>2. Lies(R, 123, 6, e.slt_index)
    BY <1>1, <2>1 DEF Lies
  <2>3. QED
    BY <2>2, ValueFound
<1>7. getTable(R, 129, 29) = e.port_filter_mode
  <2>1. \A x \in Nat : x \in 129..157 => (Nth(x, 0) \in R <=> x - 129 \in e.port_filter_mode)
    BY MctRanges
  <2>2. Lies(R, 129, 29, e.port_filter_mode)
    BY <1>1, <2>1 DEF Lies
  <2>3. QED
    BY <2>2, ValueFound
<1>8. getTable(R, 158, 7) = e.flag
  <2>1. \A x \in Nat : x \in 158..164 => (Nth(x, 0) \in R <=> x - 158 \in e.flag)
    BY MctRanges
  <2>2. Lies(R, 158, 7, e.flag)
    BY <1>1, <2>1 DEF Lies
  <2>3. QED
    BY <2>2, ValueFound
<1>9. {i \in 0..28 : getTable(R, 36 + 3 * i, 3) # {}} = e.port_mem \intersect (0..27)
  <2>1. ASSUME NEW i \in 0..28
        PROVE  getTable(R, 36 + 3 * i, 3) = IF i \in e.port_mem \intersect (0..27) THEN 0..2 ELSE {}
    <3> DEFINE value == IF i \in e.port_mem \intersect (0..27) THEN 0..2 ELSE {}
    <3>1. \A x \in Nat : x - (36 + 3 * i) \in 0..2 => (Nth(x, 0) \in R <=> i \in e.port_mem \intersect (0..27))
      BY MctRanges
    <3>2. Lies(R, 36 + 3 * i, 3, value)
      BY <3>1 DEF Lies
    <3> HIDE DEF value
    <3>3. getTable(R, 36 + 3 * i, 3) = value
      BY <3>2, ValueFound
    <3>4. QED
      BY <3>3 DEF value
  <2>2. 0 \in 0..2
    OBVIOUS
  <2>3. QED
    BY <1>1, <2>1, <2>2
<1>10. [i \in 0..3 |-> getTable(R, 8 * i, 8)] = [i \in 0..3 |-> e.group[3 - i]]
  <2>1. \A i \in 0..3 : getTable(R, 8 * i, 8) = e.group[3 - i]
    <3>1. \A i \in 0..3 : i = 0 \/ i = 1 \/ i = 2 \/ i = 3
      OBVIOUS
    <3>2. /\ 8 * 0 = 0 /\ 8 * 1 = 8 /\ 8 * 2 = 16 /\ 8 * 3 = 24
          /\ 3 - 0 = 3 /\ 3 - 1 = 2 /\ 3 - 2 = 1 /\ 3 - 3 = 0
      OBVIOUS
    <3>3. QED
      BY <1>4, <3>1, <3>2
  <2>2. QED
    BY <2>1
<1>11. getIGMPMctTable(R) =
         [group |-> [i \in 0..3 |-> e.group[3 - i]], fid |-> e.fid,
          port_mem |-> e.port_mem \intersect (0..27), slt_index |-> e.slt_index,
          port_filter_mode |-> e.port_filter_mode, flag |-> e.flag]
  BY <1>5, <1>6, <1>7, <1>8, <1>9, <1>10 DEF getIGMPMctTable
<1>12. MctPromise(e) =
         [group |-> [i \in 0..3 |-> e.group[3 - i]], fid |-> e.fid,
          port_mem |-> e.port_mem \intersect (0..27), slt_index |-> e.slt_index,
          port_filter_mode |-> e.port_filter_mode, flag |-> e.flag]
  <2>1. e = [group |-> e.group, fid |-> e.fid, port_mem |-> e.port_mem, slt_index |-> e.slt_index,
             port_filter_mode |-> e.port_filter_mode, flag |-> e.flag]
    BY GroupTypes
  <2> DEFINE g == [i \in 0..3 |-> e.group[3 - i]]
             h == [e EXCEPT !.group = g]
  <2> HIDE DEF g
  <2>2. h = [group |-> g, fid |-> e.fid, port_mem |-> e.port_mem, slt_index |-> e.slt_index,
             port_filter_mode |-> e.port_filter_mode, flag |-> e.flag]
    BY <2>1
  <2>3. MctPromise(e) = [h EXCEPT !.port_mem = e.port_mem \intersect (0..27)]
    BY <2>1 DEF MctPromise, g
  <2> HIDE DEF h
  <2>4. [h EXCEPT !.port_mem = e.port_mem \intersect (0..27)]
          = [group |-> g, fid |-> e.fid, port_mem |-> e.port_mem \intersect (0..27),
             slt_index |-> e.slt_index, port_filter_mode |-> e.port_filter_mode, flag |-> e.flag]
    BY <2>2
  <2>5. QED
    BY <2>3, <2>4 DEF g
<1>13. QED
  BY <1>11, <1>12 DEF R
-----------------------------------------------------------------------------
(* The entries of the SLT.                                                  *)

LEMMA SltTypes ==
  ASSUME NEW e \in SltEntry
  PROVE  /\ e.type \in {4, 6}
         /\ e.type = 4 => e \in [type : {4}, ip : [0..9 -> [0..3 -> SUBSET (0..7)]],
                                 used_port : [0..9 -> SUBSET Nat]]
         /\ e.type = 6 => e \in [type : {6}, ip : [0..3 -> [0..7 -> SUBSET (0..15)]],
                                 used_port : [0..3 -> SUBSET Nat]]
BY IgmpAssumption DEF IgmpAssumption

LEMMA SltRowType == ASSUME NEW e \in SltEntry PROVE SltRow(e) \subseteq Row
<1>1. e.type \in {4, 6}
  BY SltTypes
<1>2. UsedPorts(e) \subseteq Row
  <2>1. \A i \in Source(e.type) : UsedAt(e.type, i) \in Nat /\ UsedAt(e.type, i) + 29 <= 640
    BY <1>1 DEF Source, UsedAt
  <2>2. \A i \in Source(e.type) : makeTable(UsedAt(e.type, i), e.used_port[i], 29) \subseteq Row
    BY <2>1, MakeRow
  <2>3. QED
    BY <2>2 DEF UsedPorts
<1>3. CASE e.type = 4
  <2>1. \A i \in 0..9 : 2 * i \in 0..39 /\ 2 * i + 1 \in 0..39
    OBVIOUS
  <2>2. \A i \in 0..9 : /\ TwoBytes(2 * i, e.ip[i][2], e.ip[i][3]) \subseteq Row
                        /\ TwoBytes(2 * i + 1, e.ip[i][0], e.ip[i][1]) \subseteq Row
    BY <2>1, TwoBytesRow
  <2>3. Source(4) = 0..9
    BY DEF Source
  <2>4. Addresses(e) \subseteq Row
    BY <1>3, <2>2, <2>3 DEF Addresses
  <2>5. QED
    BY <1>2, <2>4 DEF SltRow
<1>4. CASE e.type = 6
  <2>1. Source(6) = 0..3 /\ Part(6) = 0..7
    BY DEF Source, Part, LastPart
  <2>2. \A i \in 0..3, j \in 0..7 : 128 * i + 16 * j \in Nat /\ 128 * i + 16 * j + 16 <= 640
    OBVIOUS
  <2>3. \A i \in 0..3, j \in 0..7 : makeTable(128 * i + 16 * j, e.ip[i][7 - j], 16) \subseteq Row
    BY <2>2, MakeRow
  <2>4. Addresses(e) \subseteq Row
    BY <1>4, <2>1, <2>3 DEF Addresses
  <2>5. QED
    BY <1>2, <2>4 DEF SltRow
<1>5. QED
  BY <1>1, <1>3, <1>4

LEMMA UsedSpot ==
  ASSUME NEW e \in SltEntry, SltFits(e), NEW x \in Nat
  PROVE  Nth(x, 0) \in UsedPorts(e)
           <=> \E i \in Source(e.type) : x - UsedAt(e.type, i) \in e.used_port[i]
<1>1. e.type \in {4, 6}
  BY SltTypes
<1>2. \A i \in Source(e.type) : UsedAt(e.type, i) \in Nat
  BY <1>1 DEF Source, UsedAt
<1>3. \A i \in Source(e.type) : e.used_port[i] \in SUBSET (0..(29 - 1))
  BY DEF SltFits
<1>4. \A i \in Source(e.type) : Nth(x, 0) \in makeTable(UsedAt(e.type, i), e.used_port[i], 29)
                                  <=> x - UsedAt(e.type, i) \in e.used_port[i]
  BY <1>2, <1>3, MakeSpot
<1>5. QED
  BY <1>4 DEF UsedPorts

\* The bits of an entry of IPv4 addresses.
LEMMA SourceSpot ==
  ASSUME NEW e \in SltEntry, e.type = 4, NEW x \in Nat
  PROVE  Nth(x, 0) \in Addresses(e)
           <=> \E i \in 0..9 : \/ x - 32 * i - 8 \in e.ip[i][2] \/ x - 32 * i \in e.ip[i][3]
                               \/ x - 32 * i - 24 \in e.ip[i][0] \/ x - 32 * i - 16 \in e.ip[i][1]
<1>1. \A i \in 0..9 : /\ e.ip[i][0] \in SUBSET (0..7) /\ e.ip[i][1] \in SUBSET (0..7)
                      /\ e.ip[i][2] \in SUBSET (0..7) /\ e.ip[i][3] \in SUBSET (0..7)
  <2>1. e.ip \in [0..9 -> [0..3 -> SUBSET (0..7)]]
    BY SltTypes
  <2>2. QED
    BY <2>1
<1>2. ASSUME NEW i \in 0..9
      PROVE  /\ Nth(x, 0) \in TwoBytes(2 * i, e.ip[i][2], e.ip[i][3])
                  <=> x - 32 * i - 8 \in e.ip[i][2] \/ x - 32 * i \in e.ip[i][3]
             /\ Nth(x, 0) \in TwoBytes(2 * i + 1, e.ip[i][0], e.ip[i][1])
                  <=> x - 32 * i - 24 \in e.ip[i][0] \/ x - 32 * i - 16 \in e.ip[i][1]
  <2> DEFINE p == 2 * i
             q == 2 * i + 1
  <2>1. p \in Nat /\ q \in Nat
    OBVIOUS
  <2>2. /\ x - 16 * p - 8 = x - 32 * i - 8 /\ x - 16 * p = x - 32 * i
        /\ x - 16 * q - 8 = x - 32 * i - 24 /\ x - 16 * q = x - 32 * i - 16
    OBVIOUS
  <2> HIDE DEF p, q
  <2>3. Nth(x, 0) \in TwoBytes(p, e.ip[i][2], e.ip[i][3])
          <=> x - 16 * p - 8 \in e.ip[i][2] \/ x - 16 * p \in e.ip[i][3]
    BY <1>1, <2>1, TwoBytesSpot
  <2>4. Nth(x, 0) \in TwoBytes(q, e.ip[i][0], e.ip[i][1])
          <=> x - 16 * q - 8 \in e.ip[i][0] \/ x - 16 * q \in e.ip[i][1]
    BY <1>1, <2>1, TwoBytesSpot
  <2>5. QED
    BY <2>2, <2>3, <2>4 DEF p, q
<1>3. Source(4) = 0..9
  BY DEF Source
<1>4. Addresses(e) = UNION {TwoBytes(2 * i, e.ip[i][2], e.ip[i][3]) \union
                            TwoBytes(2 * i + 1, e.ip[i][0], e.ip[i][1]) : i \in 0..9}
  BY <1>3 DEF Addresses
<1>5. QED
  BY <1>2, <1>4

\* The bits of an entry of IPv6 addresses.
LEMMA LongSourceSpot ==
  ASSUME NEW e \in SltEntry, e.type = 6, NEW x \in Nat
  PROVE  Nth(x, 0) \in Addresses(e)
           <=> \E i \in 0..3, j \in 0..7 : x - (128 * i + 16 * j) \in e.ip[i][7 - j]
<1>1. \A i \in 0..3, j \in 0..7 : e.ip[i][7 - j] \in SUBSET (0..(16 - 1))
  <2>1. e.ip \in [0..3 -> [0..7 -> SUBSET (0..15)]]
    BY SltTypes
  <2>2. \A j \in 0..7 : 7 - j \in 0..7
    OBVIOUS
  <2>3. QED
    BY <2>1, <2>2
<1>2. \A i \in 0..3, j \in 0..7 : 128 * i + 16 * j \in Nat
  OBVIOUS
<1>3. \A i \in 0..3, j \in 0..7 : Nth(x, 0) \in makeTable(128 * i + 16 * j, e.ip[i][7 - j], 16)
                                    <=> x - (128 * i + 16 * j) \in e.ip[i][7 - j]
  BY <1>1, <1>2, MakeSpot
<1>4. Source(6) = 0..3 /\ Part(6) = 0..7
  BY DEF Source, Part, LastPart
<1>5. Addresses(e) = UNION {makeTable(128 * i + 16 * j, e.ip[i][7 - j], 16) : i \in 0..3, j \in 0..7}
  BY <1>4 DEF Addresses
<1> DEFINE word(i, j) == makeTable(128 * i + 16 * j, e.ip[i][7 - j], 16)
<1>6. Addresses(e) = UNION {word(i, j) : i \in 0..3, j \in 0..7}
  BY <1>5
<1>7. \A i \in 0..3, j \in 0..7 :
        Nth(x, 0) \in word(i, j) <=> x - (128 * i + 16 * j) \in e.ip[i][7 - j]
  BY <1>3
<1> HIDE DEF word
<1>8. Nth(x, 0) \in Addresses(e) <=> \E i \in 0..3, j \in 0..7 : Nth(x, 0) \in word(i, j)
  BY <1>6
<1>9. QED
  BY <1>7, <1>8

\* Every part of an IPv4 address and every set of ports lies where it is
\* looked for.
LEMMA SourceLies ==
  ASSUME NEW e \in SltEntry, e.type = 4, SltFits(e)
  PROVE  /\ \A i \in 0..9, j \in 0..3 : Lies(SltRow(e), 32 * i + 8 * j, 8, e.ip[i][3 - j])
         /\ \A i \in 0..9 : Lies(SltRow(e), 320 + 29 * i, 29, e.used_port[i])
<1>1. \A i \in 0..9, j \in 0..3 : e.ip[i][j] \in SUBSET (0..7)
  <2>1. e.ip \in [0..9 -> [0..3 -> SUBSET (0..7)]]
    BY SltTypes
  <2>2. QED
    BY <2>1
<1>2. Source(e.type) = 0..9 /\ \A i : UsedAt(e.type, i) = 320 + 29 * i
  BY DEF Source, UsedAt
<1>3. \A i \in 0..9 : e.used_port[i] \in SUBSET (0..28)
  BY <1>2 DEF SltFits
<1> DEFINE used(x) == \E i \in 0..9 : x - (320 + 29 * i) \in e.used_port[i]
           byte(x, i) == \/ x - 32 * i - 8 \in e.ip[i][2] \/ x - 32 * i \in e.ip[i][3]
                         \/ x - 32 * i - 24 \in e.ip[i][0] \/ x - 32 * i - 16 \in e.ip[i][1]
<1>4. ASSUME NEW x \in Nat
      PROVE  Nth(x, 0) \in SltRow(e) <=> used(x) \/ \E i \in 0..9 : byte(x, i)
  <2>1. Nth(x, 0) \in UsedPorts(e) <=> used(x)
    BY <1>2, UsedSpot
  <2>2. Nth(x, 0) \in Addresses(e) <=> \E i \in 0..9 : byte(x, i)
    BY SourceSpot
  <2>3. QED
    BY <2>1, <2>2 DEF SltRow
<1>5. ASSUME NEW x \in Nat
      PROVE  used(x) => x >= 320
  BY <1>3
<1>6. ASSUME NEW x \in Nat, NEW i \in 0..9
      PROVE  byte(x, i) => 32 * i <= x /\ x <= 32 * i + 31
  <2>1. \A S \in SUBSET (0..7), y \in Int : y \in S => 0 <= y /\ y <= 7
    OBVIOUS
  <2>2. /\ e.ip[i][0] \in SUBSET (0..7) /\ e.ip[i][1] \in SUBSET (0..7)
        /\ e.ip[i][2] \in SUBSET (0..7) /\ e.ip[i][3] \in SUBSET (0..7)
    BY <1>1
  <2>3. QED
    BY <2>1, <2>2
<1>7. ASSUME NEW i \in 0..9, NEW j \in 0..3
      PROVE  Lies(SltRow(e), 32 * i + 8 * j, 8, e.ip[i][3 - j])
  <2> DEFINE offset == 32 * i + 8 * j
  <2>1. ASSUME NEW x \in Nat, x - offset \in 0..7
        PROVE  byte(x, i) <=> x - offset \in e.ip[i][3 - j]
    <3> DEFINE y == x - 32 * i
    <3>1. y \in Int /\ y - 8 * j \in 0..7 /\ x - offset = y - 8 * j
      BY <2>1
    <3>2. byte(x, i) <=> y - 8 \in e.ip[i][2] \/ y \in e.ip[i][3]
                           \/ y - 24 \in e.ip[i][0] \/ y - 16 \in e.ip[i][1]
      OBVIOUS
    <3> HIDE DEF y, offset, byte
    <3>3. /\ y - 8 \in e.ip[i][2] => y \in 8..15
          /\ y \in e.ip[i][3] => y \in 0..7
          /\ y - 24 \in e.ip[i][0] => y \in 24..31
          /\ y - 16 \in e.ip[i][1] => y \in 16..23
      <4>1. \A S \in SUBSET (0..7), z \in Int : z \in S => 0 <= z /\ z <= 7
        OBVIOUS
      <4>2. /\ e.ip[i][0] \in SUBSET (0..7) /\ e.ip[i][1] \in SUBSET (0..7)
            /\ e.ip[i][2] \in SUBSET (0..7) /\ e.ip[i][3] \in SUBSET (0..7)
        BY <1>1
      <4>3. QED
        BY <3>1, <4>1, <4>2
    <3>4. CASE j = 0
      <4>1. 3 - j = 3 /\ y - 8 * j = y
        BY <3>1, <3>4
      <4>2. y \in 0..7
        BY <3>1, <4>1
      <4>3. byte(x, i) <=> y \in e.ip[i][3]
        BY <3>2, <3>3, <4>2
      <4>4. QED
        BY <3>1, <4>1, <4>3
    <3>5. CASE j = 1
      <4>1. 3 - j = 2 /\ y - 8 * j = y - 8
        BY <3>1, <3>5
      <4>2. y \in 8..15
        BY <3>1, <4>1
      <4>3. byte(x, i) <=> y - 8 \in e.ip[i][2]
        BY <3>2, <3>3, <4>2
      <4>4. QED
        BY <3>1, <4>1, <4>3
    <3>6. CASE j = 2
      <4>1. 3 - j = 1 /\ y - 8 * j = y - 16
        BY <3>1, <3>6
      <4>2. y \in 16..23
        BY <3>1, <4>1
      <4>3. byte(x, i) <=> y - 16 \in e.ip[i][1]
        BY <3>2, <3>3, <4>2
      <4>4. QED
        BY <3>1, <4>1, <4>3
    <3>7. CASE j = 3
      <4>1. 3 - j = 0 /\ y - 8 * j = y - 24
        BY <3>1, <3>7
      <4>2. y \in 24..31
        BY <3>1, <4>1
      <4>3. byte(x, i) <=> y - 24 \in e.ip[i][0]
        BY <3>2, <3>3, <4>2
      <4>4. QED
        BY <3>1, <4>1, <4>3
    <3>8. QED
      BY <3>4, <3>5, <3>6, <3>7
  <2>2. ASSUME NEW x \in Nat, x - offset \in 0..7
        PROVE  Nth(x, 0) \in SltRow(e) <=> x - offset \in e.ip[i][3 - j]
    <3>1. x < 320 /\ 32 * i <= x /\ x <= 32 * i + 31
      BY <2>2
    <3>2. \A n \in 0..9 : 32 * n <= x /\ x <= 32 * n + 31 => n = i
      BY <3>1
    <3>3. (\E n \in 0..9 : byte(x, n)) <=> byte(x, i)
      BY <1>6, <3>2
    <3>4. ~ used(x)
      BY <1>5, <3>1
    <3>5. Nth(x, 0) \in SltRow(e) <=> used(x) \/ \E n \in 0..9 : byte(x, n)
      BY <1>4
    <3>6. byte(x, i) <=> x - offset \in e.ip[i][3 - j]
      BY <2>1, <2>2
    <3> HIDE DEF used, byte
    <3>7. QED
      BY <3>3, <3>4, <3>5, <3>6
  <2>3. e.ip[i][3 - j] \in SUBSET (0..(8 - 1)) /\ 8 - 1 = 7
    <3>1. 3 - j \in 0..3
      OBVIOUS
    <3>2. QED
      BY <1>1, <3>1
  <2>4. QED
    BY <2>2, <2>3 DEF Lies
<1>8. ASSUME NEW i \in 0..9
      PROVE  Lies(SltRow(e), 320 + 29 * i, 29, e.used_port[i])
  <2>1. ASSUME NEW x \in Nat, x - (320 + 29 * i) \in 0..28
        PROVE  Nth(x, 0) \in SltRow(e) <=> x - (320 + 29 * i) \in e.used_port[i]
    <3>1. \A n \in 0..9 : x - (320 + 29 * n) \in 0..28 => n = i
      BY <2>1
    <3>2. used(x) <=> x - (320 + 29 * i) \in e.used_port[i]
      BY <1>3, <3>1
    <3>3. \A n \in 0..9 : ~ byte(x, n)
      <4>1. x >= 320
        BY <2>1
      <4>2. \A n \in 0..9 : byte(x, n) => x <= 32 * n + 31
        BY <1>6
      <4>3. \A n \in 0..9 : ~ (x <= 32 * n + 31)
        BY <4>1
      <4> HIDE DEF byte
      <4>4. QED
        BY <4>2, <4>3
    <3>4. Nth(x, 0) \in SltRow(e) <=> used(x) \/ \E n \in 0..9 : byte(x, n)
      BY <1>4
    <3> HIDE DEF used, byte
    <3>5. QED
      BY <3>2, <3>3, <3>4
  <2>2. e.used_port[i] \in SUBSET (0..(29 - 1)) /\ 29 - 1 = 28
    BY <1>3
  <2>3. QED
    BY <2>1, <2>2 DEF Lies
<1>9. QED
  BY <1>7, <1>8

\* The same for IPv6.
LEMMA LongSourceLies ==
  ASSUME NEW e \in SltEntry, e.type = 6, SltFits(e)
  PROVE  /\ \A i \in 0..3, j \in 0..7 : Lies(SltRow(e), 128 * i + 16 * j, 16, e.ip[i][7 - j])
         /\ \A i \in 0..3 : Lies(SltRow(e), 512 + 29 * i, 29, e.used_port[i])
<1>1. \A i \in 0..3, j \in 0..7 : e.ip[i][7 - j] \in SUBSET (0..15)
  <2>1. e.ip \in [0..3 -> [0..7 -> SUBSET (0..15)]]
    BY SltTypes
  <2>2. \A j \in 0..7 : 7 - j \in 0..7
    OBVIOUS
  <2>3. QED
    BY <2>1, <2>2
<1>2. Source(e.type) = 0..3 /\ \A i : UsedAt(e.type, i) = 512 + 29 * i
  BY DEF Source, UsedAt
<1>3. \A i \in 0..3 : e.used_port[i] \in SUBSET (0..28)
  BY <1>2 DEF SltFits
<1> DEFINE used(x) == \E i \in 0..3 : x - (512 + 29 * i) \in e.used_port[i]
           word(x, i, j) == x - (128 * i + 16 * j) \in e.ip[i][7 - j]
<1>4. ASSUME NEW x \in Nat
      PROVE  Nth(x, 0) \in SltRow(e) <=> used(x) \/ \E i \in 0..3, j \in 0..7 : word(x, i, j)
  <2>1. Nth(x, 0) \in UsedPorts(e) <=> used(x)
    BY <1>2, UsedSpot
  <2>2. Nth(x, 0) \in Addresses(e) <=> \E i \in 0..3, j \in 0..7 : word(x, i, j)
    BY LongSourceSpot
  <2>3. QED
    BY <2>1, <2>2 DEF SltRow
<1>5. ASSUME NEW x \in Nat
      PROVE  used(x) => x >= 512
  BY <1>3
<1>6. ASSUME NEW x \in Nat, NEW i \in 0..3, NEW j \in 0..7
      PROVE  word(x, i, j) => 128 * i + 16 * j <= x /\ x <= 128 * i + 16 * j + 15
  BY <1>1
<1>7. ASSUME NEW i \in 0..3, NEW j \in 0..7
      PROVE  Lies(SltRow(e), 128 * i + 16 * j, 16, e.ip[i][7 - j])
  <2> DEFINE offset == 128 * i + 16 * j
  <2>1. ASSUME NEW x \in Nat, x - offset \in 0..15
        PROVE  Nth(x, 0) \in SltRow(e) <=> x - offset \in e.ip[i][7 - j]
    <3>1. x < 512
      BY <2>1
    <3>2. \A n \in 0..3, m \in 0..7 :
             128 * n + 16 * m <= x /\ x <= 128 * n + 16 * m + 15 => n = i /\ m = j
      BY <2>1
    <3>3. (\E n \in 0..3, m \in 0..7 : word(x, n, m)) <=> word(x, i, j)
      <4>1. ASSUME NEW n \in 0..3, NEW m \in 0..7, word(x, n, m)
            PROVE  n = i /\ m = j
        <5>1. 128 * n + 16 * m <= x /\ x <= 128 * n + 16 * m + 15
          <6> HIDE DEF word
          <6>1. QED
            BY <1>6, <4>1
        <5>2. QED
          BY <3>2, <5>1
      <4> HIDE DEF word
      <4>2. QED
        BY <4>1
    <3>4. ~ used(x)
      BY <1>5, <3>1
    <3>5. Nth(x, 0) \in SltRow(e) <=> used(x) \/ \E n \in 0..3, m \in 0..7 : word(x, n, m)
      BY <1>4
    <3>6. word(x, i, j) <=> x - offset \in e.ip[i][7 - j]
      OBVIOUS
    <3> HIDE DEF used, word
    <3>7. QED
      BY <3>3, <3>4, <3>5, <3>6
  <2>2. e.ip[i][7 - j] \in SUBSET (0..(16 - 1)) /\ 16 - 1 = 15
    BY <1>1
  <2>3. QED
    BY <2>1, <2>2 DEF Lies
<1>8. ASSUME NEW i \in 0..3
      PROVE  Lies(SltRow(e), 512 + 29 * i, 29, e.used_port[i])
  <2>1. ASSUME NEW x \in Nat, x - (512 + 29 * i) \in 0..28
        PROVE  Nth(x, 0) \in SltRow(e) <=> x - (512 + 29 * i) \in e.used_port[i]
    <3>1. \A n \in 0..3 : x - (512 + 29 * n) \in 0..28 => n = i
      BY <2>1
    <3>2. used(x) <=> x - (512 + 29 * i) \in e.used_port[i]
      BY <1>3, <3>1
    <3>3. \A n \in 0..3, m \in 0..7 : ~ word(x, n, m)
      <4>1. x >= 512
        BY <2>1
      <4>2. \A n \in 0..3, m \in 0..7 : word(x, n, m) => x <= 128 * n + 16 * m + 15
        BY <1>6
      <4>3. \A n \in 0..3, m \in 0..7 : ~ (x <= 128 * n + 16 * m + 15)
        BY <4>1
      <4> HIDE DEF word
      <4>4. QED
        BY <4>2, <4>3
    <3>4. Nth(x, 0) \in SltRow(e) <=> used(x) \/ \E n \in 0..3, m \in 0..7 : word(x, n, m)
      BY <1>4
    <3> HIDE DEF used, word
    <3>5. QED
      BY <3>2, <3>3, <3>4
  <2>2. e.used_port[i] \in SUBSET (0..(29 - 1)) /\ 29 - 1 = 28
    BY <1>3
  <2>3. QED
    BY <2>1, <2>2 DEF Lies
<1>9. QED
  BY <1>7, <1>8

\* The fortieth word is not needed before bit 624.
LEMMA BufferLies ==
  ASSUME NEW row, NEW beyond, NEW offset \in Nat, NEW len \in 1..32, NEW value,
         Lies(row, offset, len, value), offset + len <= 624
  PROVE  Lies(Buffer(row, beyond), offset, len, value)
<1> DEFINE buf == Buffer(row, beyond)
<1>1. ASSUME NEW x \in Nat, x < 624
      PROVE  Nth(x, 0) \in buf <=> Nth(x, 0) \in row
  <2> DEFINE w == x \div 16
             b == x % 16
  <2>1. w \in Nat /\ b \in 0..15 /\ b = x - 16 * w /\ Nth(x, 0) = <<w, b>>
    BY Split DEF Nth
  <2> HIDE DEF w, b
  <2>2. w < 39
    BY <1>1, <2>1
  <2>3. <<w, b>> \notin At(39, beyond)
    BY <2>1, <2>2, AtBit
  <2>4. QED
    BY <2>1, <2>2, <2>3 DEF Buffer
<1>2. \A x \in Nat : x - offset \in 0..(len - 1) => x < 624
  OBVIOUS
<1> HIDE DEF buf
<1>3. Lies(buf, offset, len, value)
  BY <1>1, <1>2 DEF Lies
<1>4. QED
  BY <1>3 DEF buf

\* getIGMPSltTable finds the IPv4 addresses that setIGMPSltTable packed.
LEMMA SourceFound ==
  ASSUME NEW e \in SltEntry, e.type = 4, SltFits(e), NEW beyond
  PROVE  getIGMPSltTable(SltRow(e), 4, beyond) = SltPromise(e)
<1> DEFINE buf == Buffer(SltRow(e), beyond)
<1>1. ASSUME NEW i \in 0..9, NEW j \in 0..3
      PROVE  Lies(buf, 32 * i + 8 * j, 8, e.ip[i][3 - j])
  <2> DEFINE offset == 32 * i + 8 * j
  <2>1. offset \in Nat /\ offset + 8 <= 624 /\ 8 \in 1..32
    OBVIOUS
  <2>2. Lies(SltRow(e), offset, 8, e.ip[i][3 - j])
    BY SourceLies
  <2> HIDE DEF offset
  <2>3. Lies(Buffer(SltRow(e), beyond), offset, 8, e.ip[i][3 - j])
    BY <2>1, <2>2, BufferLies
  <2>4. QED
    BY <2>3 DEF offset
<1>2. ASSUME NEW i \in 0..9
      PROVE  Lies(buf, 320 + 29 * i, 29, e.used_port[i])
  <2> DEFINE offset == 320 + 29 * i
  <2>1. offset \in Nat /\ offset + 29 <= 624 /\ 29 \in 1..32
    OBVIOUS
  <2>2. Lies(SltRow(e), offset, 29, e.used_port[i])
    BY SourceLies
  <2> HIDE DEF offset
  <2>3. Lies(Buffer(SltRow(e), beyond), offset, 29, e.used_port[i])
    BY <2>1, <2>2, BufferLies
  <2>4. QED
    BY <2>3 DEF offset
<1> HIDE DEF buf
<1>3. \A i \in 0..9, j \in 0..3 : getTable(buf, 32 * i + 8 * j, 8) = e.ip[i][3 - j]
  <2>1. ASSUME NEW i \in 0..9, NEW j \in 0..3
        PROVE  getTable(buf, 32 * i + 8 * j, 8) = e.ip[i][3 - j]
    <3> DEFINE offset == 32 * i + 8 * j
    <3>1. offset \in Nat /\ 8 \in 1..32
      OBVIOUS
    <3>2. Lies(buf, offset, 8, e.ip[i][3 - j])
      BY <1>1
    <3> HIDE DEF offset
    <3>3. getTable(buf, offset, 8) = e.ip[i][3 - j]
      BY <3>1, <3>2, ValueFound
    <3>4. QED
      BY <3>3 DEF offset
  <2>2. QED
    BY <2>1
<1>4. \A i \in 0..9 : getTable(buf, 320 + 29 * i, 29) = e.used_port[i]
  <2>1. ASSUME NEW i \in 0..9
        PROVE  getTable(buf, 320 + 29 * i, 29) = e.used_port[i]
    <3> DEFINE offset == 320 + 29 * i
    <3>1. offset \in Nat /\ 29 \in 1..32
      OBVIOUS
    <3>2. Lies(buf, offset, 29, e.used_port[i])
      BY <1>2
    <3> HIDE DEF offset
    <3>3. getTable(buf, offset, 29) = e.used_port[i]
      BY <3>1, <3>2, ValueFound
    <3>4. QED
      BY <3>3 DEF offset
  <2>2. QED
    BY <2>1
<1>5. Source(4) = 0..9 /\ Part(4) = 0..3 /\ LastPart(4) = 3 /\ \A i : UsedAt(4, i) = 320 + 29 * i
  BY DEF Source, Part, LastPart, UsedAt
<1> DEFINE ip == [i \in 0..9 |-> [j \in 0..3 |-> e.ip[i][3 - j]]]
<1>6. getIGMPSltTable(SltRow(e), 4, beyond)
        = [type |-> 4, ip |-> [i \in 0..9 |-> [j \in 0..3 |-> getTable(buf, 32 * i + 8 * j, 8)]],
           used_port |-> [i \in 0..9 |-> getTable(buf, 320 + 29 * i, 29)]]
  BY <1>5 DEF getIGMPSltTable, buf
<1>7. [i \in 0..9 |-> [j \in 0..3 |-> getTable(buf, 32 * i + 8 * j, 8)]] = ip
  BY <1>3
<1>8. e = [type |-> 4, ip |-> e.ip, used_port |-> e.used_port]
      /\ e.used_port = [i \in 0..9 |-> e.used_port[i]]
  BY SltTypes
<1>9. [i \in 0..9 |-> getTable(buf, 320 + 29 * i, 29)] = e.used_port
  BY <1>4, <1>8
<1>10. SltPromise(e) = [e EXCEPT !.ip = ip]
  BY <1>5 DEF SltPromise
<1> HIDE DEF ip
<1>11. [e EXCEPT !.ip = ip] = [type |-> 4, ip |-> ip, used_port |-> e.used_port]
  BY <1>8
<1>12. QED
  BY <1>6, <1>7, <1>9, <1>10, <1>11

\* What Known leaves of an entry of IPv6 addresses.
LEMMA KnownPorts ==
  ASSUME NEW ip, NEW used
  PROVE  Known([type |-> 6, ip |-> ip, used_port |-> used])
           = [type |-> 6, ip |-> ip, used_port |-> [used EXCEPT ![3] = used[3] \ (25..28)]]
<1> DEFINE r == [type |-> 6, ip |-> ip, used_port |-> used]
<1>1. r.type = 6 /\ r.used_port = used
  OBVIOUS
<1>2. Known(r) = [r EXCEPT !.used_port = [r.used_port EXCEPT ![3] = r.used_port[3] \ (25..28)]]
  BY <1>1 DEF Known
<1> DEFINE cut == [used EXCEPT ![3] = used[3] \ (25..28)]
<1>3. Known(r) = [r EXCEPT !.used_port = cut]
  BY <1>1, <1>2
<1> HIDE DEF cut
<1>4. [r EXCEPT !.used_port = cut] = [type |-> 6, ip |-> ip, used_port |-> cut]
  OBVIOUS
<1>5. QED
  BY <1>3, <1>4 DEF cut

\* getIGMPSltTable finds the IPv6 addresses, and their ports but for four.
LEMMA LongSourceFound ==
  ASSUME NEW e \in SltEntry, e.type = 6, SltFits(e), NEW beyond
  PROVE  Known(getIGMPSltTable(SltRow(e), 6, beyond)) = Known(SltPromise(e))
<1> DEFINE buf == Buffer(SltRow(e), beyond)
<1>1. ASSUME NEW i \in 0..3, NEW j \in 0..7
      PROVE  Lies(buf, 128 * i + 16 * j, 16, e.ip[i][7 - j])
  <2> DEFINE offset == 128 * i + 16 * j
  <2>1. offset \in Nat /\ offset + 16 <= 624 /\ 16 \in 1..32
    OBVIOUS
  <2>2. Lies(SltRow(e), offset, 16, e.ip[i][7 - j])
    BY LongSourceLies
  <2> HIDE DEF offset
  <2>3. Lies(Buffer(SltRow(e), beyond), offset, 16, e.ip[i][7 - j])
    BY <2>1, <2>2, BufferLies
  <2>4. QED
    BY <2>3 DEF offset
<1>2. ASSUME NEW i \in 0..2
      PROVE  Lies(buf, 512 + 29 * i, 29, e.used_port[i])
  <2> DEFINE offset == 512 + 29 * i
  <2>1. offset \in Nat /\ offset + 29 <= 624 /\ 29 \in 1..32
    OBVIOUS
  <2>2. Lies(SltRow(e), offset, 29, e.used_port[i])
    BY LongSourceLies
  <2> HIDE DEF offset
  <2>3. Lies(Buffer(SltRow(e), beyond), offset, 29, e.used_port[i])
    BY <2>1, <2>2, BufferLies
  <2>4. QED
    BY <2>3 DEF offset
<1>3. Lies(buf, 599, 25, e.used_port[3] \intersect (0..24))
  <2>1. Lies(SltRow(e), 599, 29, e.used_port[3])
    <3>1. 512 + 29 * 3 = 599 /\ 3 \in 0..3
      OBVIOUS
    <3>2. QED
      BY <3>1, LongSourceLies
  <2>2. Lies(SltRow(e), 599, 25, e.used_port[3] \intersect (0..24))
    BY <2>1 DEF Lies
  <2>3. 599 \in Nat /\ 25 \in 1..32 /\ 599 + 25 <= 624
    OBVIOUS
  <2>4. QED
    BY <2>2, <2>3, BufferLies
<1> HIDE DEF buf
<1>4. \A i \in 0..3, j \in 0..7 : getTable(buf, 128 * i + 16 * j, 16) = e.ip[i][7 - j]
  <2>1. \A i \in 0..3, j \in 0..7 : 128 * i + 16 * j \in Nat
    OBVIOUS
  <2>2. QED
    BY <1>1, <2>1, ValueFound
<1>5. \A i \in 0..2 : getTable(buf, 512 + 29 * i, 29) = e.used_port[i]
  <2>1. \A i \in 0..2 : 512 + 29 * i \in Nat
    OBVIOUS
  <2>2. QED
    BY <1>2, <2>1, ValueFound
<1>6. getTable(buf, 599, 29) \ (25..28) = e.used_port[3] \ (25..28)
  <2>1. getTable(buf, 599, 29) = {k \in 0..(29 - 1) : Nth(599, k) \in buf}
    BY GetTable
  <2>2. \A k \in 0..24 : Nth(599, k) \in buf <=> k \in e.used_port[3]
    <3>1. \A k \in 0..24 : 599 + k \in Nat /\ (599 + k) - 599 = k /\ Nth(599, k) = Nth(599 + k, 0)
      BY DEF Nth
    <3>2. QED
      BY <1>3, <3>1 DEF Lies
  <2>3. e.used_port[3] \subseteq 0..28
    BY DEF SltFits, Source
  <2>4. QED
    BY <2>1, <2>2, <2>3
<1>7. Source(6) = 0..3 /\ Part(6) = 0..7 /\ LastPart(6) = 7 /\ \A i : UsedAt(6, i) = 512 + 29 * i
  BY DEF Source, Part, LastPart, UsedAt
<1> DEFINE ip == [i \in 0..3 |-> [j \in 0..7 |-> e.ip[i][7 - j]]]
           used == [i \in 0..3 |-> getTable(buf, 512 + 29 * i, 29)]
<1>8. getIGMPSltTable(SltRow(e), 6, beyond)
        = [type |-> 6, ip |-> [i \in 0..3 |-> [j \in 0..7 |-> getTable(buf, 128 * i + 16 * j, 16)]],
           used_port |-> used]
  <2>1. getIGMPSltTable(SltRow(e), 6, beyond)
          = [type |-> 6,
             ip |-> [i \in Source(6) |-> [j \in Part(6) |->
                       IF 6 = 4 THEN getTable(buf, 32 * i + 8 * j, 8)
                                ELSE getTable(buf, 128 * i + 16 * j, 16)]],
             used_port |-> [i \in Source(6) |-> getTable(buf, UsedAt(6, i), 29)]]
    BY DEF getIGMPSltTable, buf
  <2>2. 6 # 4
    OBVIOUS
  <2>3. QED
    BY <1>7, <2>1, <2>2
<1>9. [i \in 0..3 |-> [j \in 0..7 |-> getTable(buf, 128 * i + 16 * j, 16)]] = ip
  BY <1>4
<1>10. /\ e = [type |-> 6, ip |-> e.ip, used_port |-> e.used_port]
       /\ e.used_port = [i \in 0..3 |-> e.used_port[i]]
  BY SltTypes
<1>11. SltPromise(e) = [e EXCEPT !.ip = ip]
  BY <1>7 DEF SltPromise
<1>12. [used EXCEPT ![3] = used[3] \ (25..28)]
         = [e.used_port EXCEPT ![3] = e.used_port[3] \ (25..28)]
  <2> DEFINE cut(f) == [i \in 0..3 |-> IF i = 3 THEN f[3] \ (25..28) ELSE f[i]]
  <2>1. \A i \in 0..3 : i \in 0..2 \/ i = 3
    OBVIOUS
  <2>2. used[3] \ (25..28) = e.used_port[3] \ (25..28)
    BY <1>6
  <2>3. \A i \in 0..2 : used[i] = e.used_port[i]
    BY <1>5
  <2>4. cut(used) = cut(e.used_port)
    <3> HIDE DEF used
    <3>1. QED
      BY <2>1, <2>2, <2>3
  <2>5. ASSUME NEW f, f = [i \in 0..3 |-> f[i]]
        PROVE  [f EXCEPT ![3] = f[3] \ (25..28)] = cut(f)
    BY <2>5
  <2>6. used = [i \in 0..3 |-> used[i]]
    OBVIOUS
  <2> HIDE DEF cut, used
  <2>7. QED
    <3> DEFINE left == [used EXCEPT ![3] = used[3] \ (25..28)]
               right == [e.used_port EXCEPT ![3] = e.used_port[3] \ (25..28)]
    <3>1. left = cut(used) /\ right = cut(e.used_port)
      BY <1>10, <2>5, <2>6
    <3> HIDE DEF left, right
    <3>2. left = right
      BY <2>4, <3>1
    <3>3. QED
      BY <3>2 DEF left, right
<1> HIDE DEF ip, used
<1>13. [e EXCEPT !.ip = ip] = [type |-> 6, ip |-> ip, used_port |-> e.used_port]
  BY <1>10
<1>14. getIGMPSltTable(SltRow(e), 6, beyond) = [type |-> 6, ip |-> ip, used_port |-> used]
  BY <1>8, <1>9
<1>15. SltPromise(e) = [type |-> 6, ip |-> ip, used_port |-> e.used_port]
  BY <1>11, <1>13
<1>16. Known([type |-> 6, ip |-> ip, used_port |-> used])
         = [type |-> 6, ip |-> ip, used_port |-> [used EXCEPT ![3] = used[3] \ (25..28)]]
  BY KnownPorts
<1>17. Known([type |-> 6, ip |-> ip, used_port |-> e.used_port])
         = [type |-> 6, ip |-> ip,
            used_port |-> [e.used_port EXCEPT ![3] = e.used_port[3] \ (25..28)]]
  BY KnownPorts
<1>18. QED
  BY <1>12, <1>14, <1>15, <1>16, <1>17

(***************************************************************************)
(* The inductive invariant.  While an entry of the SLT is being stored,    *)
(* the row the switch works on is the row of the entry asked for; only the *)
(* SLT is ever stored behind the caller's back.                            *)
(***************************************************************************)
IgmpInv ==
  /\ IgmpTypeOK
  /\ \A p \in pending : p.table = "slt"
  /\ \A e \in asked["mct"] : MctFits(e) /\ stored["mct"] = MctRow(e)
  /\ \A e \in asked["slt"] : /\ SltFits(e)
                             /\ pending = {} => stored["slt"] = SltRow(e)
                             /\ \A p \in pending : p.row = SltRow(e)

LEMMA IgmpInvInit == IgmpInit => IgmpInv
BY DEF IgmpInit, IgmpInv, IgmpTypeOK, Table, Row

LEMMA IgmpSetMct ==
  ASSUME IgmpInv, NEW e \in MctEntry, setIGMPMctTable(e)
  PROVE  IgmpInv'
<1> DEFINE row == MctRow(e)
<1>1. row \subseteq Row
  BY MctRowType
<1>2. Waits("mct")
  BY DEF Waits
<1> HIDE DEF row
<1>3. SetEntry("mct", row, MctFits(e), e)
  BY DEF setIGMPMctTable, row
<1>4. CASE pending = {}
  <2>1. /\ stored' = [stored EXCEPT !["mct"] = row] /\ pending' = {}
        /\ asked' = [asked EXCEPT !["mct"] = IF MctFits(e) THEN {e} ELSE {}]
    BY <1>2, <1>3, <1>4 DEF SetEntry, Tell
  <2>2. IgmpTypeOK'
    BY <1>1, <2>1 DEF IgmpInv, IgmpTypeOK, Table
  <2>3. \A x \in asked'["mct"] : MctFits(x) /\ stored'["mct"] = MctRow(x)
    BY <2>1 DEF IgmpInv, IgmpTypeOK, Table, row
  <2>4. asked'["slt"] = asked["slt"] /\ stored'["slt"] = stored["slt"]
    BY <2>1 DEF IgmpInv, IgmpTypeOK, Table
  <2>5. QED
    BY <1>4, <2>1, <2>2, <2>3, <2>4 DEF IgmpInv
<1>5. CASE pending # {}
  <2>1. PICK p \in pending : Overtake(p, "mct", row)
    BY <1>3, <1>5 DEF SetEntry
  <2>2. asked' = [t \in Table |-> {}] /\ pending' = {}
    BY <1>2, <1>3, <1>5, <2>1 DEF SetEntry, Overtake
  <2>3. PICK x \in {stored[p.table], p.row, row}, y \in {stored["mct"], row} :
          stored' = [stored EXCEPT !["mct"] = y, ![p.table] = x]
    BY <2>1 DEF Overtake
  <2>4. x \subseteq Row /\ y \subseteq Row
    BY <1>1 DEF IgmpInv, IgmpTypeOK, Table
  <2>5. IgmpTypeOK'
    BY <2>2, <2>3, <2>4 DEF IgmpInv, IgmpTypeOK, Table
  <2>6. QED
    BY <2>2, <2>5 DEF IgmpInv, Table
<1>6. QED
  BY <1>4, <1>5

LEMMA IgmpSetSlt ==
  ASSUME IgmpInv, NEW e \in SltEntry, setIGMPSltTable(e)
  PROVE  IgmpInv'
<1> DEFINE row == SltRow(e)
<1>1. row \subseteq Row
  BY SltRowType
<1>2. ~ Waits("slt")
  BY DEF Waits
<1> HIDE DEF row
<1>3. SetEntry("slt", row, SltFits(e), e)
  BY DEF setIGMPSltTable, row
<1>4. CASE pending = {}
  <2>1. /\ stored' = stored /\ pending' = {[table |-> "slt", row |-> row]}
        /\ asked' = [asked EXCEPT !["slt"] = IF SltFits(e) THEN {e} ELSE {}]
    BY <1>2, <1>3, <1>4 DEF SetEntry, Tell
  <2>2. IgmpTypeOK'
    BY <1>1, <2>1 DEF IgmpInv, IgmpTypeOK, Table
  <2>3. \A x \in asked'["slt"] : SltFits(x) /\ \A p \in pending' : p.row = SltRow(x)
    BY <2>1 DEF IgmpInv, IgmpTypeOK, Table, row
  <2>other. asked'["mct"] = asked["mct"]
    BY <2>1 DEF IgmpInv, IgmpTypeOK, Table
  <2>waits. pending' # {} /\ \A p \in pending' : p.table = "slt"
    BY <2>1
  <2>6. QED
    BY <2>1, <2>2, <2>3, <2>other, <2>waits DEF IgmpInv
<1>5. CASE pending # {}
  <2>1. PICK p \in pending : Overtake(p, "slt", row)
    BY <1>3, <1>5 DEF SetEntry
  <2>2. asked' = [t \in Table |-> {}] /\ pending' = {[table |-> "slt", row |-> row]}
    BY <1>2, <1>3, <1>5, <2>1 DEF SetEntry, Overtake
  <2>3. PICK x \in {stored[p.table], p.row, row}, y \in {stored["slt"], row} :
          stored' = [stored EXCEPT !["slt"] = y, ![p.table] = x]
    BY <2>1 DEF Overtake
  <2>4. x \subseteq Row /\ y \subseteq Row
    BY <1>1 DEF IgmpInv, IgmpTypeOK, Table
  <2>5. IgmpTypeOK'
    BY <1>1, <2>2, <2>3, <2>4 DEF IgmpInv, IgmpTypeOK, Table
  <2>6. QED
    BY <2>2, <2>5 DEF IgmpInv, Table
<1>6. QED
  BY <1>4, <1>5

LEMMA IgmpOther == IgmpInv /\ OtherCommand => IgmpInv'
<1> SUFFICES ASSUME IgmpInv, OtherCommand
             PROVE  IgmpInv'
  OBVIOUS
<1>1. PICK p \in pending : stored' \in {stored, [stored EXCEPT ![p.table] = p.row]}
  BY DEF OtherCommand
<1>2. pending' = {} /\ asked' = [asked EXCEPT !["slt"] = {}]
  BY DEF OtherCommand
<1>3. p.table = "slt" /\ p.row \subseteq Row
  BY DEF IgmpInv, IgmpTypeOK
<1>4. IgmpTypeOK'
  BY <1>1, <1>2, <1>3 DEF IgmpInv, IgmpTypeOK, Table
<1>5. stored'["mct"] = stored["mct"] /\ asked'["mct"] = asked["mct"] /\ asked'["slt"] = {}
  BY <1>1, <1>2, <1>3 DEF IgmpInv, IgmpTypeOK, Table
<1>6. QED
  BY <1>2, <1>4, <1>5 DEF IgmpInv

LEMMA IgmpStores == IgmpInv /\ Stores => IgmpInv'
<1> SUFFICES ASSUME IgmpInv, Stores
             PROVE  IgmpInv'
  OBVIOUS
<1>1. PICK p \in pending : stored' = [stored EXCEPT ![p.table] = p.row]
  BY DEF Stores
<1>2. pending' = {} /\ asked' = asked
  BY DEF Stores
<1>3. p.table = "slt" /\ p.row \subseteq Row
  BY DEF IgmpInv, IgmpTypeOK
<1>4. IgmpTypeOK'
  BY <1>1, <1>2, <1>3 DEF IgmpInv, IgmpTypeOK, Table
<1>5. stored'["mct"] = stored["mct"] /\ stored'["slt"] = p.row
  BY <1>1, <1>3 DEF IgmpInv, IgmpTypeOK, Table
<1>6. QED
  BY <1>2, <1>4, <1>5 DEF IgmpInv

LEMMA IgmpInvStep == IgmpInv /\ [IgmpNext]_igmpVars => IgmpInv'
<1> SUFFICES ASSUME IgmpInv, [IgmpNext]_igmpVars
             PROVE  IgmpInv'
  OBVIOUS
<1>1. CASE UNCHANGED igmpVars
  BY <1>1 DEF igmpVars, IgmpInv, IgmpTypeOK
<1>2. CASE IgmpNext
  BY <1>2, IgmpSetMct, IgmpSetSlt, IgmpOther, IgmpStores DEF IgmpNext
<1>3. QED
  BY <1>1, <1>2

LEMMA IgmpAlwaysInv == IgmpSpec => []IgmpInv
BY IgmpInvInit, IgmpInvStep, PTL DEF IgmpSpec

LEMMA IgmpInvKeeps == IgmpInv => IgmpKept
<1> SUFFICES ASSUME IgmpInv
             PROVE  IgmpKept
  OBVIOUS
<1>1. asked["mct"] \subseteq MctEntry /\ asked["slt"] \subseteq SltEntry
  BY DEF IgmpInv, IgmpTypeOK
<1>2. ASSUME NEW e \in asked["mct"]
      PROVE  getIGMPMctTable(stored["mct"]) = MctPromise(e)
  BY <1>1, MctFound DEF IgmpInv
<1>3. ASSUME pending = {}, NEW e \in asked["slt"], NEW beyond \in {{}, 0..15}
      PROVE  Known(getIGMPSltTable(stored["slt"], e.type, beyond)) = Known(SltPromise(e))
  <2>1. e \in SltEntry /\ SltFits(e) /\ stored["slt"] = SltRow(e)
    BY <1>1, <1>3 DEF IgmpInv
  <2>2. CASE e.type = 4
    BY <2>1, <2>2, SourceFound
  <2>3. CASE e.type = 6
    BY <2>1, <2>3, LongSourceFound
  <2>4. QED
    BY <2>1, <2>2, <2>3, SltTypes
<1>4. QED
  BY <1>2, <1>3 DEF IgmpKept

\* Theorem.  Every row the two tables for IGMP hold, or are still to store, has
\* forty words of sixteen bits, and at most one row is still to be stored,
\* whatever entries setIGMPMctTable and setIGMPSltTable are called with.
THEOREM IgmpTypeCorrect == IgmpSpec => []IgmpTypeOK
<1>1. IgmpInv => IgmpTypeOK
  BY DEF IgmpInv
<1>2. QED
  BY <1>1, IgmpAlwaysInv, PTL

\* Theorem.  What setIGMPMctTable and setIGMPSltTable packed is what
\* getIGMPMctTable and getIGMPSltTable unpack, for every entry whose fields fit
\* and whatever lies behind the words read.
THEOREM IgmpAlwaysKept == IgmpSpec => []IgmpKept
BY IgmpAlwaysInv, IgmpInvKeeps, PTL

=============================================================================
