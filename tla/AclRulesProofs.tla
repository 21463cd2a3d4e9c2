--------------------------- MODULE AclRulesProofs ---------------------------
(***************************************************************************)
(* AclRules for any size of the mask and any callers: the list, the mask,  *)
(* the counters and the switch's table agree, and a rule is refused only   *)
(* when the table has no room for it.                                      *)
(***************************************************************************)
EXTENDS AclRules, FiniteSetTheorems, FunctionTheorems, TLAPS

-----------------------------------------------------------------------------
(* Modes and entries.                                                       *)

LEMMA ModesFinite ==
  ASSUME NEW v \in FieldSets, v # {}
  PROVE  /\ IsFiniteSet(Modes(v)) /\ Cardinality(Modes(v)) \in 1..WordSize
<1>1. Modes(v) \subseteq 0..14
  BY SMTT(30) DEF Modes, Modes6, ModesL4, ModesFrame, ModesIp, OneOfEach, AnyOf
<1>2. Modes(v) # {}
  <2>1. v \subseteq RuleField
    BY AclAssumption DEF AclAssumption
  <2>2. CASE AnyOf(v, {"SIP6", "DIP6"})
    <3>1. 12 \in Modes6(v) \/ 14 \in Modes6(v)
      BY <2>2 DEF Modes6, AnyOf
    <3>2. QED
      BY <2>2, <3>1 DEF Modes
  <2>3. CASE AnyOf(v, {"TCP_FLAG", "SP", "DP", "SP_R", "DP_R"}) /\ ~AnyOf(v, {"SIP6", "DIP6"})
    <3>1. 3 \in ModesL4(v) \/ 2 \in ModesL4(v)
      BY <2>3 DEF ModesL4, AnyOf
    <3>2. QED
      BY <2>3, <3>1 DEF Modes
  <2>4. 6 \in ModesFrame(v)
    BY DEF ModesFrame
  <2>5. ModesIp(v) # {}
    <3> DEFINE more == AnyOf(v, {"SMAC", "DMAC", "VLAN", "DSCP", "IP_PROT"})
    <3>1. CASE ~more
      <4>1. 2 \in ModesIp(v)
        BY <3>1 DEF ModesIp
      <4>2. QED
        BY <4>1
    <3>2. CASE more
      <4> DEFINE mac == IF "DMAC" \in v /\ "SMAC" \notin v THEN "DMAC" ELSE "SMAC"
                 ip  == IF "DIP" \in v /\ "SIP" \notin v THEN "DIP" ELSE "SIP"
      <4>1. OneOfEach(mac, ip) \in ModesIp(v)
        BY <3>2, Zenon DEF ModesIp
      <4>2. QED
        BY <4>1
    <3>3. QED
      BY <3>1, <3>2
  <2>6. QED
    BY <2>2, <2>3, <2>4, <2>5 DEF Modes
<1>3. IsFiniteSet(0..14)
  <2>1. 0 \in Int /\ 14 \in Int
    OBVIOUS
  <2>2. QED
    BY <2>1, FS_Interval, Zenon
<1>4. IsFiniteSet(Modes(v))
  BY <1>1, <1>3, FS_Subset
<1>5. Cardinality(Modes(v)) \in Nat /\ Cardinality(Modes(v)) # 0
  BY <1>2, <1>4, FS_CardinalityType, FS_EmptySet
<1>6. Cardinality(Modes(v)) <= WordSize
  BY AclAssumption DEF AclAssumption
<1>7. QED
  BY <1>4, <1>5, <1>6, AclAssumption DEF AclAssumption

LEMMA NumberBounded ==
  ASSUME NEW v \in FieldSets, v # {}, NEW act
  PROVE  Number(v, act) \in 1..WordSize + 1
BY ModesFinite, AclAssumption DEF Number, AclAssumption

\* The word that stands for an entry.
LEMMA WordOf ==
  ASSUME NEW s \in Index
  PROVE  /\ s \div WordSize \in 0..MaskWords - 1
         /\ (s \div WordSize) * WordSize <= s /\ s < (s \div WordSize + 1) * WordSize
<1>1. WordSize \in Nat /\ WordSize > 0 /\ MaskWords \in Nat /\ s \in Nat /\ s < WordSize * MaskWords
  BY AclAssumption DEF AclAssumption, Index, Size
<1>2. s \div WordSize \in Nat /\ (s \div WordSize) * WordSize <= s /\ s < (s \div WordSize + 1) * WordSize
  BY <1>1, SMTT(30)
<1>3. s \div WordSize < MaskWords
  <2> SUFFICES ASSUME s \div WordSize >= MaskWords PROVE FALSE
    BY <1>1, <1>2
  <2> DEFINE w == s \div WordSize
  <2>1. w \in Nat /\ w >= MaskWords
    BY <1>2
  <2>2. w * WordSize >= MaskWords * WordSize
    <3> HIDE DEF w
    <3>1. w * WordSize = MaskWords * WordSize + (w - MaskWords) * WordSize
      BY <1>1, <2>1, SMTT(30)
    <3>2. (w - MaskWords) * WordSize >= 0
      BY <1>1, <2>1, SMTT(30)
    <3>3. QED
      BY <1>1, <2>1, <3>1, <3>2, SMTT(30)
  <2>3. QED
    BY <1>1, <1>2, <2>2, SMTT(30)
<1>4. QED
  BY <1>1, <1>2, <1>3

\* A run that acl_find_index accepts is free and within the table.
LEMMA FitsIsFree ==
  ASSUME NEW s \in Index, NEW num \in 1..WordSize + 1, NEW mask, Fits(s, num, mask)
  PROVE  /\ s + num <= Size
         /\ \A i \in s..s + num - 1 : i \notin mask
<1> DEFINE w == s \div WordSize
<1>1. WordSize \in Nat \ {0} /\ MaskWords \in Nat \ {0} /\ s \in Nat /\ num \in Nat \ {0}
      /\ num <= WordSize + 1
  BY AclAssumption DEF AclAssumption, Index
<1>2. w \in 0..MaskWords - 1 /\ w * WordSize <= s /\ s < (w + 1) * WordSize
  BY WordOf
<1>3. (w + 2) * WordSize = (w + 1) * WordSize + WordSize /\ (w + 1) * WordSize \in Nat /\ (w + 2) * WordSize \in Nat
  BY <1>1, <1>2, SMTT(30)
<1>4. \A i \in s..s + num - 1 : i < (w + 2) * WordSize
  BY <1>1, <1>2, <1>3
<1>5. \A i \in s..s + num - 1 :
        /\ i \notin mask
        /\ w = MaskWords - 1 => i < (w + 1) * WordSize
  <2> SUFFICES ASSUME NEW i \in s..s + num - 1
               PROVE  i \notin mask /\ (w = MaskWords - 1 => i < (w + 1) * WordSize)
    OBVIOUS
  <2>1. i - s \in 0..num - 1 /\ s + (i - s) = i
    BY <1>1
  <2>2. ~Taken(s, i - s, mask)
    BY <2>1 DEF Fits
  <2>3. QED
    BY <2>1, <2>2, <1>1, <1>3, <1>4 DEF Taken
<1>6. s + num <= Size
  <2>1. s + num - 1 \in s..s + num - 1
    BY <1>1
  <2>2. CASE w = MaskWords - 1
    <3>1. (w + 1) * WordSize = Size
      BY <1>1, <2>2 DEF Size
    <3>2. QED
      BY <1>1, <1>3, <1>5, <2>1, <2>2, <3>1
  <2>3. CASE w # MaskWords - 1
    <3>1. w + 2 <= MaskWords /\ w \in Nat
      BY <1>1, <1>2, <2>3
    <3>2. (w + 2) * WordSize <= Size
      <4> HIDE DEF w
      <4>1. MaskWords * WordSize = (w + 2) * WordSize + (MaskWords - (w + 2)) * WordSize
        BY <1>1, <3>1, SMTT(30)
      <4>2. (MaskWords - (w + 2)) * WordSize >= 0
        BY <1>1, <3>1, SMTT(30)
      <4>3. QED
        BY <1>1, <3>1, <4>1, <4>2, SMTT(30) DEF Size
    <3>3. QED
      BY <1>1, <1>3, <1>4, <2>1, <3>2 DEF Size
  <2>4. QED
    BY <2>2, <2>3
<1>7. QED
  BY <1>5, <1>6

-----------------------------------------------------------------------------
(* Modes in ascending order.                                                *)

Rank(S, m) == Cardinality({l \in S : l < m})

LEMMA RankBelow ==
  ASSUME NEW S \in SUBSET Nat, IsFiniteSet(S), NEW m \in S
  PROVE  Rank(S, m) \in 0..Cardinality(S) - 1
<1> DEFINE B == {l \in S : l < m}
<1>1. B \in SUBSET S /\ B # S
  <2>1. m \notin B
    OBVIOUS
  <2>2. QED
    BY <2>1
<1> HIDE DEF B
<1>2. IsFiniteSet(B) /\ Cardinality(B) <= Cardinality(S) /\ Cardinality(S) # Cardinality(B)
  BY <1>1, FS_Subset
<1>3. Cardinality(B) \in Nat /\ Cardinality(S) \in Nat
  BY <1>2, FS_CardinalityType
<1>4. Cardinality(B) \in 0..Cardinality(S) - 1
  BY <1>2, <1>3
<1>5. QED
  BY <1>4 DEF B, Rank

LEMMA RankGrows ==
  ASSUME NEW S \in SUBSET Nat, IsFiniteSet(S), NEW m \in S, NEW n \in S, m < n
  PROVE  Rank(S, m) # Rank(S, n)
<1> DEFINE B == {l \in S : l < m}
           C == {l \in S : l < n}
<1>1. m \notin B /\ m \in C /\ B \in SUBSET C /\ C \in SUBSET S
  <2>1. m \in Int /\ n \in Int /\ \A l \in S : l \in Int
    OBVIOUS
  <2>2. m \notin B /\ m \in C
    BY <2>1
  <2>3. \A l \in B : l \in C
    BY <2>1
  <2>4. QED
    BY <2>2, <2>3
<1> HIDE DEF B, C
<1>2. IsFiniteSet(C)
  BY <1>1, FS_Subset
<1>3. Cardinality(C) = Cardinality(B) => C = B
  BY <1>1, <1>2, FS_Subset
<1>4. Cardinality(C) # Cardinality(B)
  BY <1>1, <1>3
<1>5. QED
  BY <1>4 DEF B, C, Rank

\* Every mode has its place, and every place its mode.
LEMMA RankExact ==
  ASSUME NEW S \in SUBSET Nat, IsFiniteSet(S)
  PROVE  /\ \A m \in S : (CHOOSE x \in S : Rank(S, x) = Rank(S, m)) = m
         /\ \A k \in 0..Cardinality(S) - 1 : \E m \in S : Rank(S, m) = k
<1>1. \A m, n \in S : Rank(S, m) = Rank(S, n) => m = n
  <2> SUFFICES ASSUME NEW m \in S, NEW n \in S, m # n PROVE Rank(S, m) # Rank(S, n)
    OBVIOUS
  <2>1. m < n \/ n < m
    OBVIOUS
  <2>2. QED
    BY <2>1, RankGrows
<1>2. \A m \in S : (CHOOSE x \in S : Rank(S, x) = Rank(S, m)) = m
  BY <1>1
<1> DEFINE T == 0..Cardinality(S) - 1
           f == [m \in S |-> Rank(S, m)]
<1>3. f \in [S -> T]
  BY RankBelow
<1>4. f \in Injection(S, T)
  BY <1>1, <1>3, Fun_IsInj
<1>5. IsFiniteSet(T) /\ Cardinality(T) = Cardinality(S)
  <2>1. Cardinality(S) \in Nat
    BY FS_CardinalityType
  <2>2. IsFiniteSet(T)
    BY <2>1, FS_Interval
  <2>3. Cardinality(T) = IF 0 > Cardinality(S) - 1 THEN 0 ELSE Cardinality(S) - 1 - 0 + 1
    BY <2>1, FS_Interval
  <2>4. QED
    BY <2>1, <2>2, <2>3
<1>6. f \in Surjection(S, T)
  BY <1>4, <1>5, FS_Injection
<1>7. \A k \in T : \E m \in S : f[m] = k
  BY <1>6 DEF Surjection
<1>8. QED
  BY <1>2, <1>7

-----------------------------------------------------------------------------
(* What the modes compare.                                                  *)

LEMMA ModesTyped ==
  ASSUME NEW v
  PROVE  Modes(v) \subseteq Mode
BY SMTT(30) DEF Modes, Modes6, ModesL4, ModesFrame, ModesIp, OneOfEach, AnyOf, Mode

\* Whatever fields a caller names: none is lost but those in Ignored.
LEMMA NoFieldLost ==
  ASSUME NEW v \in SUBSET RuleField
  PROVE  v \ Ignored(v) \subseteq UNION {Compares(m) : m \in Modes(v)}
<1> SUFFICES ASSUME NEW f \in v, f \notin Ignored(v)
             PROVE  \E m \in Modes(v) : f \in Compares(m)
  OBVIOUS
<1>1. /\ Compares(2) = {"INGRESS_PORT"} \union Compares0010
      /\ Compares(3) = {"INGRESS_PORT"} \union Compares0011
      /\ Compares(6) = {"INGRESS_PORT"} \union Compares0110
      /\ Compares(8) = {"INGRESS_PORT"} \union Compares1000
      /\ Compares(9) = {"INGRESS_PORT"} \union Compares1001
      /\ Compares(10) = {"INGRESS_PORT"} \union Compares1010
      /\ Compares(11) = {"INGRESS_PORT"} \union Compares1011
      /\ Compares(12) = {"INGRESS_PORT"} \union Compares1100
      /\ Compares(14) = {"INGRESS_PORT"} \union Compares1110
  BY DEF Compares
<1> USE DEF Compares0010, Compares0011, Compares0110, Compares1000, Compares1001, Compares1010,
            Compares1011, Compares1100, Compares1110, RuleField
<1>2. CASE AnyOf(v, {"SIP6", "DIP6"})
  <2>1. \E m \in Modes6(v) : f \in Compares(m)
    BY <1>1, <1>2 DEF Modes6, Ignored, AnyOf
  <2>2. QED
    BY <1>2, <2>1 DEF Modes
<1>3. CASE ~AnyOf(v, {"SIP6", "DIP6"}) /\ AnyOf(v, {"TCP_FLAG", "SP", "DP", "SP_R", "DP_R"})
  <2>1. \E m \in ModesL4(v) : f \in Compares(m)
    BY <1>1, <1>3, SMTT(60) DEF ModesL4, Ignored, AnyOf
  <2>2. QED
    BY <1>3, <2>1 DEF Modes
<1>4. CASE ~AnyOf(v, {"SIP6", "DIP6"}) /\ ~AnyOf(v, {"TCP_FLAG", "SP", "DP", "SP_R", "DP_R"})
  <2>1. CASE "ETH_TYPE" \in v \/ {"SMAC", "DMAC"} \subseteq v
    <3>1. \E m \in ModesFrame(v) : f \in Compares(m)
      BY <1>1, <1>4, <2>1, SMTT(60) DEF ModesFrame, AnyOf
    <3>2. QED
      BY <1>4, <2>1, <3>1 DEF Modes
  <2>2. CASE ~("ETH_TYPE" \in v \/ {"SMAC", "DMAC"} \subseteq v)
    <3>1. \E m \in ModesIp(v) : f \in Compares(m)
      BY <1>1, <1>4, <2>2, SMTT(60) DEF ModesIp, OneOfEach, AnyOf
    <3>2. QED
      BY <1>4, <2>2, <3>1 DEF Modes
  <2>3. QED
    BY <2>1, <2>2
<1>5. QED
  BY <1>2, <1>3, <1>4

-----------------------------------------------------------------------------
(* What holds of the list, the mask, the counters and the table, also       *)
(* between the two halves of a change: of acl without the old rule.         *)

Placed(r) == r.start \in Index /\ r.num \in 1..WordSize + 1 /\ r.start + r.num <= Size

\* The list and the mask.
Listed(m) ==
  /\ IsFiniteSet(m.rules) /\ \A r \in m.rules : Placed(r)
  /\ \A r, q \in m.rules : r # q => Entries(r) \intersect Entries(q) = {}
  /\ m.used = UNION {Entries(r) : r \in m.rules}
  /\ m.numEntries = Cardinality(m.used)

\* Each rule is as its caller asked.
Asked(m) ==
  \A r \in m.rules :
    /\ r = [start |-> r.start, num |-> r.num, fields |-> r.fields, act |-> r.act]
    /\ r.fields \in FieldSets \ {{}} /\ r.act \in Act /\ r.num = Number(r.fields, r.act)

\* A rule without a field is counted and not kept.
Counted(m, n) == m.numRules = Cardinality(m.rules) + n

\* The tables of the switch.
Followed(m, acts) ==
  /\ \A r \in m.rules :
       /\ \A i \in Entries(r) : m.table[i] = WrittenEntry(i - r.start, r.num, Modes(r.fields))
       /\ r.act # "own" => acts[r.start + r.num - 1] = r.act
       /\ r.act = "own" => m.table[r.start + r.num - 1].mode = 1
  /\ \A i \in Index \ m.used : m.table[i] = Clean

Whole(m) ==
  /\ m = [rules |-> m.rules, used |-> m.used, numRules |-> m.numRules,
          numEntries |-> m.numEntries, table |-> m.table]
  /\ m.table = [i \in Index |-> m.table[i]]

Consistent(m, acts, n) ==
  /\ Whole(m) /\ Listed(m) /\ Asked(m) /\ Counted(m, n) /\ Followed(m, acts)
  /\ acts \in [Index -> Act \union {"none"}] /\ n \in Nat

ConsistentNow == Consistent(acl, actions, empty)

LEMMA EntriesCounted ==
  ASSUME NEW r, Placed(r)
  PROVE  /\ Entries(r) \subseteq Index /\ r.start + r.num - 1 \in Entries(r)
         /\ IsFiniteSet(Entries(r)) /\ Cardinality(Entries(r)) = r.num
<1>1. r.start \in Nat /\ r.num \in Nat /\ r.num >= 1 /\ r.start + r.num <= Size /\ Size \in Nat
  BY AclAssumption DEF Placed, Index, AclAssumption, Size
<1>2. Entries(r) \subseteq Index /\ r.start + r.num - 1 \in Entries(r)
  BY <1>1 DEF Entries, Index
<1>3. IsFiniteSet(Entries(r)) /\ Cardinality(Entries(r)) = r.num
  <2> DEFINE a == r.start
             b == r.start + r.num - 1
  <2>1. a \in Int /\ b \in Int /\ ~(a > b) /\ b - a + 1 = r.num
    BY <1>1
  <2> HIDE DEF a, b
  <2>2. IsFiniteSet(a..b) /\ Cardinality(a..b) = r.num
    BY <2>1, FS_Interval
  <2>3. QED
    BY <2>2 DEF Entries, a, b
<1>4. QED
  BY <1>2, <1>3

LEMMA UsedFinite ==
  ASSUME NEW m, Listed(m)
  PROVE  /\ m.used \subseteq Index /\ IsFiniteSet(m.used)
         /\ Cardinality(m.used) \in Nat /\ Cardinality(m.rules) \in Nat
<1>1. m.used \subseteq Index
  BY EntriesCounted DEF Listed
<1>2. IsFiniteSet(Index)
  <2>1. Size \in Nat
    BY AclAssumption DEF AclAssumption, Size
  <2>2. QED
    BY <2>1, FS_Interval DEF Index
<1>3. IsFiniteSet(m.used)
  BY <1>1, <1>2, FS_Subset
<1>4. QED
  BY <1>1, <1>3, FS_CardinalityType DEF Listed

\* A rule is taken out: its entries, and no others, become free.
LEMMA WithoutListed ==
  ASSUME NEW m, Listed(m), NEW r \in m.rules
  PROVE  /\ Listed(WithoutRule(m, r))
         /\ Cardinality(m.rules \ {r}) = Cardinality(m.rules) - 1
<1> DEFINE n == WithoutRule(m, r)
<1>1. n.rules = m.rules \ {r} /\ n.used = m.used \ Entries(r)
      /\ n.numEntries = m.numEntries - r.num
  BY DEF WithoutRule
<1>2. IsFiniteSet(n.rules) /\ Cardinality(n.rules) = Cardinality(m.rules) - 1
  BY <1>1, FS_RemoveElement DEF Listed
<1>3. n.used = UNION {Entries(q) : q \in n.rules}
  BY <1>1 DEF Listed
<1>4. n.numEntries = Cardinality(n.used)
  <2>1. IsFiniteSet(m.used) /\ Cardinality(m.used) \in Nat
    BY UsedFinite
  <2>2. Entries(r) \subseteq m.used
    BY DEF Listed
  <2>3. Cardinality(Entries(r)) = r.num
    BY EntriesCounted DEF Listed
  <2>4. m.used \intersect Entries(r) = Entries(r)
    BY <2>2
  <2>5. Cardinality(m.used \ Entries(r)) = Cardinality(m.used) - Cardinality(m.used \intersect Entries(r))
    BY <2>1, FS_Difference
  <2>6. QED
    BY <1>1, <2>3, <2>4, <2>5 DEF Listed
<1>5. QED
  BY <1>1, <1>2, <1>3, <1>4 DEF Listed

LEMMA WithoutFollowed ==
  ASSUME NEW m, NEW acts, Listed(m), Followed(m, acts), NEW r \in m.rules
  PROVE  Followed(WithoutRule(m, r), acts)
<1> DEFINE n == WithoutRule(m, r)
<1>1. n.rules = m.rules \ {r} /\ n.used = m.used \ Entries(r)
      /\ n.table = [i \in Index |-> IF i \in Entries(r) THEN Clean ELSE m.table[i]]
  BY DEF WithoutRule
<1> HIDE DEF n
<1>2. ASSUME NEW q \in n.rules, NEW i \in Entries(q)
      PROVE  n.table[i] = m.table[i]
  <2>1. i \in Index /\ i \notin Entries(r)
    BY <1>1, <1>2, EntriesCounted DEF Listed
  <2>2. QED
    BY <1>1, <2>1
<1>3. ASSUME NEW q \in n.rules
      PROVE  /\ \A i \in Entries(q) : n.table[i] = WrittenEntry(i - q.start, q.num, Modes(q.fields))
             /\ q.act # "own" => acts[q.start + q.num - 1] = q.act
             /\ q.act = "own" => n.table[q.start + q.num - 1].mode = 1
  <2>1. q \in m.rules
    BY <1>1
  <2>2. q.start + q.num - 1 \in Entries(q)
    BY <2>1, EntriesCounted DEF Listed
  <2>3. QED
    BY <1>2, <2>1, <2>2 DEF Followed
<1>4. ASSUME NEW i \in Index \ n.used
      PROVE  n.table[i] = Clean
  BY <1>1 DEF Followed
<1>5. Followed(n, acts)
  BY <1>3, <1>4 DEF Followed
<1>6. QED
  BY <1>5 DEF n

\* A rule is put at entries that are free.
LEMMA WithListed ==
  ASSUME NEW m, Listed(m), NEW r, Placed(r), Entries(r) \intersect m.used = {}
  PROVE  /\ Listed(WithRule(m, r))
         /\ Cardinality(m.rules \union {r}) = Cardinality(m.rules) + 1
<1> DEFINE n == WithRule(m, r)
<1>1. n.rules = m.rules \union {r} /\ n.used = m.used \union Entries(r)
      /\ n.numEntries = m.numEntries + r.num
  BY DEF WithRule
<1> HIDE DEF n
<1>2. \A q \in m.rules : Entries(q) \subseteq m.used
  BY DEF Listed
<1>3. r \notin m.rules
  BY <1>2, EntriesCounted
<1>4. IsFiniteSet(n.rules) /\ Cardinality(n.rules) = Cardinality(m.rules) + 1
  <2>1. IsFiniteSet(m.rules)
    BY DEF Listed
  <2>2. IsFiniteSet(m.rules \union {r}) /\ Cardinality(m.rules \union {r}) = Cardinality(m.rules) + 1
    BY <1>3, <2>1, FS_AddElement
  <2>3. QED
    BY <1>1, <2>2
<1>5. n.used = UNION {Entries(q) : q \in n.rules}
  BY <1>1 DEF Listed
<1>6. n.numEntries = Cardinality(n.used)
  <2>1. IsFiniteSet(m.used) /\ Cardinality(m.used) \in Nat
    BY UsedFinite
  <2>2. IsFiniteSet(Entries(r)) /\ Cardinality(Entries(r)) = r.num /\ r.num \in Nat
    BY EntriesCounted DEF Placed
  <2>3. Cardinality(m.used \union Entries(r)) =
          Cardinality(m.used) + Cardinality(Entries(r)) - Cardinality(m.used \intersect Entries(r))
    BY <2>1, <2>2, FS_Union
  <2>4. m.used \intersect Entries(r) = {} /\ Cardinality({}) = 0
    BY FS_EmptySet
  <2>5. Cardinality(m.used \intersect Entries(r)) = 0
    BY <2>4
  <2>6. m.numEntries = Cardinality(m.used)
    BY DEF Listed
  <2>7. Cardinality(m.used \union Entries(r)) = Cardinality(m.used) + r.num
    BY <2>1, <2>2, <2>3, <2>5
  <2>8. QED
    BY <1>1, <2>6, <2>7
<1>7. \A q \in n.rules : Placed(q)
  BY <1>1 DEF Listed
<1>8. \A p, q \in n.rules : p # q => Entries(p) \intersect Entries(q) = {}
  BY <1>1, <1>2 DEF Listed
<1>9. Listed(n)
  BY <1>4, <1>5, <1>6, <1>7, <1>8 DEF Listed
<1>10. QED
  BY <1>1, <1>4, <1>9 DEF n

\* The entry of an action of type 5 is the last.
LEMMA LastWritten ==
  ASSUME NEW v \in FieldSets, v # {}
  PROVE  WrittenEntry(Number(v, "own") - 1, Number(v, "own"), Modes(v)).mode = 1
<1>1. Cardinality(Modes(v)) \in Nat
  BY ModesFinite, AclAssumption DEF AclAssumption
<1>2. Number(v, "own") - 1 = Cardinality(Modes(v))
  BY <1>1 DEF Number
<1>3. ~(Cardinality(Modes(v)) < Cardinality(Modes(v)))
  BY <1>1
<1>4. QED
  BY <1>2, <1>3 DEF WrittenEntry

LEMMA WithFollowed ==
  ASSUME NEW m, NEW r, NEW acts \in [Index -> Act \union {"none"}], NEW next,
         Listed(m), Followed(m, acts),
         Placed(r), Entries(r) \intersect m.used = {}, r.act \in Act,
         r.act = "own" => WrittenEntry(r.num - 1, r.num, Modes(r.fields)).mode = 1,
         next = IF r.act = "own" THEN acts ELSE [acts EXCEPT ![r.start + r.num - 1] = r.act]
  PROVE  Followed(WithRule(m, r), next)
<1> DEFINE n == WithRule(m, r)
           last(q) == q.start + q.num - 1
<1>1. n.rules = m.rules \union {r} /\ n.used = m.used \union Entries(r)
      /\ n.table = [i \in Index |-> IF i \in Entries(r)
                                    THEN WrittenEntry(i - r.start, r.num, Modes(r.fields)) ELSE m.table[i]]
  BY DEF WithRule
<1> HIDE DEF n
<1>2. \A q \in m.rules : Entries(q) \subseteq m.used /\ Entries(q) \subseteq Index /\ last(q) \in Entries(q)
  BY EntriesCounted DEF Listed
<1>3. Entries(r) \subseteq Index /\ last(r) \in Entries(r)
  BY EntriesCounted
<1>4. ASSUME NEW i \in Index, i \notin Entries(r)
      PROVE  n.table[i] = m.table[i] /\ next[i] = acts[i]
  <2>1. n.table[i] = m.table[i]
    BY <1>1, <1>4
  <2>2. last(r) # i
    BY <1>3, <1>4
  <2> HIDE DEF last
  <2>3. next[i] = acts[i]
    BY <2>2 DEF last
  <2>4. QED
    BY <2>1, <2>3
<1>5. ASSUME NEW q \in m.rules
      PROVE  /\ \A i \in Entries(q) : n.table[i] = WrittenEntry(i - q.start, q.num, Modes(q.fields))
             /\ q.act # "own" => next[q.start + q.num - 1] = q.act
             /\ q.act = "own" => n.table[q.start + q.num - 1].mode = 1
  <2>1. \A i \in Entries(q) : n.table[i] = m.table[i] /\ next[i] = acts[i]
    BY <1>2, <1>4
  <2>2. QED
    BY <1>2, <2>1 DEF Followed
<1>6. /\ \A i \in Entries(r) : n.table[i] = WrittenEntry(i - r.start, r.num, Modes(r.fields))
      /\ r.act # "own" => next[r.start + r.num - 1] = r.act
      /\ r.act = "own" => n.table[r.start + r.num - 1].mode = 1
  <2>1. \A i \in Entries(r) : n.table[i] = WrittenEntry(i - r.start, r.num, Modes(r.fields))
    BY <1>1, <1>3
  <2>2. r.act # "own" => next[last(r)] = r.act
    BY <1>3
  <2>3. last(r) - r.start = r.num - 1
    <3>1. r.start \in Int /\ r.num \in Int
      BY DEF Placed, Index
    <3>2. QED
      BY <3>1
  <2>4. r.act = "own" => n.table[last(r)].mode = 1
    BY <1>3, <2>1, <2>3
  <2>5. QED
    BY <2>1, <2>2, <2>4
<1>7. ASSUME NEW i \in Index \ n.used
      PROVE  n.table[i] = Clean
  BY <1>1, <1>4 DEF Followed
<1>8. Followed(n, next)
  BY <1>1, <1>5, <1>6, <1>7 DEF Followed
<1>9. QED
  BY <1>8 DEF n

LEMMA WithoutConsistent ==
  ASSUME NEW m, NEW acts, NEW n, Consistent(m, acts, n), NEW r \in m.rules
  PROVE  Consistent(WithoutRule(m, r), acts, n)
<1>1. Whole(WithoutRule(m, r))
  BY DEF WithoutRule, Whole
<1>2. Counted(WithoutRule(m, r), n)
  <2>1. Listed(m) /\ m.numRules = Cardinality(m.rules) + n /\ n \in Nat
    BY DEF Consistent, Counted
  <2>2. Cardinality(m.rules) \in Nat /\ Cardinality(m.rules \ {r}) = Cardinality(m.rules) - 1
    BY <2>1, UsedFinite, WithoutListed
  <2>3. WithoutRule(m, r).numRules = m.numRules - 1 /\ WithoutRule(m, r).rules = m.rules \ {r}
    BY DEF WithoutRule
  <2>4. QED
    BY <2>1, <2>2, <2>3 DEF Counted
<1>3. Listed(WithoutRule(m, r)) /\ Followed(WithoutRule(m, r), acts)
  BY WithoutListed, WithoutFollowed DEF Consistent
<1>4. Asked(WithoutRule(m, r))
  <2>1. WithoutRule(m, r).rules = m.rules \ {r} /\ Asked(m)
    BY DEF WithoutRule, Consistent
  <2>2. QED
    BY <2>1 DEF Asked
<1>5. QED
  BY <1>1, <1>2, <1>3, <1>4 DEF Consistent

\* A run of free entries that ends within the table is never missed.
LEMMA NoneMissed ==
  ASSUME NEW num \in 1..WordSize + 1, NEW mask, FindsNone(num, mask),
         NEW s \in Index, s + num <= Size
  PROVE  \E i \in s..s + num - 1 : i \in mask
<1> DEFINE w == s \div WordSize
<1>1. PICK k \in 0..num - 1 : Taken(s, k, mask)
  BY DEF FindsNone, Fits
<1>2. s \in Nat /\ num \in Nat /\ s + k \in s..s + num - 1 /\ s + k < Size
  BY AclAssumption DEF Index, Size, AclAssumption
<1>3. w \in 0..MaskWords - 1
  BY WordOf
<1>4. ASSUME w = MaskWords - 1, (w + 1) * WordSize <= s + k
      PROVE  FALSE
  <2>1. (w + 1) * WordSize = Size
    BY <1>4, AclAssumption DEF AclAssumption, Size
  <2>2. Size \in Nat
    BY AclAssumption DEF AclAssumption, Size
  <2> HIDE DEF w
  <2>3. QED
    BY <1>2, <1>4, <2>1, <2>2
<1>5. s + k \in mask
  BY <1>1, <1>4 DEF Taken
<1>6. QED
  BY <1>2, <1>5

-----------------------------------------------------------------------------
(* The steps.                                                               *)

LEMMA InitConsistent == AclInit => ConsistentNow
<1> SUFFICES ASSUME AclInit PROVE ConsistentNow
  OBVIOUS
<1>1. acl.rules = {} /\ acl.used = {} /\ acl.numRules = 0 /\ acl.numEntries = 0
      /\ acl.table = [i \in Index |-> Clean] /\ Whole(acl)
  BY DEF AclInit, Whole
<1>2. IsFiniteSet({}) /\ Cardinality({}) = 0
  BY FS_EmptySet
<1>3. Listed(acl)
  BY <1>1, <1>2 DEF Listed
<1>4. Counted(acl, empty)
  BY <1>1, <1>2 DEF Counted, AclInit
<1>5. Followed(acl, actions)
  BY <1>1 DEF Followed
<1>6. Asked(acl)
  BY <1>1 DEF Asked
<1>7. QED
  BY <1>1, <1>3, <1>4, <1>5, <1>6 DEF ConsistentNow, Consistent, AclInit

\* The rest of setAclRule, where m is the list with or without the old rule.
LEMMA SetConsistent ==
  ASSUME NEW v \in FieldSets, NEW act \in Act, NEW m, Consistent(m, actions, empty),
         SetRule(m, v, act)
  PROVE  /\ ConsistentNow'
         /\ refused' # 0 => /\ v # {} /\ refused' = Number(v, act) /\ acl' = m
                            /\ FindsNone(refused', m.used)
<1>1. CASE v = {} /\ SetEmpty(m)
  <2>1. acl' = [rules |-> m.rules, used |-> m.used, numRules |-> m.numRules + 1,
                numEntries |-> m.numEntries, table |-> m.table]
    BY <1>1 DEF SetEmpty, Consistent, Whole
  <2>2. empty' = empty + 1 /\ actions' = actions /\ refused' = 0
    BY <1>1 DEF SetEmpty
  <2>3. Whole(acl') /\ Listed(acl') /\ Asked(acl') /\ Followed(acl', actions')
    BY <2>1, <2>2 DEF Consistent, Whole, Listed, Asked, Followed
  <2>4. Counted(acl', empty')
    <3>1. Cardinality(m.rules) \in Nat /\ empty \in Nat /\ m.numRules = Cardinality(m.rules) + empty
      BY UsedFinite DEF Consistent, Counted
    <3>2. acl'.rules = m.rules /\ acl'.numRules = m.numRules + 1
      BY <2>1
    <3>3. QED
      BY <2>2, <3>1, <3>2 DEF Counted
  <2>5. QED
    BY <2>2, <2>3, <2>4 DEF ConsistentNow, Consistent
<1>2. CASE v # {} /\ Refuse(m, Number(v, act))
  BY <1>2 DEF Refuse, ConsistentNow
<1>3. ASSUME v # {}, NEW s \in Index,
             Enter(m, [start |-> s, num |-> Number(v, act), fields |-> v, act |-> act])
      PROVE  ConsistentNow' /\ refused' = 0
  <2> DEFINE r == [start |-> s, num |-> Number(v, act), fields |-> v, act |-> act]
  <2>1. r.start = s /\ r.num = Number(v, act) /\ r.fields = v /\ r.act = act
    OBVIOUS
  <2>2. /\ Fits(r.start, r.num, m.used) /\ acl' = WithRule(m, r) /\ refused' = 0 /\ empty' = empty
        /\ actions' = IF r.act = "own" THEN actions
                      ELSE [actions EXCEPT ![r.start + r.num - 1] = r.act]
    BY <1>3 DEF Enter, Finds
  <2> HIDE DEF r
  <2>3. r.num \in 1..WordSize + 1 /\ r.start \in Index
    BY <1>3, <2>1, NumberBounded
  <2>4. Placed(r) /\ Entries(r) \intersect m.used = {}
    BY <2>2, <2>3, FitsIsFree DEF Placed, Entries
  <2>5. r.act = "own" => WrittenEntry(r.num - 1, r.num, Modes(r.fields)).mode = 1
    BY <1>3, <2>1, LastWritten
  <2>6. Listed(m) /\ Followed(m, actions) /\ actions \in [Index -> Act \union {"none"}] /\ empty \in Nat
    BY DEF Consistent
  <2>7. Listed(acl') /\ Cardinality(m.rules \union {r}) = Cardinality(m.rules) + 1
    BY <2>2, <2>4, <2>6, WithListed
  <2>8. Followed(acl', actions')
    BY <2>1, <2>2, <2>4, <2>5, <2>6, WithFollowed
  <2>9. Counted(acl', empty')
    <3>1. Cardinality(m.rules) \in Nat /\ m.numRules = Cardinality(m.rules) + empty
      BY UsedFinite DEF Consistent, Counted
    <3>2. acl'.rules = m.rules \union {r} /\ acl'.numRules = m.numRules + 1
      BY <2>2 DEF WithRule
    <3>3. QED
      BY <2>2, <2>6, <2>7, <3>1, <3>2 DEF Counted
  <2>10. Whole(acl')
    BY <2>2 DEF WithRule, Whole
  <2>11. actions' \in [Index -> Act \union {"none"}]
    BY <2>1, <2>2, <2>6
  <2>12. Asked(acl')
    <3>1. acl'.rules = m.rules \union {r} /\ Asked(m)
      BY <2>2 DEF WithRule, Consistent
    <3>2. r = [start |-> r.start, num |-> r.num, fields |-> r.fields, act |-> r.act]
      BY DEF r
    <3>3. r.fields \in FieldSets \ {{}} /\ r.act \in Act /\ r.num = Number(r.fields, r.act)
      BY <1>3, <2>1
    <3>4. QED
      BY <3>1, <3>2, <3>3 DEF Asked
  <2>13. QED
    BY <2>2, <2>6, <2>7, <2>8, <2>9, <2>10, <2>11, <2>12 DEF ConsistentNow, Consistent
<1>4. QED
  BY <1>1, <1>2, <1>3 DEF SetRule, SetEmpty, Refuse

LEMMA CleanAllConsistent ==
  ASSUME ConsistentNow, CleanAll
  PROVE  ConsistentNow'
<1>1. Listed(acl) /\ Followed(acl, actions) /\ acl.numRules = Cardinality(acl.rules) + empty
      /\ actions \in [Index -> Act \union {"none"}] /\ empty \in Nat
  BY DEF ConsistentNow, Consistent, Counted
<1>2. acl.used = UNION {Entries(r) : r \in acl.rules} /\ acl.numEntries = Cardinality(acl.used)
  BY <1>1 DEF Listed
<1>3. Cardinality(acl.used) \in Nat /\ Cardinality(acl.rules) \in Nat
  BY <1>1, UsedFinite
<1>4. /\ acl' = [rules |-> {}, used |-> acl.used \ acl.used,
                 numRules |-> acl.numRules - Cardinality(acl.rules),
                 numEntries |-> acl.numEntries - Cardinality(acl.used),
                 table |-> [i \in Index |-> IF i \in acl.used THEN Clean ELSE acl.table[i]]]
      /\ actions' = actions /\ empty' = empty
  BY <1>2 DEF CleanAll
<1>5. acl'.rules = {} /\ acl'.used = {} /\ acl'.numRules = empty /\ acl'.numEntries = 0
      /\ acl'.table = [i \in Index |-> IF i \in acl.used THEN Clean ELSE acl.table[i]]
  <2>1. acl.numRules - Cardinality(acl.rules) = empty
    BY <1>1, <1>3
  <2>2. acl.numEntries - Cardinality(acl.used) = 0
    BY <1>2, <1>3
  <2>3. QED
    BY <1>4, <2>1, <2>2
<1>6. IsFiniteSet({}) /\ Cardinality({}) = 0
  BY FS_EmptySet
<1>7. Listed(acl')
  BY <1>5, <1>6 DEF Listed
<1>8. Counted(acl', empty')
  BY <1>1, <1>4, <1>5, <1>6 DEF Counted
<1>9. \A i \in Index : acl'.table[i] = Clean
  BY <1>1, <1>5 DEF Followed
<1>10. Followed(acl', actions')
  BY <1>5, <1>9 DEF Followed
<1>11. Whole(acl')
  BY <1>4 DEF Whole
<1>12. Asked(acl')
  BY <1>5 DEF Asked
<1>13. QED
  BY <1>1, <1>4, <1>7, <1>8, <1>10, <1>11, <1>12 DEF ConsistentNow, Consistent

\* One step, and what it says of a refusal.
LEMMA NextConsistent ==
  ASSUME ConsistentNow, AclNext
  PROVE  /\ ConsistentNow'
         /\ refused' # 0 => refused' \in 1..WordSize + 1 /\ FindsNone(refused', acl'.used)
<1> DEFINE Good == /\ ConsistentNow'
                   /\ refused' # 0 => refused' \in 1..WordSize + 1 /\ FindsNone(refused', acl'.used)
<1>1. ASSUME NEW i \in Index, NoSuchRule(i) PROVE Good
  BY <1>1 DEF NoSuchRule, ConsistentNow
<1>2. ASSUME NEW v \in FieldSets, NEW act \in Act, NEW m, Consistent(m, actions, empty),
             SetRule(m, v, act)
      PROVE  Good
  <2>1. ConsistentNow' /\ (refused' # 0 => /\ v # {} /\ refused' = Number(v, act) /\ acl' = m
                                          /\ FindsNone(refused', m.used))
    BY <1>2, SetConsistent
  <2>2. QED
    BY <2>1, NumberBounded
<1>3. ASSUME NEW v \in FieldSets, NEW act \in Act, NewRule(v, act) PROVE Good
  BY <1>2, <1>3 DEF NewRule, ConsistentNow
<1>4. ASSUME NEW v \in FieldSets, NEW act \in Act, NEW r \in acl.rules, ChangeRule(r, v, act)
      PROVE  Good
  <2>1. Consistent(WithoutRule(acl, r), actions, empty)
    BY WithoutConsistent DEF ConsistentNow
  <2>2. QED
    BY <1>2, <1>4, <2>1 DEF ChangeRule
<1>5. ASSUME NEW r \in acl.rules, CleanRule(r) PROVE Good
  <2>1. Consistent(WithoutRule(acl, r), actions, empty)
    BY WithoutConsistent DEF ConsistentNow
  <2>2. QED
    BY <1>5, <2>1 DEF CleanRule, ConsistentNow
<1>6. CASE CleanAll
  BY <1>6, CleanAllConsistent DEF CleanAll
<1>7. QED
  BY <1>1, <1>3, <1>4, <1>5, <1>6 DEF AclNext

LEMMA AlwaysConsistent == AclSpec => []ConsistentNow
<1>1. ConsistentNow /\ [AclNext]_aclVars => ConsistentNow'
  BY NextConsistent DEF aclVars, ConsistentNow
<1>2. QED
  BY InitConsistent, <1>1, PTL DEF AclSpec

-----------------------------------------------------------------------------
(* The theorems.                                                            *)

\* No two rules share an entry, and the mask and the number of the entries in use
\* are those of the rules, whatever setAclRule and aclCleanTable are asked for.
THEOREM AlwaysApart == AclSpec => []RulesApart
<1>1. ConsistentNow => RulesApart
  BY DEF ConsistentNow, Consistent, Listed, RulesApart
<1>2. QED
  BY AlwaysConsistent, <1>1, PTL

\* The switch holds the entries of the rules in the list, and all others are
\* clean, after any calls of setAclRule and aclCleanTable.
THEOREM TableAlwaysFollows == AclSpec => []TableFollowsRules
<1>1. ConsistentNow => TableFollowsRules
  BY DEF ConsistentNow, Consistent, Followed, TableFollowsRules
<1>2. QED
  BY AlwaysConsistent, <1>1, PTL

\* acl_find_index misses no run of free entries, over the end of a word or not.
THEOREM NeverRefusedWithRoom == AclSpec => []RefusedOnlyWhenFull
<1>1. AclInit => RefusedOnlyWhenFull
  BY DEF AclInit, RefusedOnlyWhenFull
<1>2. RefusedOnlyWhenFull /\ ConsistentNow /\ [AclNext]_aclVars => RefusedOnlyWhenFull'
  <2> SUFFICES ASSUME RefusedOnlyWhenFull, ConsistentNow, [AclNext]_aclVars
               PROVE  RefusedOnlyWhenFull'
    OBVIOUS
  <2>1. CASE UNCHANGED aclVars
    BY <2>1 DEF aclVars, RefusedOnlyWhenFull
  <2>2. CASE AclNext
    <3>1. refused' # 0 => refused' \in 1..WordSize + 1 /\ FindsNone(refused', acl'.used)
      BY <2>2, NextConsistent
    <3>2. QED
      BY <3>1, NoneMissed DEF RefusedOnlyWhenFull
  <2>3. QED
    BY <2>1, <2>2
<1>3. QED
  BY AlwaysConsistent, <1>1, <1>2, PTL DEF AclSpec

\* Every field of a rule is compared in some entry of the switch's table, but
\* for those in Ignored.
THEOREM FieldsAlwaysCompared == AclSpec => []FieldsCompared
<1>1. ConsistentNow => FieldsCompared
  <2> SUFFICES ASSUME ConsistentNow, NEW r \in acl.rules, NEW f \in r.fields, f \notin Ignored(r.fields)
               PROVE  f \in Compared(r)
    BY DEF FieldsCompared
  <2> DEFINE S == Modes(r.fields)
  <2>1. /\ r.fields \in FieldSets \ {{}} /\ r.num = Number(r.fields, r.act)
        /\ \A i \in Entries(r) : acl.table[i] = WrittenEntry(i - r.start, r.num, S)
    BY DEF ConsistentNow, Consistent, Asked, Followed
  <2>2. IsFiniteSet(S) /\ Cardinality(S) \in Nat
    BY <2>1, ModesFinite, FS_CardinalityType
  <2>3. r.start \in Nat /\ Cardinality(S) <= r.num /\ r.num \in Nat
    <3>1. r.start \in Nat /\ r.num \in Nat
      BY DEF ConsistentNow, Consistent, Listed, Placed, Index
    <3>2. Number(r.fields, r.act) = Cardinality(S) \/ Number(r.fields, r.act) = Cardinality(S) + 1
      BY <2>2 DEF Number
    <3>3. QED
      BY <2>1, <2>2, <3>1, <3>2
  <2>4. r.fields \in SUBSET RuleField
    BY <2>1, AclAssumption DEF AclAssumption
  <2>5. PICK m \in S : f \in Compares(m)
    BY <2>4, NoFieldLost
  <2>6. S \in SUBSET Mode /\ S \in SUBSET Nat
    BY ModesTyped DEF Mode
  <2> HIDE DEF S
  <2> DEFINE k == Rank(S, m)
  <2>7. k \in 0..Cardinality(S) - 1 /\ (CHOOSE x \in S : Rank(S, x) = k) = m
    BY <2>2, <2>6, RankBelow, RankExact
  <2>8. WrittenEntry(k, r.num, S).mode = m
    <3>1. (CHOOSE x \in S : Cardinality({l \in S : l < x}) = k) = m
      BY <2>7 DEF Rank
    <3> HIDE DEF k
    <3>2. k < Cardinality(S)
      BY <2>2, <2>7
    <3>3. QED
      BY <3>1, <3>2 DEF WrittenEntry
  <2> DEFINE e == r.start + k
  <2>9. e \in Entries(r) /\ e - r.start = k
    <3> HIDE DEF k
    <3>1. QED
      BY <2>2, <2>3, <2>7 DEF Entries
  <2> HIDE DEF e, k
  <2>10. acl.table[e].mode = m
    <3>1. acl.table[e] = WrittenEntry(e - r.start, r.num, S)
      BY <2>1, <2>9
    <3>2. QED
      BY <2>8, <2>9, <3>1
  <2>11. QED
    BY <2>5, <2>6, <2>9, <2>10 DEF Compared
<1>2. QED
  BY AlwaysConsistent, <1>1, PTL

\* An entry of a rule has a mode, whatever its place.
LEMMA WrittenTyped ==
  ASSUME NEW v \in FieldSets, v # {}, NEW k \in Nat, NEW n
  PROVE  WrittenEntry(k, n, Modes(v)) \in Cell
<1> DEFINE S == Modes(v)
<1>1. IsFiniteSet(S) /\ Cardinality(S) \in Nat
  BY ModesFinite, FS_CardinalityType
<1>2. S \in SUBSET Mode /\ S \in SUBSET Nat
  BY ModesTyped DEF Mode
<1> HIDE DEF S
<1>3. ASSUME k < Cardinality(S)
      PROVE  (CHOOSE m \in S : Cardinality({l \in S : l < m}) = k) \in Mode
  <2>1. \E m \in S : Cardinality({l \in S : l < m}) = k
    <3>1. k \in 0..Cardinality(S) - 1
      BY <1>1, <1>3
    <3>2. QED
      BY <1>1, <1>2, <3>1, RankExact DEF Rank
  <2>2. QED
    BY <1>2, <2>1
<1>4. WrittenEntry(k, n, S).mode \in Mode \union {0, 1}
  BY <1>3 DEF WrittenEntry
<1>5. WrittenEntry(k, n, S) = [mode |-> WrittenEntry(k, n, S).mode, link |-> Link(k, n)]
  BY DEF WrittenEntry
<1>6. Link(k, n) \in 0..3
  BY DEF Link
<1>7. QED
  BY <1>4, <1>5, <1>6 DEF Cell, S

\* Type correctness for every size of the mask.
THEOREM TypeCorrect == AclSpec => []AclTypeOK
<1> DEFINE Bounded == refused \in 0..WordSize + 1 /\ empty \in 0..MaxEmpty
<1>1. AclInit => Bounded
  BY AclAssumption DEF AclInit, AclAssumption
<1>2. Bounded /\ ConsistentNow /\ [AclNext]_aclVars => Bounded'
  <2> SUFFICES ASSUME Bounded, ConsistentNow, [AclNext]_aclVars
               PROVE  Bounded'
    OBVIOUS
  <2>1. CASE UNCHANGED aclVars
    BY <2>1 DEF aclVars
  <2>2. CASE AclNext
    <3>1. refused' # 0 => refused' \in 1..WordSize + 1
      BY <2>2, NextConsistent
    <3>2. refused' \in 0..WordSize + 1
      BY <3>1, AclAssumption DEF AclAssumption
    <3>3. empty' = empty \/ (empty < MaxEmpty /\ empty' = empty + 1)
      <4>1. ASSUME NEW m, NEW v, NEW act, SetRule(m, v, act)
            PROVE  empty' = empty \/ (empty < MaxEmpty /\ empty' = empty + 1)
        <5>1. ASSUME NEW r, Enter(m, r) PROVE empty' = empty
          BY <5>1 DEF Enter
        <5>2. QED
          BY <4>1, <5>1 DEF SetRule, SetEmpty, Refuse
      <4>2. QED
        BY <2>2, <4>1 DEF AclNext, NoSuchRule, NewRule, ChangeRule, CleanRule, CleanAll
    <3>4. QED
      BY <3>2, <3>3, AclAssumption DEF AclAssumption
  <2>3. QED
    BY <2>1, <2>2
<1>3. ConsistentNow /\ Bounded => AclTypeOK
  <2> SUFFICES ASSUME ConsistentNow, Bounded PROVE AclTypeOK
    OBVIOUS
  <2>1. Listed(acl) /\ Asked(acl) /\ Followed(acl, actions) /\ Whole(acl)
        /\ acl.numRules = Cardinality(acl.rules) + empty
        /\ actions \in [Index -> Act \union {"none"}] /\ empty \in Nat
    BY DEF ConsistentNow, Consistent, Counted
  <2>2. acl.rules \in SUBSET Rule
    <3>1. ASSUME NEW r \in acl.rules PROVE r \in Rule
      <4>1. /\ r = [start |-> r.start, num |-> r.num, fields |-> r.fields, act |-> r.act]
            /\ r.fields \in FieldSets /\ r.act \in Act
            /\ r.start \in Index /\ r.num \in 1..WordSize + 1
        BY <2>1 DEF Asked, Listed, Placed
      <4>2. QED
        BY <4>1 DEF Rule
    <3>2. QED
      BY <3>1
  <2>3. acl.used \in SUBSET Index /\ acl.numRules \in Nat
    <3>1. acl.used \subseteq Index /\ Cardinality(acl.rules) \in Nat
      BY <2>1, UsedFinite
    <3>2. QED
      BY <2>1, <3>1
  <2>4. acl.numEntries \in 0..Size
    <3>1. Size \in Nat /\ Size > 0
      BY AclAssumption DEF AclAssumption, Size
    <3>2. 0 \in Int /\ Size - 1 \in Int /\ ~(0 > Size - 1)
      BY <3>1
    <3>3. IsFiniteSet(0..Size - 1) /\ Cardinality(0..Size - 1) = Size - 1 - 0 + 1
      BY <3>2, FS_Interval
    <3>4. IsFiniteSet(Index) /\ Cardinality(Index) = Size
      BY <3>1, <3>3 DEF Index
    <3>5. Cardinality(acl.used) <= Cardinality(Index) /\ Cardinality(acl.used) \in Nat
      BY <2>1, <2>3, <3>4, FS_Subset, UsedFinite
    <3>6. acl.numEntries = Cardinality(acl.used)
      BY <2>1 DEF Listed
    <3>7. QED
      BY <3>1, <3>4, <3>5, <3>6
  <2>5. ASSUME NEW i \in Index PROVE acl.table[i] \in Cell
    <3>1. CASE i \in acl.used
      <4>1. PICK r \in acl.rules : i \in Entries(r)
        BY <2>1, <3>1 DEF Listed
      <4>2. acl.table[i] = WrittenEntry(i - r.start, r.num, Modes(r.fields))
        BY <2>1, <4>1 DEF Followed
      <4>3. r.fields \in FieldSets /\ r.fields # {}
        BY <2>1 DEF Asked
      <4>4. i - r.start \in Nat
        BY <2>1, <4>1 DEF Entries, Listed, Placed, Index
      <4>5. QED
        BY <4>2, <4>3, <4>4, WrittenTyped
    <3>2. CASE i \notin acl.used
      <4>1. acl.table[i] = Clean
        BY <2>1, <3>2 DEF Followed
      <4>2. QED
        BY <4>1 DEF Clean, Cell
    <3>3. QED
      BY <3>1, <3>2
  <2>6. acl.table \in [Index -> Cell]
    <3>1. acl.table = [i \in Index |-> acl.table[i]]
      BY <2>1 DEF Whole
    <3>2. QED
      BY <2>5, <3>1
  <2>7. acl = [rules |-> acl.rules, used |-> acl.used, numRules |-> acl.numRules,
               numEntries |-> acl.numEntries, table |-> acl.table]
    BY <2>1 DEF Whole
  <2>8. QED
    BY <2>1, <2>2, <2>3, <2>4, <2>6, <2>7 DEF AclTypeOK
<1>4. QED
  BY AlwaysConsistent, <1>1, <1>2, <1>3, PTL DEF AclSpec

=============================================================================
