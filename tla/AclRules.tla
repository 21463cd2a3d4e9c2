------------------------------ MODULE AclRules ------------------------------
(***************************************************************************)
(* The ACL rules of the switch driver: setAclRule and aclCleanTable in     *)
(* icplib/driver/switchdriver/ip1829func.c.                                *)
(*                                                                         *)
(* A rule takes one entry of the switch's table for every mode that it     *)
(* takes to compare its fields, in a row and linked.  The driver keeps a   *)
(* list of the rules and a mask of the entries in use.  A call of ioctl    *)
(* holds ip1829_mutex, so that a command is one step.                      *)
(***************************************************************************)
EXTENDS Integers, FiniteSets

CONSTANTS WordSize,   \* entries that one word of used_entry_mask stands for: 16
          MaskWords,  \* words of the mask: 8
          PlainAct,   \* actions of the types 0 to 4, which take no entry
          FieldSets,  \* the sets of fields, rule_valid, that callers ask for
          MaxEmpty    \* bound: how often a rule without a field is set

\* The fields that setAclRule looks at when it selects modes, and the port, which
\* an entry of any mode compares.
RuleField == {"SMAC", "DMAC", "SIP", "DIP", "SIP6", "DIP6", "ETH_TYPE", "VLAN", "SP",
              "SP_R", "DP", "DP_R", "TCP_FLAG", "DSCP", "IP_PROT", "INGRESS_PORT"}

VARIABLES
  acl,      \* m_acl and the rule table of the switch: the list of the rules, the
            \* mask and the number of the entries in use, the number of rules, and
            \* the entries of the table
  actions,  \* switch: the entries of the action table
  refused,  \* reserved, if the last call was a setAclRule that found no room
            \* (index -2), otherwise 0
  empty     \* history: how many rules without a field were set

aclVars == <<acl, actions, refused, empty>>

Size  == WordSize * MaskWords
Index == 0..Size - 1
Act   == PlainAct \union {"own"}  \* "own": type 5, which takes an entry

\* Modes of an entry, and how it is linked to its neighbours: alone 0, first 1,
\* between 2, last 3.  Mode 1 holds an action, mode 0 nothing.
Mode  == {2, 3, 6, 8, 9, 10, 11, 12, 14}
Cell  == [mode : Mode \union {0, 1}, link : 0..3]
Clean == [mode |-> 0, link |-> 0]
\* Of a rule the driver keeps its first entry and how many it has; what its
\* caller asked for is kept for the properties only.
Rule  == [start : Index, num : 1..WordSize + 1, fields : FieldSets, act : Act]

AclTypeOK ==
  /\ acl \in [rules : SUBSET Rule, used : SUBSET Index, numRules : Nat,
              numEntries : 0..Size, table : [Index -> Cell]]
  /\ actions \in [Index -> Act \union {"none"}]
  /\ refused \in 0..WordSize + 1 /\ empty \in 0..MaxEmpty

\* acl_init, and a switch whose tables are clean.
AclInit ==
  /\ acl = [rules |-> {}, used |-> {}, numRules |-> 0, numEntries |-> 0,
            table |-> [i \in Index |-> Clean]]
  /\ actions = [i \in Index |-> "none"]
  /\ refused = 0 /\ empty = 0

-----------------------------------------------------------------------------
(* The modes that compare the fields of a rule.                             *)

AnyOf(v, fields) == v \intersect fields # {}

\* An IPv6 rule.
Modes6(v) ==
  {m \in {12, 14, 3} : \/ m = 12 /\ "SIP6" \in v
                       \/ m = 14 /\ "DIP6" \in v
                       \/ m = 3  /\ AnyOf(v, {"SP", "DP"})}

\* A rule on transport ports.  The branch for DMAC is never taken: its test is
\* that for SMAC again.
ModesL4(v) ==
  LET ports == {m \in {2, 3} : \/ m = 3 /\ AnyOf(v, {"TCP_FLAG", "SP", "DP"})
                               \/ m = 2 /\ AnyOf(v, {"SP_R", "DP_R"})}
      frame == "ETH_TYPE" \in v \/ {"SMAC", "DMAC"} \subseteq v
      ip    == AnyOf(v, {"DSCP", "IP_PROT"})
  IN  ports \union (IF frame \/ (~ip /\ AnyOf(v, {"VLAN", "SMAC", "DMAC"})) THEN {6} ELSE {})
            \union (IF ip THEN {8} ELSE {})

\* A rule on the frame type or both MAC addresses, without transport ports.
ModesFrame(v) ==
  {6} \union
  (CASE {"SIP", "DIP"} \subseteq v -> {2} \union IF AnyOf(v, {"DSCP", "IP_PROT"}) THEN {8} ELSE {}
     [] "SIP" \in v /\ "DIP" \notin v -> {8}
     [] "DIP" \in v /\ "SIP" \notin v -> {9}
     [] ~AnyOf(v, {"SIP", "DIP"}) -> IF AnyOf(v, {"DSCP", "IP_PROT"}) THEN {8} ELSE {})

\* A bug to be caught: a rule on DMAC gets a mode for SMAC.
OneOfEachSmac(mac, ip) == IF ip = "DIP" THEN 9 ELSE 8

\* Modes 8 to 11 compare one MAC address and one IP address each.
OneOfEach(mac, ip) ==
  IF mac = "DMAC" THEN IF ip = "DIP" THEN 11 ELSE 10
                  ELSE IF ip = "DIP" THEN 9 ELSE 8

\* A rule with one MAC address at most, without transport ports.
ModesIp(v) ==
  LET both == {"SIP", "DIP"} \subseteq v
      mac  == IF "DMAC" \in v /\ "SMAC" \notin v THEN "DMAC" ELSE "SMAC"
      ip   == IF "DIP" \in v /\ "SIP" \notin v THEN "DIP" ELSE "SIP"
      more == AnyOf(v, {"SMAC", "DMAC", "VLAN", "DSCP", "IP_PROT"})
  IN  (IF both \/ ~more THEN {2} ELSE {}) \union
      (IF more THEN {OneOfEach(mac, ip)} ELSE {})

Modes(v) ==
  IF AnyOf(v, {"SIP6", "DIP6"}) THEN Modes6(v)
  ELSE IF AnyOf(v, {"TCP_FLAG", "SP", "DP", "SP_R", "DP_R"}) THEN ModesL4(v)
  ELSE IF "ETH_TYPE" \in v \/ {"SMAC", "DMAC"} \subseteq v THEN ModesFrame(v)
  ELSE ModesIp(v)

\* What an entry of each mode compares.
Compares0010 == {"DP_R", "SP_R", "DIP", "SIP"}
Compares0011 == {"DP", "SP", "TCP_FLAG", "DIP", "SIP"}
Compares0110 == {"ETH_TYPE", "VLAN", "SMAC", "DMAC"}
Compares1000 == {"VLAN", "IP_PROT", "DSCP", "SIP", "SMAC"}
Compares1001 == {"VLAN", "IP_PROT", "DSCP", "DIP", "SMAC"}
Compares1010 == {"VLAN", "IP_PROT", "DSCP", "SIP", "DMAC"}
Compares1011 == {"VLAN", "IP_PROT", "DSCP", "DIP", "DMAC"}
Compares1100 == {"SIP6"}
Compares1110 == {"DIP6"}
Compares(m) ==
  {"INGRESS_PORT"} \union
  (CASE m = 2 -> Compares0010 [] m = 3 -> Compares0011 [] m = 6 -> Compares0110
     [] m = 8 -> Compares1000 [] m = 9 -> Compares1001 [] m = 10 -> Compares1010
     [] m = 11 -> Compares1011 [] m = 12 -> Compares1100 [] m = 14 -> Compares1110)

\* No rule has more modes than a word has bits.
ASSUME AclAssumption ==
  /\ WordSize \in Nat \ {0} /\ MaskWords \in Nat \ {0} /\ MaxEmpty \in Nat
  /\ FieldSets \subseteq SUBSET RuleField /\ "own" \notin PlainAct
  /\ \A v \in FieldSets : Cardinality(Modes(v)) <= WordSize

-----------------------------------------------------------------------------
(* The entries of a rule.                                                   *)

Entries(r) == r.start..r.start + r.num - 1

\* Bugs to be caught: the end of the table is not guarded, the next word is not
\* looked at, or taken to be full.
TakenPast(s, k, mask) == s + k \in mask
TakenWord(s, k, mask) == s + k < (s \div WordSize + 1) * WordSize /\ s + k \in mask
TakenFull(s, k, mask) == s + k >= (s \div WordSize + 1) * WordSize \/ s + k \in mask

\* Bit k of t >> j in acl_find_index, for the entry s: t holds the word of s and
\* the next one, all ones after the last, and zeros are shifted in.
Taken(s, k, mask) ==
  LET w == s \div WordSize
      i == s + k
  IN  \/ i < (w + 1) * WordSize /\ i \in mask
      \/ (w + 1) * WordSize <= i /\ i < (w + 2) * WordSize /\ (w = MaskWords - 1 \/ i \in mask)

Fits(s, num, mask) == \A k \in 0..num - 1 : ~Taken(s, k, mask)

\* acl_find_index finds the first run of num free entries, if there is one.
Finds(s, num, mask) == Fits(s, num, mask) /\ \A t \in 0..s - 1 : ~Fits(t, num, mask)
FindsNone(num, mask) == \A s \in Index : ~Fits(s, num, mask)

\* Entry k of n: the modes in ascending order, and after them mode 1 for an
\* action of type 5.
Link(k, n) ==
  CASE n = 1 -> 0
    [] n > 1 /\ k = 0 -> 1
    [] n > 1 /\ k = n - 1 -> 3
    [] OTHER -> 2
WrittenEntry(k, n, modes) ==
  [mode |-> IF k < Cardinality(modes)
            THEN CHOOSE m \in modes : Cardinality({l \in modes : l < m}) = k
            ELSE 1,
   link |-> Link(k, n)]

\* m without rule r: its entries are cleaned and given back.
WithoutRule(m, r) ==
  [rules |-> m.rules \ {r}, used |-> m.used \ Entries(r),
   numRules |-> m.numRules - 1, numEntries |-> m.numEntries - r.num,
   table |-> [i \in Index |-> IF i \in Entries(r) THEN Clean ELSE m.table[i]]]

\* m with rule r.
WithRule(m, r) ==
  [rules |-> m.rules \union {r}, used |-> m.used \union Entries(r),
   numRules |-> m.numRules + 1, numEntries |-> m.numEntries + r.num,
   table |-> [i \in Index |-> IF i \in Entries(r)
                              THEN WrittenEntry(i - r.start, r.num, Modes(r.fields))
                              ELSE m.table[i]]]

-----------------------------------------------------------------------------
(* setAclRule.  The index 128 asks for a new rule, another one for a change *)
(* of the rule that starts there.                                           *)

\* The reply has index -1.
NoSuchRule(index) ==
  /\ ~\E r \in acl.rules : r.start = index
  /\ refused' = 0
  /\ UNCHANGED <<acl, actions, empty>>

\* The rest of setAclRule, where m is what is left when the old rule is gone.

\* A call without a field counts a rule and keeps none.
SetEmpty(m) ==
  /\ empty < MaxEmpty
  /\ acl' = [m EXCEPT !.numRules = @ + 1]
  /\ refused' = 0 /\ empty' = empty + 1
  /\ UNCHANGED actions

Refuse(m, num) ==
  /\ FindsNone(num, m.used)
  /\ acl' = m
  /\ refused' = num
  /\ UNCHANGED <<actions, empty>>

\* The action of a rule is written at its last entry.
Enter(m, r) ==
  /\ Finds(r.start, r.num, m.used)
  /\ acl' = WithRule(m, r)
  /\ actions' = IF r.act = "own" THEN actions
                ELSE [actions EXCEPT ![r.start + r.num - 1] = r.act]
  /\ refused' = 0
  /\ UNCHANGED empty

\* A bug to be caught: the entry of the action is not counted.
NumberShort(v, act) == Cardinality(Modes(v))

\* s_num.
Number(v, act) == Cardinality(Modes(v)) + IF act = "own" THEN 1 ELSE 0

SetRule(m, v, act) ==
  \/ v = {} /\ SetEmpty(m)
  \/ v # {} /\ Refuse(m, Number(v, act))
  \/ /\ v # {}
     /\ \E s \in Index :
          Enter(m, [start |-> s, num |-> Number(v, act), fields |-> v, act |-> act])

\* kmalloc may fail on a new rule, which changes nothing: a stuttering step.
NewRule(v, act) == SetRule(acl, v, act)

ChangeRule(r, v, act) == SetRule(WithoutRule(acl, r), v, act)

-----------------------------------------------------------------------------
(* aclCleanTable.                                                           *)

CleanRule(r) ==
  /\ acl' = WithoutRule(acl, r)
  /\ refused' = 0
  /\ UNCHANGED <<actions, empty>>

\* All rules of the list, each as in CleanRule; a message follows if one is left
\* counted.
CleanAll ==
  LET all == UNION {Entries(r) : r \in acl.rules}
  IN  /\ acl.rules # {}
      /\ acl' = [rules |-> {}, used |-> acl.used \ all,
                 numRules |-> acl.numRules - Cardinality(acl.rules),
                 numEntries |-> acl.numEntries - Cardinality(all),
                 table |-> [i \in Index |-> IF i \in all THEN Clean ELSE acl.table[i]]]
      /\ refused' = 0
      /\ UNCHANGED <<actions, empty>>

AclNext ==
  \/ \E i \in Index : NoSuchRule(i)
  \/ \E v \in FieldSets, act \in Act :
       NewRule(v, act) \/ \E r \in acl.rules : ChangeRule(r, v, act)
  \/ (\E r \in acl.rules : CleanRule(r)) \/ CleanAll

AclSpec == AclInit /\ [][AclNext]_aclVars

-----------------------------------------------------------------------------
(* Properties.                                                              *)

\* The driver's view of the table agrees with itself: no two rules share an
\* entry, the mask holds the entries of the rules and no other, and the number
\* of entries is theirs.  A rule found in a fragmented table, over the end of a
\* word or at the end of the table, a change of a rule that moves it, and a
\* change that is refused must all keep it.
RulesApart ==
  /\ \A r, q \in acl.rules : r # q => Entries(r) \intersect Entries(q) = {}
  /\ acl.used = UNION {Entries(r) : r \in acl.rules}
  /\ acl.numEntries = Cardinality(acl.used)

\* The switch compares frames with the rules of the list and no other: the
\* entries of each are linked from its first to its last, in the modes that it
\* asked for, with its action at the last, and all others are clean.
TableFollowsRules ==
  /\ \A r \in acl.rules :
       /\ \A i \in Entries(r) : acl.table[i] = WrittenEntry(i - r.start, r.num, Modes(r.fields))
       /\ r.act # "own" => actions[r.start + r.num - 1] = r.act
       /\ r.act = "own" => acl.table[r.start + r.num - 1].mode = 1
  /\ \A i \in Index \ acl.used : acl.table[i] = Clean

\* A rule is refused only when no run of free entries is long enough for it.
RefusedOnlyWhenFull ==
  refused # 0 =>
    \A s \in Index : s + refused <= Size => \E i \in s..s + refused - 1 : i \in acl.used

\* Fields that the driver takes and compares with nothing: in an IPv6 rule all but
\* the addresses and two ports, and the destination MAC address of a rule that also
\* names transport ports and a DSCP or protocol, and neither the source MAC address
\* nor the frame type.
Ignored(v) ==
  IF AnyOf(v, {"SIP6", "DIP6"}) THEN v \ {"SIP6", "DIP6", "SP", "DP"}
  ELSE IF /\ AnyOf(v, {"DSCP", "IP_PROT"}) /\ ~AnyOf(v, {"SMAC", "ETH_TYPE"})
          /\ AnyOf(v, {"SP", "SP_R", "DP", "DP_R", "TCP_FLAG"})
       THEN {"DMAC"} ELSE {}

Compared(r) == UNION {Compares(acl.table[i].mode) :
                        i \in {e \in Entries(r) : acl.table[e].mode \in Mode}}

\* Each field of a rule is compared by one of its entries, but for those in
\* Ignored: the rule applies to no frame but the ones that its caller described.
FieldsCompared == \A r \in acl.rules : r.fields \ Ignored(r.fields) \subseteq Compared(r)

=============================================================================
