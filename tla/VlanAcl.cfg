\* Two threads at one VLAN, and one bit of each kind.  Two words of the mask of ACL
\* entries; rules of one to three entries, one more for an action of type 5, and
\* rules without a field.
SPECIFICATION MCSpec
CONSTANTS
  Caller = {c1, c2}
  Vid = {v1}
  Low = {p1}
  High = {p17}
  Cpu = p29
  Tag = {t0}
  WordSize = 3
  MaskWords = 2
  PlainAct = {a}
  FieldSets = {{}, {"DMAC"}, {"SP", "DMAC", "DSCP"}, {"SP", "ETH_TYPE", "DSCP"}}
  MaxEmpty = 1
INVARIANTS TypeOK AclTypeOK RulesApart TableFollowsRules RefusedOnlyWhenFull FieldsCompared
PROPERTIES ChangesAreExact SuccessMeansDone
