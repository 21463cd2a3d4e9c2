\* The smallest table, and a rule without a field.
SPECIFICATION AclSpec
CONSTANTS
  WordSize = 3
  MaskWords = 1
  PlainAct = {a}
  FieldSets = {{}, {"DMAC"}}
  MaxEmpty = 1
PROPERTY NothingCountedAfterClean
