SPECIFICATION Spec
CONSTANTS
  Vlans = 1
  Limit = 1
INVARIANT CompleteMeansBlocked
