SPECIFICATION MCSpec
CONSTANTS
  Vlans = 1
  Limit = 1
INVARIANT UpMeansLinksUp
