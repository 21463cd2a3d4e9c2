SPECIFICATION FairSpec
CONSTANTS
  Vid = 10
  Did = 0
  Rid = 0
  Elsewhere = 2
  PortNo <- PortNumbers
  N = 2
  Limit = 3
INVARIANT FramesUnderstood
PROPERTY RingHeals
