SPECIFICATION MCSpec
CONSTANTS
  Vid = 10
  Did = 0
  Rid = 0
  Elsewhere = 2
  PortNo <- PortNumbers
  N = 2
  Limit = 2
INVARIANTS TypeOK NoLoopLasts NoneStuckDown
