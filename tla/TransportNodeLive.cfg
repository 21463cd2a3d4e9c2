SPECIFICATION FairSpec
CONSTANTS
  Vlans = 1
  Limit = 1
PROPERTIES PreforwardingEnds PortsOpenForGood
