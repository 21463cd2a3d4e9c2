SPECIFICATION Spec
CONSTANTS
  Vlans = 1
  Limit = 1
INVARIANTS TypeOK DataFilePresent PortsFollowStatus BlockedBeforeLinkUp FlushedOnceOpen NotStuckDown
PROPERTY StatusSteps
