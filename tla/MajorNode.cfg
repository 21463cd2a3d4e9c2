\* The threads of a major node: every interleaving of the jobs, of a boot,
\* of SIGINT and of failing register accesses, in fair runs.
SPECIFICATION FairSpec
CONSTANTS
  Vlans = 2
  Limit = 2
INVARIANTS TypeOK DataFilePresent PortFollowsStatus FlushAfterSwitch
PROPERTIES StatusSteps SilenceNoticed PortSettles
