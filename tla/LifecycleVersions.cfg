\* Two versions whose daemons clean up after each other.  Nothing goes wrong,
\* so the daemons of both may serve for ever.
SPECIFICATION FairSpec
CONSTANTS
  Proc = {p1, p2}
  Client = {}
  Version = {v1, v2}
  Faults = {}
  None = None
  Stale = Stale
PROPERTIES
  StopEndsDaemon
  OtherVersionEnds
CHECK_DEADLOCK FALSE
