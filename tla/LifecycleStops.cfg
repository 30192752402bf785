\* One version: two processes that can run a daemon, one `daemon stop`, and
\* everything that can go wrong.
SPECIFICATION FairSpec
CONSTANTS
  Proc = {p1, p2}
  Client = {c1}
  Version = {v1}
  Faults <- AllFaults
  None = None
  Stale = Stale
INVARIANTS
  TypeOK
  PidMatchesSocket
  OneDaemon
PROPERTIES
  PromptsAreServed
