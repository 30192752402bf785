\* A stop, a prompt that starts the next daemon, and a third start.
SPECIFICATION Spec
CONSTANTS
  Proc = {p1, p2, p3}
  Client = {c1}
  Version = {v1}
  Faults = {}
  None = None
  Stale = Stale
PROPERTIES
  StartRefused
