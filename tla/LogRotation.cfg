\* Two processes, two backups, writes below, at and above the limit.
SPECIFICATION Spec
CONSTANTS
  Writer = {w1, w2}
  None = None
  Sizes = {1, 2, 3}
  max_bytes = 2
  max_backups = 2
  MaxWritten = 4
INVARIANTS
  KeptIsSuffix
  NoOverwrite
  ActiveBounded
SYMMETRY WriterSymmetry
