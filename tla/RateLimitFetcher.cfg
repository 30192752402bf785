\* Polls every three seconds, a gh that takes up to five, three failures in a row.
SPECIFICATION Spec
CONSTANTS
  None <- NoSnapshot
  interval = 3
  gh_timeout = 5
  MaxFailures = 3
  MaxAge = 30
INVARIANTS
  LatestIsRecent
PROPERTIES
  GhIsSpaced
