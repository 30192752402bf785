\* One branch, nothing is lost, entries stay.
SPECIFICATION ReliableFairSpec
CONSTANTS
  Cwd = {c1}
  Branch = {main}
  AgeCap = 3
  ColdCountCap = 1
  U64Max = 2000000000
  hot_recent_query_secs = 0
  hot_with_query_secs = 1
  hot_without_query_secs = 2
  warm_refresh_secs = 2
  warm_to_cold_secs = 2
  cold_early_secs = 2
  cold_late_secs = 3
  cold_early_limit = 1
  NoRepo = NoRepo
  Result <- AllResults
  MaxVersion = 3
  Observable <- NoSnapshots
  stale_ttl_secs = 0
  refresh_lock_timeout_secs = 3
  entry_max_age_secs = 4
  RefreshTimeout = 2
INVARIANTS
  LockOwned
  SingleFlight
PROPERTIES
  NoStaleOverwrite
  FirstFetchCompletes
  ChangesReachThePrompt
