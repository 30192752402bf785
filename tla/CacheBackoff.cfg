\* One branch under every order of rate limit observations.
SPECIFICATION FairSpecH
CONSTANTS
  Cwd = {c1}
  Branch = {main}
  AgeCap = 5
  ColdCountCap = 1
  U64Max = 2000000000
  hot_recent_query_secs = 0
  hot_with_query_secs = 1
  hot_without_query_secs = 1
  warm_refresh_secs = 2
  warm_to_cold_secs = 2
  cold_early_secs = 2
  cold_late_secs = 5
  cold_early_limit = 1
  NoRepo = NoRepo
  Result <- HotResults
  MaxVersion = 0
  Observable <- SomeSnapshots
  stale_ttl_secs = 0
  refresh_lock_timeout_secs = 3
  entry_max_age_secs = 6
  RefreshTimeout = 1
INVARIANTS
  BackoffCoversReset
PROPERTIES
  ActiveEntryKeepsRefreshing
  RefreshWaitsForReset
  PolicyIntervalRespected
