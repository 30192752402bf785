# merge-ready: a TLA+ verification project

`merge-ready-prompt` prints, in a shell prompt, whether the pull request of the
checked-out branch is ready to merge. It never calls GitHub itself. It asks a
background daemon over a Unix socket; the daemon answers from its cache at once
and refreshes the cache behind the prompt's back, by running `git` and `gh`.
Everything that is hard in this program follows from that split: an answer is
given now, the work it starts ends later, and in between other prompts ask, the
scheduler ticks, the user switches branches, the rate limit runs out, the daemon
is replaced.

This directory models the program in TLA+, checks the models with TLC on small
instances and proves the most important results with TLAPS for every instance.
Paths below are relative to the repository.

## 1. Inventory

### Components

| component | source | state | operations |
|---|---|---|---|
| cache store and its transitions | `src/contexts/daemon/domain/cache/` | entry per repository id (output, fetch state, lock start, mode, last query, cold counter), `latest_rate_limit`, `backoff_until` | `on_query`, `on_refresh_completed`, `on_scheduler_tick`, `on_rate_limit_observed` |
| rate limit snapshot | `domain/rate_limit_snapshot.rs` | none (pure) | ratios, bottleneck, exhaustion, seconds until the reset |
| refresh policy | `domain/refresh_policy.rs` | none (pure) | base interval per mode, TTL, scaling by the remaining budget |
| scheduler, state actor, request handler | `infrastructure/daemon_state_actor.rs`, `request_handler.rs`, `scheduler.rs`, `server_state.rs` | the store, owned by one task; a command channel of 64 | Query, Update, Status, Entries, Stop; a tick every 2 s, which drains effects |
| background refresh | `src/lib.rs`, `daemon_server.rs` (`spawn_refresh`), `daemon_client.rs`, `repo_id.rs`, `evaluation/infrastructure/gh.rs`, `git.rs` | one task per refresh | derive the id, read the branch, query GitHub, render, send an Update |
| rate limit fetcher | `rate_limit_fetcher.rs`, `rate_limit_client.rs` | a cached snapshot and its age | poll every 60 s, forward to the actor |
| daemon lifecycle | `pid.rs`, `socket_listener.rs`, `restart.rs`, `daemon_lifecycle.rs`, `socket_watcher.rs`, `signals.rs`, `interface/cli/daemon.rs` | pid, socket and lock file | start, stop, replace an older version, notice that the socket is gone, signals |
| connection protocol, prompt binary | `connection.rs`, `src_prompt/main.rs`, `shared/prompt_ipc.rs`, `shared/protocol.rs` | one connection | request line, deadline, answer; start a daemon if none answers |
| pull request evaluation | `evaluation/domain`, `evaluation/application`, `evaluation/interface/prompt.rs`, `gh.rs`, `gh/`, `git.rs` | one task per open pull request of a refresh | query, compare, join; merge and CI state, the items shown, the refresh mode |
| subprocess runner | `shared/process_gh.rs` | one child process | run, kill after 30 s (`MERGE_READY_GH_TIMEOUT_SECS`) |
| log rotation | `evaluation/infrastructure/logger.rs` | `error.log` and its numbered backups, shared by every process that opens it; in each process an open file and the bytes it counts | open, write, rotate |
| display configuration | `toml_loader.rs`, `display_config.rs`, `display_config/render.rs`, `format_parser.rs`, `style_spec.rs`, `interface/cli/config/` | `merge-ready.toml`; `CONFIG_CACHE`, the last compiled configuration and the content it was compiled of | load, parse, compile, render; `config edit` |
| watch view | `cli/watch.rs` | one process, asking again and again | ask, draw, wait, end |
| server configuration | `server_config.rs` | none | read intervals from the environment |

### How they interact

1. The prompt sends `Query {cwd}`. The request handler runs `on_query` inside
   the actor and answers from the store. The actor goes on to its next command;
   only then does the connection drain the effect `SpawnRefresh`.
2. `spawn_refresh` derives the repository id from the directory **again** and
   spawns the refresh. The refresh asks git for the branch **once more**, runs
   `gh` twice in turn (the query, then one comparison per pull request, in
   parallel; each up to 30 s), renders, and sends `Update {id, output, mode, count}`
   over the daemon's own socket. If that fails, nobody is told.
3. The scheduler has the actor run `on_scheduler_tick`: it drops expired
   entries, takes back locks that are too old, and marks the entries that are
   due; then it spawns their refreshes the same way.
   Prompts, watch views, the tick and the Update of a refresh all wait for a place
   in the same channel of 64 commands.
4. The rate limit fetcher has the actor run `on_rate_limit_observed`, which
   stores the snapshot and may set `backoff_until`. The scheduler obeys that.
5. The answer goes back over the connection's task, which writes it and then
   drains the effect of the query. The prompt reads pieces until a newline, the end
   of the stream, its cap of bytes or its deadline, and prints a whole answer or none.
6. Every refresh loads the display configuration through the shared cache, and every
   process that serves, stops or asks for a daemon writes to one `error.log`.

### What is hard, and what correctness means

* **Lock bookkeeping** (cache). The mark "a refresh is on its way" is set before
  the refresh exists and cleared by a message that may not come, come twice, or
  come for an entry that is gone. Correct: the mark and its start agree; every
  mark belongs to a running refresh while nothing is lost; no entry is refreshed
  twice at a time; a lost result delays an active entry but does not end its
  refreshing.
* **Stale reads** (background refresh). HEAD is read three times. Correct: what is
  shown for a branch is that branch's (it is not always, section 5).
* **Late results**. Correct: they do not bring dropped entries back, and do
  not replace newer output.
* **Backoff** (rate limit). Two resources with two resets and observations in any
  order. Correct: the backoff outlasts the reset of the resource that is short;
  the scheduler starts nothing before it; afterwards refreshing resumes.
* **Intervals** (policy). Saturating arithmetic on ratios, budgets and costs.
  Correct: scaling only lengthens; an exhausted limit slows, never stops.
* **Daemon replacement** (lifecycle). Several processes race for three files.
  Correct: one daemon serves a socket, its pid file names it, whoever is told
  to stop ends, and prompts get a daemon again after whatever has happened.
* **Question and answer** (protocol). The prompt, the connection's task, the actor and
  the refresh each have their own pace and end, and the daemon may go in between.
  Correct: the prompt returns in time and prints a whole answer or none; what it
  prints was true at one moment since it asked; a prompt that gave up does not take the
  refresh with it that its question was to start; nobody waits in the channel for ever.
* **Age of the rate limit** (fetcher). The ticker, the client's cache with a TTL of the
  same length, a slow `gh` and its failures. Correct: the snapshot that intervals are
  scaled by has a bounded age, and `gh` is not asked more often than configured.
* **Rotation** (log). A row of renames, each of which can fail, and several processes
  that know nothing of each other. Correct: only the oldest lines are lost, no
  backup is overwritten, and the active file stays bounded.
* **Shared configuration** (display). Read before the lock, stored after it, edited
  meanwhile. Correct: a refresh renders with what it has read; a format that a user
  got wrong loses no text, and an absent number leaves no trace.
* **Classification** (evaluation). Several pull requests are compared at the same
  time, each comparison fails by itself, checks are listed with their old runs.
  Correct: what is shown and how the branch is polled depend on what GitHub said of
  each open pull request, not on the order of anything; "ready" is never shown
  without every signal for it.

Every place in the code where one of these can go wrong is listed with its line
in `PROJECT.json`, "hazards".

## 2. Modules

| module | models | lines of code it stands for |
|---|---|---|
| `RateLimitSnapshot` | the snapshot and its questions | `rate_limit_snapshot.rs` |
| `CacheEntry` | one entry: fields, judgements, builders, clocks | `entry.rs`, end of `transition.rs` |
| `RefreshPolicy` | intervals, TTL, scaling | `refresh_policy.rs` |
| `RefreshCycle` | store, actor, scheduler, refreshes, observations, the user | `transition.rs`, `request_handler.rs`, `daemon_server.rs`, `lib.rs`, `gh.rs` |
| `PromptCache` | abstract: the states of an entry, who may change them, what a prompt is told; `RefreshCycle` implements it | `FetchState` in `entry.rs` |
| `BackoffHistory` | `RefreshCycle` with a history variable: the reset the last backoff waits for, which the store does not keep | |
| `MCRefreshCycle`, `MCBackoffHistory` | small instances of the two for TLC | |
| `RefreshCycle_proofs` | theorems about `RefreshPolicy`'s operators, `Spec`, `SpecH` and `ReliableSpec`, and that `RefreshCycle` implements `PromptCache` | |
| `PromptExchange` | prompts, watch views, connections, the command channel, the tick and the Update of a refresh | `daemon_state_actor.rs`, `request_handler.rs`, `connection.rs`, `daemon_client.rs`, `scheduler.rs`, `src_prompt/main.rs`, `prompt_ipc.rs`, `cli/watch.rs` |
| `PromptService` | abstract: whoever asks gets what the store showed at one moment, or nothing; `PromptExchange` implements it | |
| `MCPromptExchange`, `PromptExchange_proofs` | a small instance; theorems about `Spec` | |
| `RateLimitFetcher` | the ticker, `gh`, the client's cache and the store's snapshot, by age | `rate_limit_fetcher.rs`, `rate_limit_client.rs` |
| `MCRateLimitFetcher`, `RateLimitFetcher_proofs` | a small instance; theorems about `Spec` | |
| `DaemonLifecycle` | processes, lock, pid and socket files, stop commands, clean-up of other versions | `socket_listener.rs`, `daemon_server.rs` (`run`), `connection.rs` (stop), `pid.rs`, `restart.rs`, `daemon_lifecycle.rs`, `socket_watcher.rs`, `signals.rs` |
| `MCDaemonLifecycle` | small instances of `DaemonLifecycle` for TLC | |
| `DaemonLifecycle_proofs` | theorems about `Spec` of `DaemonLifecycle` | |
| `PromptFetch` | one refresh from the inside: `git`, the query, a task per pull request, rendering | `gh.rs`, `gh/*.rs`, `process_gh.rs`, `git.rs`, `state.rs`, `display_item.rs`, `interface/prompt.rs` |
| `MCPromptFetch`, `PromptFetch_proofs` | the answers GitHub may give, for TLC; theorems about `Spec` | |
| `LogRotation` | `error.log`, its backups and the processes that write it | `logger.rs` |
| `MCLogRotation`, `LogRotation_proofs` | a small instance; theorems about `Spec` | |
| `DisplayFormat` | a format: parsed and compiled | `format_parser.rs`, `style_spec.rs` |
| `DisplayConfig` | the configuration file, its defaults and the cache of the refreshes | `toml_loader.rs`, `display_config.rs`, `interface/cli/config/` |
| `DisplayRender` | what compiled segments render to | `display_config/render.rs` |
| `MCDisplayConfig`, `DisplayConfig_proofs` | a small instance; theorems about `Spec` and all three | |
| `SequenceFacts` | lemmas the proofs share: induction, folds over sequences and finite sets, flattening | |

`RefreshPolicy` extends `CacheEntry` and `RateLimitSnapshot`; `RefreshCycle`
extends `RefreshPolicy`. Names are the source's wherever one exists.

`DaemonLifecycle` stands alone: a daemon's cache dies with it, and the cache knows
nothing of files. `PromptFetch` opens up what `RefreshCycle` does in one step
(`Fetch`); what it renders is an element of `RefreshCycle`'s `Result`, and the
assumption made there about Terminal results is part of `TerminalMeansClosed` here.

`PromptExchange` opens up what `RefreshCycle` does in one step the other way round: a
`Query` there is a connection, a place in the channel, an answer in pieces and an effect
that is drained later. It reduces the cache to one entry and its mark. `RateLimitFetcher`
says when `RefreshCycle`'s `RateLimitObserved` happens and how old the snapshot is by then.
`DisplayConfig` extends `DisplayFormat` and `DisplayRender` extends `DisplayConfig`; they and
`LogRotation` share no state with the rest.

Two modules are abstract specifications. `PromptCache` knows neither clocks nor locks nor
modes; the refinement mapping in `RefreshCycle` (`KeepsPromise`) keeps the fetch state and
output of each entry and the last answer. `PromptService` knows neither sockets nor tasks nor
deadlines; the mapping in `PromptExchange` (`ServiceSpec`) keeps what the store shows (nothing
while no daemon runs), how far each client is, and what it was given.

### From code to model: the cache

* **`Option`** is a set with at most one element: `is_some_and` is `\E`,
  `is_none_or` is `\A`.
* **`Instant`** is the number of whole seconds that have passed since it
  (`fetched_ago` and so on, at most `AgeCap`), because the code only ever asks for
  `elapsed()`. `Advance` adds one second everywhere. A rate limit reset, which is
  wall-clock time, is the number of seconds that remain, and -1 once it is past.
  Sub-second time is rounded: the backoff's margin of 1.5 s is 2 here, the first
  whole second at which it is over.
* **Output** is the branch that it describes and a version: the model tells
  whose prompt is shown and which of two is newer, not its wording.
* **Commands** of the actor are single steps, because one task owns the store.
  The effect that a command returns is a *job* in stage `effect`; its further
  stages are `running` (the id is derived, `SpawnRefresh`), `querying` (the branch
  is read, `ReadBranch`) and `fetched` (`gh` has answered, `Fetch`). It ends by
  `Update`, or by `LoseUpdate` when the Update cannot be sent. Between any two of
  these every other action may happen.
* `on_query`'s match is `QueryFresh`, `QueryRefreshing`, `QueryStale` and
  `QueryMiss`, with the code's guards. `SchedulerTick` is one pass over the map,
  with the total cost computed before any entry is changed. A tick during backoff
  returns the store as it is, and is a stuttering step.
* **`answer`** is what the last step told a prompt. It is no state of the program;
  the properties about answers need it.
* **`remote`** is what GitHub would say about each branch; it changes by
  `RemoteChange`. `head` is what `.git/HEAD` says; it changes by `SwitchBranch`,
  also to "no repository".
* `jobs` is a set, so two refreshes of one entry that agree in stage, age and
  reading count as one. They would send equal Updates in the same second.

### From code to model: the daemons

* **`daemon`** is the stage a process has reached in `bind_with` and `run`, its
  version and its `CancellationToken`. A process that is gone may start again as a
  new one: `Proc` bounds the processes that live at once, not the daemons there
  ever are.
* **Files** hold the process that wrote or bound them. When it ends, its name is
  replaced by `Stale` everywhere: a dead pid, a socket nobody listens to. That the
  system gives an old pid to a new process is not modelled.
* **Every file operation is a step**: `restart::cleanup` is two (`StopRemovesSocket`,
  `StopRemovesPid`; `CloseSocket`, `ClosePid`), `bind_with` is six. Reading a pid
  file and asking `kill(pid, 0)` about it is one. `Publish` is the writing of the pid
  file, the release of the lock and the start of the tasks, which no other process
  can tell apart.
* **`agent`** is what a `daemon stop` command or the clean-up task of a daemon does
  next; both go through `wait_until_gone`, and a field says for whom. **`request`** is
  the Stop request that it has sent: it waits in the socket or a connection task
  (`queued`), then the task removes the files, sleeps and tells the accept loop.
  The agent and its request part ways: after 500 ms (`AnswerLate`) the agent goes on,
  and the request is still handled, even when the agent's process is gone.
* **Timeouts** (500 ms, 2 s, 5 s, the 50 ms sleep, the launcher's wait for `ready`) are
  steps that may happen at any time after they could. So everything shown holds
  for every value of them.
* **`Faults`** says which accidents an instance has: `bind` or `set_permissions` fails,
  a signal, `accept` fails, a crash (also `SIGKILL`, and the launcher's kill), the
  socket file is deleted by somebody else.
* **`asked`** is history: the versions whose daemon somebody has set out to stop.

### From code to model: one refresh

* **Steps** are the points at which `fetch_prompt` waits: for `git`, for the GraphQL
  query, and for the tasks of the open pull requests. `GraphQlAnswers` is everything
  from the answer to the spawning of the tasks, with its early returns;
  `EvaluatedAtOnce` and `CompareAnswers` are the end of a task without and with a
  comparison, in any order; `AllJoined` sorts the results and returns them. `Return`
  includes `render`, which `refresh_callback` calls on whatever was returned.
* **The GraphQL answer** is a record with the fields of `schema.rs`, from
  `Answers`. Nodes come in any order and have the queried head; a node's checks are
  a sequence in which runs of one name repeat. Times are numbers, and 0 is a
  missing time, which the code reads as the empty string, before every other.
* **gh's stderr** is the set of the phrases `classify_gh_error` looks for; all
  combinations and exit codes occur. Unparsable output and a null repository are
  outcomes of their own.
* **Items** are the names of `DisplayItem`; a token's text, symbol and style are left
  out. `output` is the sequence of groups with their numbers, which are dropped for a
  single pull request as in the code.
* **`behind`** is history: what each comparison answered. `nodes` is kept for the
  properties after the code has sorted and consumed it.

### From code to model: question and answer

* **`conn`** is one connection as the daemon's task sees it: in the backlog, accepted,
  waiting for the actor, writing, closed. `sent` counts the pieces written; a piece
  is what one read can find, and `Length` says how many an answer takes, newline included.
  `Finish` is the end of the task with the draining of the effect, which the code does
  whether or not the answer could be written.
* **`channel` and `senders`** are the mpsc channel and the tasks whose `send` waits for a
  place, in order; `Receive` hands a free place to the first of them. A restart empties both.
* **`handle_command`** is one command, taken and handled: `Query`, `Entries`, `Update`
  or `Tick`. Staleness and being due are choices here, limited by what the
  entry allows; `RefreshCycle` has the conditions.
* **Clients** read whatever has arrived (`Read`), up to the newline, the cap
  (`MAX_RESPONSE_BYTES`, prompts only) or the deadline, which is `left` steps of the clock
  from the writing of the request. `ReadEof` is the end of the stream, which the code
  accepts in place of the newline. Connecting to the socket of a daemon that is gone fails.
* **`Exit`** is any end of the daemon. What it had written can still be read.

### From code to model: rate limit, log and configuration

* **A snapshot** is its age in seconds: all that `cached_if_fresh` asks for. The ticker
  is the time to its next tick; `MissedTickBehavior::Delay` is `NextTick`. `MaxAge` stops
  the counting of ages.
* **A log file** is the sequence of chunks written to it and keeps its identity when it
  is renamed; a writer has a file open, by the name it has now, or one without a
  name, or none. Each file operation of `rotate_files` is a step; so are reading the length
  and opening the file. `Fail` is the failure of any of them, with what the code then
  leaves behind; `Exit` is the end or killing of the process.
* **A format** is a sequence of tokens: delimiters, variables, pieces of text. Positions
  where a block begins and ends are found by quantifiers instead of the parser's
  loop. A rendered text is a sequence of tokens with their style. The words that name
  a color are functions from word to color.
* **One token of the configuration stands for thirteen**, which the code treats alike;
  `error`, which has no label, is the other. The fingerprint is the content itself: hash
  collisions are left out. `fs::write` of the defaults is two steps, as a refresh can
  read the file when it is created and not yet filled.

### Left out

Wall-clock copies of the fetch time, the pull request number and the number of
entries are only shown by `watch` and `status`; `Status` only reads. Not modelled at all:

* **server configuration** (`server_config.rs`): a pure reading of environment variables;
  its values are the constants of the modules here;
* of the protocol: requests that are not JSON or too long, which are refused before
  anything changes, and `sanitize_output`, a filter over characters;
* of the lifecycle: pids that the system uses again, a pid file that cannot be written, the
  base directory and its mode, what the launcher prints;
* of the display: TOML itself, the spelling of colors, upper case in styles,
  `render_error_token`, where the file is looked for;
* the layout of `watch`'s table, the format of a log line.

Three things are coarser than the code: a write to the log is whole (`Append1`); a daemon's end
coincides with the removal of its pid file (`ClosePid`); and a write of the default
configuration that fails leaves the file empty, never cut off in the middle (`WriteDefaults`).
No property tells these apart. `Entries` answers with one entry; the rows that `watch` makes
of its pull requests (`mapping.rs`) are not modelled.

`MERGE_READY_RATE_LIMIT_AWARE=0` is the instance in which nothing is ever observed
(`Observable = {}`), which `cache_reliable`, `cache_lossy` and `branch_mixup` use.

## 3. Runs

Times are in seconds of the model; the intervals of the program (2 s to 2 days)
are shortened to 0 to 6 with their order kept: lock timeout and intervals below
the maximal age, early cold at most late cold, the recent window below all.

| run | specification | instance | properties |
|---|---|---|---|
| `cache_backoff` | `FairSpecH` | 1 branch, Hot; 5 snapshots; intervals up to 5 | `BackoffCoversReset`, `RefreshWaitsForReset`, `PolicyIntervalRespected`, `ActiveEntryKeepsRefreshing` |
| `cache_reliable` | `ReliableFairSpec` | 1 branch; all results; 3 changes on GitHub; refreshes shorter than the lock timeout | `LockOwned`, `SingleFlight`, `NoStaleOverwrite`, `FirstFetchCompletes`, `ChangesReachThePrompt` |
| `lifecycle_stops` | `FairSpec` | 2 processes, 1 version, 1 stop command, all faults | `TypeOK`, `PidMatchesSocket`, `OneDaemon`, `PromptsAreServed` |
| `lifecycle_versions` | `FairSpec` | 2 processes, 2 versions, no faults | `StopEndsDaemon`, `OtherVersionEnds` |
| `prompt_fetch` | `Spec` | 0 to 3 pull requests, 9 shapes, 1080 histories of checks, every failure of gh | `TypeOK`, `ReadyIsEarned`, `OpenPrsShown`, `GroupsMatchPrs`, `HotWhileRunning`, `SavedCompareIsMoot`, `TerminalMeansClosed` |
| `cache_lossy` | `FairSpec` | 1 branch; all results; refreshes as long as the lock timeout | `CacheTypeOK`, `EntryCoherent`, `NoOrphanEntries`, `KeepsPromise`, `Quiescence` |
| `prompt_exchange` | `FairSpec` | 1 prompt, 1 watch view, 1 refresh; a channel of 1; answers of 2 and 3 reads, a cap of 2; a deadline of 1 step | `MarkIsCarried`, `ServiceSpec`, `PromptReturns`, `TickServed` |
| `log_rotation` | `Spec` | 2 writers, symmetric; 2 backups; limit 2, writes of 1 to 3, 4 of them | `KeptIsSuffix`, `NoOverwrite`, `ActiveBounded` |
| `rate_limit_fetcher` | `Spec` | interval 3, gh up to 5, 3 failures in a row | `LatestIsRecent`, `GhIsSpaced` |
| `display_config` | `Spec` | 2 refreshes, symmetric; 242 formats; no file, a broken file, edits | `LoadedIsRead`, `ParsedWhole`, `StyleCoversBlock`, `NumbersOnlyAdd` |
| `branch_mixup`, `double_start` | `Spec` | expected to be violated, section 5 | `OutputMatchesBranch`; `StartRefused` |

What they show:

* **`cache_backoff`**. The snapshots are: plenty left; core used up; both used up,
  with different resets; GraphQL exactly at the threshold; GraphQL used up with a
  reset in the past. They arrive in every order. `AgeCap` is 5 because the largest
  scaled interval of this instance is 4 and the floor of an exhausted limit 5, so
  the cap hides neither. The maximal age is above the cap: nothing is dropped, so
  that "keeps refreshing" cannot be met by dropping. `BackoffCoversReset` compares the
  backoff with the snapshot seen last; `RefreshWaitsForReset` with the one that called for
  the backoff (`awaited` of `BackoffHistory`), so that a healthy or outdated snapshot in
  between must not end it.
* **`cache_reliable`**. Nothing is lost and the branch stays. Three changes on
  GitHub are enough to have a change before, during and after a refresh. Entries
  are not dropped: a dropped entry that is asked for again starts a second refresh
  while the first still runs, and `SingleFlight` would be false, as it would be
  for a refresh as long as the lock timeout.
* **`cache_lossy`**. Refreshes can be exactly as old as the lock timeout (a slow `git`, or the
  environment's choice of the two limits), so the
  scheduler takes locks back under running refreshes; entries expire and return, and the
  repository comes and goes. `KeepsPromise`: seen through the state and the output of the
  entries, all of that is `PromptCache`, in which a prompt is told `? loading` exactly until
  something has been fetched and what is stored from then on. `Quiescence`: once the
  prompts stop, every entry is dropped and no refresh runs any more. Several branches meet
  in `branch_mixup`, and in the theorems of section 4, which hold for any number of them.
* **`lifecycle_stops`**. Two processes that come and go for ever, with a repeated stop
  command (196,000 states). Two are enough for a daemon and its successor, or an
  orphan and the daemon that took its socket; a third competes with them in
  `double_start`. `OneDaemon` is about versions that nobody has tried to stop: with
  stops it is false (section 5). `PromptsAreServed` is about what happens after the
  last accident and the last stop, whatever is left over then; while they go on,
  nothing can be promised.
* **`lifecycle_versions`**. Prompts of two versions each start their daemon, whose
  clean-up task stops the other's, whose prompts start it again, without end
  (112,000 states). The daemon that another version finds alive ends unless its
  pursuer is stopped first. It is a deeper result than it looks: the pursuer
  may remove the socket of a successor between its bind and its pid file; Stop
  then reaches nobody, and only the socket watcher ends it, which is the mutant.

* **`prompt_fetch`**. One pull request with every sequence of up to three runs of one
  check and up to two of two checks, with and without times, and every conclusion;
  two of nine shapes each; three of five shapes each, listed in every order
  (110,000 states). With three, a group is started, passed over and continued, and six
  orders of listing meet six orders of ending; a fourth adds no new relation, as the
  fold looks for one group at a time. The properties never mention the order of the nodes or of
  `indexed`: that they hold says that no order matters.

* **`prompt_exchange`**. One place in the channel makes senders wait as soon as two have
  something to say (120,000 states); the prompt, the watch view, the tick and the
  Update are four that compete. An answer of three reads is longer than a prompt's cap of two, and
  `? loading` is exactly as long as the cap, so whole, cut off and exactly fitting
  answers all occur, and so does an end of stream before and after the newline. The
  daemon comes and goes at every point. A second prompt would add another like the watch
  view; `MarkIsCarriedHolds` and `ServiceKept` (section 4) cover any number.
* **`log_rotation`**. Two backups are the least with which a backup is shifted, and a
  limit of 2 with writes of 1 to 3 has a write below, at and above it
  (2.8 million states). `KeptIsSuffix` and `NoOverwrite` are about one process at a time,
  with every failure and restart; two that share the log do lose lines.
  `ActiveBounded` is what remains true of those: each keeps the file within its own limit.
* **`rate_limit_fetcher`**. `gh` may run longer than the interval, so that ticks are
  missed, and may fail three times in a row (590 states; the theorems cover every
  length). The bound of `LatestIsRecent` is exact: a snapshot one second younger than it
  occurs, since the poll after an answer finds that answer just fresh.
* **`display_config`**. The formats are all pairs of eleven pieces, alone and inside
  a block: empty, absent and unknown variables, nested and unclosed blocks, delimiters
  that stand alone (97,000 states). `ParsedWhole`, `StyleCoversBlock` and `NumbersOnlyAdd`
  compare what is compiled with definitions that know nothing of the parser.

`CHECK_DEADLOCK` is on everywhere but in `lifecycle_versions`, where both daemons may
serve for ever when nothing goes wrong, and in `prompt_fetch`, where a refresh ends.
40 mutants, one per property and run, show
that each property notices a plausible mistake: a snapshot whose reset is always
core's, a counter that does not saturate, an upsert where the code ignores unknown
ids, a task that ends with its client, a rename before the oldest backup is cleared, and so
on. They are the definitions whose names extend the name of the original and whose
comment says "Mutant".

### Fairness

`Fairness` is weak fairness of `Advance`, `SchedulerTick` and `JobStep`:

* time passes (`Advance`), unless a refresh is at its age limit, which stands for
  the 30 s after which `process_gh.rs` kills `gh` (`git` has no limit: that it ends
  is assumed);
* the scheduler is a loop over a tokio interval that has no exit but the daemon's
  (`scheduler.rs`);
* a spawned task is polled and its subprocess ends or is killed, so that some step
  of some refresh happens. That is a disjunction over refreshes on purpose:
  together with the age limit it makes each refresh end, since time cannot pass
  while one of them is too old.

For the daemons, `Fairness` is weak fairness of

* each process (`DaemonStep`): its tasks are polled, its loops have no other exit,
  and a lock that is free is given to a waiter;
* each stop command (`CommandStep`) and each accepted request (`Stopping`);
* `PromptStarts`: as long as a version's socket leads nowhere, a prompt of that
  version starts a daemon some day. Without prompts there need be no daemon.

Faults, stop commands and late answers are not fair. `PromptFetch` has no fairness and
no liveness: `gh` is killed after 30 s, but `git` is run without a limit, so the code
does not justify that a refresh ends.

For `PromptExchange`, `Fairness` is weak fairness of `handle_command` (the actor's loop has
no other exit), of `Advance` (time passes while a client waits) and of each client's steps
after it has connected. Nothing is asked of the connections' tasks, of accepting or of the
refresh: `PromptReturns` holds for a daemon that accepts and then says nothing.
`TickServed` needs no fairness of the senders, because a place that comes free goes to
the one who has waited longest.

`RateLimitFetcher`, `LogRotation` and `DisplayConfig` have no liveness and no fairness; that
`gh` is stopped after its timeout is a guard of `Pass`.

Of the cache, queries, observations, branch switches, changes on GitHub and losses are not
fair. `ActiveEntryKeepsRefreshing` assumes that from some point on gh no longer
reports a limit that calls for backoff: each such report moves the end of the
backoff, and the code promises nothing if they never end.

## 4. Proofs

The theorems hold for every value of the constants: any number of directories, branches,
refreshes, processes, prompts and backups, every interval, limit and cap.
`RefreshCycle_proofs`, about `Spec`, and `TickWaits` about `SpecH`:

| theorem | property | argument |
|---|---|---|
| `TypeCorrect` | `CacheTypeOK` | from `IInv` |
| `EntriesCoherent` | `EntryCoherent` | from `IInv` |
| `AnswersLoading` | `LoadingUntilFirstFetch` (proved, in no run) | a query step from `IInv` |
| `NoOrphans` | `NoOrphanEntries` | action by action |
| `BackoffCovers` | `BackoffCoversReset` | from `IInv /\ BackoffInv` |
| `TickWaits` | `RefreshWaitsForReset` | from `IInv /\ AwaitedInv` |
| `IntervalsRespected` | `PolicyIntervalRespected` | a tick from `IInv /\ OptionsInv`, `ScalingOnlyLengthens` |

About `ReliableSpec` (nothing is lost, the branch stays):

| theorem | property | argument |
|---|---|---|
| `LocksOwned` | `LockOwned` | inductive with `OwnHead` |
| `OneRefreshAtATime` | `SingleFlight` | `LockOwned /\ JobsHoldLocks`, under `ShortRefreshes` |
| `ResultsInOrder` | `NoStaleOverwrite` | the above and `Ordered`, under `ShortRefreshes` |

`PromiseKept`, that `Spec` implements `PromptCache` (`KeepsPromise`).
Each step maps to a step of the abstract cache or leaves its variables alone: a query to
`Ask`, an Update to `Complete`, ticks and the passing of time to `Maintain`, which may start
and give up refreshes and drop entries, and nothing else. What a step of the store may do to
one entry is `Moved`; `AnswerFacts` and `MaintainFacts` lift it to all of them.

About `RefreshPolicy`, `ScalingOnlyLengthens`, for every entry, cost and snapshot:
the scaled interval is a number, at least the base interval, and at least
`cold_late_secs` while the limit is used up. Saturation at `U64Max` does not break it,
which is why every intermediate result is shown to be a number first.

`DaemonLifecycle_proofs`, for any number of processes, commands and versions and any
set of faults:

| theorem | property | argument |
|---|---|---|
| `LifecycleTypes` | `TypeOK` | inductive with `AgentsKnowPid` |
| `FilesAgree` | `PidMatchesSocket` | from `FileInv` |
| `OneDaemonAtATime` | `OneDaemon` | inductive with `LInv` |

`PromptExchange_proofs`, about `Spec`:

| theorem | property | argument |
|---|---|---|
| `TypeHolds` | `TypeOK` (proved, in no run) | from `Inv` |
| `MarkIsCarriedHolds` | `MarkIsCarried` | from `CarriedInv` |
| `ServiceKept` | `ServiceSpec` | refinement, from `Inv` before and after each step |

`LogRotation_proofs`, about `Spec`:

| theorem | property | argument |
|---|---|---|
| `NoOverwriteHolds` | `NoOverwrite` | from `NextNameFree` |
| `OpenFilesHold` | `Solo`, `OpenFileExists` (proved, in no run) | inductive |
| `LogTypeOK` | `TypeOK` (proved, in no run) | from `LogInv` |
| `KeptHolds` | `KeptIsSuffix` | from `Gapless`, part of `LogInv` |
| `LimitHolds` | `ActiveBounded` | from `Counted`, part of `LogInv` |

`PromptFetch_proofs`, about `Spec`, for answers of any length:

| theorem | property | argument |
|---|---|---|
| `FetchTypeOK` | `TypeOK` | from `Inv` |
| `ReadinessIsEarned` | `ReadyIsEarned` | from `Inv` and what the fold over a node's checks leaves |
| `OpenOnesShown` | `OpenPrsShown` | from `Inv` and what the sorts keep |
| `LineMatchesTable` | `GroupsMatchPrs` | the fold over the pull requests, an invariant after each |
| `HotExactlyWhileRunning` | `HotWhileRunning` | from `Inv` and the fold over the checks |
| `SavedComparesAreMoot` | `SavedCompareIsMoot` | from `Inv` |
| `TerminalOnlyIfClosed` | `TerminalMeansClosed` | from `Inv` |

`DisplayConfig_proofs`, about `Spec`, for any number of refreshes, any contents of the file
and formats of any length:

| theorem | property | argument |
|---|---|---|
| `LoadedIsReadHolds` | `LoadedIsRead` | from `Inv`: `LoadCoherent` and `CacheCoherent` |
| `ParsedWholeHolds` | `ParsedWhole` | `AllParsedWhole`, by induction on the length of the format |
| `StyleCoversBlockHolds` | `StyleCoversBlock` | `CompiledTyped`: a block's content has no styled block |
| `NumbersOnlyAddHolds` | `NumbersOnlyAdd` | `FormatOnlyAdds`, level by level, and `FoundInTurn` |

`RateLimitFetcher_proofs`, about `Spec`: `LatestIsRecentHolds` (`LatestIsRecent`) and
`GhIsSpacedHolds` (`GhIsSpaced`), from `Spaced` and `AgeInv`. In each of these modules
but `RefreshCycle_proofs` and `DaemonLifecycle_proofs` the inductive invariant itself is
stated by `InvHolds`.

The assumptions are stated in the modules that declare the constants:
`CapsAssumption`, `PolicyAssumption`, `CycleAssumption`, `LifecycleAssumption`,
`ExchangeAssumption`, `LogAssumption` and `FetcherAssumption`; `FormatAssumption` says that
formats, symbols and labels are sequences of tokens; in `LogRotation` also that
the processes are finitely many (`WritersAssumption`), in `PromptFetch` that no value is no
item and no number (`NoValueAssumption`). The last four of those named first
only say that the different kinds of processes and the special values are
different things, that limits and intervals are positive, and that an answer takes a read for
its text and one for its newline. The others say that intervals are
positive u64s and not hidden by the caps, that a refresh ends before its age is capped
(`RefreshTimeout <= AgeCap`), that `u64::MAX` is not 0, and that a Terminal result
renders to the empty string, which `render` guarantees.

**`IInv`** is `CacheTypeOK /\ EntriesHeld /\ RenderedCoherent`. Coherence of the
entries, `EntryCoherent`, is not inductive alone. `EntriesHeld` adds that no entry is
`PendingRetry`: a query of such an entry would answer with its empty output and mark it
again. This is a fact about the code that the documentation denies (section 5), used
by the proofs and claimed by no property. And `on_refresh_completed` copies the output and mode
that a refresh brings, so the proof must know that a rendered result that is
Terminal is empty while it is still on its way. That is `RenderedCoherent`.
Coherence is what makes `AnswersLoading` true: an entry that was never fetched is
stale, because `new_loading` sets `fetched_at` back by `stale_ttl + 1`, so the
fresh case of `on_query` can not answer with its empty output.

**`BackoffInv`** says that the backoff outlasts the reset of the *bottleneck* by
the safety margin. `BackoffCoversReset` speaks of each resource by itself, is
silent on a resource without a limit, and is not inductive. The proof shows that
counting down commutes with choosing the bottleneck (`LaterBottleneck`), and that
the bottleneck resets no earlier than whichever resource is short
(`BottleneckFacts`).

**`AwaitedInv`** says the same of the reset that the backoff was entered for, which the
history variable remembers when a later snapshot has taken the place of the one that
called for it. The history follows the steps of the cache and restricts none
(`StepsOfTheCache`).

**`OptionsInv`** is what `IntervalsRespected` needs besides types. What the code has as an
`Option` is a set here, and a set could hold two moments or two snapshots, of which an entry
obeys only one: the invariant says that it never does. And entries come one at a time, so there
are finitely many; hence what a round costs, a fold over a set that nobody bounds, is a number
(`CostTyped`). `DueHasWaited` is then about one entry, any cost and any snapshot.

**`LockOwned`** is inductive once the branch is fixed. `OwnHead` says that HEAD is
a branch and that every entry and job is its own; without it, a refresh could
carry another branch's Update and leave its own lock behind. The steps of
`ReliableSpec` are sorted by `StepShape` into those that ask (mark an entry and
add its job), those that move a job on, the Update, the passing of time and those
that do neither, and each invariant is shown step by step.

**`ShortRefreshes`** is the hypothesis of the other two: a refresh is shorter than
the lock timeout, and an entry's maximal age is out of reach. With the defaults it
holds as far as `gh` goes: two rounds of 30 s against a lock of 120 s and an age of
two days. `git` has no time limit, and each of these can be set by an environment
variable; what is left without the hypothesis is shown by `cache_lossy`. It gives the converse of `LockOwned`,
`JobsHoldLocks`: every job's entry is there and is locked, with a lock as old as the job.
Since a locked entry is not asked for again, there is one job at a time.
`Ordered` says that what a job has read is no older than what its entry holds.

**`LInv`** relates files, stages and requests. `PidMatchesSocket` alone is not
inductive: `Bind` and `Publish` are two steps, and either file may be removed in
between. `FileInv` adds what `bind_with` knows under the lock (`PidCleared`: the pid
file it found dead or gone stays so; `SocketUnclaimed`: nobody else binds before its
pid file is written) and that a live process named by a file is of that version and
has come that far (`PidOwner`, `SocketOwner`). `AskedInv` says that whoever acts on a
version has been counted in `asked`, so a step that removes a pid file of a version
outside `asked` is the end of its owner or part of `bind_with`. The
steps of `Next` are sorted by `StepShape` into those that at most remove files
(`Removal`), the end of a process (`Death`) and the steps of `bind_with`.

**Question and answer.** Marking an entry and starting its refresh are done by different
tasks, so `MarkIsCarried` must be strengthened by everything that keeps the carrier
unique and alive. `CarriedInv` says that at most one task carries a refresh, and one does
if and only if the entry is marked. A second carrier could come of a task that is in the
line to the actor twice, or is answered while it already writes; `LineInv` says that
nobody is (`Once`) and that whoever is queued waits. `SendFacts` and `ReceiveFacts` show
that of any channel size. `ConnInv` ties a client to its connection: a reply is there
exactly from the writing on, and a client that still listens has its connection.

The refinement sees of a client only its stage, its output and whether its
connection has a reply (`PhaseOf`, `ServedOf`). An answer by the actor to a client that
still waits is `Serve`; one to a client that has given up is a stutter, as is every
piece written or read. `EndsServes` has the heart of it: an output that is not empty is the
reply the actor left there, since a byte was read only if there is a reply (`ConnInv`).

**The log.** A rotation clears the last name first and then frees each name before
something is renamed to it: `NextNameFree` says so at each point of it. That is
inductive only if no other process creates files meanwhile, hence `Solo`, and if the
writer has no file open while it rotates (`OpenFileExists`), so that nothing is appended under
a name that is about to be replaced. `LogInv` adds what the files hold. `Gapless`: while one
process has the log, the files read from the oldest to the newest are consecutive writes that
end with the last one, for which each file `i` is given the number `e[i]` it ends with
(`Ends`); a rename moves such a number, and only the clearing of the last name loses any.
`Counted` is about several processes, each of which believes a size of its own. Each byte of
`error.log` that came from a write within the limit is given a place of its own among the
`max_bytes` places of the process that wrote it, and each process still has room for what it
has measured (`Room`): a bound on the total, which is a fold, becomes an injection.
The steps are sorted by `StepFacts` into those that change no file (`Quiet`, `Measures`,
`Opens`) and `Appends`, `Unlinks` and `Renames`, and each part is shown for these.

**One refresh.** `Inv` of `PromptFetch` says that each task that has ended brought its own
verdict (`Judged`), once, on the answer its comparison gave; so what is rendered is a
function of the answers, whatever the order of the tasks. The properties follow from what the
functions compute: the classification of checks is a fold whose state after each check is
characterised, the grouping for the line is a fold for which the correspondence with the table is an
invariant, and the sorts are shown to keep their elements and to place a greater key later
(`PlacesAscend`).

**Formats.** `parse_segments`, `compile_segments` and `eval_segments` are recursive functions,
of which TLA+ says only that they are a solution of their recursion if there is one.
`ParserExists`, `CompilerExists` and `RendererExists` show that there is: the parser calls
itself for shorter formats (`PartsAreShorter`); the compiler for the content of a styled
block, which holds no `]` and hence no styled block (`AllShaped`); the renderer for lists
that are nested less deep (`RendersDeeper`). The inside of a conditional block
holds no `)`, so it is parsed to text (`InnerIsText`): that is why `compile_segments` may take it
as it is. For `NumbersOnlyAdd`, `Found` says that a text's tokens have places in another text, in
the same order; it is kept by joining texts and by painting (`FoundConcat`, `FoundFlatten`,
`PaintFound`), and what is found so is found in turn, as `LeavesOut` looks for it (`FoundInTurn`).

**Induction.** The theorems of the library that take a predicate can not be
cited, but sets can: `InductionOnNat` and `InductionTo` are about a set of numbers, and each
induction defines the set of those for which the claim holds. The folds of the community modules are a
`CHOOSE` of a function that solves their recursion; `FoldExists`, `SetFoldExists` and
`FlattenFold` in `SequenceFacts` show that there is one, and a lemma for each fold of a model says
what its steps are (`TotalFold`, `LeavesOutFold`).

**The rate limit.** `AgeInv` bounds, while the task waits, not the age of the snapshot but
the age it will have at the next tick, and while `gh` runs the age it had when `gh` was
started. With that each failure adds at most the longer of an interval and a run
(`Debt`). `Spaced` says that the time since `gh` was started and the time to the next
tick make up an interval.

Only model-checked: the liveness properties, under fairness, which the prover does not handle.
Each safety invariant and action property of a passing run has its theorem. What the runs add
to these is that the interesting states are reached, and that each property fails
when the code is changed (the mutants). The proofs say nothing of the instances' data
either: which formats or answers are worth a look is in the MC modules alone.

## 5. Where the documentation and the code part

Two of these are runs that TLC finds violated, and a "finding" with the quoted text in
`PROJECT.json`:

* **`branch_mixup`**. The id is derived when the refresh is spawned, the branch is
  read when it runs: a switch in between stores one branch's prompt under
  the other's id.
* **`double_start`**. A second `daemon start` is said to fail with "already running".
  A daemon that handles Stop removes its socket and pid file and lives for another
  50 ms, in which a prompt's daemon can take its place. `wait_until_gone` of the stop
  command then finds the old process gone and removes the pid file by its path:
  the new daemon's. The next start finds no pid file, unlinks the running
  daemon's socket and binds its own; the orphan's watcher sees that there is a
  socket file and stays.

The others were met while modelling. The models do what the code does, and no run
is spent on them:

* `entry.rs:11` documents that a first refresh that times out leads to `PendingRetry` and is
  tried again. The scheduler skips entries without output before it looks at
  their lock (`transition.rs:197`), so nothing ever enters `PendingRetry` (`EntriesHeld`, in
  section 4), and a first refresh whose Update is lost leaves
  `? loading` for as long as somebody keeps asking. No property takes a side:
  `EntryCoherent` says what an entry in either state looks like, `PromptCache` allows the
  documented step, and `FirstFetchCompletes` is about refreshes that are not lost.
  The repository's own test of the lock timeout is about a second refresh
  (`tests/e2e/scenarios/refresh_timeout.rs:7`).
* The repository's `README.md:106` and `effect.rs:19` say that the daemon stops all background
  refreshes during backoff; a query still starts one.
* `entry.rs:164` says that the cold counter is reset when a query brings the entry back; a query
  that finds the entry fresh does not reset it.
* `README.md:134` promises a log of at most 1 MiB. Each of n processes keeps it within its own limit
  (`ActiveBounded`). After a rotation that failed, a writer has no file, and writes that would fit
  are refused until one does not fit and rotates again.
* `rate_limit_fetcher.rs:4` says that a poll waits an interval from the end of the one before;
  tokio's `Delay` counts from its tick. The repository's `README.md:104` gives the interval of the
  polls as that of the requests; with a TTL of the same length only every second poll asks `gh`.
* The repository's `README.md:100` and `domain/daemon.rs:17` speak of an idle timeout that the server
  does not have; `gh.rs:29` asks for
  the first 100 pull requests and checks only; a limit of 0 counts as exhausted but not
  as the bottleneck (`rate_limit_snapshot.rs:64`); an interval of 0 from the environment
  (`server_config.rs:124`) reaches `tokio::time::interval`, which panics.

## 6. What is left

1. **Composition of `RateLimitFetcher` and `RefreshCycle`**: the age of the snapshot that a
   scaled interval rests on, as one property of both.
2. **A pid that the system uses again**, and a pid file that cannot be written, in
   `DaemonLifecycle`.

Not planned: the reading of environment variables and the layout of `watch`. They have no
state and no concurrency, and unit tests reach them.
