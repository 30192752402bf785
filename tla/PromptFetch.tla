----------------------------- MODULE PromptFetch -----------------------------
(***************************************************************************)
(* One refresh of one branch, seen from the inside: what fetch_prompt asks *)
(* of git and gh, how the pull requests it finds are evaluated at the same *)
(* time by tasks of their own, and what render makes of them.  The module  *)
(* RefreshCycle treats all of this as one value, an element of Result.     *)
(*                                                                         *)
(* GitHub and gh are the environment: the GraphQL answer lists the pull    *)
(* requests and their check runs in any order, gh fails in every way its   *)
(* runner distinguishes, and each comparison with the base branch answers  *)
(* or fails on its own, in any order.                                      *)
(***************************************************************************)
EXTENDS SequencesExt

CONSTANTS
  Branch,     \* the names of branches
  NoName,     \* the empty string in the place of a name
  NoValue,    \* None
  Answers     \* the lists of pull requests GitHub may return

VARIABLES
  step,       \* where fetch_prompt is: "Git", "GraphQl", "Tasks" or "Rendered"
  branch,     \* the branch git names; NoName on a detached head or if git fails
  nodes,      \* the pull requests of the GraphQL answer, as GitHub lists them
  open_prs,   \* the open ones, sorted
  behind,     \* history: what each comparison asked of gh answered
  indexed,    \* the results of the tasks that have ended, in that order
  prompt,     \* what fetch_prompt returned
  shown       \* what render made of it

vars == <<step, branch, nodes, open_prs, behind, indexed, prompt, shown>>

------------------------------------------------------------------------------
(* What gh reports. *)

\* A check: a CheckRun with status and conclusion, a StatusContext whose state
\* is in `status`, or a type the program does not know, which has no name.
\* `at` orders startedAt or createdAt; 0 stands for a missing one.
CheckContext ==
  [type : {"CheckRun", "StatusContext", "Unknown"}, name : STRING \cup {NoValue},
   status : STRING, conclusion : STRING \cup {NoValue}, at : Nat]

GhPrNode ==
  [number : Nat, state : STRING, is_draft : BOOLEAN, mergeable : STRING,
   merge_state_status : STRING, review_decision : STRING \cup {NoValue},
   base_ref_name : Branch \cup {NoName}, head_ref_name : Branch \cup {NoName},
   contexts : Seq(CheckContext)]

ASSUME AnswersAssumption ==
  /\ NoName \notin Branch
  /\ \A ns \in Answers :
       /\ ns \in Seq(GhPrNode)
       /\ \A i, j \in DOMAIN ns : ns[i].number = ns[j].number => i = j

\* The parts of gh's stderr that are told apart.
StderrMark == {"HTTP 401", "no pull requests found", "rate limit", "no GitHub remote"}

GhProcessError ==
  [kind : {"NotInstalled", "Timeout", "Io"}]
    \cup [kind : {"Failed"}, exit_code : {1, 2, 4}, stderr : SUBSET StderrMark]

classify_gh_error(exit_code, stderr) ==
  IF exit_code = 4 \/ (exit_code = 1 /\ "HTTP 401" \in stderr) THEN "AuthRequired"
  ELSE IF exit_code # 1 THEN "ApiError"
  ELSE IF "no pull requests found" \in stderr THEN "NoPr"
  ELSE IF "rate limit" \in stderr THEN "RateLimited"
  ELSE IF "no GitHub remote" \in stderr THEN "NotGithubRepository"
  ELSE "ApiError"

\* The GhError that run_gh makes of a failure of the process.
gh_error(e) ==
  CASE e.kind = "Failed" -> classify_gh_error(e.exit_code, e.stderr)
    [] e.kind = "Io" -> "ApiError"
    [] OTHER -> e.kind

repository_error(e) ==
  CASE e \in {"NotInstalled", "AuthRequired"} -> "Unauthenticated"
    [] e = "RateLimited" -> "RateLimited"
    [] OTHER -> "Unexpected"

------------------------------------------------------------------------------
(* Data. *)

\* f with y at x.
Put(f, x, y) == [z \in DOMAIN f \cup {x} |-> IF z = x THEN y ELSE f[z]]

\* The place of x among the arguments of key.
Place(key, x) == Cardinality({y \in DOMAIN key : key[y] <= key[x]})

\* The arguments of key in the ascending order of their keys, which are
\* distinct numbers wherever the program sorts.
Ascending(key) ==
  [k \in 1 .. Cardinality(DOMAIN key) |-> CHOOSE x \in DOMAIN key : Place(key, x) = k]

\* A list of x, or of nothing if x is None.
Some(x) == IF x = NoValue THEN << >> ELSE <<x>>

------------------------------------------------------------------------------
(* The state of one pull request. *)

context_to_bucket(c) ==
  CASE c.type = "CheckRun" ->
         (CASE c.status # "COMPLETED" -> "Pending"
            [] c.conclusion = "ACTION_REQUIRED" -> "ActionRequired"
            [] c.conclusion = "CANCELLED" -> "Cancel"
            [] c.conclusion \in {"FAILURE", "TIMED_OUT", "STARTUP_FAILURE"} -> "Fail"
            [] OTHER -> "Other")
    [] c.type = "StatusContext" ->
         (CASE c.status \in {"PENDING", "EXPECTED"} -> "Pending"
            [] c.status \in {"ERROR", "FAILURE"} -> "Fail"
            [] OTHER -> "Other")
    [] OTHER -> "Other"

aggregate_ci(buckets) ==
  IF buckets \cap {"Fail", "Cancel"} # {} THEN "CiFail"
  ELSE IF "ActionRequired" \in buckets THEN "CiAction"
  ELSE IF "Pending" \in buckets THEN "CiPending"
  ELSE NoValue

\* Mutant: the run listed last replaces the others, however old it is.
last_listed(latest, c) ==
  IF c.name = NoValue THEN latest ELSE Put(latest, c.name, c)

\* The newest run of each name so far; of two equally new ones the first.
newest(latest, c) ==
  IF c.name = NoValue \/ (c.name \in DOMAIN latest /\ latest[c.name].at >= c.at)
  THEN latest
  ELSE Put(latest, c.name, c)

latest_runs(contexts) == FoldLeft(newest, << >>, contexts)

ci_from_node(n) ==
  LET latest == latest_runs(n.contexts)
  IN aggregate_ci({context_to_bucket(latest[name]) : name \in DOMAIN latest})

translate_sync(mergeable, behind_by) ==
  CASE mergeable = "CONFLICTING" -> "Conflict"
    [] mergeable # "CONFLICTING" /\ behind_by = 0 -> NoValue
    [] mergeable # "CONFLICTING" /\ behind_by = NoValue -> "SyncUnknown"
    [] OTHER -> "UpdateBranch"

\* Mutant: only a pull request known to be mergeable is compared.
compare_if_mergeable(mergeable) == mergeable = "MERGEABLE"

needs_compare(mergeable) == mergeable # "CONFLICTING"

translate_review(decision) ==
  CASE decision = "CHANGES_REQUESTED" -> "ChangesRequested"
    [] decision = "REVIEW_REQUIRED" -> "ReviewRequired"
    [] OTHER -> NoValue

translate_unblocked(is_draft, merge_state_status) ==
  CASE is_draft -> "Draft"
    [] ~is_draft /\ merge_state_status \in {"CLEAN", "HAS_HOOKS"} -> "MergeReady"
    [] OTHER -> NoValue

\* BlockedState: a blocker of each category, or NoValue.
Blocked(branch_sync, ci, review, generic) ==
  [tag |-> "Blocked", branch_sync |-> branch_sync, ci |-> ci, review |-> review,
   generic |-> generic]

\* Mutant: a pull request without any known blocker counts as unblocked.
no_unknown_blocker(branch_sync, ci, review, unblocked) ==
  IF {branch_sync, ci, review} # {NoValue} THEN Blocked(branch_sync, ci, review, NoValue)
  ELSE [tag |-> unblocked]

evaluate(branch_sync, ci, review, unblocked) ==
  IF {branch_sync, ci, review} # {NoValue} THEN Blocked(branch_sync, ci, review, NoValue)
  ELSE IF unblocked # NoValue THEN [tag |-> unblocked]
  ELSE Blocked(NoValue, NoValue, NoValue, "BlockedUnknown")

\* GitHub has not computed yet whether the pull request can be merged.
is_calculating(n) == n.merge_state_status \in {"MERGE_STATE_UNKNOWN", "UNKNOWN"}

evaluate_single_pr(n, behind_by) ==
  IF is_calculating(n) THEN [tag |-> "Calculating"]
  ELSE evaluate(translate_sync(n.mergeable, behind_by), ci_from_node(n),
                translate_review(n.review_decision),
                translate_unblocked(n.is_draft, n.merge_state_status))

------------------------------------------------------------------------------
(* What is shown. *)

\* What may be shown of a pull request.
Item ==
  {"Conflict", "UpdateBranch", "SyncUnknown", "CiFail", "CiAction", "CiPending",
   "ChangesRequested", "ReviewRequired", "MergeReady", "Draft", "StatusCalculating",
   "BlockedUnknown"}

ASSUME NoValueAssumption == NoValue \notin Item \cup Nat

\* Mutant: the blocker without a category is not shown.
named_blockers_only(s) ==
  CASE s.tag = "Blocked" ->
         Some(s.branch_sync) \o Some(s.ci) \o Some(s.review)
    [] s.tag = "Calculating" -> <<"StatusCalculating">>
    [] OTHER -> <<s.tag>>

\* The items of a state, in the order of the categories.
from_state(s) ==
  CASE s.tag = "Blocked" ->
         Some(s.branch_sync) \o Some(s.ci) \o Some(s.review) \o Some(s.generic)
    [] s.tag = "Calculating" -> <<"StatusCalculating">>
    [] OTHER -> <<s.tag>>

\* Pull requests and their items, sorted by number.
to_display_items(prs) ==
  LET listed == {[pr_id |-> pr.id, items |-> from_state(pr.state)] : pr \in ToSet(prs)}
  IN Ascending([x \in listed |-> x.pr_id])

\* Mutant: only the group written last is looked at.
add_to_last_group(groups, item, id) ==
  IF groups = << >> \/ Last(groups).item # item
  THEN Append(groups, [item |-> item, ids |-> <<id>>])
  ELSE [groups EXCEPT ![Len(groups)].ids = Append(@, id)]

\* Adds pull request id to the group of the item, or starts that group.
add_to_group(groups, item, id) ==
  LET g == SelectInSeq(groups, LAMBDA x : x.item = item)
  IN IF g = 0 THEN Append(groups, [item |-> item, ids |-> <<id>>])
     ELSE [groups EXCEPT ![g].ids = Append(@, id)]

\* Adds the pull request to the groups of its items.
add_pr(groups, pr) ==
  FoldLeft(LAMBDA gs, item : add_to_group(gs, item, pr.pr_id), groups, pr.items)

group_by_display_item(prs) == FoldLeft(add_pr, << >>, prs)

\* Mutant: a pull request whose merge state is being calculated is not polled fast.
hot_while_checks_run(prs) ==
  IF \E i \in DOMAIN prs : Contains(prs[i].items, "CiPending") THEN "Hot" ELSE "Warm"

refresh_mode(prs) ==
  IF \E i \in DOMAIN prs :
       Contains(prs[i].items, "CiPending") \/ Contains(prs[i].items, "StatusCalculating")
  THEN "Hot" ELSE "Warm"

NothingShown(mode) == [output |-> << >>, refresh_mode |-> mode, pr_outputs |-> << >>]

\* One token without pull requests: no pull request yet, or an error.
OneToken(item) ==
  [NothingShown("Warm") EXCEPT !.output = <<[item |-> item, ids |-> << >>]>>]

\* The ids are shown only to tell several pull requests apart.
RenderPrs(prs) ==
  LET groups == group_by_display_item(prs)
  IN [output |-> IF Len(prs) > 1 THEN groups
                 ELSE [i \in DOMAIN groups |-> [groups[i] EXCEPT !.ids = << >>]],
      refresh_mode |-> refresh_mode(prs),
      pr_outputs |-> prs]

render(p) ==
  CASE p.kind \in {"NoRepository", "UnsupportedRepository", "DefaultBranch"} ->
         NothingShown("Warm")
    [] p.kind = "NoPullRequest" -> OneToken("NoPullRequest")
    [] p.kind = "Error" -> OneToken(p.error)
    [] p.kind = "PullRequests" /\ p.prs = << >> -> NothingShown("Terminal")
    [] p.kind = "PullRequests" /\ p.prs # << >> -> RenderPrs(to_display_items(p.prs))

------------------------------------------------------------------------------
(* The steps of fetch_prompt and of the tasks it starts. *)

Pending == [kind |-> "Pending"]

Init ==
  /\ step = "Git"
  /\ branch = NoName
  /\ nodes = << >> /\ open_prs = << >>
  /\ behind = << >> /\ indexed = << >>
  /\ prompt = Pending /\ shown = NothingShown("Warm")

\* fetch_prompt returns p, which refresh_callback hands to render.
Return(p) ==
  /\ step' = "Rendered"
  /\ prompt' = p
  /\ shown' = render(p)
  /\ UNCHANGED <<open_prs, behind, indexed>>

NotARepository ==
  /\ step = "Git"
  /\ Return([kind |-> "NoRepository"])
  /\ UNCHANGED <<branch, nodes>>

\* `git branch --show-current` names a branch, prints nothing or fails.
current_branch ==
  /\ step = "Git"
  /\ step' = "GraphQl"
  /\ branch' \in Branch \cup {NoName}
  /\ UNCHANGED <<nodes, open_prs, behind, indexed, prompt, shown>>

\* What fetch_prompt returns when fetch_repository fails with e.
Failed(e) ==
  CASE e = "NotGithubRepository" -> [kind |-> "UnsupportedRepository"]
    [] e = "NoPr" -> [kind |-> "NoPullRequest"]
    [] OTHER -> [kind |-> "Error", error |-> repository_error(e)]

GraphQlFails ==
  /\ step = "GraphQl"
  /\ \/ \E e \in GhProcessError : Return(Failed(gh_error(e)))
     \* gh succeeds with something that is not the JSON expected.
     \/ Return(Failed("ApiError"))
     \* The repository in the answer is null.
     \/ Return([kind |-> "UnsupportedRepository"])
  /\ UNCHANGED <<branch, nodes>>

\* Mutant: no pull request at all counts as all of them being over.
none_is_over(default_branch) == [kind |-> "PullRequests", prs |-> << >>]

\* No pull request has the branch as its head.
no_pull_requests(default_branch) ==
  [kind |-> IF branch # NoName /\ branch = default_branch THEN "DefaultBranch"
            ELSE "NoPullRequest"]

open_sorted(ns) ==
  Ascending([n \in {m \in ToSet(ns) : m.state = "OPEN"} |-> n.number])

\* The answer lists ns, whose head the query names, and the default branch, if
\* the repository has one.
GraphQlAnswers(ns, default_branch) ==
  /\ step = "GraphQl"
  /\ \A n \in ToSet(ns) : n.head_ref_name \in {branch, NoName}
  /\ nodes' = ns
  /\ UNCHANGED branch
  /\ \/ /\ ns = << >>
        /\ Return(no_pull_requests(default_branch))
     \/ /\ ns # << >> /\ open_sorted(ns) = << >>
        /\ Return([kind |-> "PullRequests", prs |-> << >>])
     \/ /\ ns # << >> /\ open_sorted(ns) # << >>
        /\ step' = "Tasks"
        /\ open_prs' = open_sorted(ns)
        /\ UNCHANGED <<behind, indexed, prompt, shown>>

\* Whether evaluate_single_pr starts gh to compare n with its base.
Compares(n) ==
  /\ ~is_calculating(n) /\ needs_compare(n.mergeable)
  /\ NoName \notin {n.base_ref_name, n.head_ref_name}

\* Some commits behind, or a comparison that fails.
BehindBy == {0, 1, NoValue}

\* behind_by of evaluate_single_pr where gh is not started.
not_compared(n) == IF needs_compare(n.mergeable) THEN 0 ELSE NoValue

\* The task of open_prs[idx] ends with behind_by.
Ends(idx, behind_by) ==
  /\ indexed' = Append(indexed, [idx |-> idx, pr |->
       [id |-> open_prs[idx].number, state |-> evaluate_single_pr(open_prs[idx], behind_by)]])
  /\ UNCHANGED <<step, branch, nodes, open_prs, prompt, shown>>

Running == DOMAIN open_prs \ {indexed[i].idx : i \in DOMAIN indexed}

EvaluatedAtOnce(idx) ==
  /\ step = "Tasks" /\ idx \in Running
  /\ ~Compares(open_prs[idx])
  /\ Ends(idx, not_compared(open_prs[idx]))
  /\ UNCHANGED behind

CompareAnswers(idx) ==
  /\ step = "Tasks" /\ idx \in Running
  /\ Compares(open_prs[idx])
  /\ \E b \in BehindBy :
       /\ Ends(idx, b)
       /\ behind' = Put(behind, open_prs[idx].number, b)

by_index(results) ==
  LET sorted == Ascending([r \in ToSet(results) |-> r.idx])
  IN [i \in DOMAIN sorted |-> sorted[i].pr]

AllJoined ==
  /\ step = "Tasks" /\ Running = {}
  /\ Return([kind |-> "PullRequests", prs |-> by_index(indexed)])
  /\ UNCHANGED <<branch, nodes>>

Next ==
  \/ NotARepository
  \/ current_branch
  \/ GraphQlFails
  \/ \E ns \in Answers, default_branch \in Branch \cup {NoName} :
       GraphQlAnswers(ns, default_branch)
  \/ \E idx \in DOMAIN open_prs : EvaluatedAtOnce(idx) \/ CompareAnswers(idx)
  \/ AllJoined

Spec == Init /\ [][Next]_vars

------------------------------------------------------------------------------
(* Properties. *)

State ==
  [tag : {"MergeReady", "Draft", "Calculating"}]
    \cup [tag : {"Blocked"},
          branch_sync : {NoValue, "Conflict", "UpdateBranch", "SyncUnknown"},
          ci : {NoValue, "CiFail", "CiAction", "CiPending"},
          review : {NoValue, "ChangesRequested", "ReviewRequired"},
          generic : {NoValue, "BlockedUnknown"}]

Result ==
  [kind : {"Pending", "NoRepository", "UnsupportedRepository", "DefaultBranch",
           "NoPullRequest"}]
    \cup [kind : {"Error"}, error : {"Unauthenticated", "RateLimited", "Unexpected"}]
    \cup [kind : {"PullRequests"}, prs : Seq([id : Nat, state : State])]

\* The types of the variables.  Every state that evaluate produces is one of
\* the enum's, so render has a token for each of its items.
TypeOK ==
  /\ step \in {"Git", "GraphQl", "Tasks", "Rendered"}
  /\ branch \in Branch \cup {NoName}
  /\ nodes \in Seq(GhPrNode) /\ open_prs \in Seq(GhPrNode)
  /\ \A id \in DOMAIN behind : behind[id] \in BehindBy
  /\ indexed \in Seq([idx : Nat, pr : [id : Nat, state : State]])
  /\ prompt \in Result
  /\ shown.refresh_mode \in {"Hot", "Warm", "Terminal"}
  /\ shown.pr_outputs \in Seq([pr_id : Nat, items : Seq(Item)])

\* The refresh has ended with pull requests evaluated.
Evaluated == step = "Rendered" /\ prompt.kind = "PullRequests"

OpenNodes == {n \in ToSet(nodes) : n.state = "OPEN"}

\* The items shown for the pull request, as watch lists them.
ItemsOf(number) ==
  UNION {ToSet(x.items) : x \in {y \in ToSet(shown.pr_outputs) : y.pr_id = number}}

\* What GitHub says of check `name` now: its newest run, and the first listed
\* of several that are equally new.
CurrentRun(n, name) ==
  LET runs == {i \in DOMAIN n.contexts : n.contexts[i].name = name}
      newest_runs == {i \in runs : \A j \in runs : n.contexts[j].at <= n.contexts[i].at}
  IN n.contexts[Min(newest_runs)]

CurrentBuckets(n) ==
  {context_to_bucket(CurrentRun(n, name)) :
     name \in {c.name : c \in ToSet(n.contexts)} \ {NoValue}}

\* "Ready for merge" is earned: a pull request is only shown so when GitHub
\* calls it clean, it is no draft, the current run of none of its checks has
\* failed, waits or runs, no review is missing, and the comparison with its
\* base was answered with zero commits behind.  It relates what is shown to
\* the answers from which evaluate_single_pr, ci_from_node and the sorting of
\* the results derive it (infrastructure/gh.rs:122-262).
ReadyIsEarned ==
  Evaluated => \A n \in OpenNodes : "MergeReady" \in ItemsOf(n.number) =>
    /\ n.merge_state_status \in {"CLEAN", "HAS_HOOKS"} /\ ~n.is_draft
    /\ n.mergeable # "CONFLICTING"
    /\ CurrentBuckets(n) \subseteq {"Other"}
    /\ n.review_decision \notin {"CHANGES_REQUESTED", "REVIEW_REQUIRED"}
    /\ Compares(n) => n.number \in DOMAIN behind /\ behind[n.number] = 0

\* No open pull request disappears, whatever the comparisons of the others
\* answer and in whatever order the tasks end: each is listed once with at
\* least one item, and none that is over is listed
\* (infrastructure/gh.rs:230-261, state.rs:23-44).
OpenPrsShown ==
  Evaluated =>
    /\ {x.pr_id : x \in ToSet(shown.pr_outputs)} = {n.number : n \in OpenNodes}
    /\ Len(shown.pr_outputs) = Cardinality(OpenNodes)
    /\ \A x \in ToSet(shown.pr_outputs) : x.items # << >>

\* The prompt's line says neither more nor less than the table of watch: with
\* several pull requests there is one group for each item, its numbers are
\* those of the pull requests with the item, ascending, and the groups are in
\* the order of their first number.  So the line does not depend on the order
\* in which GitHub lists pull requests or comparisons answer
\* (interface/prompt.rs:46-49, 102-122).
GroupsMatchPrs ==
  Evaluated /\ Len(shown.pr_outputs) > 1 =>
    LET groups == shown.output
    IN /\ {g.item : g \in ToSet(groups)} = UNION {ToSet(x.items) : x \in ToSet(shown.pr_outputs)}
       /\ \A i \in DOMAIN groups :
            /\ ToSet(groups[i].ids) = {n.number : n \in {m \in OpenNodes :
                                                        groups[i].item \in ItemsOf(m.number)}}
            /\ \A k \in 1 .. Len(groups[i].ids) - 1 : groups[i].ids[k] < groups[i].ids[k + 1]
            /\ \A j \in DOMAIN groups : i < j =>
                 /\ groups[i].item # groups[j].item
                 /\ Head(groups[i].ids) <= Head(groups[j].ids)

\* The branch is polled fast exactly while something GitHub works on can
\* change what is shown: the merge state of an open pull request is being
\* computed, or the current run of one of its checks goes on and none has
\* failed or waits for a person (interface/prompt.rs:57-64).
HotWhileRunning ==
  Evaluated =>
    (shown.refresh_mode = "Hot" <=>
       \E n \in OpenNodes :
         \/ n.merge_state_status \in {"UNKNOWN", "MERGE_STATE_UNKNOWN"}
         \/ /\ "Pending" \in CurrentBuckets(n)
            /\ CurrentBuckets(n) \cap {"Fail", "Cancel", "ActionRequired"} = {})

\* Saving a comparison changes nothing: where none was made of two named
\* branches, every answer to it would have given the items that are shown
\* (infrastructure/gh.rs:159-183; mapper.rs:20 asks for this agreement of
\* needs_compare with translate_sync).
SavedCompareIsMoot ==
  Evaluated => \A n \in OpenNodes :
    n.number \notin DOMAIN behind /\ NoName \notin {n.base_ref_name, n.head_ref_name} =>
      \A b \in BehindBy : ItemsOf(n.number) = ToSet(from_state(evaluate_single_pr(n, b)))

\* Polling of a branch ends only if GitHub has listed pull requests for it
\* and all of them are over: never after a failure, and never before the
\* first pull request exists; and then nothing is shown, as RefreshCycle
\* assumes of its Result (infrastructure/gh.rs:217-237, prompt.rs:40-44).
TerminalMeansClosed ==
  step = "Rendered" =>
    /\ shown.refresh_mode = "Terminal" <=> nodes # << >> /\ OpenNodes = {}
    /\ shown.refresh_mode = "Terminal" => shown.output = << >>
==============================================================================
