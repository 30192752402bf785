---------------------------- MODULE MCPromptFetch ----------------------------
(***************************************************************************)
(* Small instances of PromptFetch for TLC: the answers GitHub may give.    *)
(***************************************************************************)
EXTENDS PromptFetch

CONSTANTS Main, Topic

Branches == {Main, Topic}

CheckRun(name, status, conclusion, at) ==
  [type |-> "CheckRun", name |-> name, status |-> status, conclusion |-> conclusion,
   at |-> at]

Passed(name, at) == CheckRun(name, "COMPLETED", "SUCCESS", at)
Broken(name, at) == CheckRun(name, "COMPLETED", "FAILURE", at)
Started(name, at) == CheckRun(name, "IN_PROGRESS", NoValue, at)
Context(name, state, at) ==
  [type |-> "StatusContext", name |-> name, status |-> state, conclusion |-> NoValue,
   at |-> at]
Unknown ==
  [type |-> "Unknown", name |-> NoValue, status |-> "", conclusion |-> NoValue, at |-> 0]

\* A pull request nothing speaks against.
Clean ==
  [number |-> 1, state |-> "OPEN", is_draft |-> FALSE, mergeable |-> "MERGEABLE",
   merge_state_status |-> "CLEAN", review_decision |-> "APPROVED",
   base_ref_name |-> Main, head_ref_name |-> Topic, contexts |-> <<Passed("a", 1)>>]

\* Every history of a check with up to three runs, with and without times.
Runs(name) == {Passed(name, at) : at \in 0 .. 2} \cup {Broken(name, at) : at \in 0 .. 2}
                \cup {Started(name, at) : at \in 0 .. 2}
Histories == BoundedSeq(Runs("a"), 3) \cup BoundedSeq(Runs("a") \cup Runs("b"), 2)

\* Every way a check can end or wait.
Outcomes ==
  {<<CheckRun("a", "COMPLETED", c, 1), Started("b", 1)>> :
     c \in {"ACTION_REQUIRED", "CANCELLED", "TIMED_OUT", "STARTUP_FAILURE", "NEUTRAL"}}
    \cup {<<Context("a", s, 1), Unknown>> :
            s \in {"PENDING", "EXPECTED", "ERROR", "FAILURE", "SUCCESS"}}

Checked == {[Clean EXCEPT !.contexts = cs] : cs \in Histories \cup Outcomes}

\* Pull requests in the other states GitHub reports.
Conflicting ==
  [Clean EXCEPT !.mergeable = "CONFLICTING", !.merge_state_status = "DIRTY",
                !.review_decision = "CHANGES_REQUESTED", !.contexts = <<Broken("a", 1)>>]
Calculated ==
  [Clean EXCEPT !.mergeable = "UNKNOWN", !.merge_state_status = "UNKNOWN",
                !.contexts = <<Broken("a", 1)>>]
Drafted == [Clean EXCEPT !.is_draft = TRUE, !.merge_state_status = "DRAFT"]
Unreviewed ==
  [Clean EXCEPT !.merge_state_status = "BLOCKED", !.review_decision = "REVIEW_REQUIRED",
                !.contexts = <<Started("a", 1)>>]
Unexplained == [Clean EXCEPT !.merge_state_status = "BLOCKED", !.review_decision = NoValue]
Unsettled == [Clean EXCEPT !.mergeable = "UNKNOWN", !.merge_state_status = "BLOCKED"]
Hooked == [Clean EXCEPT !.merge_state_status = "HAS_HOOKS", !.head_ref_name = NoName]
Merged == [Clean EXCEPT !.state = "MERGED"]

Shapes ==
  {Clean, Conflicting, Calculated, Drafted, Unreviewed, Unexplained, Unsettled, Hooked,
   Merged}
FewShapes == {Clean, Conflicting, Unreviewed, Unexplained, Merged}

Numbered(n, number) == [n EXCEPT !.number = number]

\* Up to three pull requests, listed in any order.
OnePr == {<<n>> : n \in Checked \cup Shapes}
TwoPrs ==
  {<<Numbered(m, i), Numbered(n, 3 - i)>> : m, n \in Shapes, i \in 1 .. 2}
ThreePrs ==
  {[k \in 1 .. 3 |-> Numbered(f[k], p[k])] :
     f \in [1 .. 3 -> FewShapes], p \in Permutations(1 .. 3)}

SomeAnswers == {<< >>} \cup OnePr \cup TwoPrs \cup ThreePrs
==============================================================================
