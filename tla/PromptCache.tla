----------------------------- MODULE PromptCache -----------------------------
(***************************************************************************)
(* What the cache promises the prompts, without clocks, locks, modes or    *)
(* refreshes on their way: the states of an entry as FetchState documents  *)
(* them (domain/cache/entry.rs), who may move it from one to another, and  *)
(* what a prompt is told in each.  RefreshCycle implements it.             *)
(***************************************************************************)
CONSTANTS
  Key,    \* the branches somebody can ask about
  Text    \* what can be shown of one; {} is the empty string

VARIABLES
  state,  \* of each entry; "Absent" if there is none
  shown,  \* what each entry shows
  told    \* what the last step told a prompt: {} if it told none anything

vars == <<state, shown, told>>

Loading == {[loading |-> TRUE, output |-> {}]}

Stored(text) == {[loading |-> FALSE, output |-> text]}

\* Something has been fetched.
Fetched(s) == s \in {"Ready", "Refreshing"}

\* A refresh is asked for; a refresh is given up.
Started(s) == IF Fetched(s) THEN "Refreshing" ELSE "Loading"

GivenUp(s) == IF Fetched(s) THEN "Ready" ELSE "PendingRetry"

------------------------------------------------------------------------------
Init ==
  /\ state = [k \in Key |-> "Absent"]
  /\ shown = [k \in Key |-> {}]
  /\ told = {}

\* A prompt asks about k.  The first one brings the entry into being.
Ask(k) ==
  /\ told' = IF Fetched(state[k]) THEN Stored(shown[k]) ELSE Loading
  /\ \E s \in ({state[k]} \ {"Absent"}) \cup {Started(state[k])} :
       state' = [state EXCEPT ![k] = s]
  /\ UNCHANGED shown

\* A prompt asks where there is no repository.
AskOutside == told' = Stored({}) /\ UNCHANGED <<state, shown>>

\* A refresh of k completes; without an entry nothing comes of it.
Complete(k) ==
  /\ state[k] # "Absent"
  /\ state' = [state EXCEPT ![k] = "Ready"]
  /\ shown'[k] \in Text /\ shown' = [shown EXCEPT ![k] = shown'[k]]
  /\ told' = {}

\* Refreshes are started or given up, and entries dropped; the others show what they did.
Maintain ==
  /\ state' = [k \in Key |-> state'[k]]
  /\ \A k \in Key :
       state'[k] \in IF state[k] = "Absent" THEN {"Absent"}
                     ELSE {state[k], Started(state[k]), GivenUp(state[k]), "Absent"}
  /\ shown' = [k \in Key |-> IF state'[k] = "Absent" THEN {} ELSE shown[k]]
  /\ told' = {}

Next ==
  \/ \E k \in Key : Ask(k) \/ Complete(k)
  \/ AskOutside
  \/ Maintain

Spec == Init /\ [][Next]_vars
==============================================================================
