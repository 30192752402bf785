--------------------------- MODULE PromptService ---------------------------
(***************************************************************************)
(* What the daemon promises to those who ask it, without sockets, tasks,   *)
(* queues or deadlines: whoever asks gets what the store showed at one     *)
(* moment between question and answer, or gives up with no answer at all.  *)
(* PromptExchange implements it.                                           *)
(***************************************************************************)
CONSTANTS
  Client,   \* whoever asks: prompts and watch views
  Version,  \* what the store can show
  Nothing   \* no answer

VARIABLES
  shown,    \* what the store shows; Nothing while no daemon runs
  phase,    \* where each client is
  answer    \* what each client was last given

vars == <<shown, phase, answer>>

Init ==
  /\ shown = Nothing
  /\ phase = [c \in Client |-> "idle"]
  /\ answer = [c \in Client |-> Nothing]

Moves(c, p, a) ==
  phase' = [phase EXCEPT ![c] = p] /\ answer' = [answer EXCEPT ![c] = a]

Ask(c) == phase[c] = "idle" /\ Moves(c, "asked", Nothing) /\ UNCHANGED shown

\* The one moment at which the store is read.
Serve(c) == phase[c] = "asked" /\ shown \in Version /\ Moves(c, "served", shown) /\ UNCHANGED shown

\* The client has the answer it was served.
Take(c) == phase[c] = "served" /\ Moves(c, "done", answer[c]) /\ UNCHANGED shown

GiveUp(c) ==
  phase[c] \in {"idle", "asked", "served"} /\ Moves(c, "done", Nothing) /\ UNCHANGED shown

\* The next prompt, the next frame.
Forget(c) == phase[c] = "done" /\ Moves(c, "idle", Nothing) /\ UNCHANGED shown

\* A refresh completes, a daemon starts or ends.
Change == shown' \in Version \cup {Nothing} /\ UNCHANGED <<phase, answer>>

Next ==
  \/ Change
  \/ \E c \in Client : Ask(c) \/ Serve(c) \/ Take(c) \/ GiveUp(c) \/ Forget(c)

Spec == Init /\ [][Next]_vars
=============================================================================
