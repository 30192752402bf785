-------------------------- MODULE MCPromptExchange --------------------------
(* A small instance of PromptExchange for TLC. *)
EXTENDS PromptExchange

CONSTANTS Text

\* In reads: "? loading" takes one for the text and one for the newline; the text of a
\* fetched entry takes two, which is more than a prompt reads.
Lengths == [v \in {Loading, Text} |-> IF v = Text THEN 3 ELSE 2]
=============================================================================
