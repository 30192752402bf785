-------------------------- MODULE MCBackoffHistory --------------------------
(* A small instance of BackoffHistory, with the data of MCRefreshCycle. *)
EXTENDS MCRefreshCycle, BackoffHistory

=============================================================================
