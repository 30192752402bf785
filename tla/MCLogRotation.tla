--------------------------- MODULE MCLogRotation ---------------------------
(* A small instance of LogRotation for TLC. *)
EXTENDS LogRotation

\* Nothing tells two processes apart.
WriterSymmetry == Permutations(Writer)
=============================================================================
