----------------------------- MODULE MCJobRound -----------------------------
(* A small instance of JobRound for TLC. *)
EXTENDS JobRound
=============================================================================
