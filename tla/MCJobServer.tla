---------------------------- MODULE MCJobServer ----------------------------
(* Small instances of JobServer for TLC. *)
EXTENDS JobServer, TLC

Symmetry == Permutations(Callers)
=============================================================================
