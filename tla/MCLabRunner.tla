---------------------------- MODULE MCLabRunner ----------------------------
(* Small instances of LabRunner for TLC. *)
EXTENDS LabRunner
=============================================================================
