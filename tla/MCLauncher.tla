----------------------------- MODULE MCLauncher -----------------------------
(* A small instance of the launcher and its Exec calls for TLC. *)
EXTENDS ContainerExec
=============================================================================
