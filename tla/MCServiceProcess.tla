-------------------------- MODULE MCServiceProcess --------------------------
(* ServiceProcess for TLC. *)
EXTENDS ServiceProcess
=============================================================================
