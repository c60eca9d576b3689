------------------------------- MODULE MCDaemon -------------------------------
(* The daemon, its file and its commands on a small instance. *)
EXTENDS Daemon
=============================================================================
