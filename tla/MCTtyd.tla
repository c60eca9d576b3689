-------------------------------- MODULE MCTtyd --------------------------------
(* One address, its hosts and their ttyds on a small instance. *)
EXTENDS Ttyd
=============================================================================
