-------------------------------- MODULE MCRelay --------------------------------
(* One request or WebSocket through the relay. *)
EXTENDS Relay
=============================================================================
