-------------------------- MODULE MCListenerClient --------------------------
(* Small instances of ListenerClient for TLC. *)
EXTENDS ListenerClient
=============================================================================
