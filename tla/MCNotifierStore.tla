-------------------------- MODULE MCNotifierStore --------------------------
(* Small instances of NotifierStore for TLC. *)
EXTENDS NotifierStore
=============================================================================
