----------------------------- MODULE MCListener -----------------------------
(* Small instances of Listener for TLC. *)
EXTENDS Listener, TLC

CONSTANTS d1, d2, d3, h1, h2

FilterAll == [h \in Handlers |-> Vals]
FilterOne == [h \in Handlers |-> {"in"}]
\* h1 handles some objects, h2 all.
FilterFirst == [h \in Handlers |-> IF h = h1 THEN {"in"} ELSE Vals]
=============================================================================
