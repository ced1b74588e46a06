--------------------------- MODULE ReplicationLog ---------------------------
(***************************************************************************)
(* What slapd's notifier promises to the listeners of a domain: one log of *)
(* transactions that only grows, in the order slapd wrote them; and each   *)
(* listener is told of every transaction, once and in order, and of none   *)
(* that is not stored.                                                     *)
(***************************************************************************)
EXTENDS Integers

CONSTANT Listeners

VARIABLES
  accepted,    \* transactions slapd wrote
  stored,      \* the first of them that are stored and can be looked up
  told         \* how far each listener has been told

vars == <<accepted, stored, told>>

Init == accepted = 0 /\ stored = 0 /\ told = [l \in Listeners |-> 0]

Accept == /\ accepted' = accepted + 1
          /\ UNCHANGED <<stored, told>>

Store == /\ stored < accepted
         /\ stored' = stored + 1
         /\ UNCHANGED <<accepted, told>>

Tell(l) == /\ told[l] < stored
           /\ told' = [told EXCEPT ![l] = @ + 1]
           /\ UNCHANGED <<accepted, stored>>

Next == Accept \/ Store \/ \E l \in Listeners : Tell(l)

Spec == Init /\ [][Next]_vars
=============================================================================
