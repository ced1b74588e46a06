---------------------------- MODULE MCAllocators ----------------------------
(* Small instances of Allocators for TLC. *)
EXTENDS Allocators, TLC

CONSTANTS p1, p2, p3, n1, n2, n3

\* Two ranges with a gap, as 1000..55000 and 65536..1000000.
TwoRanges == <<[first |-> 1, last |-> 2], [first |-> 4, last |-> 4]>>
SecondRange == <<[first |-> 2, last |-> 3]>>

Job(op, kind, name, number) == [op |-> op, kind |-> kind, name |-> name, number |-> number]
\* Users and groups, with an allocated number and with one that is asked for,
\* and the removal of the user that is there.
AllJobs == {Job("create", "user", n1, NoNumber), Job("create", "group", n3, NoNumber),
            Job("create", "user", n1, 2), Job("create", "group", n3, 2),
            Job("remove", "user", n2, NoNumber)}
TwoUsers == {Job("create", "user", n1, NoNumber), Job("create", "user", n2, NoNumber)}
\* The lock of a number whose creation was given up earlier.
OneLock == {<<"uidNumber", 3>>}
NoObjects == {}
OneUser == {[kind |-> "user", name |-> n2, number |-> 2, by |-> NoProc]}
ProcSymmetry == Permutations(Procs)
=============================================================================
