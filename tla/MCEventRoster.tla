---------------------------- MODULE MCEventRoster ----------------------------
(* An instance of EventRoster: two members, neither with a username, so that    *)
(* their order is open, on two pages of the editor.                             *)
EXTENDS EventRoster, TLC

NoHandles == [u \in User |-> 1]

Symmetry == Permutations(Task)
=============================================================================
