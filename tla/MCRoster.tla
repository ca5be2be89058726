------------------------------- MODULE MCRoster -------------------------------
(***************************************************************************)
(* An instance of Roster.  One handle is enough for people to compete for, *)
(* to lose and to be mentioned by; two groups, for what no group lock      *)
(* orders.                                                                 *)
(***************************************************************************)
EXTENDS Roster, TLC

Symmetry == Permutations(Task) \cup Permutations(Person) \cup Permutations(Group)
=============================================================================
