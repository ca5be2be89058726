-------------------------- MODULE MCApportionment ---------------------------
(***************************************************************************)
(* Instances of Apportionment: parameters that make every mode both        *)
(* succeed and fail, and amounts small enough to leave one or two cents    *)
(* over among three people.                                                *)
(***************************************************************************)
EXTENDS Apportionment

Amounts == {1, 2, 5, 100}
Params  == {0, 1, 2, 3, 33, 34, 66, 100}
=============================================================================
