---------------------------- MODULE MCEventScope ----------------------------
(***************************************************************************)
(* Instances of EventScope.  Two slots, each reused for any number of      *)
(* updates, let a slow handler race a whole sequence of fast ones; the     *)
(* third slot of the liveness run adds competition for the row lock.       *)
(***************************************************************************)
EXTENDS EventScope, TLC

AllTraffic == Job

\* Event commands compete for the lock; a Submit, of a draft that is gone, does not.
ContendedTraffic == {j \in Job : j.cmd \in EventCmd \cup {"submit"}}

Symmetry == Permutations(Task) \cup Permutations(Event)
=============================================================================
