------------------------------ MODULE MCWizard ------------------------------
(***************************************************************************)
(* An instance of Wizard: an event with one attendee in a group of two, so *)
(* that the two rosters differ in length and in who comes first.  It has   *)
(* two paces, and keeps to the one it starts with.  Alone, one handler     *)
(* ends before the next begins: every order of whole handlers, over all    *)
(* buttons.  Racing, two handlers interleave, over the buttons that lead   *)
(* to a write, with one mode and one amount.                               *)
(***************************************************************************)
EXTENDS Wizard, TLC

VARIABLE pace

Rosters == [event |-> <<"bob">>, general |-> <<"ann", "bob">>]

WriteTaps == {"eq", "gen", "pdone", "exact", "s", "ok"}
AllTaps   == WriteTaps \cup {"x", "amt", "desc", "all", "clear", "p", "back", "percent"}

Race == INSTANCE Wizard WITH Verb <- WriteTaps, Mode <- {"exact"}, Cents <- {100}

PacedInit == Init /\ pace \in {"alone", "racing"}

PacedNext ==
  /\ pace' = pace
  /\ \/ /\ pace = "alone"
        /\ Next
        /\ \A t, o \in Task : task'[t] # Idle /\ task'[o] # Idle => t = o
     \/ /\ pace = "racing"
        /\ Race!Next

PacedSpec == PacedInit /\ [][PacedNext]_<<vars, pace>>

Symmetry == Permutations(Task)
=============================================================================
