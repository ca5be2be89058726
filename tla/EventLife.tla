----------------------------- MODULE EventLife ------------------------------
(***************************************************************************)
(* What the event commands promise one group, each a single atomic step:   *)
(* at most one event is open, it is either active or paused, and a closed  *)
(* event stays closed.  EventScope implements this with concurrent         *)
(* handlers, a row lock and sessions that may read a stale group row.      *)
(***************************************************************************)
CONSTANTS Event, NoEvent

VARIABLES status, active

Open == {e \in Event : status[e] = "open"}

Init == /\ status = [e \in Event |-> "absent"]
        /\ active = NoEvent

\* /event new: only while nothing is open; the new event is active at once.
Begin(e) == /\ Open = {}
            /\ status[e] = "absent"
            /\ status' = [status EXCEPT ![e] = "open"]
            /\ active' = e

\* /event pause: tagging stops, the event stays open.
Pause == /\ active # NoEvent
         /\ active' = NoEvent
         /\ UNCHANGED status

\* /event resume: the one open event is active again.
Resume(e) == /\ Open = {e}
             /\ active = NoEvent
             /\ active' = e
             /\ UNCHANGED status

\* /event close: the one open event is finished, active or paused.
Close(e) == /\ Open = {e}
            /\ status' = [status EXCEPT ![e] = "closed"]
            /\ active' = NoEvent

Next == Pause \/ \E e \in Event : Begin(e) \/ Resume(e) \/ Close(e)

Spec == Init /\ [][Next]_<<status, active>>
=============================================================================
