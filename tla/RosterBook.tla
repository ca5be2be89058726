----------------------------- MODULE RosterBook -----------------------------
(***************************************************************************)
(* What the roster commands promise a group, each a single atomic step: a  *)
(* receipt tells exactly what its command changed, an expense split among  *)
(* everyone is split among the roster, and whoever an event expense names  *)
(* is on its roster.  EventRoster implements this with concurrent handlers.*)
(***************************************************************************)
CONSTANTS User, Event, NoEvent

VARIABLES
  event,  \* the open event
  past,   \* the closed ones
  roster, \* who is on each event's roster
  said    \* the receipt of the roster edit or event expense just made

Silence == [who |-> {}, of |-> NoEvent, verb |-> "nothing"]

Says(verb, who, of) == said' = [who |-> who, of |-> of, verb |-> verb]

Init == /\ event  = NoEvent
        /\ past   = {}
        /\ roster = [e \in Event |-> {}]
        /\ said   = Silence

\* /event new: whoever begins an event is its first member.
Begin(e, u) == /\ event = NoEvent
               /\ e \notin past
               /\ event' = e
               /\ roster' = [roster EXCEPT ![e] = {u}]
               /\ said' = Silence
             /\ UNCHANGED past

\* /event close: the roster is kept.
Close == /\ event # NoEvent
         /\ event' = NoEvent
         /\ past' = past \cup {event}
         /\ said' = Silence
         /\ UNCHANGED roster

\* /event add, @all included, or a tap on somebody unmarked.
Add(S) == /\ event # NoEvent
          /\ roster' = [roster EXCEPT ![event] = @ \cup S]
          /\ Says("added", S \ roster[event], event)
          /\ UNCHANGED <<event, past>>

\* /event remove, or a tap on somebody marked.
Remove(u) == /\ event # NoEvent
             /\ roster' = [roster EXCEPT ![event] = @ \ {u}]
             /\ Says("removed", {u} \cap roster[event], event)
             /\ UNCHANGED <<event, past>>

\* An expense of an event, closed ones included: payer and named join its roster; with
\* nobody named it is split among the roster.
Charge(e, u, S) == LET joined == roster[e] \cup {u} \cup S IN
  /\ e \in past \cup {event}
  /\ roster' = [roster EXCEPT ![e] = joined]
  /\ Says("charged", IF S = {} THEN joined ELSE S, e)
  /\ UNCHANGED <<event, past>>

\* One rejected for its shares: payer and named have joined all the same.
Reject(e, u, S) ==
  /\ e \in past \cup {event}
  /\ roster' = [roster EXCEPT ![e] = @ \cup {u} \cup S]
  /\ said' = Silence
  /\ UNCHANGED <<event, past>>

\* Anything else happens: the receipt is history.
Hush == said' = Silence /\ UNCHANGED <<event, past, roster>>

Next == \/ Close \/ Hush
        \/ \E S \in SUBSET User : Add(S)
        \/ \E u \in User : Remove(u)
        \/ \E e \in Event, u \in User :
             \/ Begin(e, u)
             \/ \E S \in SUBSET User : Charge(e, u, S) \/ Reject(e, u, S)

Spec == Init /\ [][Next]_<<event, past, roster, said>>
=============================================================================
