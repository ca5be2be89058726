------------------------- MODULE EventRoster_proofs -------------------------
(***************************************************************************)
(* Proofs about EventRoster, for any number of handlers, users and events. *)
(*                                                                         *)
(* The argument: a handler past groups.upsert holds the row lock until its *)
(* transaction ends (LockHeld), so the edit and the receipt it decided on  *)
(* are still a legal step of RosterBook when it commits (Promise), and the *)
(* page it painted still shows what it commits (PaintHolds).               *)
(***************************************************************************)
EXTENDS EventRoster, FiniteSetTheorems, TLAPS

\* A handler past the upsert is the lock's one holder.
LockHeld == \A t \in Task : tx[t].at \in {"entered", "decided", "done"} => lock = t

\* Edit e with receipt s is one step of the book of rosters, if handler x commits it now.
Promise(x, e, s) ==
  \/ /\ e = NoEdit
     /\ s = Silence
  \/ /\ e.op = "open" /\ e.of \in Event \ past /\ e.who = {x.who}
     /\ event = NoEvent
     /\ s = Silence
  \/ /\ e.op = "close" /\ e.of = event /\ event # NoEvent
     /\ s = Silence
  \/ /\ e.op = "put" /\ e.of = event /\ event # NoEvent /\ e.who \cap roster[event] = {}
     /\ s = Says("added", e.who, event)
  \/ /\ e.op = "drop" /\ e.of = event /\ event # NoEvent
     /\ \E u \in User : e.who = {u} \cap roster[event]
     /\ s = Says("removed", e.who, event)
  \/ /\ e.op = "put" /\ e.of = x.scope /\ x.do = "charge" /\ e.who = {x.who} \cup x.what
     /\ \/ s = Silence
        \/ s = Says("charged", IF x.what = {} THEN roster[x.scope] \cup {x.who} \cup x.what
                               ELSE x.what, x.scope)

\* What holds of one running handler.
Legal(x) ==
  /\ x.at \in {"arrived", "entered"} => x.edit = NoEdit /\ x.says = Silence /\ x.fresh = FALSE
  /\ x.do \in Command \cup {"charge"} => x.who \in User
  /\ x.do \in {"add", "remove"} => \E v \in User : x.what = {v}
  /\ x.do = "charge" => x.scope \in Event /\ x.scope \in past \cup {event}
  /\ x.at = "decided" => x.do = "tap" /\ x.edit.of = event /\ event # NoEvent
  /\ x.at \in {"decided", "done"} => Promise(x, x.edit, x.says)
  /\ x.at \in {"decided", "done"} /\ x.do = "tap" /\ x.fresh =>
       x.says = Says(IF x.on THEN "removed" ELSE "added", {x.who}, x.scope)

AllLegal == \A t \in Task : tx[t] # Idle => Legal(tx[t])

\* The page a handler painted shows what it will commit.
Painted(x) ==
  x.at = "done" /\ shown # NoEditor /\
  (x.do = "page" \/ (x.do = "tap" /\ x.edit # NoEdit)) =>
    /\ shown.of = event
    /\ \A b \in shown.buttons : b.on <=> b.who \in With(x.edit)[event]

\* Nobody is on the roster of an event that has not begun.
Blank == \A e \in Event : e \notin past \cup {event} => roster[e] = {}

IInv == /\ TypeOK
        /\ LockHeld
        /\ AllLegal
        /\ Blank
        /\ PaintHolds

-----------------------------------------------------------------------------
(* The steps of one handler.                                               *)

\* A handler that is not idle is a Handler.
LEMMA Running ==
  ASSUME TypeOK, NEW t \in Task, tx[t].at # "idle"
  PROVE  tx[t] \in Handler /\ tx[t] # Idle
  BY DEF TypeOK, Idle

\* The values that mean nothing are well typed.
LEMMA Nothings ==
  /\ NoEdit \in Edit
  /\ Silence \in Receipt
  /\ NoEditor \in [of : Scope, buttons : SUBSET Button]
  BY DEF NoEdit, Edit, Silence, Receipt, NoEditor, Scope

\* A handler that stands still while the rosters do stays legal.
LEMMA StaysLegal ==
  ASSUME NEW u \in Task, Legal(tx[u]), tx'[u] = tx[u], UNCHANGED book
  PROVE  Legal(tx[u])'
  BY DEF Legal, Promise, Says, book

\* One handler moves on without committing: it arrives, takes the lock, or holds it.
LEMMA MoveKeeps ==
  ASSUME IInv, NEW t \in Task, NEW y \in Handler,
         tx' = [tx EXCEPT ![t] = y], UNCHANGED book,
         \/ y.at = "arrived" /\ lock' = lock /\ shown' = shown
         \/ lock \in {t, NoTask} /\ lock' = t,
         Legal(y), Painted(y)'
  PROVE  /\ tx' \in [Task -> {Idle} \cup Handler]
         /\ LockHeld' /\ AllLegal' /\ Blank' /\ PaintHolds'
<1>1. tx' \in [Task -> {Idle} \cup Handler] /\ tx'[t] = y /\ \A u \in Task \ {t} : tx'[u] = tx[u]
  BY DEF IInv, TypeOK
<1>2. lock' = t /\ lock \in {t, NoTask} =>
        \A u \in Task \ {t} : tx[u].at \notin {"entered", "decided", "done"}
  BY RosterIds DEF IInv, LockHeld
<1>3. LockHeld'
  BY <1>1, <1>2 DEF IInv, LockHeld
<1>4. AllLegal'
  <2>1. Legal(y)'
    BY DEF Legal, Promise, book
  <2>2. ASSUME NEW u \in Task \ {t}, tx[u] # Idle PROVE Legal(tx[u])'
    BY <1>1, <2>2, StaysLegal DEF IInv, AllLegal
  <2> QED
    BY <1>1, <2>1, <2>2 DEF AllLegal
<1>5. Blank'
  BY DEF IInv, Blank, book
<1>6. PaintHolds'
  <2>1. ASSUME NEW u \in Task \ {t} PROVE Painted(tx[u])'
    BY <1>1, <1>2 DEF IInv, PaintHolds, Painted, book, With
  <2>2. Painted(tx[t])'
    BY <1>1 DEF Painted, With
  <2> SUFFICES ASSUME NEW u \in Task PROVE Painted(tx[u])'
    BY DEF PaintHolds, Painted
  <2> QED
    BY <2>1, <2>2
<1> QED
  BY <1>1, <1>3, <1>4, <1>5, <1>6

\* A handler ends without committing anything.
LEMMA EndKeeps ==
  ASSUME IInv, NEW t \in Task, End(t), UNCHANGED <<book, shown>>
  PROVE  /\ tx' \in [Task -> {Idle} \cup Handler] /\ lock' \in Task \cup {NoTask}
         /\ LockHeld' /\ AllLegal' /\ Blank' /\ PaintHolds'
<1>1. /\ tx' \in [Task -> {Idle} \cup Handler] /\ tx'[t] = Idle
      /\ \A u \in Task \ {t} : tx'[u] = tx[u]
      /\ lock' = IF lock = t THEN NoTask ELSE lock
  BY DEF IInv, TypeOK, End
<1>2. LockHeld'
  BY <1>1 DEF IInv, LockHeld, Idle
<1>3. AllLegal'
  <2>1. ASSUME NEW u \in Task \ {t}, tx[u] # Idle PROVE Legal(tx[u])'
    BY <1>1, <2>1, StaysLegal DEF IInv, AllLegal
  <2> QED
    BY <1>1, <2>1 DEF AllLegal
<1>4. Blank'
  BY DEF IInv, Blank, book
<1>5. PaintHolds'
  <2>1. ASSUME NEW u \in Task \ {t} PROVE Painted(tx[u])'
    BY <1>1 DEF IInv, PaintHolds, Painted, book, With
  <2>2. Painted(tx[t])'
    BY <1>1 DEF Painted, With, Idle
  <2> SUFFICES ASSUME NEW u \in Task PROVE Painted(tx[u])'
    BY DEF PaintHolds, Painted
  <2> QED
    BY <2>1, <2>2
<1> QED
  BY <1>1, <1>2, <1>3, <1>4, <1>5 DEF IInv, TypeOK

\* Moving on changes no other field.
LEMMA AtFields ==
  ASSUME NEW x \in Handler, NEW a \in {"entered", "done"}, NEW y, y = [x EXCEPT !.at = a]
  PROVE  /\ y \in Handler
         /\ y.at = a /\ y.who = x.who /\ y.idx = x.idx /\ y.on = x.on /\ y.do = x.do
         /\ y.what = x.what /\ y.scope = x.scope /\ y.edit = x.edit /\ y.says = x.says
         /\ y.fresh = x.fresh
  BY DEF Handler

\* An update arrives.
LEMMA ReceiveKeeps ==
  ASSUME IInv, NEW t \in Task, NEW y \in Handler, Receive(t, y),
         y.at = "arrived", y.edit = NoEdit, y.says = Silence, y.fresh = FALSE,
         y.do \in Command \cup {"charge"} => y.who \in User,
         y.do \in {"add", "remove"} => \E v \in User : y.what = {v},
         y.do = "charge" => y.scope \in Event /\ y.scope = event
  PROVE  IInv'
<1>1. Legal(y) /\ Painted(y)'
  BY DEF Legal, Painted
<1>2. tx' = [tx EXCEPT ![t] = y] /\ UNCHANGED <<members, book, lock, shown>> /\ said' = Silence
  BY DEF Receive
<1> QED
  BY <1>1, <1>2, MoveKeeps, Nothings DEF IInv, TypeOK, book

\* groups.upsert.
LEMMA EnterKeeps ==
  ASSUME IInv, NEW t \in Task, Enter(t)
  PROVE  IInv'
<1>1. PICK x \in Handler : tx[t] = x /\ x.at = "arrived" /\ Legal(x)
  BY Running DEF Enter, IInv, AllLegal
<1>2. PICK y : y = [x EXCEPT !.at = "entered"]
  OBVIOUS
<1>3. Legal(y) /\ Painted(y)' /\ y \in Handler
  <2>1. /\ y \in Handler
        /\ y.at = "entered" /\ y.who = x.who /\ y.do = x.do /\ y.what = x.what
        /\ y.scope = x.scope /\ y.edit = x.edit /\ y.says = x.says /\ y.fresh = x.fresh
    BY <1>2, AtFields
  <2> QED
    BY <1>1, <2>1 DEF Legal, Painted
<1>4. /\ tx' = [tx EXCEPT ![t] = y] /\ UNCHANGED <<members, book, shown>> /\ said' = Silence
      /\ lock = NoTask /\ lock' = t
  BY <1>1, <1>2 DEF Enter
<1> QED
  BY <1>3, <1>4, MoveKeeps, Nothings DEF IInv, TypeOK, book

\* A typed command decides on its edit and its receipt.
LEMMA ReplyKeeps ==
  ASSUME IInv, NEW t \in Task, NEW J \in SUBSET User, NEW e \in Edit, NEW s \in Receipt,
         tx[t].at = "entered", tx[t].do \in Command \cup {"charge"},
         Promise(tx[t], e, s), Reply(t, J, e, s)
  PROVE  IInv'
<1>1. PICK x \in Handler : tx[t] = x /\ x.at = "entered" /\ Legal(x)
  BY Running DEF IInv, AllLegal
<1>2. PICK y : y = [x EXCEPT !.at = "done", !.edit = e, !.says = s,
                             !.joins = (J \cup {x.who}) \ members]
  OBVIOUS
<1>3. x.who \in User /\ x.do \notin {"tap", "page", "leave"}
  BY <1>1 DEF Legal, Command
<1>4. /\ y \in Handler
      /\ y.at = "done" /\ y.who = x.who /\ y.do = x.do /\ y.what = x.what
      /\ y.scope = x.scope /\ y.edit = e /\ y.says = s
  BY <1>2, <1>3 DEF Handler
<1>5. Promise(y, e, s)
  BY <1>1, <1>4 DEF Promise
<1>6. Legal(y) /\ Painted(y)'
  BY <1>1, <1>3, <1>4, <1>5 DEF Legal, Painted
<1>7. /\ tx' = [tx EXCEPT ![t] = y] /\ UNCHANGED <<members, book, shown, lock>> /\ said' = Silence
      /\ lock = t
  BY <1>1, <1>2 DEF Reply, IInv, LockHeld
<1> QED
  BY <1>4, <1>6, <1>7, MoveKeeps, Nothings DEF IInv, TypeOK, book

\* A well-formed update arrives.
LEMMA UpdateKeeps ==
  ASSUME IInv, NEW t \in Task,
         NEW do \in Command \cup {"charge", "tap", "page", "leave"}, NEW who \in User \cup {NoUser},
         NEW what \in SUBSET User, NEW idx \in Nat, NEW on \in BOOLEAN, NEW scope \in Scope,
         Receive(t, Update(do, who, what, idx, on, scope)),
         do \in Command \cup {"charge"} => who \in User,
         do \in {"add", "remove"} => \E v \in User : what = {v},
         do = "charge" => scope \in Event /\ scope = event
  PROVE  IInv'
<1>1. PICK y : y = Update(do, who, what, idx, on, scope)
  OBVIOUS
<1>2. /\ y \in Handler
      /\ y.at = "arrived" /\ y.do = do /\ y.who = who /\ y.what = what /\ y.scope = scope
      /\ y.edit = NoEdit /\ y.says = Silence /\ y.fresh = FALSE
  BY <1>1, Nothings DEF Update, Handler
<1> QED
  BY <1>1, <1>2, ReceiveKeeps

\* Every update that arrives is well formed.
LEMMA ArrivalKeeps ==
  ASSUME IInv, NEW t \in Task,
         ReceiveTap(t) \/ ReceivePage(t) \/ ReceiveCommand(t) \/ ReceiveCharge(t)
  PROVE  IInv'
<1> USE DEF Command, Scope
<1>1. CASE ReceiveTap(t)
  <2>1. PICK b \in shown.buttons :
          Receive(t, Update("tap", b.who, {}, b.idx, b.on, shown.of))
    BY <1>1 DEF ReceiveTap
  <2>2. b.who \in User /\ b.idx \in Nat /\ b.on \in BOOLEAN /\ shown.of \in Scope
    BY DEF IInv, TypeOK, Button
  <2> QED
    BY <2>1, <2>2, UpdateKeeps
<1>2. CASE ReceivePage(t)
  <2>1. ASSUME NEW p \in 0..MaxPage, Receive(t, Update("page", NoUser, {}, p, FALSE, NoEvent))
        PROVE  IInv'
    <3>1. p \in Nat
      BY RosterBounds
    <3> QED
      BY <2>1, <3>1, UpdateKeeps
  <2>2. ASSUME Receive(t, Update("leave", NoUser, {}, 0, FALSE, NoEvent))
        PROVE  IInv'
    BY <2>2, UpdateKeeps
  <2> QED
    BY <1>2, <2>1, <2>2 DEF ReceivePage
<1>3. CASE ReceiveCommand(t)
  <2>1. PICK u \in Author :
          \/ \E do \in {"new", "close", "addall"} : Receive(t, Update(do, u, {}, 0, FALSE, NoEvent))
          \/ \E do \in {"add", "remove"}, v \in User :
               Receive(t, Update(do, u, {v}, 0, FALSE, NoEvent))
    BY <1>3 DEF ReceiveCommand
  <2>2. u \in User
    BY RosterNames
  <2>3. ASSUME NEW do \in {"new", "close", "addall"}, Receive(t, Update(do, u, {}, 0, FALSE, NoEvent))
        PROVE  IInv'
    BY <2>2, <2>3, UpdateKeeps
  <2>4. ASSUME NEW do \in {"add", "remove"}, NEW v \in User,
               Receive(t, Update(do, u, {v}, 0, FALSE, NoEvent))
        PROVE  IInv'
    BY <2>2, <2>4, UpdateKeeps
  <2> QED
    BY <2>1, <2>3, <2>4
<1>4. CASE ReceiveCharge(t)
  <2>1. PICK u \in Author, S \in SUBSET User :
          Receive(t, Update("charge", u, S, 0, FALSE, event)) /\ event # NoEvent
    BY <1>4 DEF ReceiveCharge
  <2>2. u \in User /\ event \in Event
    BY <2>1, RosterNames DEF IInv, TypeOK
  <2> QED
    BY <2>1, <2>2, UpdateKeeps
<1> QED
  BY <1>1, <1>2, <1>3, <1>4

\* Every typed command decides on a step of the book.
LEMMA DecideKeeps ==
  ASSUME IInv, NEW t \in Task, Decide(t)
  PROVE  IInv'
<1>1. PICK x \in Handler : tx[t] = x /\ x.at = "entered" /\ x.do \in Command \cup {"charge"}
                          /\ Legal(x) /\ x.who \in User
  <2>1. tx[t].at = "entered" /\ tx[t].do \in Command \cup {"charge"}
    BY DEF Decide, NewEvent, CloseEvent, NoOpenEvent, AddMember, AddAll, RemoveMember, Charge,
           Serving, Command
  <2> QED
    BY <2>1, Running DEF IInv, AllLegal, Legal
<1>2. \A e \in Event \cap {event} : roster[e] \subseteq User
  BY DEF IInv, TypeOK
<1>3. event \in Event \/ event = NoEvent
  BY DEF IInv, TypeOK, Scope
<1>4. ASSUME NEW J \in SUBSET User, Reply(t, J, NoEdit, Silence) PROVE IInv'
  <2>1. Promise(x, NoEdit, Silence)
    BY DEF Promise
  <2> QED
    BY <1>1, <1>4, <2>1, ReplyKeeps, Nothings
<1>5. CASE NewEvent(t)
  <2>1. ASSUME event = NoEvent, NEW e \in Event \ past,
               Reply(t, {}, [who |-> {x.who}, of |-> e, op |-> "open"], Silence)
        PROVE  IInv'
    <3>1. PICK d \in Edit : d = [who |-> {x.who}, of |-> e, op |-> "open"]
      BY <1>1 DEF Edit, Scope
    <3>2. Promise(x, d, Silence)
      BY <2>1, <3>1 DEF Promise
    <3> QED
      BY <1>1, <2>1, <3>1, <3>2, ReplyKeeps, Nothings
  <2>2. CASE event # NoEvent
    BY <1>4, <1>5, <2>2 DEF NewEvent
  <2>3. CASE event = NoEvent
    <3>1. PICK e \in Event \ past : Reply(t, {}, [who |-> {x.who}, of |-> e, op |-> "open"], Silence)
      BY <1>1, <1>5, <2>3 DEF NewEvent
    <3> QED
      BY <2>1, <2>3, <3>1
  <2> QED
    BY <2>2, <2>3
<1>6. CASE CloseEvent(t)
  <2>1. CASE event # NoEvent
    <3>1. PICK d \in Edit : d = [who |-> {}, of |-> event, op |-> "close"]
      BY <1>3 DEF Edit, Scope
    <3>2. Promise(x, d, Silence)
      BY <2>1, <3>1 DEF Promise
    <3> QED
      BY <1>1, <1>6, <2>1, <3>1, <3>2, ReplyKeeps, Nothings DEF CloseEvent
  <2> QED
    BY <1>4, <1>6, <2>1 DEF CloseEvent
<1>7. CASE NoOpenEvent(t)
  BY <1>4, <1>7 DEF NoOpenEvent
<1>8. ASSUME NEW J \in SUBSET User, NEW S \in SUBSET User, event # NoEvent, Adding(t, J, S)
      PROVE  IInv'
  <2>1. PICK d \in Edit : d = [who |-> S \ roster[event], of |-> event, op |-> "put"]
    BY <1>3 DEF Edit, Scope
  <2>2. PICK s \in Receipt : s = Says("added", S \ roster[event], event)
    BY <1>3 DEF Receipt, Says, Scope
  <2>3. Promise(x, d, s)
    BY <1>8, <2>1, <2>2 DEF Promise
  <2> QED
    BY <1>1, <1>8, <2>1, <2>2, <2>3, ReplyKeeps DEF Adding
<1>9. CASE AddMember(t)
  BY <1>1, <1>8, <1>9 DEF AddMember, Handler
<1>10. CASE AddAll(t)
  BY <1>1, <1>8, <1>10 DEF AddAll, IInv, TypeOK
<1>11. CASE RemoveMember(t)
  <2>1. PICK v \in User : x.what = {v}
    BY <1>1, <1>11 DEF RemoveMember, Serving, Legal
  <2>2. PICK d \in Edit : d = [who |-> {v} \cap roster[event], of |-> event, op |-> "drop"]
    BY <1>3 DEF Edit, Scope
  <2>3. PICK s \in Receipt : s = Says("removed", {v} \cap roster[event], event)
    BY <1>3 DEF Receipt, Says, Scope
  <2>4. Promise(x, d, s)
    BY <1>11, <2>2, <2>3 DEF Promise, RemoveMember
  <2> QED
    BY <1>1, <1>11, <2>1, <2>2, <2>3, <2>4, ReplyKeeps DEF RemoveMember
<1>12. CASE Charge(t)
  <2>1. x.do = "charge" /\ x.scope \in Event /\ x.what \subseteq User
    BY <1>1, <1>12 DEF Charge, Serving, Legal, Handler
  <2>2. PICK d \in Edit : d = [who |-> {x.who} \cup x.what, of |-> x.scope, op |-> "put"]
    BY <1>1, <2>1 DEF Edit, Scope
  <2>3. PICK s \in Receipt :
          s = Says("charged", IF x.what = {} THEN roster[x.scope] \cup {x.who} \cup x.what
                              ELSE x.what, x.scope)
    BY <1>1, <2>1 DEF Receipt, Says, Scope, IInv, TypeOK
  <2>4. Promise(x, d, s) /\ Promise(x, d, Silence)
    BY <2>1, <2>2, <2>3 DEF Promise
  <2>5. Reply(t, x.what, d, s) \/ Reply(t, x.what, d, Silence)
    BY <1>1, <1>12, <2>2, <2>3 DEF Charge
  <2> QED
    BY <1>1, <2>1, <2>4, <2>5, ReplyKeeps, Nothings
<1> QED
  BY <1>5, <1>6, <1>7, <1>9, <1>10, <1>11, <1>12 DEF Decide

\* One member stands at a place of the list, or none.
LEMMA PointedOne ==
  ASSUME NEW S, NEW pos \in Orders(S), NEW idx
  PROVE  Pointed(S, pos, idx) = {} \/ \E v \in S : Pointed(S, pos, idx) = {v} /\ pos[v] = idx
  BY DEF Orders, Pointed

\* A tap decides: nobody there, or the mark of the one member there flips.
LEMMA ToggleKeeps ==
  ASSUME IInv, NEW t \in Task, ToggleMember(t)
  PROVE  IInv'
<1>1. PICK x \in Handler : tx[t] = x /\ x.at = "entered" /\ x.do = "tap" /\ Legal(x)
  BY Running DEF ToggleMember, Serving, IInv, AllLegal
<1>2. event \in Event /\ x.edit = NoEdit /\ x.says = Silence /\ lock = t
  BY <1>1 DEF ToggleMember, IInv, TypeOK, Scope, Legal, LockHeld
<1>3. PICK pos \in Orders(members) :
        LET u   == Pointed(members, pos, x.idx)
            off == u \cap roster[event] # {}
        IN tx' = [tx EXCEPT ![t] =
             IF u = {} THEN [x EXCEPT !.at = "done", !.fresh = StillShown(x, pos)]
             ELSE [x EXCEPT !.at = "decided", !.idx = x.idx \div PageSize,
                            !.edit = [who |-> u, of |-> event, op |-> IF off THEN "drop" ELSE "put"],
                            !.says = Says(IF off THEN "removed" ELSE "added", u, event),
                            !.fresh = StillShown(x, pos)]]
  BY <1>1 DEF ToggleMember
<1> DEFINE u == Pointed(members, pos, x.idx)
<1>4. PICK f \in BOOLEAN : f = StillShown(x, pos)
  BY DEF StillShown
<1>5. CASE u = {}
  <2>1. PICK y : y = [x EXCEPT !.at = "done", !.fresh = f]
    OBVIOUS
  <2>2. /\ y \in Handler /\ y.at = "done" /\ y.do = "tap" /\ y.edit = NoEdit /\ y.says = Silence
        /\ y.fresh = f
    BY <1>1, <1>2, <2>1 DEF Handler
  <2>3. f = FALSE
    BY <1>4, <1>5 DEF StillShown, Pointed
  <2>4. Legal(y) /\ Painted(y)'
    BY <2>2, <2>3 DEF Legal, Painted, Promise, Command
  <2>5. tx' = [tx EXCEPT ![t] = y] /\ UNCHANGED <<members, book, shown, lock>> /\ said' = Silence
    BY <1>3, <1>4, <1>5, <2>1 DEF ToggleMember
  <2> QED
    BY <1>2, <2>2, <2>4, <2>5, MoveKeeps, Nothings DEF IInv, TypeOK, book
<1>6. ASSUME NEW v \in members, u = {v}, pos[v] = x.idx PROVE IInv'
  <2>1. PICK verb : verb = IF v \in roster[event] THEN "removed" ELSE "added"
    OBVIOUS
  <2>2. PICK e : e = [who |-> {v}, of |-> event, op |-> IF v \in roster[event] THEN "drop" ELSE "put"]
    OBVIOUS
  <2>3. PICK s : s = Says(verb, {v}, event)
    OBVIOUS
  <2>4. v \in User /\ e \in Edit /\ s \in Receipt
    BY <1>2, <2>1, <2>2, <2>3 DEF Edit, Receipt, Says, Scope, IInv, TypeOK
  <2>5. PICK i \in Nat : i = x.idx \div PageSize
    BY RosterBounds DEF Handler
  <2>6. PICK y : y = [x EXCEPT !.at = "decided", !.idx = i, !.edit = e, !.says = s, !.fresh = f]
    OBVIOUS
  <2>7. /\ y \in Handler /\ y.at = "decided" /\ y.do = "tap" /\ y.edit = e /\ y.says = s
        /\ y.fresh = f /\ y.who = x.who /\ y.on = x.on /\ y.scope = x.scope
    BY <1>1, <2>4, <2>6 DEF Handler
  <2>8. Promise(y, e, s)
    BY <1>2, <2>1, <2>2, <2>3, <2>4, RosterIds DEF Promise
  <2>9. f => s = Says(IF x.on THEN "removed" ELSE "added", {x.who}, x.scope)
    <3>1. ASSUME f PROVE x.who = v /\ x.scope = event /\ (x.on <=> v \in roster[event])
      BY <1>4, <1>6, <3>1 DEF StillShown, Pointed
    <3> QED
      BY <2>1, <2>3, <3>1
  <2>10. Legal(y) /\ Painted(y)'
    BY <1>2, <2>2, <2>7, <2>8, <2>9, RosterIds DEF Legal, Painted, Command
  <2>11. tx' = [tx EXCEPT ![t] = y]
    <3>1. u # {} /\ (u \cap roster[event] # {} <=> v \in roster[event])
      BY <1>6
    <3> QED
      BY <1>3, <1>4, <1>6, <2>1, <2>2, <2>3, <2>5, <2>6, <3>1
  <2>12. UNCHANGED <<members, book, shown, lock>> /\ said' = Silence
    BY DEF ToggleMember
  <2> QED
    BY <1>2, <2>7, <2>10, <2>11, <2>12, MoveKeeps, Nothings DEF IInv, TypeOK, book
<1> QED
  BY <1>5, <1>6, PointedOne

\* er:done, and an editor without an open event: no page is left to be wrong.
LEMMA LeaveEditorKeeps ==
  ASSUME IInv, NEW t \in Task, LeaveEditor(t)
  PROVE  IInv'
<1>1. PICK x \in Handler : tx[t] = x /\ x.at = "entered" /\ x.do \notin Command \cup {"charge"}
                          /\ Legal(x) /\ lock = t
  BY Running DEF LeaveEditor, IInv, AllLegal, LockHeld, Command
<1>2. PICK y : y = [x EXCEPT !.at = "done"]
  OBVIOUS
<1>3. /\ y \in Handler
      /\ y.at = "done" /\ y.who = x.who /\ y.do = x.do /\ y.what = x.what
      /\ y.scope = x.scope /\ y.edit = x.edit /\ y.says = x.says /\ y.fresh = x.fresh
  BY <1>2, AtFields
<1>4. /\ tx' = [tx EXCEPT ![t] = y] /\ shown' = NoEditor /\ UNCHANGED <<members, book, lock>>
      /\ said' = Silence
  BY <1>1, <1>2 DEF LeaveEditor
<1>5. Legal(y) /\ Painted(y)'
  BY <1>1, <1>3, <1>4 DEF Legal, Painted, Promise, Command
<1> QED
  BY <1>1, <1>3, <1>4, <1>5, MoveKeeps, Nothings DEF IInv, TypeOK, book

\* A page names the event it is of and marks exactly those on the roster it is given.
LEMMA ViewFields ==
  ASSUME NEW e \in Scope, NEW S \in SUBSET User, NEW pos \in Orders(S), NEW on, NEW page
  PROVE  /\ View(e, S, pos, on, page) \in [of : Scope, buttons : SUBSET Button]
         /\ View(e, S, pos, on, page).of = e
         /\ \A b \in View(e, S, pos, on, page).buttons : b.on <=> b.who \in on
<1>1. PICK p : p = IF page > LastPage(S) THEN LastPage(S) ELSE page
  OBVIOUS
<1> DEFINE B == {[idx |-> pos[u], who |-> u, on |-> u \in on] : u \in {v \in S : pos[v] \div PageSize = p}}
<1>2. View(e, S, pos, on, page) = [of |-> e, buttons |-> B]
  BY <1>1 DEF View
<1>3. \A b \in B : b \in Button /\ (b.on <=> b.who \in on)
  <2> SUFFICES ASSUME NEW u \in S PROVE
                 LET b == [idx |-> pos[u], who |-> u, on |-> u \in on]
                 IN  b \in Button /\ (b.on <=> b.who \in on)
    OBVIOUS
  <2>1. PICK i \in Nat : i = pos[u]
    BY DEF Orders
  <2>2. PICK m \in BOOLEAN : m <=> u \in on
    <3>1. CASE u \in on
      BY <3>1
    <3>2. CASE u \notin on
      BY <3>2
    <3> QED
      BY <3>1, <3>2
  <2>3. u \in User
    OBVIOUS
  <2>4. [idx |-> i, who |-> u, on |-> m] \in Button
    BY <2>3 DEF Button
  <2> QED
    BY <2>1, <2>2, <2>4
<1> QED
  BY <1>2, <1>3

\* The page painted inside a transaction shows what it will commit.
LEMMA RepaintKeeps ==
  ASSUME IInv, NEW t \in Task, Repaint(t)
  PROVE  IInv'
<1>1. PICK x \in Handler : /\ tx[t] = x /\ x.at \in {"entered", "decided"} /\ Legal(x)
                           /\ x.at = "entered" => x.do = "page"
  BY Running DEF Repaint, Serving, IInv, AllLegal
<1>2. /\ event \in Event /\ lock = t /\ x.do \in {"page", "tap"}
      /\ x.at = "decided" => x.do = "tap"
  BY <1>1 DEF Repaint, Serving, IInv, TypeOK, Scope, Legal, LockHeld
<1>3. PICK y : y = [x EXCEPT !.at = "done"]
  OBVIOUS
<1>4. /\ y \in Handler
      /\ y.at = "done" /\ y.who = x.who /\ y.do = x.do /\ y.what = x.what /\ y.on = x.on
      /\ y.scope = x.scope /\ y.edit = x.edit /\ y.says = x.says /\ y.fresh = x.fresh
  BY <1>3, AtFields
<1>5. PICK pos \in Orders(members) : shown' = View(event, members, pos, With(x.edit)[event], x.idx)
  BY <1>1 DEF Repaint
<1>6. /\ tx' = [tx EXCEPT ![t] = y] /\ UNCHANGED <<members, book, lock>> /\ said' = Silence
  BY <1>1, <1>3 DEF Repaint
<1>7. /\ shown' \in [of : Scope, buttons : SUBSET Button]
      /\ shown'.of = event
      /\ \A b \in shown'.buttons : b.on <=> b.who \in With(x.edit)[event]
  BY <1>2, <1>5, ViewFields DEF Scope, IInv, TypeOK
<1>8. Painted(y)'
  BY <1>4, <1>6, <1>7 DEF Painted, With, book
<1>9. Legal(y)
  <2>1. Promise(x, x.edit, x.says) => Promise(y, y.edit, y.says)
    BY <1>4 DEF Promise
  <2>2. x.at = "entered" => Promise(y, y.edit, y.says)
    BY <1>1, <1>4 DEF Promise, Legal
  <2> QED
    BY <1>1, <1>2, <1>4, <2>1, <2>2 DEF Legal, Command
<1> QED
  BY <1>2, <1>4, <1>6, <1>7, <1>8, <1>9, MoveKeeps, Nothings DEF IInv, TypeOK, book

-----------------------------------------------------------------------------
(* No page is blank.                                                       *)

\* Every place of the list is somebody's.
LEMMA PlaceTaken ==
  ASSUME NEW S, IsFiniteSet(S), NEW pos \in Orders(S), NEW k \in 0..(Cardinality(S) - 1)
  PROVE  \E u \in S : pos[u] = k
<1> DEFINE n == Cardinality(S)  T == 0..(n - 1)
<1>1. n \in Nat
  BY FS_CardinalityType
<1>2. IsFiniteSet(T) /\ Cardinality(T) = n
  BY <1>1, FS_Interval
<1>3. pos \in Injection(S, T)
  BY DEF Orders, Injection, IsInjective
<1>4. pos \in Surjection(S, T)
  BY <1>2, <1>3, FS_Injection
<1> QED
  BY <1>4 DEF Surjection

\* The last page begins with a place of the list.
LEMMA LastPageBegins ==
  ASSUME NEW S, IsFiniteSet(S), S # {}
  PROVE  /\ LastPage(S) \in Nat
         /\ LastPage(S) * PageSize <= Cardinality(S) - 1
<1>1. PICK n \in Nat : n = Cardinality(S) - 1
  <2>1. Cardinality(S) \in Nat /\ Cardinality(S) # 0
    BY FS_CardinalityType, FS_EmptySet
  <2> QED
    BY <2>1
<1>2. PICK d \in Nat : d = PageSize /\ d > 0
  BY RosterBounds
<1>3. n \div d \in Int /\ n = d * (n \div d) + (n % d) /\ 0 <= n % d /\ n % d < d
  BY <1>2
<1>4. n \div d \in Nat /\ (n \div d) * d <= n
  BY <1>2, <1>3
<1> QED
  BY <1>1, <1>2, <1>4 DEF LastPage

\* A page of a list that is not empty shows somebody, whatever page was asked for.
LEMMA ViewNotBlank ==
  ASSUME NEW e, NEW S, IsFiniteSet(S), S # {}, NEW pos \in Orders(S), NEW on, NEW page \in Nat
  PROVE  View(e, S, pos, on, page).buttons # {}
<1>1. PICK p \in Nat : /\ p = IF page > LastPage(S) THEN LastPage(S) ELSE page
                       /\ p <= LastPage(S)
  BY LastPageBegins
<1>2. PICK d \in Nat : d = PageSize /\ d > 0
  BY RosterBounds
<1>3. p * d \in Nat /\ p * d <= LastPage(S) * d
  BY <1>1, <1>2, LastPageBegins
<1>4. p * d \in 0..(Cardinality(S) - 1)
  BY <1>2, <1>3, LastPageBegins, FS_CardinalityType
<1>5. PICK u \in S : pos[u] = p * d
  BY <1>4, PlaceTaken
<1>6. (p * d) \div d = p
  BY <1>2
<1>7. u \in {v \in S : pos[v] \div PageSize = p}
  BY <1>2, <1>5, <1>6
<1> QED
  BY <1>1, <1>7 DEF View

\* Only a repaint shows an event, and it shows the members there are at that moment.
LEMMA StepNotBlank ==
  ASSUME IInv, Next, shown' # shown, shown'.of # NoEvent, shown'.buttons = {}
  PROVE  members = {}
<1>1. PICK t \in Task : Repaint(t)
  <2>1. ASSUME NEW u \in User, Join(u) \/ Leave(u) PROVE FALSE
    BY <2>1 DEF Join, Leave
  <2>2. ASSUME NEW t \in Task, ReceiveTap(t) \/ ReceivePage(t) PROVE FALSE
    BY <2>2 DEF ReceiveTap, ReceivePage, Receive
  <2>3. ASSUME NEW t \in Task, ReceiveCommand(t) \/ ReceiveCharge(t) PROVE FALSE
    BY <2>3 DEF ReceiveCommand, ReceiveCharge, Receive
  <2>4. ASSUME NEW t \in Task, Refuse(t) \/ Enter(t) \/ Commit(t) \/ Raise(t) PROVE FALSE
    BY <2>4 DEF Refuse, Enter, Commit, Raise
  <2>5. ASSUME NEW t \in Task, Decide(t) \/ ToggleMember(t) PROVE FALSE
    BY <2>5 DEF Decide, NewEvent, CloseEvent, NoOpenEvent, AddMember, AddAll, Adding,
                RemoveMember, Charge, Reply, ToggleMember
  <2>6. ASSUME NEW t \in Task, LeaveEditor(t) PROVE FALSE
    BY <2>6 DEF LeaveEditor, NoEditor
  <2> QED
    BY <2>1, <2>2, <2>3, <2>4, <2>5, <2>6 DEF Next
<1>2. tx[t].idx \in Nat
  BY <1>1, Running DEF Repaint, Serving, IInv, Handler
<1>3. PICK pos \in Orders(members) :
        shown' = View(event, members, pos, With(tx[t].edit)[event], tx[t].idx)
  BY <1>1 DEF Repaint
<1>4. IsFiniteSet(members)
  BY RosterUsers, FS_Subset DEF IInv, TypeOK
<1> QED
  BY <1>2, <1>3, <1>4, ViewNotBlank

-----------------------------------------------------------------------------
(* The commit, and the invariant.                                          *)

\* What a handler that is done will do to the rosters.
LEMMA CommitStep ==
  ASSUME IInv, NEW t \in Task, Commit(t)
  PROVE  /\ lock = t /\ UNCHANGED shown
         /\ \E x \in Handler :
              /\ tx[t] = x /\ x.at = "done" /\ Legal(x) /\ Promise(x, x.edit, x.says)
              /\ members' = members \cup x.joins /\ roster' = With(x.edit) /\ said' = x.says
              /\ event' = IF x.edit.op = "open" THEN x.edit.of
                          ELSE IF x.edit.op = "close" THEN NoEvent ELSE event
              /\ past' = IF x.edit.op = "close" THEN past \cup {x.edit.of} ELSE past
<1>1. tx[t].at = "done"
  BY DEF Commit
<1>2. tx[t] \in Handler /\ Legal(tx[t]) /\ lock = t
  BY <1>1, Running DEF IInv, AllLegal, LockHeld
<1> QED
  BY <1>1, <1>2 DEF Commit, Legal

\* The lock's holder commits: the others hold nothing a roster could contradict.
LEMMA CommitKeeps ==
  ASSUME IInv, NEW t \in Task, Commit(t)
  PROVE  IInv'
<1>1. PICK x \in Handler :
        /\ tx[t] = x /\ x.at = "done" /\ Legal(x) /\ Promise(x, x.edit, x.says)
        /\ members' = members \cup x.joins /\ roster' = With(x.edit) /\ said' = x.says
        /\ event' = IF x.edit.op = "open" THEN x.edit.of
                    ELSE IF x.edit.op = "close" THEN NoEvent ELSE event
        /\ past' = IF x.edit.op = "close" THEN past \cup {x.edit.of} ELSE past
  BY CommitStep
<1>2. lock = t /\ UNCHANGED shown
  BY CommitStep
<1>3. /\ tx' \in [Task -> {Idle} \cup Handler] /\ tx'[t] = Idle
      /\ \A u \in Task \ {t} : tx'[u] = tx[u]
      /\ lock' = NoTask
  BY <1>2 DEF Commit, End, IInv, TypeOK
<1>4. x.edit \in Edit /\ x.says \in Receipt /\ x.joins \subseteq User
  BY DEF Handler
<1>5. \A u \in Task \ {t} : tx[u].at \notin {"entered", "decided", "done"}
  BY <1>2 DEF IInv, LockHeld
<1>6. x.edit.op = "close" => x.edit.of \in Event /\ x.edit.of = event
  BY <1>1 DEF Promise, NoEdit, Scope, IInv, TypeOK
<1>7. event' \in Scope /\ past' \subseteq Event
  BY <1>1, <1>4, <1>6 DEF Edit, Scope, IInv, TypeOK
<1>8. roster' \in [Event -> SUBSET User]
  BY <1>1, <1>4 DEF With, Edit, IInv, TypeOK
<1>9. past \cup {event} \subseteq past' \cup {event'} \cup {NoEvent}
  BY <1>1, <1>6 DEF Promise, NoEdit
<1>10. Blank'
  <2> SUFFICES ASSUME NEW e \in Event, e \notin past' \cup {event'} PROVE roster'[e] = {}
    BY DEF Blank
  <2>1. roster[e] = {}
    BY <1>9, RosterIds DEF IInv, Blank
  <2>2. x.edit.of # e \/ x.edit.op \notin {"open", "put"}
    BY <1>1, <1>9, RosterIds DEF Promise, Legal, NoEdit
  <2> QED
    BY <1>1, <2>1, <2>2 DEF With, IInv, TypeOK
<1>11. LockHeld'
  BY <1>3, <1>5 DEF LockHeld, Idle
<1>12. AllLegal'
  <2>1. ASSUME NEW u \in Task \ {t}, tx[u] # Idle PROVE Legal(tx[u])'
    <3>1. tx'[u] = tx[u] /\ Legal(tx[u]) /\ tx[u].at = "arrived"
      BY <1>3, <1>5, <2>1 DEF IInv, AllLegal, TypeOK, Handler
    <3> QED
      BY <1>9, <3>1, RosterIds DEF Legal
  <2> QED
    BY <1>3, <2>1 DEF AllLegal
<1>13. PaintHolds'
  BY <1>3, <1>5 DEF PaintHolds, Idle
<1> QED
  BY <1>1, <1>2, <1>3, <1>4, <1>7, <1>8, <1>10, <1>11, <1>12, <1>13 DEF IInv, TypeOK

\* Every step preserves the invariant.
LEMMA InvStep == IInv /\ [Next]_vars => IInv'
<1> SUFFICES ASSUME IInv, [Next]_vars PROVE IInv'
  OBVIOUS
<1>1. CASE UNCHANGED vars
  <2>1. UNCHANGED <<members, book, shown, lock, tx, said>>
    BY <1>1 DEF vars
  <2>2. AllLegal'
    <3>1. ASSUME NEW u \in Task, tx[u] # Idle PROVE Legal(tx[u])'
      BY <2>1, <3>1, StaysLegal DEF IInv, AllLegal
    <3> QED
      BY <2>1, <3>1 DEF AllLegal
  <2>3. TypeOK' /\ LockHeld' /\ Blank' /\ PaintHolds'
    BY <2>1 DEF book, IInv, TypeOK, LockHeld, Blank, PaintHolds, With
  <2> QED
    BY <2>2, <2>3 DEF IInv
<1>2. ASSUME NEW u \in User, Join(u) \/ Leave(u) PROVE IInv'
  <2>1. /\ UNCHANGED <<book, shown, lock, tx>> /\ said' = Silence
        /\ members' \in {members \cup {u}, members \ {u}}
    BY <1>2 DEF Join, Leave
  <2>2. AllLegal'
    <3>1. ASSUME NEW t \in Task, tx[t] # Idle PROVE Legal(tx[t])'
      BY <2>1, <3>1, StaysLegal DEF IInv, AllLegal
    <3> QED
      BY <2>1, <3>1 DEF AllLegal
  <2>3. TypeOK' /\ LockHeld' /\ Blank' /\ PaintHolds'
    BY <2>1, Nothings DEF book, IInv, TypeOK, LockHeld, Blank, PaintHolds, With
  <2> QED
    BY <2>2, <2>3 DEF IInv
<1>3. ASSUME NEW t \in Task, Refuse(t) \/ Raise(t) PROVE IInv'
  BY <1>3, EndKeeps, Nothings DEF Refuse, Raise, IInv, TypeOK, book
<1> QED
  BY <1>1, <1>2, <1>3, ArrivalKeeps, EnterKeeps, DecideKeeps, ToggleKeeps, LeaveEditorKeeps,
     RepaintKeeps, CommitKeeps DEF Next

\* With nobody in the group and no event, the invariant holds.
LEMMA InitInv == Init => IInv
  BY Nothings, RosterIds DEF Init, IInv, TypeOK, Scope, LockHeld, AllLegal, Blank, PaintHolds, Idle

\* The invariant holds of every reachable state.
THEOREM InvHolds == Spec => []IInv
  BY InitInv, InvStep, PTL DEF Spec

\* Type correctness, for every set of users, events and handlers.
THEOREM TypeCorrect == Spec => []TypeOK
<1>1. IInv => TypeOK
  BY DEF IInv
<1> QED
  BY <1>1, InvHolds, PTL

\* A painted editor shows the roster its transaction commits.
THEOREM PaintAlwaysHolds == Spec => []PaintHolds
<1>1. IInv => PaintHolds
  BY DEF IInv
<1> QED
  BY <1>1, InvHolds, PTL

\* A tap whose button still tells the truth flips the mark it shows.
THEOREM FreshTapAlwaysFlips == Spec => []FreshTapFlips
<1>1. IInv => FreshTapFlips
  <2> SUFFICES ASSUME IInv, NEW t \in Task, tx[t].at \in {"decided", "done"}, tx[t].do = "tap",
                      tx[t].fresh
               PROVE  tx[t].says = Says(IF tx[t].on THEN "removed" ELSE "added", {tx[t].who},
                                        tx[t].scope)
    BY DEF FreshTapFlips
  <2>1. Legal(tx[t])
    BY Running DEF IInv, AllLegal
  <2> QED
    BY <2>1 DEF Legal
<1> QED
  BY <1>1, InvHolds, PTL

\* The editor is never repainted with an empty page while there are members to show.
THEOREM NeverBlankHolds == Spec => NeverBlank
<1>1. IInv /\ [Next]_vars =>
        [shown'.of # NoEvent /\ shown'.buttons = {} => members = {} \/ shown' = shown]_vars
  BY StepNotBlank
<1> QED
  BY <1>1, InvHolds, PTL DEF Spec, NeverBlank

-----------------------------------------------------------------------------
(* Refinement: each commit is one step of the book of rosters.             *)

\* A commit is a legal step of the book, its receipt included.
LEMMA CommitIsBook ==
  ASSUME IInv, NEW t \in Task, Commit(t)
  PROVE  Book!Next
<1>1. PICK x \in Handler :
        /\ tx[t] = x /\ x.at = "done" /\ Legal(x) /\ Promise(x, x.edit, x.says)
        /\ members' = members \cup x.joins /\ roster' = With(x.edit) /\ said' = x.says
        /\ event' = IF x.edit.op = "open" THEN x.edit.of
                    ELSE IF x.edit.op = "close" THEN NoEvent ELSE event
        /\ past' = IF x.edit.op = "close" THEN past \cup {x.edit.of} ELSE past
  BY CommitStep
<1>2. PICK e \in Edit : e = x.edit
  BY DEF Handler
<1>3. /\ roster \in [Event -> SUBSET User] /\ event \in Scope
      /\ e.who \subseteq User /\ x.what \subseteq User
  BY DEF IInv, TypeOK, Edit, Handler
<1>4. /\ Silence = Book!Silence
      /\ \A verb, S, f : said' = Says(verb, S, f) => Book!Says(verb, S, f)
  BY DEF Silence, Says, Book!Silence, Book!Says
<1>5. CASE e = NoEdit /\ x.says = Silence
  <2>1. UNCHANGED <<event, past, roster>>
    BY <1>1, <1>2, <1>5, RosterIds DEF With, NoEdit
  <2> QED
    BY <1>1, <1>4, <1>5, <2>1 DEF Book!Next, Book!Hush
<1>6. CASE /\ e.op = "open" /\ e.of \in Event \ past /\ e.who = {x.who}
           /\ event = NoEvent /\ x.says = Silence
  <2>1. roster' = [roster EXCEPT ![e.of] = {x.who}]
    <3>1. roster[e.of] = {}
      BY <1>6, RosterIds DEF IInv, Blank
    <3> QED
      BY <1>1, <1>2, <1>6, <3>1 DEF With
  <2>2. x.who \in User /\ Book!Begin(e.of, x.who)
    BY <1>1, <1>2, <1>3, <1>4, <1>6, <2>1 DEF Book!Begin
  <2> QED
    BY <1>6, <2>2 DEF Book!Next
<1>7. CASE e.op = "close" /\ e.of = event /\ event # NoEvent /\ x.says = Silence
  <2>1. UNCHANGED roster
    BY <1>1, <1>2, <1>3, <1>7 DEF With
  <2> QED
    BY <1>1, <1>2, <1>4, <1>7, <2>1 DEF Book!Next, Book!Close
<1>8. CASE /\ e.op = "put" /\ e.of = event /\ event # NoEvent /\ e.who \cap roster[event] = {}
           /\ x.says = Says("added", e.who, event)
  <2>1. roster' = [roster EXCEPT ![event] = @ \cup e.who] /\ UNCHANGED <<event, past>>
    BY <1>1, <1>2, <1>3, <1>8 DEF With, Scope
  <2>2. e.who \ roster[event] = e.who
    BY <1>8
  <2>3. Book!Add(e.who)
    BY <1>1, <1>4, <1>8, <2>1, <2>2 DEF Book!Add
  <2> QED
    BY <1>3, <2>3 DEF Book!Next
<1>9. CASE /\ e.op = "drop" /\ e.of = event /\ event # NoEvent
           /\ \E u \in User : e.who = {u} \cap roster[event]
           /\ x.says = Says("removed", e.who, event)
  <2>1. PICK u \in User : e.who = {u} \cap roster[event]
    BY <1>9
  <2>2. roster' = [roster EXCEPT ![event] = @ \ {u}] /\ UNCHANGED <<event, past>>
    <3>1. roster' = [roster EXCEPT ![event] = @ \ e.who]
      BY <1>1, <1>2, <1>3, <1>9 DEF With, Scope
    <3>2. roster[event] \ e.who = roster[event] \ {u}
      BY <2>1
    <3> QED
      BY <1>1, <1>2, <1>9, <3>1, <3>2
  <2>3. Book!Remove(u)
    BY <1>1, <1>4, <1>9, <2>1, <2>2 DEF Book!Remove
  <2> QED
    BY <2>3 DEF Book!Next
<1>10. CASE /\ e.op = "put" /\ e.of = x.scope /\ x.do = "charge" /\ e.who = {x.who} \cup x.what
            /\ \/ x.says = Silence
               \/ x.says = Says("charged", IF x.what = {} THEN roster[x.scope] \cup {x.who} \cup x.what
                                           ELSE x.what, x.scope)
  <2>1. x.who \in User /\ x.scope \in Event /\ x.scope \in past \cup {event}
    BY <1>1, <1>10 DEF Legal
  <2>2. PICK joined : joined = roster[x.scope] \cup {x.who} \cup x.what
    OBVIOUS
  <2>3. roster' = [roster EXCEPT ![x.scope] = joined] /\ UNCHANGED <<event, past>>
    BY <1>1, <1>2, <1>3, <1>10, <2>1, <2>2 DEF With
  <2>4. CASE x.says = Silence
    <3>1. Book!Reject(x.scope, x.who, x.what)
      BY <1>1, <1>4, <2>1, <2>2, <2>3, <2>4 DEF Book!Reject
    <3> QED
      BY <1>3, <2>1, <3>1 DEF Book!Next
  <2>5. CASE x.says # Silence
    <3>1. Book!Says("charged", IF x.what = {} THEN joined ELSE x.what, x.scope)
      BY <1>1, <1>4, <1>10, <2>2, <2>5
    <3>2. Book!Charge(x.scope, x.who, x.what)
      BY <2>1, <2>2, <2>3, <3>1 DEF Book!Charge
    <3> QED
      BY <1>3, <2>1, <3>2 DEF Book!Next
  <2> QED
    BY <2>4, <2>5
<1> QED
  BY <1>1, <1>2, <1>5, <1>6, <1>7, <1>8, <1>9, <1>10 DEF Promise

\* Handlers that run concurrently implement atomic roster commands: no edit is
\* lost, and every receipt is true of the roster it edited.
THEOREM Implements == Spec => ImplementsBook
<1>1. Init => Book!Init
  BY DEF Init, Book!Init, Silence, Book!Silence
<1>2. IInv /\ [Next]_vars => [Book!Next]_<<event, past, roster, said>>
  <2> SUFFICES ASSUME IInv, [Next]_vars
               PROVE  Book!Next \/ UNCHANGED <<event, past, roster, said>>
    OBVIOUS
  <2>1. ASSUME UNCHANGED book, said' = Silence PROVE Book!Next
    BY <2>1 DEF book, Silence, Book!Next, Book!Hush, Book!Silence
  <2>2. CASE UNCHANGED vars
    BY <2>2 DEF vars, book
  <2>3. ASSUME NEW u \in User, Join(u) \/ Leave(u) PROVE Book!Next
    BY <2>1, <2>3 DEF Join, Leave
  <2>4. ASSUME NEW t \in Task,
               \/ ReceiveTap(t) \/ ReceivePage(t) \/ ReceiveCommand(t) \/ ReceiveCharge(t)
               \/ Refuse(t) \/ Enter(t) \/ Raise(t)
        PROVE  Book!Next
    BY <2>1, <2>4 DEF ReceiveTap, ReceivePage, ReceiveCommand, ReceiveCharge, Receive, Refuse,
                      Enter, Raise
  <2>5. ASSUME NEW t \in Task, Decide(t) \/ ToggleMember(t) \/ LeaveEditor(t) \/ Repaint(t)
        PROVE  Book!Next
    BY <2>1, <2>5 DEF Decide, NewEvent, CloseEvent, NoOpenEvent, AddMember, AddAll, Adding,
                      RemoveMember, Charge, Reply, ToggleMember, LeaveEditor, Repaint
  <2> QED
    BY <2>2, <2>3, <2>4, <2>5, CommitIsBook DEF Next
<1> QED
  BY <1>1, <1>2, InvHolds, PTL DEF Spec, ImplementsBook, Book!Spec
=============================================================================
