----------------------------- MODULE EventRoster -----------------------------
(***************************************************************************)
(* The rosters of one group's events: the editor message whose buttons     *)
(* name members by their place in a list, the typed edits, and the inline  *)
(* expenses that add whoever they name.  Handlers are concurrent READ      *)
(* COMMITTED transactions.  Every writer of event_members queues for the   *)
(* group's row lock, the wizard's Submit writes none, and a member who     *)
(* leaves does so without the lock.                                        *)
(*                                                                         *)
(* Under the lock only a leave can change what a handler reads, and it     *)
(* reads the members once before it edits and once when it repaints: each  *)
(* of the two is one step.  That at most one event is open, and that the   *)
(* active one is it, is EventScope's business.                             *)
(***************************************************************************)
EXTENDS Naturals, FiniteSets

CONSTANTS
  Task,     \* slots for concurrently running handlers
  NoTask,   \* the group row is unlocked
  User,     \* users rows
  NoUser,   \* nobody in particular
  Author,   \* bound: who sends commands
  Name,     \* username of each, as a place in the collation; NULLs are equal and last
  Event,    \* event ids, drawn fresh by EventRepository.create
  NoEvent,  \* NULL: no event is open
  PageSize, \* members on a page of the editor
  MaxPage,  \* bound on the page numbers in buttons
  MaxNamed  \* bound on the users a command names

ASSUME RosterIds    == NoTask \notin Task /\ NoUser \notin User /\ NoEvent \notin Event
ASSUME RosterUsers  == IsFiniteSet(User)
ASSUME RosterNames  == Name \in [User -> Nat] /\ Author \subseteq User
ASSUME RosterBounds == PageSize \in Nat \ {0} /\ MaxPage \in Nat /\ MaxNamed \in Nat

VARIABLES
  members, \* committed group_members with left_at IS NULL
  event,   \* the committed open event
  past,    \* the committed closed ones
  roster,  \* committed event_members
  shown,   \* the editor message: whose roster, and its buttons
  lock,    \* holder of the groups row lock
  tx,      \* the handlers
  said     \* the receipt the last step committed, if it did

book == <<event, past, roster>>
vars == <<members, book, shown, lock, tx, said>>

Scope    == Event \cup {NoEvent}
Idle     == [at |-> "idle"]
Button   == [who : User, idx : Nat, on : BOOLEAN]
NoEditor == [of |-> NoEvent, buttons |-> {}]
Silence  == [who |-> {}, of |-> NoEvent, verb |-> "nothing"]
NoEdit   == [who |-> {}, of |-> NoEvent, op |-> "none"]

Command == {"new", "close", "add", "addall", "remove"}
Receipt == [who : SUBSET User, of : Scope, verb : {"nothing", "added", "removed", "charged"}]
Edit    == [who : SUBSET User, of : Scope, op : {"none", "open", "close", "put", "drop"}]

\* A running handler: where it is; its update, with who sent the command, the index or
\* page of the button, whom the command names, the scope the gate read; the membership
\* rows and the roster edit it has not committed; its receipt.  Of a tap, who, on and
\* scope are what its button showed, and fresh whether that still held (history).
Handler ==
  [at : {"arrived", "entered", "decided", "done"},
   who : User \cup {NoUser}, idx : Nat, on : BOOLEAN,
   do : Command \cup {"charge", "tap", "page", "leave"}, what : SUBSET User, scope : Scope,
   joins : SUBSET User, edit : Edit, says : Receipt, fresh : BOOLEAN]

Update(do, who, what, idx, on, scope) ==
  [at |-> "arrived", who |-> who, idx |-> idx, on |-> on, do |-> do, what |-> what,
   scope |-> scope, joins |-> {}, edit |-> NoEdit, says |-> Silence, fresh |-> FALSE]

\* ORDER BY username: any order that respects it, ties included.
Orders(S) == {pos \in [S -> 0..(Cardinality(S) - 1)] :
                \A u, v \in S : /\ u # v => pos[u] # pos[v]
                                /\ Name[u] < Name[v] => pos[u] < pos[v]}

\* The roster as a transaction with edit x sees it.
With(x) ==
  IF x.of \notin Event THEN roster
  ELSE [roster EXCEPT ![x.of] = IF x.op \in {"open", "put"} THEN @ \cup x.who
                                ELSE IF x.op = "drop" THEN @ \ x.who ELSE @]

\* Mutant of LastPage: of n members in pages of n there are two pages.
LastPageOver(S) == Cardinality(S) \div PageSize

LastPage(S) == IF S = {} THEN 0 ELSE (Cardinality(S) - 1) \div PageSize

\* The editor's message: one page of the members, each with its mark.
View(e, S, pos, on, page) ==
  LET p == IF page > LastPage(S) THEN LastPage(S) ELSE page IN
  [of |-> e, buttons |-> {[idx |-> pos[u], who |-> u, on |-> u \in on] :
                            u \in {v \in S : pos[v] \div PageSize = p}}]

Init ==
  /\ members = {}
  /\ event   = NoEvent
  /\ past    = {}
  /\ roster  = [e \in Event |-> {}]
  /\ shown   = NoEditor
  /\ lock    = NoTask
  /\ tx      = [t \in Task |-> Idle]
  /\ said    = Silence

-----------------------------------------------------------------------------
(* Beginning and ending a handler.                                         *)

\* chat_member: an onboarding holds the lock and does nothing else that shows here.
Join(u) ==
  /\ lock = NoTask
  /\ members' = members \cup {u}
  /\ said' = Silence
  /\ UNCHANGED <<book, shown, lock, tx>>

\* chat_member: record_member_leave takes no lock.
Leave(u) ==
  /\ members' = members \ {u}
  /\ said' = Silence
  /\ UNCHANGED <<book, shown, lock, tx>>

Receive(t, x) ==
  /\ tx[t] = Idle
  /\ tx' = [tx EXCEPT ![t] = x]
  /\ said' = Silence
  /\ UNCHANGED <<members, book, shown, lock>>

\* er:t, a button of the editor.
ReceiveTap(t) ==
  \E b \in shown.buttons : Receive(t, Update("tap", b.who, {}, b.idx, b.on, shown.of))

\* er:open and er:p open the editor at a page, er:done leaves it.
ReceivePage(t) ==
  \/ \E p \in 0..MaxPage : Receive(t, Update("page", NoUser, {}, p, FALSE, NoEvent))
  \/ Receive(t, Update("leave", NoUser, {}, 0, FALSE, NoEvent))

\* /event and its subcommands.
ReceiveCommand(t) ==
  \E u \in Author :
    \/ \E do \in {"new", "close", "addall"} : Receive(t, Update(do, u, {}, 0, FALSE, NoEvent))
    \/ \E do \in {"add", "remove"}, v \in User : Receive(t, Update(do, u, {v}, 0, FALSE, NoEvent))

\* An inline /addexpense: the gate reads the active event, which is the open one.  An
\* expense in general scope makes members of those it names, as Join does.
ReceiveCharge(t) ==
  \E u \in Author, S \in SUBSET User :
    /\ event # NoEvent /\ Cardinality(S) <= MaxNamed
    /\ Receive(t, Update("charge", u, S, 0, FALSE, event))

End(t) ==
  /\ tx'   = [tx EXCEPT ![t] = Idle]
  /\ lock' = IF lock = t THEN NoTask ELSE lock

\* is_admin answers no before any state is touched.
Refuse(t) ==
  /\ tx[t].at = "arrived"
  /\ tx[t].do # "charge"
  /\ End(t)
  /\ said' = Silence
  /\ UNCHANGED <<members, book, shown>>

\* Mutant of Enter: the group is selected, not upserted.
EnterUnlocked(t) ==
  /\ tx[t].at = "arrived"
  /\ lock' = t
  /\ tx' = [tx EXCEPT ![t].at = "entered"]
  /\ said' = Silence
  /\ UNCHANGED <<members, book, shown>>

\* groups.upsert.
Enter(t) ==
  /\ tx[t].at = "arrived"
  /\ lock = NoTask
  /\ lock' = t
  /\ tx' = [tx EXCEPT ![t].at = "entered"]
  /\ said' = Silence
  /\ UNCHANGED <<members, book, shown>>

\* The handler returned.
Commit(t) ==
  LET x == tx[t] IN
  /\ x.at = "done"
  /\ members' = members \cup x.joins
  /\ roster'  = With(x.edit)
  /\ event'   = IF x.edit.op = "open" THEN x.edit.of
                ELSE IF x.edit.op = "close" THEN NoEvent ELSE event
  /\ past'    = IF x.edit.op = "close" THEN past \cup {x.edit.of} ELSE past
  /\ said'    = x.says
  /\ End(t)
  /\ UNCHANGED shown

\* The database or Telegram failed: roll back.  What was painted stays.
Raise(t) ==
  /\ tx[t].at \in {"entered", "decided", "done"}
  /\ End(t)
  /\ said' = Silence
  /\ UNCHANGED <<members, book, shown>>

-----------------------------------------------------------------------------
(* The typed commands, between the lock and the commit.                    *)

Serving(t, do) == tx[t].at = "entered" /\ tx[t].do = do

\* The command's author and J become members, if they are not; then the edit, if any.
Reply(t, J, edit, says) ==
  /\ tx' = [tx EXCEPT ![t] = [@ EXCEPT !.at = "done", !.edit = edit, !.says = says,
                                       !.joins = (J \cup {tx[t].who}) \ members]]
  /\ said' = Silence
  /\ UNCHANGED <<members, book, shown, lock>>

Says(verb, S, e) == [who |-> S, of |-> e, verb |-> verb]

\* create_event: the creator is on the roster.
NewEvent(t) ==
  /\ Serving(t, "new")
  /\ \/ event # NoEvent /\ Reply(t, {}, NoEdit, Silence)
     \/ /\ event = NoEvent
        /\ \E e \in Event \ past :
             Reply(t, {}, [who |-> {tx[t].who}, of |-> e, op |-> "open"], Silence)

\* Mutant of CloseEvent: closes what is open without asking whether anything is.
CloseUnlooked(t) ==
  /\ Serving(t, "close")
  /\ Reply(t, {}, [who |-> {}, of |-> event, op |-> "close"], Silence)

\* close_event, if an event is open.
CloseEvent(t) ==
  /\ Serving(t, "close")
  /\ Reply(t, {}, IF event = NoEvent THEN NoEdit
                  ELSE [who |-> {}, of |-> event, op |-> "close"], Silence)

NoOpenEvent(t) ==
  /\ tx[t].at = "entered"
  /\ tx[t].do \in {"add", "addall", "remove"}
  /\ event = NoEvent
  /\ Reply(t, {}, NoEdit, Silence)

Adding(t, J, S) ==
  Reply(t, J, [who |-> S \ roster[event], of |-> event, op |-> "put"],
        Says("added", S \ roster[event], event))

\* /event add: the one named becomes a member of the group as well.
AddMember(t) ==
  /\ Serving(t, "add")
  /\ event # NoEvent
  /\ Adding(t, tx[t].what, tx[t].what)

\* /event add @all: every member there is, the author among them.
AddAll(t) ==
  /\ Serving(t, "addall")
  /\ event # NoEvent
  /\ Adding(t, {}, members \cup {tx[t].who})

\* /event remove, by name, whether or not the one named is a member of the group.
RemoveMember(t) ==
  /\ Serving(t, "remove")
  /\ event # NoEvent
  /\ Reply(t, {}, [who |-> tx[t].what \cap roster[event], of |-> event, op |-> "drop"],
           Says("removed", tx[t].what \cap roster[event], event))

\* resolve_participants, then add_expense or its DomainError: payer and named become
\* members and join the roster of the scope the gate read; nobody named is everyone.
Charge(t) ==
  LET x      == tx[t]
      joined == roster[x.scope] \cup {x.who} \cup x.what
      edit   == [who |-> {x.who} \cup x.what, of |-> x.scope, op |-> "put"]
  IN /\ Serving(t, "charge")
     /\ \/ Reply(t, x.what, edit,
                 Says("charged", IF x.what = {} THEN joined ELSE x.what, x.scope))
        \/ x.what # {} /\ Reply(t, x.what, edit, Silence)

-----------------------------------------------------------------------------
(* The editor.                                                             *)

\* Mutant of Pointed: the index counts from the top of its page.
PointedOnPage(S, pos, idx) == {u \in S : pos[u] = idx % PageSize}

\* members[idx], or nobody.
Pointed(S, pos, idx) == {u \in S : pos[u] = idx}

\* Whether what the button of tap x showed still holds, the members listed as in pos.
StillShown(x, pos) ==
  /\ x.scope = event
  /\ x.who \in members /\ pos[x.who] = x.idx
  /\ x.on <=> x.who \in roster[event]

\* er:t: toggle whoever is at that place of the list now; nobody there, nothing done.
ToggleMember(t) ==
  /\ Serving(t, "tap")
  /\ event # NoEvent
  /\ \E pos \in Orders(members) :
       LET u   == Pointed(members, pos, tx[t].idx)
           off == u \cap roster[event] # {}
       IN tx' = [tx EXCEPT ![t] =
            IF u = {} THEN [@ EXCEPT !.at = "done", !.fresh = StillShown(tx[t], pos)]
            ELSE [@ EXCEPT !.at = "decided", !.idx = tx[t].idx \div PageSize,
                           !.edit = [who |-> u, of |-> event, op |-> IF off THEN "drop" ELSE "put"],
                           !.says = Says(IF off THEN "removed" ELSE "added", u, event),
                           !.fresh = StillShown(tx[t], pos)]]
  /\ said' = Silence
  /\ UNCHANGED <<members, book, shown, lock>>

\* With no open event, and on er:done, the message becomes /event info again.
LeaveEditor(t) ==
  /\ tx[t].at = "entered"
  /\ tx[t].do = "leave" \/ (tx[t].do \in {"tap", "page"} /\ event = NoEvent)
  /\ shown' = NoEditor
  /\ tx' = [tx EXCEPT ![t].at = "done"]
  /\ said' = Silence
  /\ UNCHANGED <<members, book, lock>>

\* Mutant of Repaint: the marks are those of the committed roster.
RepaintCommitted(t) ==
  /\ tx[t].at = "decided" \/ (Serving(t, "page") /\ event # NoEvent)
  /\ \E pos \in Orders(members) : shown' = View(event, members, pos, roster[event], tx[t].idx)
  /\ tx' = [tx EXCEPT ![t].at = "done"]
  /\ said' = Silence
  /\ UNCHANGED <<members, book, lock>>

\* _repaint_roster_editor: the page as the transaction sees it, its own edit included.
Repaint(t) ==
  /\ tx[t].at = "decided" \/ (Serving(t, "page") /\ event # NoEvent)
  /\ \E pos \in Orders(members) :
       shown' = View(event, members, pos, With(tx[t].edit)[event], tx[t].idx)
  /\ tx' = [tx EXCEPT ![t].at = "done"]
  /\ said' = Silence
  /\ UNCHANGED <<members, book, lock>>

-----------------------------------------------------------------------------

Decide(t) == \/ NewEvent(t) \/ CloseEvent(t) \/ NoOpenEvent(t)
             \/ AddMember(t) \/ AddAll(t) \/ RemoveMember(t) \/ Charge(t)

Next == \/ \E u \in User : Join(u) \/ Leave(u)
        \/ \E t \in Task :
             \/ ReceiveTap(t) \/ ReceivePage(t) \/ ReceiveCommand(t) \/ ReceiveCharge(t)
             \/ Refuse(t) \/ Enter(t) \/ Decide(t)
             \/ ToggleMember(t) \/ LeaveEditor(t) \/ Repaint(t)
             \/ Commit(t) \/ Raise(t)

Spec == Init /\ [][Next]_vars

-----------------------------------------------------------------------------
(* Properties.                                                             *)

TypeOK ==
  /\ members \subseteq User
  /\ event   \in Scope
  /\ past    \subseteq Event
  /\ roster  \in [Event -> SUBSET User]
  /\ shown   \in [of : Scope, buttons : SUBSET Button]
  /\ lock    \in Task \cup {NoTask}
  /\ tx      \in [Task -> {Idle} \cup Handler]
  /\ said    \in Receipt

\* Concurrent handlers edit rosters as if each were one atomic step at its commit:
\* no edit is lost, and every receipt and toast is true of the roster it edited.
Book == INSTANCE RosterBook WITH event <- event, past <- past, roster <- roster, said <- said
ImplementsBook == Book!Spec

\* An editor painted from inside a transaction shows the roster it is about to commit,
\* of the event that is open then.  (A tap on a place that is gone paints nothing.)
PaintHolds ==
  \A t \in Task : tx[t].at = "done" /\ shown # NoEditor /\
                  (tx[t].do = "page" \/ (tx[t].do = "tap" /\ tx[t].edit # NoEdit)) =>
    /\ shown.of = event
    /\ \A b \in shown.buttons : b.on <=> b.who \in With(tx[t].edit)[event]

\* The editor is never repainted with an empty page while the group has members,
\* whatever page its button was made for and whoever left since: before the tap, or
\* between the toggle and the repaint.
NeverBlank ==
  [][shown'.of # NoEvent /\ shown'.buttons = {} => members = {} \/ shown' = shown]_vars

\* A tap whose button still tells the truth flips the mark it shows, and no other,
\* whatever page it is on and whoever else edits or leaves meanwhile.
FreshTapFlips ==
  \A t \in Task : tx[t].at \in {"decided", "done"} /\ tx[t].do = "tap" /\ tx[t].fresh =>
    tx[t].says = Says(IF tx[t].on THEN "removed" ELSE "added", {tx[t].who}, tx[t].scope)

\* The same of every tap: "a stale index/page can't corrupt anything".  Not so: the
\* index is looked up in the list of the moment, and the event is the one open then.
TapTogglesShown ==
  \A t \in Task : tx[t].at = "decided" =>
    tx[t].edit.who = {tx[t].who} /\ tx[t].edit.of = tx[t].scope

\* "A rejected command never creates ... roster rows as a side effect."  Not so: shares
\* that add_expense rejects are found out after resolve_participants wrote the rows.
RejectedLeavesRoster ==
  \A t \in Task : tx[t].at = "done" /\ tx[t].do = "charge" /\ tx[t].says = Silence =>
    With(tx[t].edit) = roster
=============================================================================
