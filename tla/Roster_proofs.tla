---------------------------- MODULE Roster_proofs -----------------------------
(***************************************************************************)
(* Proofs about Roster, for any number of handlers, groups, people and     *)
(* rows.  A handler past groups.upsert holds its group's lock until it     *)
(* ends (Locked); so a membership it found missing is still missing when   *)
(* it commits the row (Missing), and no row is ever added twice.  A leave, *)
(* which takes no lock, can only make a membership go missing.  In the     *)
(* users table, where groups meet, the unique indexes do the work (Reg).   *)
(***************************************************************************)
EXTENDS Roster, TLAPS

\* The handler is between groups.upsert and the end of its transaction.
Inside(t) == tx[t].at \notin {"idle", "queued"}

\* Whoever is inside holds the lock of its group...
Locked == \A t \in Task : Inside(t) => lock[tx[t].group] = t

\* ... and before that a handler has no row to commit.
Fresh == \A t \in Task : tx[t].at = "queued" => tx[t].joins = {}

\* The memberships a handler is about to add do not exist.
Missing == \A t \in Task : Inside(t) =>
             \A r \in tx[t].joins : members[tx[t].group][r] = 0

\* A handler that is to write about a row has one.
Placed == \A t \in Task : tx[t].at \in {"refresh", "claim", "known", "mentioned"} => tx[t].row \in Row

Typed == TypeOK /\ Placed
IInv  == Typed /\ Locked /\ Fresh /\ Missing /\ OneMembership

-----------------------------------------------------------------------------
(* Type correctness.                                                       *)

Puts == UNION {[S -> User] : S \in SUBSET Row}

\* One more uncommitted row leaves a transaction's writes well typed.
LEMMA PutsGrow ==
  ASSUME NEW f \in Puts, NEW r \in Row, NEW u \in User
  PROVE  [q \in DOMAIN f \cup {r} |-> IF q = r THEN u ELSE f[q]] \in Puts
<1>1. PICK S \in SUBSET Row : f \in [S -> User]
  BY DEF Puts
<1>2. S \cup {r} \in SUBSET Row
  OBVIOUS
<1>3. [q \in S \cup {r} |-> IF q = r THEN u ELSE f[q]] \in [S \cup {r} -> User]
  BY <1>1
<1>4. DOMAIN f = S
  BY <1>1
<1> QED
  BY <1>2, <1>3, <1>4 DEF Puts

\* A transaction that has written nothing is well typed, and an idle slot is none.
LEMMA EmptyPuts == Empty \in Puts
<1>1. {} \in SUBSET Row /\ Empty \in [{} -> User]
  BY DEF Empty
<1> QED
  BY <1>1 DEF Puts

LEMMA IdleIsNoHandler == Idle.at = "idle" /\ \A x \in Handler : x.at # "idle"
  BY DEF Idle, Handler

\* A running handler is a record of the right kind.
LEMMA Running ==
  ASSUME TypeOK, NEW t \in Task, tx[t].at # "idle"
  PROVE  tx[t] \in Handler
  BY IdleIsNoHandler DEF TypeOK

\* A handler rewrites its own record.
LEMMA SetType ==
  ASSUME Typed, NEW t \in Task, NEW x \in Handler, tx' = [tx EXCEPT ![t] = x],
         x.at \in {"refresh", "claim", "known", "mentioned"} => x.row \in Row,
         UNCHANGED <<handle, users, members>>, lock' \in [Group -> Task \cup {NoTask}]
  PROVE  Typed'
<1>1. TypeOK'
  BY DEF Typed, TypeOK
<1>2. \A o \in Task : tx'[o] = IF o = t THEN x ELSE tx[o]
  BY DEF Typed, TypeOK
<1>3. Placed'
  BY <1>2 DEF Typed, Placed
<1> QED
  BY <1>1, <1>3 DEF Typed

\* A handler ends, whatever well-typed rows it leaves behind.
LEMMA EndType ==
  ASSUME Typed, NEW t \in Task, End(t), UNCHANGED handle,
         users' \in [Row -> User], members' \in [Group -> [Row -> Nat]]
  PROVE  Typed'
<1>1. TypeOK'
  BY DEF Typed, TypeOK, End
<1>2. \A o \in Task : tx'[o] = IF o = t THEN Idle ELSE tx[o]
  BY DEF Typed, TypeOK, End
<1>3. Placed'
  BY <1>2, IdleIsNoHandler DEF Typed, Placed
<1> QED
  BY <1>1, <1>3 DEF Typed

LEMMA PutType ==
  ASSUME Typed, NEW t \in Task, NEW r \in Row, NEW u \in User,
         NEW at \in {"known", "mentioned"}, tx[t].at # "idle", Put(t, r, u, at)
  PROVE  Typed'
<1> DEFINE g == [q \in DOMAIN tx[t].puts \cup {r} |-> IF q = r THEN u ELSE tx[t].puts[q]]
<1> DEFINE x == [tx[t] EXCEPT !.puts = g, !.row = r, !.at = at, !.old = NoHandle]
<1>1. tx[t] \in Handler
  BY Running DEF Typed
<1>2. g \in Puts
  <2>1. tx[t].puts \in Puts
    BY <1>1 DEF Handler, Puts
  <2> QED
    BY <2>1, PutsGrow
<1>3. x \in Handler /\ x.row \in Row
  BY <1>1, <1>2 DEF Handler, Puts
<1>4. tx' = [tx EXCEPT ![t] = x]
  BY DEF Put
<1>5. UNCHANGED <<handle, users, members>> /\ lock' \in [Group -> Task \cup {NoTask}]
  BY DEF Put, Typed, TypeOK
<1> HIDE DEF x
<1> QED
  BY <1>3, <1>4, <1>5, SetType

LEMMA GotoType ==
  ASSUME Typed, NEW t \in Task, NEW r \in Row \cup {0}, tx[t].at # "idle",
         NEW at \in {"known", "unknown", "claim", "new", "mentioned", "stranger"},
         r \in Row \/ at \in {"unknown", "new", "stranger"}, Goto(t, r, at)
  PROVE  Typed'
<1> DEFINE x == [tx[t] EXCEPT !.row = r, !.at = at, !.old = NoHandle]
<1>1. tx[t] \in Handler
  BY Running DEF Typed
<1>2. x \in Handler /\ (x.at \in {"refresh", "claim", "known", "mentioned"} => x.row \in Row)
  BY <1>1 DEF Handler
<1>3. tx' = [tx EXCEPT ![t] = x]
  BY DEF Goto
<1>4. UNCHANGED <<handle, users, members>> /\ lock' \in [Group -> Task \cup {NoTask}]
  BY DEF Goto, Typed, TypeOK
<1> HIDE DEF x
<1> QED
  BY <1>2, <1>3, <1>4, SetType

\* Every step keeps the variables well typed.
LEMMA TypeStep == Typed /\ [Next]_vars => Typed'
<1> SUFFICES ASSUME Typed, [Next]_vars PROVE Typed'
  OBVIOUS
<1>1. CASE UNCHANGED vars
  BY <1>1 DEF vars, Typed, TypeOK, Placed
<1>2. ASSUME NEW p \in Person, NEW h \in Handle, Rename(p, h) PROVE Typed'
  BY <1>2 DEF Rename, Typed, TypeOK, Placed
<1>3. ASSUME NEW t \in Task, Arrive(t) PROVE Typed'
  <2>1. PICK kind \in Kind, p \in Person, g \in Group, m \in Handle \cup {NoHandle} :
           Receive(t, kind, p, g, m)
    BY <1>3 DEF Arrive, Kind
  <2> DEFINE x == [at |-> "queued", kind |-> kind, who |-> p, as |-> handle[p], group |-> g,
                   mention |-> m, row |-> 0, old |-> NoHandle, puts |-> Empty, joins |-> {}]
  <2>2. handle[p] \in Handle \cup {NoHandle}
    BY DEF Typed, TypeOK
  <2>3. x \in Handler /\ x.at = "queued"
    BY <2>2, EmptyPuts DEF Handler, Puts
  <2>4. tx' = [tx EXCEPT ![t] = x]
    BY <2>1 DEF Receive
  <2>5. UNCHANGED <<handle, users, members>> /\ lock' \in [Group -> Task \cup {NoTask}]
    BY <2>1 DEF Receive, Typed, TypeOK
  <2> HIDE DEF x
  <2> QED
    BY <2>3, <2>4, <2>5, SetType
<1>4. ASSUME NEW t \in Task, Enter(t) PROVE Typed'
  <2> DEFINE x == [tx[t] EXCEPT !.at = "caller"]
  <2>1. tx[t] \in Handler
    BY <1>4, Running DEF Enter, Typed
  <2>2. x \in Handler /\ x.at = "caller"
    BY <2>1 DEF Handler
  <2>3. tx' = [tx EXCEPT ![t] = x]
    BY <1>4 DEF Enter
  <2>4. UNCHANGED <<handle, users, members>> /\ lock' \in [Group -> Task \cup {NoTask}]
    BY <1>4 DEF Enter, Typed, TypeOK
  <2> HIDE DEF x
  <2> QED
    BY <2>2, <2>3, <2>4, SetType
<1>5. ASSUME NEW t \in Task, FindCaller(t) PROVE Typed'
  <2>1. ASSUME NEW r \in Row, UNCHANGED <<handle, users, members, lock>>,
               tx' = [tx EXCEPT ![t].row = r, ![t].old = users[r].handle, ![t].at = "refresh"]
        PROVE  Typed'
    <3> DEFINE x == [tx[t] EXCEPT !.row = r, !.old = users[r].handle, !.at = "refresh"]
    <3>1. users[r].handle \in Handle \cup {NoHandle}
      BY DEF Typed, TypeOK, User
    <3>2. tx[t] \in Handler
      BY <1>5, Running DEF FindCaller, Typed
    <3>3. x \in Handler /\ x.row \in Row
      BY <3>1, <3>2 DEF Handler
    <3>4. tx' = [tx EXCEPT ![t] = x]
      BY <2>1
    <3>5. lock' \in [Group -> Task \cup {NoTask}]
      BY <2>1 DEF Typed, TypeOK
    <3> HIDE DEF x
    <3> QED
      BY <2>1, <3>3, <3>4, <3>5, SetType
  <2>2. CASE Goto(t, 0, "unknown")
    BY <1>5, <2>2, GotoType DEF FindCaller
  <2> QED
    BY <1>5, <2>1, <2>2 DEF FindCaller
<1>6. ASSUME NEW t \in Task, FindPending(t) PROVE Typed'
  BY <1>6, GotoType DEF FindPending
<1>7. ASSUME NEW t \in Task, Refresh(t) \/ Claim(t) PROVE Typed'
  <2>1. tx[t] \in Handler /\ tx[t].at # "idle" /\ tx[t].row \in Row
    BY <1>7, Running DEF Refresh, Claim, Typed, Placed
  <2>2. users[tx[t].row] \in User
    BY <2>1 DEF Typed, TypeOK
  <2>3. [users[tx[t].row] EXCEPT !.handle = tx[t].as] \in User
    BY <2>1, <2>2 DEF User, Handler
  <2>4. [users[tx[t].row] EXCEPT !.tg = tx[t].who] \in User
    BY <2>1, <2>2 DEF User, Handler
  <2> QED
    BY <1>7, <2>1, <2>3, <2>4, PutType, GotoType DEF Refresh, Claim
<1>8. ASSUME NEW t \in Task, Insert(t) PROVE Typed'
  <2>1. tx[t] \in Handler /\ tx[t].at # "idle"
    BY <1>8, Running DEF Insert, Typed
  <2>2. [tg |-> tx[t].who, handle |-> tx[t].as] \in User
    BY <2>1 DEF User, Handler
  <2> QED
    BY <1>8, <2>1, <2>2, PutType DEF Insert
<1>9. ASSUME NEW t \in Task, EnsureMember(t) PROVE Typed'
  <2> DEFINE x == [tx[t] EXCEPT
       !.joins = IF tx[t].kind = "tap" \/ members[tx[t].group][tx[t].row] > 0
                   THEN @ ELSE @ \cup {tx[t].row},
       !.row = 0,
       !.at = IF tx[t].at = "known" /\ tx[t].kind = "mention" THEN "mention" ELSE "done"]
  <2>1. tx[t] \in Handler /\ tx[t].row \in Row
    BY <1>9, Running DEF EnsureMember, Typed, Placed
  <2>2. x \in Handler /\ x.at \in {"mention", "done"}
    BY <2>1 DEF Handler
  <2>3. tx' = [tx EXCEPT ![t] = x]
    BY <1>9 DEF EnsureMember
  <2>4. UNCHANGED <<handle, users, members>> /\ lock' \in [Group -> Task \cup {NoTask}]
    BY <1>9 DEF EnsureMember, Typed, TypeOK
  <2> HIDE DEF x
  <2> QED
    BY <2>2, <2>3, <2>4, SetType
<1>10. ASSUME NEW t \in Task, FindMention(t) PROVE Typed'
  BY <1>10, GotoType DEF FindMention, Named
<1>11. ASSUME NEW t \in Task, AddPlaceholder(t) PROVE Typed'
  <2>1. tx[t] \in Handler /\ tx[t].at # "idle"
    BY <1>11, Running DEF AddPlaceholder, Typed
  <2>2. [tg |-> NoPerson, handle |-> tx[t].mention] \in User
    BY <2>1 DEF User, Handler
  <2> QED
    BY <1>11, <2>1, <2>2, PutType DEF AddPlaceholder
<1>12. ASSUME NEW t \in Task, Leave(t) \/ Raise(t) PROVE Typed'
  <2>1. CASE Raise(t)
    BY <2>1, EndType DEF Raise, Typed, TypeOK
  <2>2. CASE Leave(t)
    <3>1. tx[t] \in Handler
      BY <2>2, Running DEF Leave, Typed
    <3>2. members[tx[t].group] \in [Row -> Nat]
      BY <3>1 DEF Handler, Typed, TypeOK
    <3> DEFINE f == [r \in Row |-> IF IsCaller(t, r) THEN 0 ELSE members[tx[t].group][r]]
    <3>3. f \in [Row -> Nat]
      BY <3>2
    <3>4. members' = [members EXCEPT ![tx[t].group] = f]
      BY <2>2 DEF Leave
    <3> HIDE DEF f
    <3>5. users' \in [Row -> User] /\ members' \in [Group -> [Row -> Nat]]
      BY <2>2, <3>3, <3>4 DEF Leave, Typed, TypeOK
    <3> QED
      BY <2>2, <3>5, EndType DEF Leave
  <2> QED
    BY <1>12, <2>1, <2>2
<1>13. ASSUME NEW t \in Task, Commit(t) PROVE Typed'
  <2>1. tx[t] \in Handler
    BY <1>13, Running DEF Commit, Typed
  <2>2. PICK S \in SUBSET Row : tx[t].puts \in [S -> User]
    BY <2>1 DEF Handler
  <2>3. users' \in [Row -> User]
    BY <1>13, <2>2 DEF Commit, Typed, TypeOK
  <2>4. members' \in [Group -> [Row -> Nat]]
    <3>1. members[tx[t].group] \in [Row -> Nat]
      BY <2>1 DEF Handler, Typed, TypeOK
    <3> DEFINE f == [r \in Row |-> IF r \in tx[t].joins THEN members[tx[t].group][r] + 1
                                  ELSE members[tx[t].group][r]]
    <3>2. f \in [Row -> Nat]
      BY <3>1
    <3>3. members' = [members EXCEPT ![tx[t].group] = f]
      BY <1>13 DEF Commit
    <3> HIDE DEF f
    <3> QED
      BY <3>2, <3>3 DEF Typed, TypeOK
  <2> QED
    BY <1>13, <2>3, <2>4, EndType DEF Commit
<1> QED
  BY <1>1, <1>2, <1>3, <1>4, <1>5, <1>6, <1>7, <1>8, <1>9, <1>10, <1>11, <1>12, <1>13
     DEF Next, Step

\* The empty database is well typed.
LEMMA TypeInit == Init => Typed
<1>1. Absent \in User
  BY DEF Absent, User
<1> QED
  BY <1>1, IdleIsNoHandler DEF Init, Typed, TypeOK, Placed

\* Every reachable state of the registry is well typed.
THEOREM TypeCorrect == Spec => []TypeOK
<1>1. Typed => TypeOK
  BY DEF Typed
<1> QED
  BY <1>1, TypeInit, TypeStep, PTL DEF Spec

-----------------------------------------------------------------------------
(* One active membership each.                                             *)

Rest == Locked /\ Fresh /\ Missing /\ OneMembership

\* A handler inside rewrites its own record: its group stays, and it plans to add no
\* row but a missing one.
LEMMA OwnStep ==
  ASSUME Typed, Rest, NEW t \in Task, Inside(t), UNCHANGED <<members, lock>>,
         NEW x, tx' = [tx EXCEPT ![t] = x], x.group = tx[t].group, x.at # "queued",
         \A r \in x.joins : r \in tx[t].joins \/ members[tx[t].group][r] = 0
  PROVE  Rest'
<1>1. \A o \in Task : tx'[o] = IF o = t THEN x ELSE tx[o]
  BY DEF Typed, TypeOK
<1>2. lock[tx[t].group] = t /\ \A r \in tx[t].joins : members[tx[t].group][r] = 0
  BY DEF Rest, Locked, Missing
<1>3. Locked'
  BY <1>1, <1>2 DEF Rest, Locked, Inside
<1>4. Fresh'
  BY <1>1 DEF Rest, Fresh
<1>5. Missing'
  BY <1>1, <1>2 DEF Rest, Missing, Inside
<1> QED
  BY <1>3, <1>4, <1>5 DEF Rest, OneMembership

\* A handler that ends, having added at most what was missing and it held the lock
\* for, leaves the other handlers as they were.
LEMMA EndStep ==
  ASSUME Typed, Rest, NEW t \in Task, End(t), OneMembership',
         \A o \in Task \ {t} : Inside(o) => \A r \in tx[o].joins :
            members[tx[o].group][r] = 0 => members'[tx[o].group][r] = 0
  PROVE  Rest'
<1>1. \A o \in Task : tx'[o] = IF o = t THEN Idle ELSE tx[o]
  BY DEF End, Typed, TypeOK
<1>2. \A g \in Group : lock'[g] = IF lock[g] = t THEN NoTask ELSE lock[g]
  BY DEF End
<1>3. \A o \in Task : Inside(o) => tx[o].group \in Group
  BY Running DEF Inside, Typed, Handler
<1>4. Locked'
  BY <1>1, <1>2, <1>3, IdleIsNoHandler DEF Rest, Locked, Inside
<1>5. Fresh'
  BY <1>1, IdleIsNoHandler DEF Rest, Fresh
<1>6. Missing'
  BY <1>1, IdleIsNoHandler DEF Rest, Missing, Inside
<1> QED
  BY <1>4, <1>5, <1>6 DEF Rest

LEMMA PutStep ==
  ASSUME Typed, Rest, NEW t \in Task, Inside(t), NEW r, NEW u,
         NEW at \in {"known", "mentioned"}, Put(t, r, u, at)
  PROVE  Rest'
<1> DEFINE g == [q \in DOMAIN tx[t].puts \cup {r} |-> IF q = r THEN u ELSE tx[t].puts[q]]
<1> DEFINE x == [tx[t] EXCEPT !.puts = g, !.row = r, !.at = at, !.old = NoHandle]
<1>1. tx[t] \in Handler
  BY Running DEF Typed, Inside
<1>2. x.group = tx[t].group /\ x.at # "queued" /\ x.joins = tx[t].joins
  BY <1>1 DEF Handler
<1>3. tx' = [tx EXCEPT ![t] = x]
  BY DEF Put
<1>4. UNCHANGED <<members, lock>>
  BY DEF Put
<1> HIDE DEF x
<1> QED
  BY <1>2, <1>3, <1>4, OwnStep

LEMMA GotoStep ==
  ASSUME Typed, Rest, NEW t \in Task, Inside(t), NEW r, NEW at, at # "queued", Goto(t, r, at)
  PROVE  Rest'
<1> DEFINE x == [tx[t] EXCEPT !.row = r, !.at = at, !.old = NoHandle]
<1>1. tx[t] \in Handler
  BY Running DEF Typed, Inside
<1>2. x.group = tx[t].group /\ x.at # "queued" /\ x.joins = tx[t].joins
  BY <1>1 DEF Handler
<1>3. tx' = [tx EXCEPT ![t] = x]
  BY DEF Goto
<1>4. UNCHANGED <<members, lock>>
  BY DEF Goto
<1> HIDE DEF x
<1> QED
  BY <1>2, <1>3, <1>4, OwnStep

\* Every step keeps the lock held, what is to be added missing, and memberships single.
LEMMA RestStep == Typed /\ Rest /\ [Next]_vars => Rest'
<1> SUFFICES ASSUME Typed, Rest, [Next]_vars PROVE Rest'
  OBVIOUS
<1>1. CASE UNCHANGED vars
  BY <1>1 DEF vars, Rest, Locked, Fresh, Missing, OneMembership, Inside
<1>2. ASSUME NEW p \in Person, NEW h \in Handle, Rename(p, h) PROVE Rest'
  BY <1>2 DEF Rename, Rest, Locked, Fresh, Missing, OneMembership, Inside
<1>3. ASSUME NEW t \in Task, Arrive(t) PROVE Rest'
  <2>1. PICK kind \in Kind, p \in Person, g \in Group, m \in Handle \cup {NoHandle} :
           Receive(t, kind, p, g, m)
    BY <1>3 DEF Arrive, Kind
  <2>2. \A o \in Task : o # t => tx'[o] = tx[o]
    BY <2>1 DEF Receive, Typed, TypeOK
  <2>3. tx'[t].at = "queued" /\ tx'[t].joins = {}
    BY <2>1 DEF Receive, Typed, TypeOK
  <2>4. UNCHANGED <<members, lock>>
    BY <2>1 DEF Receive
  <2> QED
    BY <2>2, <2>3, <2>4 DEF Rest, Locked, Fresh, Missing, OneMembership, Inside
<1>4. ASSUME NEW t \in Task, Enter(t) PROVE Rest'
  <2>1. tx[t] \in Handler /\ tx[t].group \in Group
    BY <1>4, Running DEF Enter, Typed, Handler
  <2>2. tx'[t].at = "caller" /\ tx'[t].group = tx[t].group /\ tx'[t].joins = tx[t].joins
    BY <1>4, <2>1 DEF Enter, Typed, TypeOK, Handler
  <2>3. \A o \in Task : o # t => tx'[o] = tx[o]
    BY <1>4 DEF Enter, Typed, TypeOK
  <2>4. tx[t].joins = {}
    BY <1>4 DEF Enter, Rest, Fresh
  <2>5. lock'[tx[t].group] = t /\ \A g \in Group : g # tx[t].group => lock'[g] = lock[g]
    BY <1>4, <2>1 DEF Enter, Typed, TypeOK
  <2>6. \A o \in Task : Inside(o) => tx[o].group \in Group /\ tx[o].group # tx[t].group
    BY <1>4, Running, RosterDistinct DEF Enter, Inside, Typed, Handler, Rest, Locked
  <2>7. Locked'
    BY <2>2, <2>3, <2>5, <2>6 DEF Rest, Locked, Inside
  <2>8. Fresh' /\ Missing' /\ OneMembership'
    BY <1>4, <2>2, <2>3, <2>4 DEF Enter, Rest, Fresh, Missing, OneMembership, Inside
  <2> QED
    BY <2>7, <2>8 DEF Rest
<1>5. ASSUME NEW t \in Task, FindCaller(t) PROVE Rest'
  <2>1. Inside(t)
    BY <1>5 DEF FindCaller, Inside
  <2>2. ASSUME NEW r \in Row, UNCHANGED <<handle, users, members, lock>>,
               tx' = [tx EXCEPT ![t].row = r, ![t].old = users[r].handle, ![t].at = "refresh"]
        PROVE  Rest'
    <3> DEFINE x == [tx[t] EXCEPT !.row = r, !.old = users[r].handle, !.at = "refresh"]
    <3>1. tx[t] \in Handler
      BY <2>1, Running DEF Inside, Typed
    <3>2. x.group = tx[t].group /\ x.at # "queued" /\ x.joins = tx[t].joins
      BY <3>1 DEF Handler
    <3>3. tx' = [tx EXCEPT ![t] = x]
      BY <2>2
    <3> HIDE DEF x
    <3> QED
      BY <2>1, <2>2, <3>2, <3>3, OwnStep
  <2> QED
    BY <1>5, <2>1, <2>2, GotoStep DEF FindCaller
<1>6. ASSUME NEW t \in Task, FindPending(t) \/ FindMention(t) PROVE Rest'
  BY <1>6, GotoStep DEF FindPending, FindMention, Inside
<1>7. ASSUME NEW t \in Task, Refresh(t) \/ Claim(t) PROVE Rest'
  BY <1>7, GotoStep, PutStep DEF Refresh, Claim, Inside
<1>8. ASSUME NEW t \in Task, Insert(t) \/ AddPlaceholder(t) PROVE Rest'
  BY <1>8, PutStep DEF Insert, AddPlaceholder, Inside
<1>9. ASSUME NEW t \in Task, EnsureMember(t) PROVE Rest'
  <2> DEFINE x == [tx[t] EXCEPT
       !.joins = IF tx[t].kind = "tap" \/ members[tx[t].group][tx[t].row] > 0
                   THEN @ ELSE @ \cup {tx[t].row},
       !.row = 0,
       !.at = IF tx[t].at = "known" /\ tx[t].kind = "mention" THEN "mention" ELSE "done"]
  <2>1. Inside(t) /\ tx[t] \in Handler /\ tx[t].row \in Row /\ tx[t].group \in Group
    BY <1>9, Running DEF EnsureMember, Typed, Placed, Inside, Handler
  <2>2. members[tx[t].group][tx[t].row] \in Nat
    BY <2>1 DEF Typed, TypeOK
  <2>3. x.group = tx[t].group /\ x.at # "queued"
    BY <2>1 DEF Handler
  <2>4. x.joins = IF tx[t].kind = "tap" \/ members[tx[t].group][tx[t].row] > 0
                   THEN tx[t].joins ELSE tx[t].joins \cup {tx[t].row}
    BY <2>1 DEF Handler
  <2>5. \A r \in x.joins : r \in tx[t].joins \/ members[tx[t].group][r] = 0
    BY <2>2, <2>4
  <2>6. tx' = [tx EXCEPT ![t] = x]
    BY <1>9 DEF EnsureMember
  <2>7. UNCHANGED <<members, lock>>
    BY <1>9 DEF EnsureMember
  <2> HIDE DEF x
  <2> QED
    BY <2>1, <2>3, <2>5, <2>6, <2>7, OwnStep
<1>10. ASSUME NEW t \in Task, Raise(t) PROVE Rest'
  BY <1>10, EndStep DEF Raise, Rest, OneMembership
<1>11. ASSUME NEW t \in Task, Leave(t) PROVE Rest'
  <2>1. tx[t].group \in Group
    BY <1>11, Running DEF Leave, Typed, Handler
  <2>2. \A g \in Group, r \in Row : members'[g][r] = 0 \/ members'[g][r] = members[g][r]
    BY <1>11, <2>1 DEF Leave, Typed, TypeOK
  <2>3. OneMembership'
    BY <2>2 DEF Rest, OneMembership
  <2>4. \A o \in Task : Inside(o) => tx[o].group \in Group /\ tx[o].joins \subseteq Row
    BY Running DEF Inside, Typed, Handler
  <2> QED
    BY <1>11, <2>2, <2>3, <2>4, EndStep DEF Leave
<1>12. ASSUME NEW t \in Task, Commit(t) PROVE Rest'
  <2>1. Inside(t) /\ tx[t].group \in Group /\ tx[t].joins \subseteq Row
    BY <1>12, Running DEF Commit, Inside, Typed, Handler
  <2>2. \A g \in Group, r \in Row :
          members'[g][r] = IF g = tx[t].group /\ r \in tx[t].joins THEN members[g][r] + 1
                           ELSE members[g][r]
    BY <1>12, <2>1 DEF Commit, Typed, TypeOK
  <2>3. \A r \in tx[t].joins : members[tx[t].group][r] = 0
    BY <2>1 DEF Rest, Missing
  <2>4. OneMembership'
    BY <2>2, <2>3 DEF Rest, OneMembership
  <2>5. \A o \in Task \ {t} : Inside(o) => /\ tx[o].group \in Group /\ tx[o].joins \subseteq Row
                                          /\ tx[o].group # tx[t].group
    BY <2>1, Running DEF Inside, Typed, Handler, Rest, Locked
  <2> QED
    BY <1>12, <2>2, <2>4, <2>5, EndStep DEF Commit
<1> QED
  BY <1>1, <1>2, <1>3, <1>4, <1>5, <1>6, <1>7, <1>8, <1>9, <1>10, <1>11, <1>12 DEF Next, Step

\* No interleaving of handlers and departures gives somebody two active memberships
\* in a group, for which the table has no constraint: ensure_member's look-up
\* (scalar_one_or_none) never meets two rows.
THEOREM OneMembershipHolds == Spec => []OneMembership
<1>1. Init => IInv
  BY TypeInit, IdleIsNoHandler
     DEF Init, IInv, Locked, Fresh, Missing, OneMembership, Inside
<1>2. IInv /\ [Next]_vars => IInv'
  BY TypeStep, RestStep DEF IInv, Rest
<1>3. IInv => OneMembership
  BY DEF IInv
<1> QED
  BY <1>1, <1>2, <1>3, PTL DEF Spec

-----------------------------------------------------------------------------
(* One row each, and local claims.  The database makes a writer wait for   *)
(* whoever else has written its row or its key (Apart), so what a          *)
(* transaction would see alone is what it commits (SeenOnce).  A claimed   *)
(* row never becomes a placeholder again, and nobody but a claimer writes  *)
(* a placeholder, so the look taken at one before the claim is still true  *)
(* if it still is one (Linked, Looked).                                    *)

Busy(t) == tx[t].at # "idle"

\* Two open transactions have written neither a common row nor a common key.
Apart == \A t, o \in Task : t # o /\ Busy(t) /\ Busy(o) =>
           \A r \in DOMAIN tx[t].puts, q \in DOMAIN tx[o].puts :
             r # q /\ ~SameKey(tx[t].puts[r], tx[o].puts[q])

\* The unique indexes hold of what each transaction sees.
SeenOnce == \A t \in Task : Busy(t) =>
              \A r, q \in Row : r # q /\ Seen(t, r) # Absent /\ Seen(t, q) # Absent
                               => ~SameKey(Seen(t, r), Seen(t, q))

\* Row r exists, bears the handle of t's caller, and is a member of t's group.
Local(t, r) == users[r] # Absent /\ users[r].handle = tx[t].as /\ members[tx[t].group][r] > 0

\* A row rewritten is an account afterwards; if it was a placeholder, a local one.
Linked == \A t \in Task : Busy(t) => \A r \in DOMAIN tx[t].puts : users[r] # Absent =>
            /\ tx[t].puts[r].tg # NoPerson
            /\ users[r].tg = NoPerson => tx[t].puts[r].tg = tx[t].who /\ Local(t, r)

\* What the look-ups found stays true until the write.
Looked == \A t \in Task :
            /\ tx[t].at = "refresh" => users[tx[t].row].tg # NoPerson
            /\ tx[t].at = "claim" /\ users[tx[t].row].tg = NoPerson => Local(t, tx[t].row)

Reg == OneRowEach /\ Apart /\ SeenOnce /\ Linked /\ Looked

\* A handler moves on without writing a row.
LEMMA MoveReg ==
  ASSUME Typed, Reg, NEW t \in Task, Busy(t), NEW x \in Handler, tx' = [tx EXCEPT ![t] = x],
         UNCHANGED <<users, members>>,
         x.puts = tx[t].puts, x.who = tx[t].who, x.as = tx[t].as, x.group = tx[t].group,
         x.at = "refresh" => users[x.row].tg # NoPerson,
         x.at = "claim" => /\ users[x.row] # Absent /\ users[x.row].handle = x.as
                           /\ members[x.group][x.row] > 0
  PROVE  Reg'
<1>1. tx'[t] = x /\ \A o \in Task \ {t} : tx'[o] = tx[o]
  BY DEF Typed, TypeOK
<1>2. \A o \in Task : /\ Busy(o)' => Busy(o)
                      /\ tx'[o].puts = tx[o].puts
                      /\ tx'[o].who = tx[o].who /\ tx'[o].as = tx[o].as /\ tx'[o].group = tx[o].group
  BY <1>1 DEF Busy
<1>3. OneRowEach'
  BY DEF Reg, OneRowEach, SameKey
<1>4. Apart'
  BY <1>2 DEF Reg, Apart, SameKey
<1>5. SeenOnce'
  BY <1>2 DEF Reg, SeenOnce, Seen, SameKey
<1>6. Linked'
  BY <1>2 DEF Reg, Linked, Local
<1>7. Looked'
  BY <1>1 DEF Reg, Looked, Local
<1> QED
  BY <1>3, <1>4, <1>5, <1>6, <1>7 DEF Reg

\* A row is flushed: nobody was in its way.
LEMMA PutReg ==
  ASSUME Typed, Reg, NEW t \in Task, Busy(t), NEW r \in Row, NEW u \in User,
         NEW at \in {"known", "mentioned"}, Put(t, r, u, at),
         users[r] # Absent => /\ u.tg # NoPerson
                              /\ users[r].tg = NoPerson => u.tg = tx[t].who /\ Local(t, r)
  PROVE  Reg'
<1> DEFINE g == [q \in DOMAIN tx[t].puts \cup {r} |-> IF q = r THEN u ELSE tx[t].puts[q]]
<1>1. tx[t] \in Handler
  BY Running DEF Typed, Busy
<1>2. PICK x : x = [tx[t] EXCEPT !.puts = g, !.row = r, !.at = at, !.old = NoHandle]
  OBVIOUS
<1>3. x.puts = g /\ x.at = at /\ x.who = tx[t].who /\ x.as = tx[t].as /\ x.group = tx[t].group
  BY <1>1, <1>2 DEF Handler
<1>4. tx' = [tx EXCEPT ![t] = x] /\ UNCHANGED <<users, members>>
  BY <1>2 DEF Put
<1>5. tx'[t] = x /\ \A o \in Task \ {t} : tx'[o] = tx[o]
  BY <1>4 DEF Typed, TypeOK
<1>6. \A o \in Task \ {t} : Busy(o) => \A q \in DOMAIN tx[o].puts :
        q # r /\ ~SameKey(u, tx[o].puts[q])
  BY DEF Put, Waits, Busy
<1>7. \A q \in Row \ {r} : Seen(t, q) # Absent => ~SameKey(u, Seen(t, q))
  BY DEF Put, Clashes
<1>8. \A q \in Row : Seen(t, q)' = IF q = r THEN u ELSE Seen(t, q)
  BY <1>3, <1>4, <1>5 DEF Seen
<1>9. OneRowEach'
  BY <1>4 DEF Reg, OneRowEach, SameKey
<1>10. Apart'
  <2> SUFFICES ASSUME NEW a \in Task, NEW b \in Task, a # b, Busy(a)', Busy(b)',
                      NEW p \in DOMAIN tx'[a].puts, NEW q \in DOMAIN tx'[b].puts
               PROVE  p # q /\ ~SameKey(tx'[a].puts[p], tx'[b].puts[q])
    BY DEF Apart, SameKey
  <2>1. CASE a # t /\ b # t
    BY <1>5, <2>1 DEF Reg, Apart, Busy
  <2>2. CASE a = t
    <3>1. tx'[b] = tx[b] /\ Busy(b) /\ tx'[a].puts = g
      BY <1>3, <1>5, <2>2 DEF Busy
    <3>2. CASE p = r
      BY <1>6, <2>2, <3>1, <3>2
    <3>3. CASE p # r
      BY <2>2, <3>1, <3>3 DEF Reg, Apart
    <3> QED
      BY <3>2, <3>3
  <2>3. CASE b = t
    <3>1. tx'[a] = tx[a] /\ Busy(a) /\ tx'[b].puts = g
      BY <1>3, <1>5, <2>3 DEF Busy
    <3>2. CASE q = r
      BY <1>6, <2>3, <3>1, <3>2 DEF SameKey
    <3>3. CASE q # r
      BY <2>3, <3>1, <3>3 DEF Reg, Apart
    <3> QED
      BY <3>2, <3>3
  <2> QED
    BY <2>1, <2>2, <2>3
<1>11. SeenOnce'
  <2> SUFFICES ASSUME NEW o \in Task, Busy(o)', NEW p \in Row, NEW q \in Row, p # q,
                      Seen(o, p)' # Absent, Seen(o, q)' # Absent
               PROVE  ~SameKey(Seen(o, p)', Seen(o, q)')
    BY DEF SeenOnce, SameKey, Absent
  <2>1. CASE o = t
    BY <1>7, <1>8, <2>1 DEF Reg, SeenOnce, SameKey
  <2>2. CASE o # t
    BY <1>4, <1>5, <2>2 DEF Reg, SeenOnce, Seen, Busy
  <2> QED
    BY <2>1, <2>2
<1>12. Linked'
  <2> SUFFICES ASSUME NEW o \in Task, Busy(o)', NEW q \in DOMAIN tx'[o].puts, users[q] # Absent
               PROVE  /\ tx'[o].puts[q].tg # NoPerson
                      /\ users[q].tg = NoPerson =>
                           /\ tx'[o].puts[q].tg = tx'[o].who
                           /\ users[q].handle = tx'[o].as /\ members[tx'[o].group][q] > 0
    BY <1>4 DEF Linked, Local, Absent
  <2>1. CASE o = t
    BY <1>3, <1>5, <2>1 DEF Reg, Linked, Local
  <2>2. CASE o # t
    BY <1>5, <2>2 DEF Reg, Linked, Local, Busy
  <2> QED
    BY <2>1, <2>2
<1>13. Looked'
  BY <1>3, <1>4, <1>5 DEF Reg, Looked, Local
<1> QED
  BY <1>9, <1>10, <1>11, <1>12, <1>13 DEF Reg

\* A handler ends, having committed its rows or not.  What that does to memberships
\* leaves those of placeholders.
LEMMA EndReg ==
  ASSUME Typed, Reg, NEW t \in Task, Busy(t), End(t),
         users' = users \/ users' = [r \in Row |-> Seen(t, r)],
         \A g \in Group, r \in Row :
           users[r].tg = NoPerson /\ members[g][r] > 0 => members'[g][r] > 0
  PROVE  Reg'
<1>1. \A o \in Task : tx'[o] = IF o = t THEN Idle ELSE tx[o]
  BY DEF End, Typed, TypeOK
<1>2. ~Busy(t)' /\ \A o \in Task \ {t} : tx'[o] = tx[o]
  BY <1>1, IdleIsNoHandler DEF Busy
<1>3. \A r \in Row : users'[r] = users[r] \/ (r \in DOMAIN tx[t].puts /\ users'[r] = tx[t].puts[r])
  BY DEF Seen
<1>4. \A r \in Row : users[r] # Absent /\ users[r].tg # NoPerson
                     => users'[r] # Absent /\ users'[r].tg # NoPerson
  BY <1>3 DEF Reg, Linked, Absent
<1>5. \A r \in Row : users[r] # Absent /\ users'[r].tg = NoPerson => users'[r] = users[r]
  BY <1>3 DEF Reg, Linked
<1>6. \A o \in Task \ {t} : Busy(o) => tx[o].group \in Group /\ DOMAIN tx[o].puts \subseteq Row
  BY Running DEF Typed, Busy, Handler
<1>7. OneRowEach'
  <2>1. CASE users' = users
    BY <2>1 DEF Reg, OneRowEach, SameKey
  <2>2. CASE users' = [r \in Row |-> Seen(t, r)]
    BY <2>2 DEF Reg, SeenOnce, OneRowEach, SameKey, Absent
  <2> QED
    BY <2>1, <2>2
<1>8. Apart'
  BY <1>2 DEF Reg, Apart, Busy, SameKey
<1>9. SeenOnce'
  <2> SUFFICES ASSUME NEW o \in Task, Busy(o)', NEW p \in Row, NEW q \in Row, p # q,
                      Seen(o, p)' # Absent, Seen(o, q)' # Absent
               PROVE  ~SameKey(Seen(o, p)', Seen(o, q)')
    BY DEF SeenOnce, SameKey, Absent
  <2>1. o # t /\ Busy(o) /\ tx'[o] = tx[o]
    BY <1>2 DEF Busy
  <2>2. \A r \in Row : Seen(o, r)' = IF r \in DOMAIN tx[o].puts THEN tx[o].puts[r] ELSE users'[r]
    BY <2>1 DEF Seen
  <2>3. CASE users' = users
    BY <2>1, <2>2, <2>3 DEF Reg, SeenOnce, Seen
  <2>4. CASE users' = [r \in Row |-> Seen(t, r)]
    <3>1. ASSUME NEW r \in DOMAIN tx[o].puts, NEW s \in Row \ DOMAIN tx[o].puts, r \in Row,
                 Seen(o, r)' # Absent, Seen(o, s)' # Absent
          PROVE  ~SameKey(Seen(o, r)', Seen(o, s)')
      <4>1. Seen(o, r)' = tx[o].puts[r] /\ Seen(o, s)' = Seen(t, s)
        BY <2>2, <2>4, <3>1
      <4>2. CASE s \in DOMAIN tx[t].puts
        <5>1. ~SameKey(tx[o].puts[r], tx[t].puts[s])
          BY <2>1, <4>2 DEF Reg, Apart
        <5> QED
          BY <4>1, <4>2, <5>1 DEF Seen
      <4>3. CASE s \notin DOMAIN tx[t].puts
        <5>1. Seen(o, s)' = Seen(o, s) /\ Seen(o, r)' = Seen(o, r)
          BY <3>1, <4>1, <4>3 DEF Seen
        <5>2. r # s /\ Seen(o, r) # Absent /\ Seen(o, s) # Absent
          BY <3>1, <5>1
        <5>3. ~SameKey(Seen(o, r), Seen(o, s))
          BY <2>1, <3>1, <5>2 DEF Reg, SeenOnce
        <5> QED
          BY <5>1, <5>3
      <4> QED
        BY <4>2, <4>3
    <3>2. CASE p \in DOMAIN tx[o].puts /\ q \in DOMAIN tx[o].puts
      <4>1. Seen(o, p)' = Seen(o, p) /\ Seen(o, q)' = Seen(o, q)
        BY <2>2, <3>2 DEF Seen
      <4> QED
        BY <2>1, <4>1 DEF Reg, SeenOnce
    <3>3. CASE p \notin DOMAIN tx[o].puts /\ q \notin DOMAIN tx[o].puts
      <4>1. Seen(o, p)' = Seen(t, p) /\ Seen(o, q)' = Seen(t, q)
        BY <2>2, <2>4, <3>3
      <4> QED
        BY <4>1 DEF Reg, SeenOnce
    <3>4. CASE p \in DOMAIN tx[o].puts /\ q \notin DOMAIN tx[o].puts
      BY <3>1, <3>4
    <3>5. CASE p \notin DOMAIN tx[o].puts /\ q \in DOMAIN tx[o].puts
      <4>1. ~SameKey(Seen(o, q)', Seen(o, p)')
        BY <3>1, <3>5
      <4> QED
        BY <4>1 DEF SameKey
    <3> QED
      BY <3>2, <3>3, <3>4, <3>5
  <2> QED
    BY <2>3, <2>4
<1>10. Linked'
  <2> SUFFICES ASSUME NEW o \in Task, Busy(o)', NEW q \in DOMAIN tx'[o].puts, users'[q] # Absent
               PROVE  /\ tx'[o].puts[q].tg # NoPerson
                      /\ users'[q].tg = NoPerson =>
                           /\ tx'[o].puts[q].tg = tx'[o].who
                           /\ users'[q].handle = tx'[o].as /\ members'[tx'[o].group][q] > 0
    BY DEF Linked, Local, Absent
  <2>1. o # t /\ Busy(o) /\ tx'[o] = tx[o]
    BY <1>2 DEF Busy
  <2>2. q \in Row /\ users'[q] = users[q] /\ tx[o].group \in Group
    BY <1>3, <1>6, <2>1 DEF Reg, Apart
  <2> QED
    BY <2>1, <2>2 DEF Reg, Linked, Local
<1>11. Looked'
  <2> SUFFICES ASSUME NEW o \in Task, tx'[o].at \in {"refresh", "claim"}
               PROVE  /\ tx'[o].at = "refresh" => users'[tx'[o].row].tg # NoPerson
                      /\ tx'[o].at = "claim" /\ users'[tx'[o].row].tg = NoPerson =>
                           /\ users'[tx'[o].row] # Absent /\ users'[tx'[o].row].handle = tx'[o].as
                           /\ members'[tx'[o].group][tx'[o].row] > 0
    BY DEF Looked, Local, Absent
  <2>1. o # t /\ Busy(o) /\ tx'[o] = tx[o]
    BY <1>1, <1>2, IdleIsNoHandler DEF Busy
  <2>2. tx[o].row \in Row /\ tx[o].group \in Group
    BY <1>6, <2>1 DEF Typed, Placed
  <2>3. CASE tx[o].at = "refresh"
    <3>1. users[tx[o].row].tg # NoPerson /\ users[tx[o].row] # Absent
      BY <2>3 DEF Reg, Looked, Absent
    <3> QED
      BY <1>4, <2>1, <2>2, <2>3, <3>1
  <2>4. CASE tx[o].at = "claim" /\ users'[tx[o].row].tg = NoPerson
    <3>1. users[tx[o].row].tg = NoPerson
      BY <1>4, <2>2, <2>4 DEF Absent
    <3>2. Local(o, tx[o].row)
      BY <2>4, <3>1 DEF Reg, Looked
    <3>3. users'[tx[o].row] = users[tx[o].row]
      BY <1>5, <2>2, <2>4, <3>2 DEF Local
    <3> QED
      BY <2>1, <2>2, <2>4, <3>1, <3>2, <3>3 DEF Local
  <2> QED
    BY <2>1, <2>3, <2>4
<1> QED
  BY <1>7, <1>8, <1>9, <1>10, <1>11 DEF Reg

\* Every step keeps the registry's invariant.
LEMMA RegStep == Typed /\ Reg /\ [Next]_vars => Reg'
<1> SUFFICES ASSUME Typed, Reg, [Next]_vars PROVE Reg'
  OBVIOUS
<1>1. CASE UNCHANGED <<users, members, tx>>
  BY <1>1 DEF Reg, OneRowEach, Apart, SeenOnce, Linked, Looked, Local, Seen, SameKey, Busy
<1>2. ASSUME NEW t \in Task, Arrive(t) PROVE Reg'
  <2>1. PICK kind \in Kind, p \in Person, g \in Group, m \in Handle \cup {NoHandle} :
           Receive(t, kind, p, g, m)
    BY <1>2 DEF Arrive, Kind
  <2>2. \A o \in Task \ {t} : tx'[o] = tx[o]
    BY <2>1 DEF Receive, Typed, TypeOK
  <2>3. tx'[t].at = "queued" /\ DOMAIN tx'[t].puts = {}
    BY <2>1 DEF Receive, Typed, TypeOK, Empty
  <2>4. UNCHANGED <<users, members>>
    BY <2>1 DEF Receive
  <2>5. OneRowEach'
    BY <2>4 DEF Reg, OneRowEach, SameKey
  <2>6. Apart'
    BY <2>2, <2>3 DEF Reg, Apart, Busy, SameKey
  <2>7. SeenOnce'
    <3> SUFFICES ASSUME NEW o \in Task, Busy(o)', NEW r \in Row, NEW q \in Row, r # q,
                        Seen(o, r)' # Absent, Seen(o, q)' # Absent
                 PROVE  ~SameKey(Seen(o, r)', Seen(o, q)')
      BY DEF SeenOnce, SameKey, Absent
    <3>1. CASE o = t
      BY <2>3, <2>4, <3>1 DEF Reg, OneRowEach, Seen
    <3>2. CASE o # t
      BY <2>2, <2>4, <3>2 DEF Reg, SeenOnce, Seen, Busy
    <3> QED
      BY <3>1, <3>2
  <2>8. Linked' /\ Looked'
    BY <2>2, <2>3, <2>4 DEF Reg, Linked, Looked, Local, Busy
  <2> QED
    BY <2>5, <2>6, <2>7, <2>8 DEF Reg
<1>3. ASSUME NEW t \in Task, NEW r \in Row \cup {0},
             NEW at \in {"known", "unknown", "claim", "new", "mentioned", "stranger"},
             Busy(t), Goto(t, r, at),
             at = "claim" => /\ users[r] # Absent /\ users[r].handle = tx[t].as
                             /\ members[tx[t].group][r] > 0
      PROVE  Reg'
  <2>1. tx[t] \in Handler
    BY <1>3, Running DEF Typed, Busy
  <2>2. PICK x : x = [tx[t] EXCEPT !.row = r, !.at = at, !.old = NoHandle]
    OBVIOUS
  <2>3. /\ x \in Handler /\ x.row = r /\ x.at = at /\ x.puts = tx[t].puts
        /\ x.who = tx[t].who /\ x.as = tx[t].as /\ x.group = tx[t].group
    BY <2>1, <2>2 DEF Handler
  <2>4. tx' = [tx EXCEPT ![t] = x] /\ UNCHANGED <<users, members>>
    BY <1>3, <2>2 DEF Goto
  <2> QED
    BY <1>3, <2>3, <2>4, MoveReg
<1>4. ASSUME NEW t \in Task, Enter(t) PROVE Reg'
  <2>1. Busy(t) /\ tx[t] \in Handler
    BY <1>4, Running DEF Enter, Typed, Busy
  <2>2. PICK x : x = [tx[t] EXCEPT !.at = "caller"]
    OBVIOUS
  <2>3. /\ x \in Handler /\ x.at = "caller" /\ x.puts = tx[t].puts
        /\ x.who = tx[t].who /\ x.as = tx[t].as /\ x.group = tx[t].group
    BY <2>1, <2>2 DEF Handler
  <2>4. tx' = [tx EXCEPT ![t] = x] /\ UNCHANGED <<users, members>>
    BY <1>4, <2>2 DEF Enter
  <2> QED
    BY <2>1, <2>3, <2>4, MoveReg
<1>5. ASSUME NEW t \in Task, FindCaller(t) PROVE Reg'
  <2>1. Busy(t) /\ tx[t] \in Handler
    BY <1>5, Running DEF FindCaller, Typed, Busy
  <2>2. ASSUME NEW r \in Row, IsCaller(t, r), UNCHANGED <<handle, users, members, lock>>,
               tx' = [tx EXCEPT ![t].row = r, ![t].old = users[r].handle, ![t].at = "refresh"]
        PROVE  Reg'
    <3>1. PICK x : x = [tx[t] EXCEPT !.row = r, !.old = users[r].handle, !.at = "refresh"]
      OBVIOUS
    <3>2. users[r].handle \in Handle \cup {NoHandle} /\ users[r].tg # NoPerson
      BY <2>1, <2>2, RosterDistinct DEF IsCaller, Typed, TypeOK, User, Handler
    <3>3. /\ x \in Handler /\ x.row = r /\ x.at = "refresh" /\ x.puts = tx[t].puts
          /\ x.who = tx[t].who /\ x.as = tx[t].as /\ x.group = tx[t].group
      BY <2>1, <3>1, <3>2 DEF Handler
    <3>4. tx' = [tx EXCEPT ![t] = x] /\ UNCHANGED <<users, members>>
      BY <2>2, <3>1
    <3> QED
      BY <2>1, <3>2, <3>3, <3>4, MoveReg
  <2> QED
    BY <1>3, <1>5, <2>1, <2>2 DEF FindCaller
<1>6. ASSUME NEW t \in Task, FindPending(t) PROVE Reg'
  <2>1. Busy(t)
    BY <1>6 DEF FindPending, Busy
  <2>2. \A r \in Row : MayClaim(t, r) => /\ users[r] # Absent /\ users[r].handle = tx[t].as
                                        /\ members[tx[t].group][r] > 0
    BY DEF MayClaim, Pending, Absent
  <2> QED
    BY <1>3, <1>6, <2>1, <2>2 DEF FindPending
<1>7. ASSUME NEW t \in Task, FindMention(t) PROVE Reg'
  BY <1>3, <1>7 DEF FindMention, Named, Busy
<1>8. ASSUME NEW t \in Task, Refresh(t) PROVE Reg'
  <2>1. Busy(t) /\ tx[t] \in Handler /\ tx[t].row \in Row
    BY <1>8, Running DEF Refresh, Typed, Placed, Busy
  <2>2. users[tx[t].row] \in User /\ users[tx[t].row].tg # NoPerson
    BY <1>8, <2>1 DEF Refresh, Typed, TypeOK, Reg, Looked
  <2>3. PICK u \in User : u = [users[tx[t].row] EXCEPT !.handle = tx[t].as]
    BY <2>1, <2>2 DEF User, Handler
  <2>4. u.tg # NoPerson
    BY <2>2, <2>3 DEF User
  <2>5. CASE Goto(t, tx[t].row, "known")
    BY <1>3, <2>1, <2>5
  <2>6. CASE Put(t, tx[t].row, u, "known")
    BY <2>1, <2>2, <2>4, <2>6, PutReg
  <2> QED
    BY <1>8, <2>3, <2>5, <2>6 DEF Refresh
<1>9. ASSUME NEW t \in Task, Claim(t) PROVE Reg'
  <2>1. Busy(t) /\ tx[t] \in Handler /\ tx[t].row \in Row
    BY <1>9, Running DEF Claim, Typed, Placed, Busy
  <2>2. users[tx[t].row] \in User
    BY <2>1 DEF Typed, TypeOK
  <2>3. PICK u \in User : u = [users[tx[t].row] EXCEPT !.tg = tx[t].who]
    BY <2>1, <2>2 DEF User, Handler
  <2>4. u.tg = tx[t].who /\ u.tg # NoPerson
    BY <2>1, <2>2, <2>3, RosterDistinct DEF User, Handler
  <2>5. users[tx[t].row].tg = NoPerson => Local(t, tx[t].row)
    BY <1>9 DEF Claim, Reg, Looked
  <2> QED
    BY <1>9, <2>1, <2>3, <2>4, <2>5, PutReg DEF Claim
<1>10. ASSUME NEW t \in Task, Insert(t) \/ AddPlaceholder(t) PROVE Reg'
  <2>1. Busy(t) /\ tx[t] \in Handler
    BY <1>10, Running DEF Insert, AddPlaceholder, Typed, Busy
  <2>2. PICK r \in Row, u \in User, at \in {"known", "mentioned"} :
          users[r] = Absent /\ Put(t, r, u, at)
    <3>1. [tg |-> tx[t].who, handle |-> tx[t].as] \in User
      BY <2>1 DEF User, Handler
    <3>2. [tg |-> NoPerson, handle |-> tx[t].mention] \in User
      BY <2>1 DEF User, Handler
    <3> QED
      BY <1>10, <3>1, <3>2 DEF Insert, AddPlaceholder, NextRow, IsFresh
  <2> QED
    BY <2>1, <2>2, PutReg
<1>11. ASSUME NEW t \in Task, EnsureMember(t) PROVE Reg'
  <2>1. Busy(t) /\ tx[t] \in Handler /\ tx[t].row \in Row
    BY <1>11, Running DEF EnsureMember, Typed, Placed, Busy
  <2>2. PICK x : x = [tx[t] EXCEPT
       !.joins = IF tx[t].kind = "tap" \/ members[tx[t].group][tx[t].row] > 0
                   THEN @ ELSE @ \cup {tx[t].row},
       !.row = 0,
       !.at = IF tx[t].at = "known" /\ tx[t].kind = "mention" THEN "mention" ELSE "done"]
    OBVIOUS
  <2>3. /\ x \in Handler /\ x.at \in {"mention", "done"} /\ x.puts = tx[t].puts
        /\ x.who = tx[t].who /\ x.as = tx[t].as /\ x.group = tx[t].group
    BY <2>1, <2>2 DEF Handler
  <2>4. tx' = [tx EXCEPT ![t] = x] /\ UNCHANGED <<users, members>>
    BY <1>11, <2>2 DEF EnsureMember
  <2> QED
    BY <2>1, <2>3, <2>4, MoveReg
<1>12. ASSUME NEW t \in Task, Raise(t) PROVE Reg'
  BY <1>12, EndReg DEF Raise, Busy
<1>13. ASSUME NEW t \in Task, Leave(t) PROVE Reg'
  <2>1. Busy(t) /\ tx[t] \in Handler
    BY <1>13, Running DEF Leave, Typed, Busy
  <2>2. \A r \in Row : users[r].tg = NoPerson => ~IsCaller(t, r)
    BY <2>1, RosterDistinct DEF IsCaller, Handler
  <2>3. \A g \in Group, r \in Row : users[r].tg = NoPerson => members'[g][r] = members[g][r]
    BY <1>13, <2>1, <2>2 DEF Leave, Typed, TypeOK, Handler
  <2> QED
    BY <1>13, <2>1, <2>3, EndReg DEF Leave
<1>14. ASSUME NEW t \in Task, Commit(t) PROVE Reg'
  <2>1. Busy(t) /\ tx[t] \in Handler /\ tx[t].group \in Group
    BY <1>14, Running DEF Commit, Typed, Busy, Handler
  <2>2. users' = [r \in Row |-> Seen(t, r)]
    BY <1>14 DEF Commit, Seen
  <2>3. \A g \in Group, r \in Row : members[g][r] > 0 => members'[g][r] > 0
    BY <1>14, <2>1 DEF Commit, Typed, TypeOK
  <2> QED
    BY <1>14, <2>1, <2>2, <2>3, EndReg DEF Commit
<1> QED
  BY <1>1, <1>2, <1>4, <1>5, <1>6, <1>7, <1>8, <1>9, <1>10, <1>11, <1>12, <1>13, <1>14
     DEF Next, Step, Rename, vars

\* ... so it always holds.
LEMMA RegHolds == Spec => [](Typed /\ Reg)
<1>1. Init => Typed /\ Reg
  BY TypeInit, IdleIsNoHandler
     DEF Init, Reg, OneRowEach, Apart, SeenOnce, Linked, Looked, Busy
<1>2. Typed /\ Reg /\ [Next]_vars => (Typed /\ Reg)'
  BY TypeStep, RegStep
<1> QED
  BY <1>1, <1>2, PTL DEF Spec

\* However the groups race in the users table, an account has one row and a handle
\* one placeholder.
THEOREM OneRowEachHolds == Spec => []OneRowEach
<1>1. Typed /\ Reg => OneRowEach
  BY DEF Reg
<1> QED
  BY <1>1, RegHolds, PTL

\* A placeholder becomes the account of somebody who wrote under its handle in a group
\* it belongs to, though the UPDATE takes no second look at it.
THEOREM ClaimIsLocalHolds == Spec => ClaimIsLocal
<1>1. Typed /\ Reg /\ [Next]_vars =>
        [\A r \in Row : users[r] # Absent /\ users[r].tg = NoPerson /\ users'[r].tg # NoPerson =>
           \E t \in Task : /\ tx[t].at = "done" /\ tx'[t].at = "idle"
                           /\ tx[t].who = users'[r].tg
                           /\ tx[t].as = users[r].handle
                           /\ members[tx[t].group][r] > 0]_vars
  <2> SUFFICES ASSUME Typed, Reg, Next, NEW r \in Row,
                      users[r] # Absent, users[r].tg = NoPerson, users'[r].tg # NoPerson
               PROVE  \E t \in Task : /\ tx[t].at = "done" /\ tx'[t].at = "idle"
                                      /\ tx[t].who = users'[r].tg
                                      /\ tx[t].as = users[r].handle
                                      /\ members[tx[t].group][r] > 0
    OBVIOUS
  <2>1. PICK t \in Task : Commit(t)
    <3>1. ASSUME NEW p \in Person, NEW h \in Handle, Rename(p, h) PROVE FALSE
      BY <3>1 DEF Rename
    <3>2. ASSUME NEW t \in Task, Arrive(t) PROVE FALSE
      BY <3>2 DEF Arrive, Receive
    <3>3. ASSUME NEW t \in Task, FindCaller(t) \/ FindPending(t) \/ FindMention(t) PROVE FALSE
      BY <3>3 DEF FindCaller, FindPending, FindMention, Goto
    <3>4. ASSUME NEW t \in Task,
                 Refresh(t) \/ Claim(t) \/ Insert(t) \/ AddPlaceholder(t)
          PROVE  FALSE
      BY <3>4 DEF Refresh, Claim, Insert, AddPlaceholder, Put, Goto
    <3>5. ASSUME NEW t \in Task, Enter(t) \/ EnsureMember(t) \/ Leave(t) \/ Raise(t) PROVE FALSE
      BY <3>5 DEF Enter, EnsureMember, Leave, Raise
    <3> QED
      BY <3>1, <3>2, <3>3, <3>4, <3>5 DEF Next, Step
  <2>2. tx[t].at = "done" /\ Busy(t) /\ tx'[t].at = "idle"
    BY <2>1, IdleIsNoHandler DEF Commit, End, Busy, Typed, TypeOK
  <2>3. r \in DOMAIN tx[t].puts /\ users'[r] = tx[t].puts[r]
    BY <2>1 DEF Commit
  <2>4. users'[r].tg = tx[t].who /\ Local(t, r)
    BY <2>2, <2>3 DEF Reg, Linked
  <2> QED
    BY <2>2, <2>4 DEF Local
<1> QED
  BY <1>1, RegHolds, PTL DEF Spec, ClaimIsLocal
=============================================================================
