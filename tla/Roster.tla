-------------------------------- MODULE Roster --------------------------------
(***************************************************************************)
(* Who the bot knows: the users table, with the placeholders of people who *)
(* were only ever mentioned, and each group's membership rows.  Handlers   *)
(* are concurrent READ COMMITTED transactions; those of one group queue    *)
(* for its row lock, those of different groups meet in the users table,    *)
(* whose two unique indexes and row locks make a writer wait.              *)
(*                                                                         *)
(* An update carries the sender's @handle of the moment it was sent.  Names*)
(* and everything a handler does besides are left out, and so are reads    *)
(* that only word a reply; a tapped mention is another caller.             *)
(***************************************************************************)
EXTENDS Naturals

CONSTANTS
  Task,     \* slots for concurrently running handlers
  NoTask,   \* a group row is unlocked
  Person,   \* Telegram accounts
  NoPerson, \* telegram_user_id IS NULL
  Handle,   \* @handles
  NoHandle, \* username IS NULL
  Group,    \* groups, whose rows exist throughout
  MaxRows   \* bound on users rows

Row  == 1..MaxRows
Kind == {"hello",   \* /join, /start, a chat_member join, any command: upsert and membership
         "tap",     \* a button of /balance, /statements, /settleup, /void: upsert only
         "mention", \* /addexpense and /event add naming an @handle
         "leave"}   \* a chat_member leave

ASSUME RosterDistinct == NoTask \notin Task /\ NoPerson \notin Person /\ NoHandle \notin Handle
ASSUME RosterBound    == MaxRows \in Nat

VARIABLES
  handle,  \* Telegram's: the @handle each account has now
  users,   \* committed users rows
  members, \* committed group_members rows with left_at IS NULL, counted
  lock,    \* holder of each groups row lock
  tx       \* the handlers

vars == <<handle, users, members, lock, tx>>

User   == [tg : Person \cup {NoPerson}, handle : Handle \cup {NoHandle}]
Absent == [tg |-> NoPerson, handle |-> NoHandle]
Empty  == [r \in {} |-> Absent]
Idle   == [at |-> "idle"]

\* A running handler: where it is; its update; the users row it is at, and that
\* row's handle as loaded; its uncommitted users rows and membership rows.
Handler ==
  [at : {"queued", "caller", "refresh", "unknown", "claim", "new", "known",
         "mention", "stranger", "mentioned", "done"},
   kind : Kind, who : Person, as : Handle \cup {NoHandle}, group : Group,
   mention : Handle \cup {NoHandle}, row : Row \cup {0}, old : Handle \cup {NoHandle},
   puts : UNION {[S -> User] : S \in SUBSET Row}, joins : SUBSET Row]

Pending(u, h) == u.tg = NoPerson /\ u.handle = h /\ h # NoHandle

Init ==
  /\ handle \in [Person -> Handle \cup {NoHandle}]
  /\ \A p, q \in Person : p # q /\ handle[p] = handle[q] => handle[p] = NoHandle
  /\ users   = [r \in Row |-> Absent]
  /\ members = [g \in Group |-> [r \in Row |-> 0]]
  /\ lock    = [g \in Group |-> NoTask]
  /\ tx      = [t \in Task |-> Idle]

\* On Telegram an account takes a handle; if another one had it, that dropped it.
Rename(p, h) ==
  /\ handle[p] # h
  /\ handle' = [q \in Person |-> IF q = p THEN h ELSE IF handle[q] = h THEN NoHandle ELSE handle[q]]
  /\ UNCHANGED <<users, members, lock, tx>>

-----------------------------------------------------------------------------
(* Beginning and ending a handler.                                         *)

Receive(t, kind, p, g, m) ==
  /\ tx[t] = Idle
  /\ tx' = [tx EXCEPT ![t] = [at |-> "queued", kind |-> kind, who |-> p, as |-> handle[p],
                              group |-> g, mention |-> m, row |-> 0, old |-> NoHandle,
                              puts |-> Empty, joins |-> {}]]
  /\ UNCHANGED <<handle, users, members, lock>>

\* Mutant of Enter: the group is selected instead of upserted.
EnterUnlocked(t) ==
  /\ tx[t].at = "queued"
  /\ tx[t].kind # "leave"
  /\ lock' = [lock EXCEPT ![tx[t].group] = t]
  /\ tx' = [tx EXCEPT ![t].at = "caller"]
  /\ UNCHANGED <<handle, users, members>>

\* groups.upsert waits for the group's row lock; record_member_leave only reads it.
Enter(t) ==
  /\ tx[t].at = "queued"
  /\ tx[t].kind # "leave"
  /\ lock[tx[t].group] = NoTask
  /\ lock' = [lock EXCEPT ![tx[t].group] = t]
  /\ tx' = [tx EXCEPT ![t].at = "caller"]
  /\ UNCHANGED <<handle, users, members>>

End(t) ==
  /\ tx' = [tx EXCEPT ![t] = Idle]
  /\ lock' = [g \in Group |-> IF lock[g] = t THEN NoTask ELSE lock[g]]

\* An exception, a unique violation and a detected deadlock included: roll back.
Raise(t) ==
  /\ tx[t].at \notin {"idle", "done"}
  /\ End(t)
  /\ UNCHANGED <<handle, users, members>>

\* The handler returned, having replied with a receipt or with an error: the rows
\* it made for a command it then rejected are committed all the same.
Commit(t) ==
  LET x == tx[t] IN
  /\ x.at = "done"
  /\ users' = [r \in Row |-> IF r \in DOMAIN x.puts THEN x.puts[r] ELSE users[r]]
  /\ members' = [members EXCEPT ![x.group] =
                   [r \in Row |-> IF r \in x.joins THEN @[r] + 1 ELSE @[r]]]
  /\ End(t)
  /\ UNCHANGED handle

-----------------------------------------------------------------------------
(* Statements on the users table.                                          *)

\* A row as the transaction sees it: its own write, or what is committed.
Seen(t, r) == IF r \in DOMAIN tx[t].puts THEN tx[t].puts[r] ELSE users[r]

\* The unique indexes: one row per account, one pending row per handle.
SameKey(u, v) == u.tg = v.tg /\ (u.tg = NoPerson => u.handle = v.handle)

\* Another transaction has written this row, or one of the same key, and may yet
\* commit it.
Waits(t, r, u) ==
  \E o \in Task \ {t} : tx[o].at # "idle" /\ \E q \in DOMAIN tx[o].puts :
    q = r \/ SameKey(u, tx[o].puts[q]) \/ (users[q] # Absent /\ SameKey(u, users[q]))

Clashes(t, r, u) == \E q \in Row \ {r} : Seen(t, q) # Absent /\ SameKey(u, Seen(t, q))

IsFresh(r) == users[r] = Absent /\ \A t \in Task : tx[t].at # "idle" => r \notin DOMAIN tx[t].puts
NextRow(r) == IsFresh(r) /\ \A q \in 1..(r - 1) : ~IsFresh(q)

\* Mutant of Put: the schema without its unique indexes.
PutUnchecked(t, r, u, at) ==
  /\ tx' = [tx EXCEPT ![t].puts = [q \in DOMAIN @ \cup {r} |-> IF q = r THEN u ELSE @[q]],
                      ![t].row = r, ![t].at = at, ![t].old = NoHandle]
  /\ UNCHANGED <<handle, users, members, lock>>

\* An INSERT or UPDATE is flushed, once nobody is in its way.
Put(t, r, u, at) ==
  /\ ~Waits(t, r, u)
  /\ ~Clashes(t, r, u)
  /\ tx' = [tx EXCEPT ![t].puts = [q \in DOMAIN @ \cup {r} |-> IF q = r THEN u ELSE @[q]],
                      ![t].row = r, ![t].at = at, ![t].old = NoHandle]
  /\ UNCHANGED <<handle, users, members, lock>>

Goto(t, r, at) ==
  /\ tx' = [tx EXCEPT ![t].row = r, ![t].at = at, ![t].old = NoHandle]
  /\ UNCHANGED <<handle, users, members, lock>>

-----------------------------------------------------------------------------
(* UserRepository.upsert.                                                  *)

IsCaller(t, r) == users[r].tg = tx[t].who

\* get_by_telegram_id
FindCaller(t) ==
  /\ tx[t].at = "caller"
  /\ \/ \E r \in Row :
          /\ IsCaller(t, r)
          /\ tx' = [tx EXCEPT ![t].row = r, ![t].old = users[r].handle, ![t].at = "refresh"]
          /\ UNCHANGED <<handle, users, members, lock>>
     \/ (\A r \in Row : ~IsCaller(t, r)) /\ Goto(t, 0, "unknown")

\* Mutant of MayClaim: a placeholder of any group will do.
MayClaimAnywhere(t, r) == Pending(users[r], tx[t].as)

MayClaim(t, r) == Pending(users[r], tx[t].as) /\ members[tx[t].group][r] > 0

\* pending_placeholder: one of the caller's handle that is a member of this group.
FindPending(t) ==
  /\ tx[t].at = "unknown"
  /\ \/ \E r \in Row : MayClaim(t, r) /\ Goto(t, r, "claim")
     \/ (\A r \in Row : ~MayClaim(t, r)) /\ Goto(t, 0, "new")

\* Mutant of Refresh: the columns are mixed up.
RefreshWithId(t) ==
  LET x == tx[t] IN
  /\ x.at = "refresh"
  /\ \/ x.as = x.old /\ Goto(t, x.row, "known")
     \/ x.as # x.old /\ Put(t, x.row, [users[x.row] EXCEPT !.handle = x.who], "known")

\* A known account: its handle is brought up to date if it differs from what was read.
Refresh(t) ==
  LET x == tx[t] IN
  /\ x.at = "refresh"
  /\ \/ x.as = x.old /\ Goto(t, x.row, "known")
     \/ x.as # x.old /\ Put(t, x.row, [users[x.row] EXCEPT !.handle = x.as], "known")

\* The claim: UPDATE users SET telegram_user_id WHERE id, without a second look at
\* what the row has become since it was read.
Claim(t) ==
  LET x == tx[t] IN
  /\ x.at = "claim"
  /\ Put(t, x.row, [users[x.row] EXCEPT !.tg = x.who], "known")

Insert(t) ==
  /\ tx[t].at = "new"
  /\ \E r \in Row : NextRow(r) /\ Put(t, r, [tg |-> tx[t].who, handle |-> tx[t].as], "known")

-----------------------------------------------------------------------------
(* Memberships and mentions.                                               *)

\* ensure_member, of the caller and then of whoever is mentioned.  A tap does
\* without.
EnsureMember(t) ==
  LET x == tx[t] IN
  /\ x.at \in {"known", "mentioned"}
  /\ tx' = [tx EXCEPT
       ![t].joins = IF x.kind = "tap" \/ members[x.group][x.row] > 0 THEN @ ELSE @ \cup {x.row},
       ![t].row = 0,
       ![t].at = IF x.at = "known" /\ x.kind = "mention" THEN "mention" ELSE "done"]
  /\ UNCHANGED <<handle, users, members, lock>>

Named(t) == {r \in Row : Seen(t, r).handle = tx[t].mention}

\* find_by_mention: a claimed row goes before a placeholder.
FindMention(t) ==
  /\ tx[t].at = "mention"
  /\ \/ \E r \in Named(t) :
          /\ Seen(t, r).tg = NoPerson => \A q \in Named(t) : Seen(t, q).tg = NoPerson
          /\ Goto(t, r, "mentioned")
     \/ Named(t) = {} /\ Goto(t, 0, "stranger")

\* resolve_mention: a handle nobody has becomes a placeholder.
AddPlaceholder(t) ==
  /\ tx[t].at = "stranger"
  /\ \E r \in Row : NextRow(r) /\ Put(t, r, [tg |-> NoPerson, handle |-> tx[t].mention], "mentioned")

\* record_member_leave, without the group's lock: mark_left closes whatever
\* membership is active when it runs.
Leave(t) ==
  LET x == tx[t] IN
  /\ x.at = "queued"
  /\ x.kind = "leave"
  /\ members' = [members EXCEPT ![x.group] = [r \in Row |-> IF IsCaller(t, r) THEN 0 ELSE @[r]]]
  /\ End(t)
  /\ UNCHANGED <<handle, users>>

-----------------------------------------------------------------------------

Arrive(t) == \E p \in Person, g \in Group :
  \/ \E kind \in Kind \ {"mention"} : Receive(t, kind, p, g, NoHandle)
  \/ \E m \in Handle : Receive(t, "mention", p, g, m)

Step(t) == \/ Enter(t) \/ FindCaller(t) \/ FindPending(t)
           \/ Refresh(t) \/ Claim(t) \/ Insert(t)
           \/ EnsureMember(t) \/ FindMention(t) \/ AddPlaceholder(t)
           \/ Leave(t) \/ Commit(t) \/ Raise(t)

Next == \/ \E p \in Person, h \in Handle : Rename(p, h)
        \/ \E t \in Task : Arrive(t) \/ Step(t)

Spec == Init /\ [][Next]_vars

-----------------------------------------------------------------------------
(* Properties.                                                             *)

TypeOK ==
  /\ handle  \in [Person -> Handle \cup {NoHandle}]
  /\ users   \in [Row -> User]
  /\ members \in [Group -> [Row -> Nat]]
  /\ lock    \in [Group -> Task \cup {NoTask}]
  /\ tx      \in [Task -> {Idle} \cup Handler]

\* Nobody has two active membership rows in a group.  The table's key would allow
\* them, and ensure_member fails on them ever after; the group lock prevents it.
OneMembership == \A g \in Group, r \in Row : members[g][r] <= 1

\* However the groups race, an account has one users row and a handle one
\* placeholder.
OneRowEach ==
  \A r, q \in Row : r # q /\ users[r] # Absent /\ users[q] # Absent => ~SameKey(users[r], users[q])

\* A placeholder becomes the account of somebody who wrote under its handle in a
\* group it is a member of, by the time the claim is committed as when it was read.
ClaimIsLocal ==
  [][\A r \in Row : users[r] # Absent /\ users[r].tg = NoPerson /\ users'[r].tg # NoPerson =>
       \E t \in Task : /\ tx[t].at = "done" /\ tx'[t].at = "idle"
                       /\ tx[t].who = users'[r].tg
                       /\ tx[t].as = users[r].handle
                       /\ members[tx[t].group][r] > 0]_vars

\* Once somebody has joined, and has not changed handles, no placeholder of theirs is
\* left in the group: what was filed under the mention is filed under the account.
JoinLinksMentions ==
  [][\A t \in Task, r \in Row :
       /\ tx[t].at = "done" /\ tx'[t].at = "idle" /\ tx[t].kind = "hello"
       /\ handle[tx[t].who] = tx[t].as
       /\ \A q \in Row : users[q].tg = tx[t].who => users[q].handle = tx[t].as
       /\ members'[tx[t].group][r] > 0
       => ~Pending(users'[r], tx[t].as)]_vars
=============================================================================
