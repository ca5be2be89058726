----------------------------- MODULE EventScope -----------------------------
(***************************************************************************)
(* The event scope of one Telegram group: the events table, the group's    *)
(* active-event pointer, and the handlers that move them or file ledger    *)
(* entries under them, interleaved as the bot runs them.                   *)
(*                                                                         *)
(* Every update is a task of its own with one database transaction, READ   *)
(* COMMITTED, committed after the handler returns.  A message first passes *)
(* the admin gate, which reads the group row without a lock and leaves it  *)
(* in the session; the group upsert of the handler then takes the row lock *)
(* but does not refresh the copy the session already holds.  A button tap  *)
(* has no gate, so its upsert reads the row fresh.  The wizard's Submit    *)
(* takes no group lock at all.                                             *)
(*                                                                         *)
(* The group row exists throughout: the state before /start is Onboarding's*)
(* business.  The partial unique index on open events is left out, so that *)
(* OneOpen says the service never relies on it.                            *)
(***************************************************************************)
EXTENDS Naturals, FiniteSets

CONSTANTS
  Task,     \* slots for concurrently running update handlers
  Traffic,  \* the updates that arrive, a subset of Job
  Event,    \* event ids, drawn fresh by EventRepository.create
  NoEvent,  \* NULL: general tracking
  NoDraft,  \* no wizard draft in the FSM storage
  NoTask,   \* the group row is unlocked
  MaxEntries \* bound: handlers stop filing once this many entries are committed

Scope    == Event \cup {NoEvent}
EventCmd == {"new", "pause", "resume", "close"}
Job      == [via : {"message"}, cmd : EventCmd \cup {"entry", "draft"}]
              \cup [via : {"button"}, cmd : {"pause", "resume", "close", "entry", "submit"}]

ASSUME TrafficIsJobs == Traffic \subseteq Job
ASSUME Distinct == /\ NoEvent \notin Event
                   /\ NoDraft \notin Event \cup {NoEvent}
                   /\ NoTask \notin Task
ASSUME Bound == MaxEntries \in Nat

VARIABLES
  status,   \* committed events.status; "absent" before the row exists
  active,   \* committed groups.active_event_id
  lock,     \* holder of the groups row lock
  draft,    \* the wizard draft's active_event_id in the FSM storage
  entries,  \* committed expenses and settlements: by which update, under which scope
  pc,       \* how far each handler has come
  job,      \* the update each handler serves
  view,     \* each session's copy of groups.active_event_id
  found,    \* what get_open returned to each handler
  todo      \* each transaction's uncommitted write

db   == <<status, active, entries>>
vars == <<status, active, lock, draft, entries, pc, job, view, found, todo>>

Write   == [op : {"none", "open", "close", "point", "file"}, scope : Scope]
Nothing == [op |-> "none", scope |-> NoEvent]
NoJob   == [via |-> "message", cmd |-> "entry"]

\* The row EventRepository.get_open selects: the open event, or NULL.
IsOpenEvent(x) ==
  \/ x \in Event /\ status[x] = "open"
  \/ x = NoEvent /\ \A e \in Event : status[e] # "open"

Init ==
  /\ status  = [e \in Event |-> "absent"]
  /\ active  = NoEvent
  /\ lock    = NoTask
  /\ draft   = NoDraft
  /\ entries = {}
  /\ pc      = [t \in Task |-> "idle"]
  /\ job     = [t \in Task |-> NoJob]
  /\ view    = [t \in Task |-> NoEvent]
  /\ found   = [t \in Task |-> NoEvent]
  /\ todo    = [t \in Task |-> Nothing]

-----------------------------------------------------------------------------
(* Beginning and ending a handler.                                         *)

\* An update arrives.  The gate (messages only) loads the group row unlocked.
Receive(t, j) ==
  /\ pc[t] = "idle"
  /\ pc'   = [pc EXCEPT ![t] = "admitted"]
  /\ job'  = [job EXCEPT ![t] = j]
  /\ view' = [view EXCEPT ![t] = IF j.via = "message" THEN active ELSE NoEvent]
  /\ UNCHANGED <<db, lock, draft, found, todo>>

\* Mutant of Leave: an exception path that never gives the row lock back.
LeaveLocked(t) ==
  /\ pc'    = [pc EXCEPT ![t] = "idle"]
  /\ job'   = [job EXCEPT ![t] = NoJob]
  /\ view'  = [view EXCEPT ![t] = NoEvent]
  /\ found' = [found EXCEPT ![t] = NoEvent]
  /\ todo'  = [todo EXCEPT ![t] = Nothing]
  /\ UNCHANGED lock

\* The handler's task ends; its session, and a lock it holds, go with it.
Leave(t) ==
  /\ pc'    = [pc EXCEPT ![t] = "idle"]
  /\ job'   = [job EXCEPT ![t] = NoJob]
  /\ view'  = [view EXCEPT ![t] = NoEvent]
  /\ found' = [found EXCEPT ![t] = NoEvent]
  /\ todo'  = [todo EXCEPT ![t] = Nothing]
  /\ lock'  = IF lock = t THEN NoTask ELSE lock

\* is_admin answers no (or fails, which reads as no) before any state is touched.
Refuse(t) ==
  /\ pc[t] = "admitted"
  /\ job[t].cmd \in EventCmd
  /\ Leave(t)
  /\ UNCHANGED <<db, draft>>

\* Mutant of Acquire: a plain SELECT of the group in place of the upsert.
AcquireUnlocked(t) ==
  /\ pc[t] = "admitted"
  /\ job[t].cmd # "submit"
  /\ lock' = t
  /\ pc'   = [pc EXCEPT ![t] = "locked"]
  /\ view' = [view EXCEPT ![t] = IF job[t].via = "button" THEN active ELSE @]
  /\ UNCHANGED <<db, draft, job, found, todo>>

\* Mutant of Acquire: the row a button handler holds is not refreshed either.
AcquireStale(t) ==
  /\ pc[t] = "admitted"
  /\ job[t].cmd # "submit"
  /\ lock = NoTask
  /\ lock' = t
  /\ pc'   = [pc EXCEPT ![t] = "locked"]
  /\ UNCHANGED <<db, draft, job, view, found, todo>>

\* groups.upsert: wait for the row lock; RETURNING fills only a row the session
\* does not hold yet, so a message handler keeps the gate's copy.
Acquire(t) ==
  /\ pc[t] = "admitted"
  /\ job[t].cmd # "submit"
  /\ lock = NoTask
  /\ lock' = t
  /\ pc'   = [pc EXCEPT ![t] = "locked"]
  /\ view' = [view EXCEPT ![t] = IF job[t].via = "button" THEN active ELSE @]
  /\ UNCHANGED <<db, draft, job, found, todo>>

\* Mutant of Commit: close_event forgets set_active_event(None).
CommitKeepsPointer(t) ==
  LET w == todo[t] IN
  /\ pc[t] = "written"
  /\ status'  = IF w.op \in {"open", "close"}
                  THEN [status EXCEPT ![w.scope] = IF w.op = "open" THEN "open" ELSE "closed"]
                  ELSE status
  /\ active'  = IF w.op \in {"open", "point"} THEN w.scope ELSE active
  /\ entries' = IF w.op = "file"
                  THEN entries \cup {[job |-> job[t], scope |-> w.scope]}
                  ELSE entries
  /\ Leave(t)
  /\ UNCHANGED draft

\* The middleware commits the transaction once the handler has returned.
Commit(t) ==
  LET w == todo[t] IN
  /\ pc[t] = "written"
  /\ status'  = IF w.op \in {"open", "close"}
                  THEN [status EXCEPT ![w.scope] = IF w.op = "open" THEN "open" ELSE "closed"]
                  ELSE status
  /\ active'  = IF w.op \in {"open", "point"} THEN w.scope
                ELSE IF w.op = "close" THEN NoEvent ELSE active
  /\ entries' = IF w.op = "file"
                  THEN entries \cup {[job |-> job[t], scope |-> w.scope]}
                  ELSE entries
  /\ Leave(t)
  /\ UNCHANGED draft

\* Any exception, such as a failing Telegram call after the write, rolls back.
Abort(t) ==
  /\ pc[t] \in {"locked", "found", "written"}
  /\ Leave(t)
  /\ UNCHANGED <<db, draft>>

-----------------------------------------------------------------------------
(* The handlers between lock and commit.                                   *)

\* Queue the transaction's write; the handler's next await is its reply.
Buffer(t, w) ==
  /\ pc'   = [pc EXCEPT ![t] = "written"]
  /\ todo' = [todo EXCEPT ![t] = w]
  /\ UNCHANGED <<db, lock, job, view, found>>

\* events.get_open: a statement of its own, so a fresh committed snapshot.
FindOpen(t) ==
  /\ pc[t] = "locked"
  /\ job[t].cmd \in EventCmd
  /\ pc' = [pc EXCEPT ![t] = "found"]
  /\ \E x \in Scope : IsOpenEvent(x) /\ found' = [found EXCEPT ![t] = x]
  /\ UNCHANGED <<db, lock, draft, job, view, todo>>

Serving(t, cmd) == pc[t] = "found" /\ job[t].cmd = cmd

\* Mutant of NewEvent: no look at the open event.
NewEventUnchecked(t) ==
  /\ Serving(t, "new")
  /\ \E e \in Event : /\ status[e] = "absent"
                       /\ Buffer(t, [op |-> "open", scope |-> e])
  /\ UNCHANGED draft

\* create_event: refused while an event is open, else create and point at it.
NewEvent(t) ==
  /\ Serving(t, "new")
  /\ IF found[t] # NoEvent
       THEN Buffer(t, Nothing)
       ELSE \E e \in Event : /\ status[e] = "absent"
                             /\ Buffer(t, [op |-> "open", scope |-> e])
  /\ UNCHANGED draft

\* Mutant of PauseEvent: the pointer is set to a value that is no scope.
PauseToNowhere(t) ==
  /\ Serving(t, "pause")
  /\ Buffer(t, [op |-> "point", scope |-> NoDraft])
  /\ UNCHANGED draft

\* /event pause and ev:pause: clear the pointer unless the session's copy of it
\* says there is nothing to clear.
PauseEvent(t) ==
  /\ Serving(t, "pause")
  /\ Buffer(t, IF found[t] = NoEvent \/ view[t] = NoEvent
                   \/ (job[t].via = "button" /\ view[t] # found[t])
                 THEN Nothing
                 ELSE [op |-> "point", scope |-> NoEvent])
  /\ UNCHANGED draft

\* /event resume and ev:resume: point at the open event unless already there.
ResumeEvent(t) ==
  /\ Serving(t, "resume")
  /\ Buffer(t, IF found[t] \in {NoEvent, view[t]}
                 THEN Nothing
                 ELSE [op |-> "point", scope |-> found[t]])
  /\ UNCHANGED draft

\* close_event: mark the open event closed and clear the pointer.
CloseEvent(t) ==
  /\ Serving(t, "close")
  /\ Buffer(t, IF found[t] = NoEvent THEN Nothing
                 ELSE [op |-> "close", scope |-> found[t]])
  /\ UNCHANGED draft

\* /addexpense and /settleup (messages), the settle tap (button): file under the
\* session's copy of the active event, or generally with the #general override;
\* a rejected command writes nothing.
FileEntry(t) ==
  /\ pc[t] = "locked"
  /\ job[t].cmd = "entry"
  /\ \/ Buffer(t, Nothing)
     \/ /\ Cardinality(entries) < MaxEntries
        /\ \E s \in {view[t], NoEvent} : Buffer(t, [op |-> "file", scope |-> s])
  /\ UNCHANGED draft

\* A bare /addexpense opens the wizard: the draft keeps the scope seen now.
StartDraft(t) ==
  /\ pc[t] = "locked"
  /\ job[t].cmd = "draft"
  /\ draft' = view[t]
  /\ Buffer(t, Nothing)

\* Submit files the draft under its stored event (or generally, when toggled)
\* and clears the draft before the commit: no group lock, no second look.  A
\* draft the service rejects stays.
SubmitDraft(t) ==
  /\ pc[t] = "admitted"
  /\ job[t].cmd = "submit"
  /\ draft # NoDraft
  /\ \/ Buffer(t, Nothing) /\ UNCHANGED draft
     \/ /\ Cardinality(entries) < MaxEntries
        /\ \E s \in {draft, NoEvent} : Buffer(t, [op |-> "file", scope |-> s])
        /\ draft' = NoDraft

\* A Submit tap on a draft that is gone is answered and does nothing.
SubmitExpired(t) ==
  /\ pc[t] = "admitted"
  /\ job[t].cmd = "submit"
  /\ draft = NoDraft
  /\ Leave(t)
  /\ UNCHANGED <<db, draft>>

-----------------------------------------------------------------------------

Step(t) ==
  \/ FindOpen(t)
  \/ NewEvent(t) \/ PauseEvent(t) \/ ResumeEvent(t) \/ CloseEvent(t)
  \/ FileEntry(t) \/ StartDraft(t) \/ SubmitDraft(t) \/ SubmitExpired(t)
  \/ Commit(t) \/ Abort(t)

Next == \E t \in Task :
  (\E j \in Traffic : Receive(t, j)) \/ Refuse(t) \/ Acquire(t) \/ Step(t)

Spec == Init /\ [][Next]_vars

\* A started handler keeps running (Telegram and database calls time out), and
\* the database grants a row lock to its waiters in turn.  No handler counts on
\* being refused.
Fairness == \A t \in Task : WF_vars(Step(t)) /\ SF_vars(Acquire(t))
FairSpec == Spec /\ Fairness

-----------------------------------------------------------------------------
(* Properties.                                                             *)

TypeOK ==
  /\ status  \in [Event -> {"absent", "open", "closed"}]
  /\ active  \in Scope
  /\ lock    \in Task \cup {NoTask}
  /\ draft   \in Scope \cup {NoDraft}
  /\ entries \subseteq [job : Job, scope : Scope]
  /\ pc      \in [Task -> {"idle", "admitted", "locked", "found", "written"}]
  /\ job     \in [Task -> Job]
  /\ view    \in [Task -> Scope]
  /\ found   \in [Task -> Scope]
  /\ todo    \in [Task -> Write]

\* At most one event of the group is open, whatever handlers race: the group lock
\* and a lookup under it suffice, the unique index is only a backstop.
OneOpen == \A e, f \in Event : status[e] = "open" /\ status[f] = "open" => e = f

\* A non-NULL active pointer names the open event, never a closed one: closing
\* clears it and no concurrent resume can put it back.  No constraint of the
\* database holds this.
ActiveIsOpen == active # NoEvent => status[active] = "open"

\* What get_open answered an event command is still the committed truth when the
\* command decides and when it commits.
LookupHolds ==
  \A t \in Task : pc[t] \in {"found", "written"} /\ job[t].cmd \in EventCmd
                   => IsOpenEvent(found[t])

\* A "nothing to do" verdict on the open event is true of the committed pointer.
Verdict(t) ==
  pc[t] = "written" /\ todo[t] = Nothing /\ found[t] # NoEvent =>
    /\ job[t].cmd = "pause"  => active = NoEvent
    /\ job[t].cmd = "resume" => active = found[t]

\* A pause or resume button never says "already" wrongly: a stale button after
\* somebody else's tap is answered from the current state.
ButtonVerdict == \A t \in Task : job[t].via = "button" => Verdict(t)

\* A typed /event pause that finds an open event leaves the pointer cleared.
CommandVerdict == \A t \in Task : job[t].via = "message" => Verdict(t)

\* A settle tap is filed under the event active at its commit, or generally.
TapFilesActive ==
  [][\A x \in entries' \ entries :
       x.job = [via |-> "button", cmd |-> "entry"] => x.scope \in {active, NoEvent}]_vars

\* A closed event takes no new entry from a wizard Submit...
ClosedRejectsSubmit ==
  [][\A x \in entries' \ entries :
       x.job.cmd = "submit" /\ x.scope # NoEvent => status[x.scope] = "open"]_vars

\* ... nor from a typed command.
ClosedRejectsCommand ==
  [][\A x \in entries' \ entries :
       x.job.via = "message" /\ x.scope # NoEvent => status[x.scope] = "open"]_vars

\* The concurrent handlers implement the atomic event life cycle.
Life == INSTANCE EventLife WITH status <- status, active <- active
ImplementsLife == Life!Spec

\* Every handler that starts also ends: the row lock starves and blocks nobody.
HandlersFinish == \A t \in Task : pc[t] # "idle" ~> pc[t] = "idle"
=============================================================================
