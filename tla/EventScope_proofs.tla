------------------------- MODULE EventScope_proofs --------------------------
(***************************************************************************)
(* Proofs about EventScope, for any number of concurrent handlers, any set *)
(* of events and any traffic.                                              *)
(*                                                                         *)
(* The argument: a handler that has passed groups.upsert holds the row     *)
(* lock until its transaction ends (LockHeld), so what it read of the      *)
(* events table after that is still true when it commits (LookupHolds),    *)
(* and what it buffered is a legal move from that state (WriteLegal).  A   *)
(* button handler's copy of the pointer is taken under that lock, so it is *)
(* the committed one until the handler ends (FreshTap).                    *)
(***************************************************************************)
EXTENDS EventScope, TLAPS

\* The handler is between groups.upsert and the end of its transaction.
Holding(t) == \/ pc[t] \in {"locked", "found"}
              \/ pc[t] = "written" /\ job[t].cmd # "submit"

\* Whoever is past the upsert is the lock's one holder.
LockHeld == \A t \in Task : Holding(t) => lock = t

\* Only event commands look an event up.
FinderIsEventCmd == \A t \in Task : pc[t] = "found" => job[t].cmd \in EventCmd

\* A buffered event write is a legal move from the state the handler looked up.
WriteLegal ==
  \A t \in Task : pc[t] = "written" =>
    LET w == todo[t] IN
    /\ w.op \in {"open", "close", "point"} => job[t].cmd \in EventCmd
    /\ w.op = "open" =>
         w.scope \in Event /\ status[w.scope] = "absent" /\ found[t] = NoEvent
    /\ w.op = "close" => w.scope = found[t] /\ found[t] # NoEvent
    /\ w.op = "point" => w.scope = NoEvent \/ w.scope = found[t]

IInv == /\ TypeOK
        /\ OneOpen
        /\ ActiveIsOpen
        /\ LockHeld
        /\ FinderIsEventCmd
        /\ LookupHolds
        /\ WriteLegal

-----------------------------------------------------------------------------
(* Type correctness.                                                       *)

\* The idle values of a handler's private state are well typed.
LEMMA IdleTypes == NoJob \in Job /\ Nothing \in Write /\ NoEvent \in Scope
  BY DEF NoJob, Job, Nothing, Write, Scope, EventCmd

\* Ending a handler keeps its private state and the lock well typed.
LEMMA LeaveType ==
  ASSUME TypeOK, NEW t \in Task, Leave(t)
  PROVE  /\ lock' \in Task \cup {NoTask}
         /\ pc' \in [Task -> {"idle", "admitted", "locked", "found", "written"}]
         /\ job' \in [Task -> Job]
         /\ view' \in [Task -> Scope]
         /\ found' \in [Task -> Scope]
         /\ todo' \in [Task -> Write]
  BY IdleTypes DEF TypeOK, Leave

\* Buffering a well-typed write keeps everything but the draft well typed.
LEMMA BufferType ==
  ASSUME TypeOK, NEW t \in Task, NEW w \in Write, Buffer(t, w), draft' \in Scope \cup {NoDraft}
  PROVE  TypeOK'
  BY DEF TypeOK, Buffer, db

\* Every step keeps the variables well typed.
LEMMA TypeStep == TypeOK /\ [Next]_vars => TypeOK'
<1> SUFFICES ASSUME TypeOK, [Next]_vars PROVE TypeOK'
  OBVIOUS
<1>1. CASE UNCHANGED vars
  BY <1>1 DEF vars, TypeOK
<1>2. ASSUME NEW t \in Task, NEW j \in Traffic, Receive(t, j) PROVE TypeOK'
  <2>1. j \in Job
    BY TrafficIsJobs
  <2>2. (IF j.via = "message" THEN active ELSE NoEvent) \in Scope
    BY DEF TypeOK, Scope
  <2> QED
    BY <1>2, <2>1, <2>2 DEF TypeOK, Receive, db
<1>3. ASSUME NEW t \in Task, Acquire(t) PROVE TypeOK'
  BY <1>3 DEF TypeOK, Acquire, db
<1>4. ASSUME NEW t \in Task, Step(t) PROVE TypeOK'
  <2>1. CASE SubmitExpired(t) \/ Abort(t)
    BY <2>1, LeaveType DEF TypeOK, SubmitExpired, Abort, db
  <2>2. CASE FindOpen(t)
    BY <2>2 DEF TypeOK, FindOpen, db
  <2>3. CASE NewEvent(t)
    <3>1. PICK w \in Write : Buffer(t, w)
      BY <2>3, IdleTypes DEF NewEvent, Write, Scope
    <3> QED
      BY <2>3, <3>1, BufferType DEF NewEvent, TypeOK
  <2>4. CASE PauseEvent(t)
    <3>1. PICK w \in Write : Buffer(t, w)
      BY <2>4, IdleTypes DEF PauseEvent, Write, Scope
    <3> QED
      BY <2>4, <3>1, BufferType DEF PauseEvent, TypeOK
  <2>5. CASE ResumeEvent(t)
    <3>1. PICK w \in Write : Buffer(t, w)
      BY <2>5, IdleTypes DEF ResumeEvent, Write, TypeOK
    <3> QED
      BY <2>5, <3>1, BufferType DEF ResumeEvent, TypeOK
  <2>6. CASE CloseEvent(t)
    <3>1. PICK w \in Write : Buffer(t, w)
      BY <2>6, IdleTypes DEF CloseEvent, Write, TypeOK
    <3> QED
      BY <2>6, <3>1, BufferType DEF CloseEvent, TypeOK
  <2>7. CASE FileEntry(t)
    <3>1. PICK w \in Write : Buffer(t, w)
      BY <2>7, IdleTypes DEF FileEntry, Write, TypeOK
    <3> QED
      BY <2>7, <3>1, BufferType DEF FileEntry, TypeOK
  <2>8. CASE StartDraft(t)
    <3>1. Buffer(t, Nothing) /\ draft' \in Scope
      BY <2>8 DEF StartDraft, TypeOK
    <3> QED
      BY <3>1, IdleTypes, BufferType
  <2>9. CASE SubmitDraft(t)
    <3>1. draft \in Scope
      BY <2>9 DEF SubmitDraft, TypeOK
    <3>2. PICK w \in Write : Buffer(t, w)
      BY <2>9, <3>1, IdleTypes DEF SubmitDraft, Write
    <3> QED
      BY <2>9, <3>1, <3>2, BufferType DEF SubmitDraft
  <2>10. CASE Commit(t)
    <3>1. todo[t] \in Write /\ job[t] \in Job
      BY DEF TypeOK
    <3>2. entries' \subseteq [job : Job, scope : Scope]
      <4>1. CASE todo[t].op = "file"
        BY <2>10, <3>1, <4>1 DEF TypeOK, Commit, Write
      <4>2. CASE todo[t].op # "file"
        BY <2>10, <4>2 DEF TypeOK, Commit
      <4> QED
        BY <4>1, <4>2
    <3>3. status' \in [Event -> {"absent", "open", "closed"}] /\ active' \in Scope
      BY <2>10, <3>1 DEF TypeOK, Commit, Write, Scope
    <3> QED
      BY <2>10, <3>2, <3>3, LeaveType DEF TypeOK, Commit
  <2> QED
    BY <1>4, <2>1, <2>2, <2>3, <2>4, <2>5, <2>6, <2>7, <2>8, <2>9, <2>10 DEF Step
<1>5. ASSUME NEW t \in Task, Refuse(t) PROVE TypeOK'
  BY <1>5, LeaveType DEF TypeOK, Refuse, db
<1> QED
  BY <1>1, <1>2, <1>3, <1>4, <1>5 DEF Next

\* Type correctness, for every set of tasks and events.
THEOREM TypeCorrect == Spec => []TypeOK
<1>1. Init => TypeOK
  BY IdleTypes DEF Init, TypeOK, Scope
<1> QED
  BY <1>1, TypeStep, PTL DEF Spec

-----------------------------------------------------------------------------
(* The inductive invariant.                                                *)

\* The part of IInv that speaks of the handlers rather than of the database.
HandlerInv == LockHeld /\ FinderIsEventCmd /\ LookupHolds /\ WriteLegal

\* Arriving and queueing for the lock promise nothing about the database.
LEMMA ReceiveKeeps ==
  ASSUME IInv, NEW t \in Task, NEW j \in Traffic, Receive(t, j)
  PROVE  HandlerInv'
<1>1. /\ pc'[t] = "admitted" /\ \A u \in Task \ {t} : pc'[u] = pc[u] /\ job'[u] = job[u]
      /\ UNCHANGED <<status, active, lock, found, todo>>
  BY DEF IInv, TypeOK, Receive, db
<1> QED
  BY <1>1 DEF IInv, HandlerInv, LockHeld, Holding, FinderIsEventCmd, LookupHolds, IsOpenEvent,
              WriteLegal

\* The lock goes to one handler, and only when nobody holds it.
LEMMA AcquireKeeps ==
  ASSUME IInv, NEW t \in Task, Acquire(t)
  PROVE  HandlerInv'
<1>1. /\ pc'[t] = "locked" /\ lock = NoTask /\ lock' = t
      /\ \A u \in Task \ {t} : pc'[u] = pc[u]
      /\ UNCHANGED <<status, active, job, found, todo>>
  BY DEF IInv, TypeOK, Acquire, db
<1>2. \A u \in Task : ~Holding(u)
  BY <1>1, Distinct DEF IInv, LockHeld
<1> QED
  BY <1>1, <1>2 DEF IInv, HandlerInv, LockHeld, Holding, FinderIsEventCmd, LookupHolds,
                    IsOpenEvent, WriteLegal

\* A handler that ends without writing an event takes nothing from the others.
LEMMA LeaveKeeps ==
  ASSUME IInv, NEW t \in Task, Leave(t), UNCHANGED <<status, active>>
  PROVE  HandlerInv'
<1>1. /\ pc'[t] = "idle"
      /\ \A u \in Task \ {t} : /\ pc'[u] = pc[u] /\ job'[u] = job[u]
                               /\ found'[u] = found[u] /\ todo'[u] = todo[u]
      /\ lock' = IF lock = t THEN NoTask ELSE lock
  BY DEF IInv, TypeOK, Leave
<1> QED
  BY <1>1 DEF IInv, HandlerInv, LockHeld, Holding, FinderIsEventCmd, LookupHolds, IsOpenEvent,
              WriteLegal

\* get_open answers the truth.
LEMMA FindOpenKeeps ==
  ASSUME IInv, NEW t \in Task, FindOpen(t)
  PROVE  HandlerInv'
<1>1. /\ pc[t] = "locked" /\ pc'[t] = "found" /\ job[t].cmd \in EventCmd /\ IsOpenEvent(found'[t])
      /\ \A u \in Task \ {t} : pc'[u] = pc[u] /\ found'[u] = found[u]
      /\ UNCHANGED <<status, active, lock, job, todo>>
  BY DEF IInv, TypeOK, FindOpen, db
<1> QED
  BY <1>1 DEF IInv, HandlerInv, LockHeld, Holding, FinderIsEventCmd, LookupHolds, IsOpenEvent,
              WriteLegal

\* Buffering: an event command under the lock, an entry or a draft under the
\* lock, or a Submit without it.
LEMMA BufferKeeps ==
  ASSUME IInv, NEW t \in Task, NEW w, Buffer(t, w),
         \/ /\ pc[t] = "found"
            /\ w.op = "open" => w.scope \in Event /\ status[w.scope] = "absent" /\ found[t] = NoEvent
            /\ w.op = "close" => w.scope = found[t] /\ found[t] # NoEvent
            /\ w.op = "point" => w.scope = NoEvent \/ w.scope = found[t]
         \/ /\ pc[t] = "locked" \/ job[t].cmd = "submit"
            /\ job[t].cmd \notin EventCmd
            /\ w.op \in {"none", "file"}
  PROVE  HandlerInv'
<1>1. /\ pc'[t] = "written" /\ todo'[t] = w
      /\ \A u \in Task \ {t} : pc'[u] = pc[u] /\ todo'[u] = todo[u]
      /\ UNCHANGED <<status, active, lock, job, found>>
  BY DEF IInv, TypeOK, Buffer, db
<1>2. pc[t] = "found" => job[t].cmd \in EventCmd
  BY DEF IInv, FinderIsEventCmd
<1>3. LockHeld'
  BY <1>1, <1>2 DEF IInv, LockHeld, Holding
<1>4. FinderIsEventCmd'
  BY <1>1 DEF IInv, FinderIsEventCmd
<1>5. LookupHolds'
  BY <1>1, <1>2 DEF IInv, LookupHolds, IsOpenEvent
<1>6. WriteLegal'
  BY <1>1, <1>2 DEF IInv, WriteLegal
<1> QED
  BY <1>3, <1>4, <1>5, <1>6 DEF HandlerInv

\* The only handler whose write concerns events holds the lock, so its commit
\* moves the events table under nobody else's feet.
LEMMA CommitKeeps ==
  ASSUME IInv, NEW t \in Task, Commit(t)
  PROVE  OneOpen' /\ ActiveIsOpen' /\ HandlerInv'
<1> DEFINE w == todo[t]
<1>1. /\ pc[t] = "written" /\ pc'[t] = "idle"
      /\ \A u \in Task \ {t} : /\ pc'[u] = pc[u] /\ job'[u] = job[u]
                               /\ found'[u] = found[u] /\ todo'[u] = todo[u]
      /\ lock' = IF lock = t THEN NoTask ELSE lock
  BY DEF IInv, TypeOK, Commit, Leave
<1>2. CASE w.op \in {"none", "file"}
  <2>1. Leave(t) /\ UNCHANGED <<status, active>>
    BY <1>2 DEF Commit
  <2> QED
    BY <2>1, LeaveKeeps DEF IInv, OneOpen, ActiveIsOpen
<1>3. CASE w.op \in {"open", "close", "point"}
  <2>1. job[t].cmd \in EventCmd /\ lock = t /\ IsOpenEvent(found[t])
    BY <1>1, <1>3 DEF IInv, WriteLegal, LockHeld, Holding, LookupHolds, EventCmd
  <2>2. \A u \in Task \ {t} : ~Holding(u)
    BY <2>1 DEF IInv, LockHeld
  <2>3. OneOpen' /\ ActiveIsOpen'
    <3>1. CASE w.op = "open"
      <4>1. /\ w.scope \in Event /\ active' = w.scope
            /\ status' = [status EXCEPT ![w.scope] = "open"]
            /\ \A e \in Event : status[e] # "open"
        BY <1>1, <2>1, <3>1, Distinct DEF IInv, WriteLegal, Commit, IsOpenEvent
      <4> QED
        BY <4>1 DEF IInv, TypeOK, OneOpen, ActiveIsOpen
    <3>2. CASE w.op = "close"
      <4>1. /\ active' = NoEvent
            /\ status' = [status EXCEPT ![w.scope] = "closed"]
        BY <3>2 DEF Commit
      <4> QED
        BY <4>1 DEF IInv, TypeOK, OneOpen, ActiveIsOpen
    <3>3. CASE w.op = "point"
      <4>1. active' = w.scope /\ status' = status /\ (w.scope = NoEvent \/ w.scope = found[t])
        BY <1>1, <3>3 DEF IInv, WriteLegal, Commit
      <4> QED
        BY <4>1, <2>1 DEF IInv, OneOpen, ActiveIsOpen, IsOpenEvent
    <3> QED
      BY <1>3, <3>1, <3>2, <3>3
  <2>4. \A u \in Task \ {t} : pc[u] \in {"found", "written"} => job[u].cmd \notin EventCmd
    BY <2>2 DEF IInv, Holding, EventCmd
  <2>5. LockHeld' /\ FinderIsEventCmd' /\ LookupHolds'
    BY <1>1, <2>2, <2>4 DEF IInv, LockHeld, Holding, FinderIsEventCmd, LookupHolds
  <2>6. WriteLegal'
    BY <1>1, <2>4 DEF IInv, WriteLegal
  <2> QED
    BY <2>3, <2>5, <2>6 DEF HandlerInv
<1> QED
  BY <1>2, <1>3 DEF IInv, TypeOK, Write

\* Every step preserves the invariant.
LEMMA InvStep == IInv /\ [Next]_vars => IInv'
<1> SUFFICES ASSUME IInv, [Next]_vars PROVE IInv'
  OBVIOUS
<1>1. TypeOK'
  BY TypeStep DEF IInv
<1>2. ASSUME UNCHANGED <<status, active>> PROVE OneOpen' /\ ActiveIsOpen'
  BY <1>2 DEF IInv, OneOpen, ActiveIsOpen
<1>3. CASE UNCHANGED vars
  BY <1>3 DEF vars, IInv, TypeOK, OneOpen, ActiveIsOpen, LockHeld, Holding, FinderIsEventCmd,
              LookupHolds, IsOpenEvent, WriteLegal
<1>4. ASSUME NEW t \in Task, NEW j \in Traffic, Receive(t, j) PROVE IInv'
  BY <1>1, <1>2, <1>4, ReceiveKeeps DEF Receive, db, IInv, HandlerInv
<1>5. ASSUME NEW t \in Task, Acquire(t) PROVE IInv'
  BY <1>1, <1>2, <1>5, AcquireKeeps DEF Acquire, db, IInv, HandlerInv
<1>6. ASSUME NEW t \in Task, Step(t) PROVE IInv'
  <2>1. CASE Commit(t)
    BY <1>1, <2>1, CommitKeeps DEF IInv, HandlerInv
  <2>3. CASE SubmitExpired(t) \/ Abort(t)
    BY <2>3, LeaveKeeps, <1>1, <1>2 DEF SubmitExpired, Abort, db, IInv, HandlerInv
  <2>4. CASE FindOpen(t)
    BY <2>4, FindOpenKeeps, <1>1, <1>2 DEF FindOpen, db, IInv, HandlerInv
  <2>5. CASE NewEvent(t)
    <3>1. CASE found[t] # NoEvent
      <4>1. pc[t] = "found" /\ Buffer(t, Nothing)
        BY <2>5, <3>1 DEF NewEvent, Serving
      <4>2. HandlerInv'
        BY <4>1, BufferKeeps DEF Nothing
      <4> QED
        BY <1>1, <1>2, <4>1, <4>2 DEF IInv, HandlerInv, Buffer, db
    <3>2. CASE found[t] = NoEvent
      <4>1. PICK e \in Event : /\ pc[t] = "found" /\ status[e] = "absent"
                               /\ Buffer(t, [op |-> "open", scope |-> e])
        BY <2>5, <3>2 DEF NewEvent, Serving
      <4>2. HandlerInv'
        BY <3>2, <4>1, BufferKeeps
      <4> QED
        BY <1>1, <1>2, <4>1, <4>2 DEF IInv, HandlerInv, Buffer, db
    <3> QED
      BY <3>1, <3>2
  <2>6. CASE PauseEvent(t)
    <3>1. pc[t] = "found" /\ (Buffer(t, Nothing) \/ Buffer(t, [op |-> "point", scope |-> NoEvent]))
      BY <2>6 DEF PauseEvent, Serving
    <3>2. HandlerInv'
      BY <3>1, BufferKeeps DEF Nothing
    <3> QED
      BY <1>1, <1>2, <3>1, <3>2 DEF IInv, HandlerInv, Buffer, db
  <2>7. CASE ResumeEvent(t)
    <3>1. pc[t] = "found" /\ (Buffer(t, Nothing) \/ Buffer(t, [op |-> "point", scope |-> found[t]]))
      BY <2>7 DEF ResumeEvent, Serving
    <3>2. HandlerInv'
      BY <3>1, BufferKeeps DEF Nothing
    <3> QED
      BY <1>1, <1>2, <3>1, <3>2 DEF IInv, HandlerInv, Buffer, db
  <2>8. CASE CloseEvent(t)
    <3>1. /\ pc[t] = "found"
          /\ \/ Buffer(t, Nothing)
             \/ found[t] # NoEvent /\ Buffer(t, [op |-> "close", scope |-> found[t]])
      BY <2>8 DEF CloseEvent, Serving
    <3>2. HandlerInv'
      BY <3>1, BufferKeeps DEF Nothing
    <3> QED
      BY <1>1, <1>2, <3>1, <3>2 DEF IInv, HandlerInv, Buffer, db
  <2>9. CASE FileEntry(t) \/ StartDraft(t) \/ SubmitDraft(t)
    <3>1. job[t].cmd \notin EventCmd /\ (pc[t] = "locked" \/ job[t].cmd = "submit")
      BY <2>9 DEF FileEntry, StartDraft, SubmitDraft, EventCmd
    <3>2. \E s : Buffer(t, Nothing) \/ Buffer(t, [op |-> "file", scope |-> s])
      BY <2>9 DEF FileEntry, StartDraft, SubmitDraft
    <3>3. HandlerInv'
      BY <3>1, <3>2, BufferKeeps DEF Nothing
    <3> QED
      BY <1>1, <1>2, <3>2, <3>3 DEF IInv, HandlerInv, Buffer, db
  <2> QED
    BY <1>6, <2>1, <2>3, <2>4, <2>5, <2>6, <2>7, <2>8, <2>9 DEF Step
<1>7. ASSUME NEW t \in Task, Refuse(t) PROVE IInv'
  BY <1>7, LeaveKeeps, <1>1, <1>2 DEF Refuse, db, IInv, HandlerInv
<1> QED
  BY <1>3, <1>4, <1>5, <1>6, <1>7 DEF Next

\* With no handler running and no event, the invariant holds.
LEMMA InitInv == Init => IInv
  BY IdleTypes DEF Init, IInv, TypeOK, Scope, OneOpen, ActiveIsOpen, LockHeld, Holding,
                   FinderIsEventCmd, LookupHolds, WriteLegal

\* The invariant holds of every reachable state.
THEOREM InvHolds == Spec => []IInv
  BY InitInv, InvStep, PTL DEF Spec

\* However many handlers race, at most one event of the group is open.
THEOREM OneOpenHolds == Spec => []OneOpen
<1>1. IInv => OneOpen
  BY DEF IInv
<1> QED
  BY <1>1, InvHolds, PTL

\* The active-event pointer never names a closed event.
THEOREM ActiveIsOpenHolds == Spec => []ActiveIsOpen
<1>1. IInv => ActiveIsOpen
  BY DEF IInv
<1> QED
  BY <1>1, InvHolds, PTL

\* What an event command looked up is still true when it commits.
THEOREM LookupHoldsAlways == Spec => []LookupHolds
<1>1. IInv => LookupHolds
  BY DEF IInv
<1> QED
  BY <1>1, InvHolds, PTL

-----------------------------------------------------------------------------
(* Refinement: each commit is one step of the atomic life cycle.           *)

\* A commit is a legal transition of the open event, or changes nothing of it.
LEMMA CommitIsLife ==
  ASSUME IInv, NEW t \in Task, Commit(t)
  PROVE  Life!Next \/ UNCHANGED <<status, active>>
<1> DEFINE w == todo[t]
<1>1. pc[t] = "written" /\ w \in Write
  BY DEF IInv, TypeOK, Commit
<1>2. CASE w.op \in {"none", "file"}
  BY <1>2 DEF Commit
<1>3. ASSUME w.op \in {"open", "close", "point"}
      PROVE  IsOpenEvent(found[t])
  BY <1>1, <1>3 DEF IInv, WriteLegal, LookupHolds
<1>4. ASSUME NEW e \in Event, status[e] = "open" PROVE Life!Open = {e}
  BY <1>4 DEF IInv, OneOpen, Life!Open
<1>5. CASE w.op = "open"
  <2>1. w.scope \in Event /\ status[w.scope] = "absent" /\ Life!Open = {}
    BY <1>1, <1>3, <1>5, Distinct DEF IInv, WriteLegal, IsOpenEvent, Life!Open
  <2>2. Life!Begin(w.scope)
    BY <1>5, <2>1 DEF Commit, Life!Begin
  <2> QED
    BY <2>1, <2>2 DEF Life!Next
<1>6. CASE w.op = "close"
  <2>1. w.scope = found[t] /\ found[t] \in Event /\ status[found[t]] = "open"
    BY <1>1, <1>3, <1>6 DEF IInv, WriteLegal, IsOpenEvent
  <2>2. Life!Open = {w.scope}
    BY <2>1, <1>4
  <2>3. Life!Close(w.scope)
    BY <1>6, <2>2 DEF Commit, Life!Close
  <2> QED
    BY <2>1, <2>3 DEF Life!Next
<1>7. CASE w.op = "point"
  <2>1. UNCHANGED status /\ active' = w.scope
    BY <1>7 DEF Commit
  <2>2. CASE w.scope = NoEvent
    BY <2>1, <2>2 DEF Life!Next, Life!Pause
  <2>3. CASE w.scope # NoEvent
    <3>1. w.scope = found[t] /\ found[t] \in Event /\ status[found[t]] = "open"
      BY <1>1, <1>3, <1>7, <2>3 DEF IInv, WriteLegal, IsOpenEvent
    <3>2. Life!Open = {w.scope}
      BY <3>1, <1>4
    <3>3. active \in Event => active = w.scope
      BY <3>1, Distinct DEF IInv, ActiveIsOpen, OneOpen
    <3>4. active = NoEvent => Life!Resume(w.scope)
      BY <2>1, <3>2 DEF Life!Resume
    <3> QED
      BY <2>1, <3>1, <3>3, <3>4 DEF IInv, TypeOK, Scope, Life!Next
  <2> QED
    BY <2>2, <2>3
<1> QED
  BY <1>1, <1>2, <1>5, <1>6, <1>7 DEF Write

\* The concurrent handlers implement the atomic life cycle: a user of the event
\* commands sees one transition at a time and never an illegal one.
THEOREM Implements == Spec => ImplementsLife
<1>1. Init => Life!Init
  BY DEF Init, Life!Init
<1>2. IInv /\ [Next]_vars => [Life!Next]_<<status, active>>
  <2> SUFFICES ASSUME IInv, [Next]_vars PROVE Life!Next \/ UNCHANGED <<status, active>>
    OBVIOUS
  <2>1. CASE UNCHANGED vars
    BY <2>1 DEF vars
  <2>2. ASSUME NEW t \in Task, NEW j \in Traffic, Receive(t, j) PROVE UNCHANGED <<status, active>>
    BY <2>2 DEF Receive, db
  <2>3. ASSUME NEW t \in Task, Acquire(t) PROVE UNCHANGED <<status, active>>
    BY <2>3 DEF Acquire, db
  <2>4. ASSUME NEW t \in Task, Step(t), ~Commit(t) PROVE UNCHANGED <<status, active>>
    BY <2>4 DEF Step, FindOpen, NewEvent, PauseEvent, ResumeEvent, CloseEvent, FileEntry,
                StartDraft, SubmitDraft, SubmitExpired, Abort, Buffer, db
  <2>5. ASSUME NEW t \in Task, Refuse(t) PROVE UNCHANGED <<status, active>>
    BY <2>5 DEF Refuse, db
  <2> QED
    BY <2>1, <2>2, <2>3, <2>4, <2>5, CommitIsLife DEF Next
<1> QED
  BY <1>1, <1>2, InvHolds, PTL DEF Spec, ImplementsLife, Life!Spec

-----------------------------------------------------------------------------
(* Button taps: no gate loaded the group row before them, so the copy they *)
(* take under the lock is the committed pointer until they commit.         *)

\* What a button handler holds and decides agrees with the committed pointer.
FreshTap(t) ==
  job[t].via = "button" =>
    /\ Holding(t) => view[t] = active
    /\ pc[t] = "written" /\ job[t].cmd = "entry" /\ todo[t].op = "file"
         => todo[t].scope \in {view[t], NoEvent}
    /\ pc[t] = "written" /\ todo[t] = Nothing /\ found[t] # NoEvent =>
         /\ job[t].cmd = "pause" => view[t] = NoEvent \/ view[t] # found[t]
         /\ job[t].cmd = "resume" => view[t] = found[t]

TapInv == IInv /\ \A t \in Task : FreshTap(t)

\* The other handlers are left alone: only the lock's holder moves the pointer.
LEMMA OthersFresh ==
  ASSUME TapInv, NEW t \in Task, active' = active \/ lock = t,
         \A u \in Task \ {t} : /\ pc'[u] = pc[u] /\ job'[u] = job[u] /\ view'[u] = view[u]
                               /\ found'[u] = found[u] /\ todo'[u] = todo[u]
  PROVE  \A u \in Task \ {t} : FreshTap(u)'
  BY DEF TapInv, FreshTap, IInv, LockHeld, Holding, Nothing

\* Buffering keeps the handler's copy and decides from it.
LEMMA BufferFresh ==
  ASSUME TapInv, NEW t \in Task, NEW w, Buffer(t, w),
         job[t].via = "button" =>
           /\ job[t].cmd # "submit" => Holding(t)
           /\ job[t].cmd = "entry" /\ w.op = "file" => w.scope \in {view[t], NoEvent}
           /\ w = Nothing /\ found[t] # NoEvent =>
                /\ job[t].cmd = "pause" => view[t] = NoEvent \/ view[t] # found[t]
                /\ job[t].cmd = "resume" => view[t] = found[t]
  PROVE  \A u \in Task : FreshTap(u)'
<1>1. /\ pc'[t] = "written" /\ todo'[t] = w
      /\ \A u \in Task \ {t} : pc'[u] = pc[u] /\ todo'[u] = todo[u]
      /\ UNCHANGED <<active, job, view, found>>
  BY DEF TapInv, IInv, TypeOK, Buffer, db
<1>2. \A u \in Task \ {t} : FreshTap(u)'
  BY <1>1, OthersFresh
<1>3. FreshTap(t)'
  BY <1>1 DEF TapInv, FreshTap, Holding, Nothing
<1> QED
  BY <1>2, <1>3

\* A handler that ends holds nothing any more.
LEMMA LeaveFresh ==
  ASSUME TapInv, NEW t \in Task, Leave(t), active' = active \/ lock = t
  PROVE  \A u \in Task : FreshTap(u)'
<1>1. /\ pc'[t] = "idle"
      /\ \A u \in Task \ {t} : /\ pc'[u] = pc[u] /\ job'[u] = job[u] /\ view'[u] = view[u]
                               /\ found'[u] = found[u] /\ todo'[u] = todo[u]
  BY DEF TapInv, IInv, TypeOK, Leave
<1>2. \A u \in Task \ {t} : FreshTap(u)'
  BY <1>1, OthersFresh
<1>3. FreshTap(t)'
  BY <1>1 DEF FreshTap, Holding
<1> QED
  BY <1>2, <1>3

\* Only a commit under the lock moves the pointer.
LEMMA CommitHolds ==
  ASSUME IInv, NEW t \in Task, Commit(t)
  PROVE  /\ active' = active \/ lock = t
         /\ job[t].cmd # "submit" => Holding(t)
<1>1. pc[t] = "written" /\ todo[t] \in Write
  BY DEF IInv, TypeOK, Commit
<1>2. CASE todo[t].op \in {"none", "file"}
  BY <1>1, <1>2 DEF Commit, Holding
<1>3. CASE todo[t].op \in {"open", "close", "point"}
  <2>1. job[t].cmd \in EventCmd
    BY <1>1, <1>3 DEF IInv, WriteLegal
  <2> QED
    BY <1>1, <2>1 DEF IInv, LockHeld, Holding, EventCmd
<1> QED
  BY <1>1, <1>2, <1>3 DEF Write

\* Every step keeps the taps fresh.
LEMMA TapStep == TapInv /\ [Next]_vars => TapInv'
<1> SUFFICES ASSUME TapInv, [Next]_vars PROVE \A u \in Task : FreshTap(u)'
  BY InvStep DEF TapInv
<1>1. CASE UNCHANGED vars
  BY <1>1 DEF TapInv, FreshTap, Holding, vars, Nothing
<1>2. ASSUME NEW t \in Task, NEW j \in Traffic, Receive(t, j) PROVE \A u \in Task : FreshTap(u)'
  <2>1. /\ pc'[t] = "admitted" /\ active' = active
        /\ \A u \in Task \ {t} : /\ pc'[u] = pc[u] /\ job'[u] = job[u] /\ view'[u] = view[u]
                                 /\ found'[u] = found[u] /\ todo'[u] = todo[u]
    BY <1>2 DEF TapInv, IInv, TypeOK, Receive, db
  <2> QED
    BY <2>1, OthersFresh DEF FreshTap, Holding
<1>3. ASSUME NEW t \in Task, Acquire(t) PROVE \A u \in Task : FreshTap(u)'
  <2>1. /\ pc'[t] = "locked" /\ UNCHANGED <<active, job, found, todo>>
        /\ job[t].via = "button" => view'[t] = active
        /\ \A u \in Task \ {t} : pc'[u] = pc[u] /\ view'[u] = view[u]
    BY <1>3 DEF TapInv, IInv, TypeOK, Acquire, db
  <2>2. \A u \in Task \ {t} : FreshTap(u)'
    BY <2>1, OthersFresh
  <2> QED
    BY <2>1, <2>2 DEF FreshTap, Holding
<1>4. ASSUME NEW t \in Task, Step(t) PROVE \A u \in Task : FreshTap(u)'
  <2>1. CASE Commit(t)
    BY <2>1, CommitHolds, LeaveFresh DEF Commit, TapInv
  <2>2. CASE SubmitExpired(t) \/ Abort(t)
    BY <2>2, LeaveFresh DEF SubmitExpired, Abort, db
  <2>3. CASE FindOpen(t)
    <3>1. /\ pc[t] = "locked" /\ pc'[t] = "found" /\ UNCHANGED <<active, job, view, todo>>
          /\ \A u \in Task \ {t} : pc'[u] = pc[u] /\ found'[u] = found[u]
      BY <2>3 DEF TapInv, IInv, TypeOK, FindOpen, db
    <3>2. \A u \in Task \ {t} : FreshTap(u)'
      BY <3>1, OthersFresh
    <3> QED
      BY <3>1, <3>2 DEF TapInv, FreshTap, Holding
  <2>4. CASE NewEvent(t) \/ CloseEvent(t)
    <3>1. /\ pc[t] = "found" /\ job[t].cmd \in {"new", "close"}
          /\ \E w : Buffer(t, w)
      BY <2>4 DEF NewEvent, CloseEvent, Serving
    <3> QED
      BY <3>1, BufferFresh DEF Holding
  <2>5. CASE PauseEvent(t)
    <3>1. pc[t] = "found" /\ job[t].cmd = "pause"
      BY <2>5 DEF PauseEvent, Serving
    <3>2. PICK w : /\ Buffer(t, w)
                   /\ job[t].via = "button" /\ w = Nothing /\ found[t] # NoEvent
                        => view[t] = NoEvent \/ view[t] # found[t]
      BY <2>5 DEF PauseEvent, Nothing
    <3> QED
      BY <3>1, <3>2, BufferFresh DEF Holding
  <2>6. CASE ResumeEvent(t)
    <3>1. pc[t] = "found" /\ job[t].cmd = "resume"
      BY <2>6 DEF ResumeEvent, Serving
    <3>2. PICK w : Buffer(t, w) /\ (w = Nothing /\ found[t] # NoEvent => view[t] = found[t])
      BY <2>6 DEF ResumeEvent, Nothing
    <3> QED
      BY <3>1, <3>2, BufferFresh DEF Holding
  <2>7. CASE FileEntry(t)
    <3>1. pc[t] = "locked" /\ job[t].cmd = "entry"
      BY <2>7 DEF FileEntry
    <3>2. PICK w : Buffer(t, w) /\ (w.op = "file" => w.scope \in {view[t], NoEvent})
      BY <2>7 DEF FileEntry, Nothing
    <3> QED
      BY <3>1, <3>2, BufferFresh DEF Holding
  <2>8. CASE StartDraft(t)
    <3>1. pc[t] = "locked" /\ job[t].cmd = "draft" /\ Buffer(t, Nothing)
      BY <2>8 DEF StartDraft
    <3> QED
      BY <3>1, BufferFresh DEF Holding
  <2>9. CASE SubmitDraft(t)
    <3>1. job[t].cmd = "submit" /\ \E w : Buffer(t, w)
      BY <2>9 DEF SubmitDraft
    <3> QED
      BY <3>1, BufferFresh
  <2> QED
    BY <1>4, <2>1, <2>2, <2>3, <2>4, <2>5, <2>6, <2>7, <2>8, <2>9 DEF Step
<1>5. ASSUME NEW t \in Task, Refuse(t) PROVE \A u \in Task : FreshTap(u)'
  BY <1>5, LeaveFresh DEF Refuse, db
<1> QED
  BY <1>1, <1>2, <1>3, <1>4, <1>5 DEF Next

\* ... and so they always are.
LEMMA TapHolds == Spec => []TapInv
<1>1. Init => TapInv
  BY InitInv DEF Init, TapInv, FreshTap, NoJob
<1> QED
  BY <1>1, TapStep, PTL DEF Spec

\* A pause or resume button that answers "already" is right, however many taps
\* and commands race it.
THEOREM ButtonVerdictHolds == Spec => []ButtonVerdict
<1>1. TapInv => ButtonVerdict
  <2> SUFFICES ASSUME TapInv, NEW t \in Task, job[t].via = "button", pc[t] = "written",
                      todo[t] = Nothing, found[t] # NoEvent
               PROVE  /\ job[t].cmd = "pause" => active = NoEvent
                      /\ job[t].cmd = "resume" => active = found[t]
    BY DEF ButtonVerdict, Verdict
  <2>1. ASSUME job[t].cmd \in {"pause", "resume"}
        PROVE  view[t] = active /\ found[t] \in Event /\ status[found[t]] = "open"
    BY <2>1 DEF TapInv, FreshTap, Holding, IInv, LookupHolds, EventCmd, IsOpenEvent
  <2>2. CASE job[t].cmd = "pause"
    <3>1. active = NoEvent \/ active # found[t]
      BY <2>1, <2>2 DEF TapInv, FreshTap
    <3>2. active # NoEvent => active \in Event /\ status[active] = "open"
      BY DEF TapInv, IInv, TypeOK, Scope, ActiveIsOpen
    <3> QED
      BY <2>1, <2>2, <3>1, <3>2 DEF TapInv, IInv, OneOpen
  <2>3. CASE job[t].cmd = "resume"
    BY <2>1, <2>3 DEF TapInv, FreshTap
  <2> QED
    BY <2>2, <2>3
<1> QED
  BY <1>1, TapHolds, PTL

\* A settle tap files under the event active at its commit, or generally.
THEOREM TapFilesActiveHolds == Spec => TapFilesActive
<1>1. TapInv /\ [Next]_vars =>
        [\A x \in entries' \ entries :
           x.job = [via |-> "button", cmd |-> "entry"] => x.scope \in {active, NoEvent}]_vars
  <2> SUFFICES ASSUME TapInv, Next, NEW x \in entries' \ entries,
                      x.job = [via |-> "button", cmd |-> "entry"]
               PROVE  x.scope \in {active, NoEvent}
    OBVIOUS
  <2>1. PICK t \in Task : Commit(t)
    BY DEF Next, Receive, Refuse, Acquire, Step, FindOpen, NewEvent, PauseEvent, ResumeEvent,
           CloseEvent, FileEntry, StartDraft, SubmitDraft, SubmitExpired, Abort, Buffer, db
  <2>2. pc[t] = "written" /\ todo[t].op = "file" /\ x = [job |-> job[t], scope |-> todo[t].scope]
    BY <2>1 DEF Commit
  <2>3. job[t].via = "button" /\ job[t].cmd = "entry"
    BY <2>2
  <2>4. view[t] = active /\ todo[t].scope \in {view[t], NoEvent}
    BY <2>2, <2>3 DEF TapInv, FreshTap, Holding
  <2> QED
    BY <2>2, <2>4
<1> QED
  BY <1>1, TapHolds, PTL DEF Spec, TapFilesActive
=============================================================================
