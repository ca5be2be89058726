-------------------------- MODULE LedgerTx_proofs ---------------------------
(***************************************************************************)
(* Why a handler may add balances up from four statements: as long as no   *)
(* Submit commits meanwhile, the group lock makes them one snapshot.  In   *)
(* the first part the sums over the ledger stay unexpanded: the argument   *)
(* is about who can change the ledger between two SELECTs, not about what  *)
(* they add up.  The second part is about what they add up: the balances   *)
(* cancel out, a settlement moves two of them towards zero, and settling   *)
(* all clears the board.                                                   *)
(***************************************************************************)
EXTENDS LedgerTx, Split_proofs, FunctionTheorems, SequenceTheorems

\* The result map after q of the four SELECTs, run at one instant.
Partial(q) ==
  CASE q = 0 -> Zero
    [] q = 1 -> Select(1, Zero)
    [] q = 2 -> Select(2, Select(1, Zero))
    [] q = 3 -> Select(3, Select(2, Select(1, Zero)))
    [] q = 4 -> Balance

\* The control state has its type...
Control ==
  /\ lock  \in Task \cup {NoTask}
  /\ pc    \in [Task -> {"idle", "open", "read", "fetched", "written"}]
  /\ job   \in [Task -> Cmd]
  /\ reads \in [Task -> 0..4]
  /\ raced \in [Task -> BOOLEAN]
  /\ DOMAIN sum = Task /\ DOMAIN due = Task

\* A payment is all that is suggested between its two parties.
Full(d) == d.amount = Owed(Balance, d.simplify, d.from, d.to)

\* ... every handler in progress but a Submit holds the lock, only a settlement
\* reads, and what an undisturbed one has read, or looked up, is what a single
\* instant gives.
Locked   == \A t \in Task : pc[t] # "idle" /\ job[t] # "submit" => lock = t
Reading  == \A t \in Task : reads[t] # 0 \/ due[t] # NoDue => pc[t] # "idle" /\ job[t] \in {"settle", "settleall"}
Coherent == \A t \in Task, q \in 0..4 : reads[t] = q /\ ~raced[t] => sum[t] = Partial(q)

Looked   == \A t \in Task : due[t] # NoDue /\ ~raced[t] => Full(due[t])

IInv == Control /\ Locked /\ Reading /\ Coherent /\ Looked

-----------------------------------------------------------------------------

\* A suggested transfer is what its payer owes its recipient.
LEMMA SuggestedOwed ==
  ASSUME NEW bal, NEW simplify, NEW s \in Suggested(bal, simplify)
  PROVE  /\ s = [from |-> s.from, to |-> s.to, amount |-> Owed(bal, simplify, s.from, s.to)]
         /\ s.from \in DOMAIN bal /\ s.to \in DOMAIN bal
<1>1. PICK p \in Debtors(bal) \X Creditors(bal) :
        s = [from |-> p[1], to |-> p[2], amount |-> Owed(bal, simplify, p[1], p[2])]
  BY DEF Suggested
<1> QED  BY <1>1 DEF Debtors, Creditors

\* A SELECT takes one partial result to the next.
LEMMA NextPartial ==
  ASSUME NEW q \in 0..3
  PROVE  Select(q + 1, Partial(q)) = Partial(q + 1)
<1>1. q = 0 \/ q = 1 \/ q = 2 \/ q = 3
  OBVIOUS
<1>2. /\ Partial(0) = Zero
      /\ Partial(1) = Select(1, Zero)
      /\ Partial(2) = Select(2, Select(1, Zero))
      /\ Partial(3) = Select(3, Select(2, Select(1, Zero)))
      /\ Partial(4) = Select(4, Select(3, Select(2, Select(1, Zero))))
  BY DEF Partial, Balance
<1>3. CASE q = 0  BY <1>2, <1>3
<1>4. CASE q = 1  BY <1>2, <1>4
<1>5. CASE q = 2  BY <1>2, <1>5
<1>6. CASE q = 3  BY <1>2, <1>6
<1> QED  BY <1>1, <1>3, <1>4, <1>5, <1>6

\* Partial results are a function of the ledger alone.
LEMMA PartialStable ==
  ASSUME ledger' = ledger
  PROVE  \A q \in 0..4 : Partial(q)' = Partial(q)
<1>1. \A q, bal : Select(q, bal)' = Select(q, bal)
  BY DEF Select, Fronted, Consumed, Active
<1> QED  BY <1>1 DEF Partial, Balance, Zero

LEMMA FullStable ==
  ASSUME ledger' = ledger
  PROVE  \A d : Full(d)' <=> Full(d)
<1>1. \A q, bal : Select(q, bal)' = Select(q, bal)
  BY DEF Select, Fronted, Consumed, Active
<1>2. Balance' = Balance
  BY <1>1 DEF Balance, Zero
<1> QED  BY <1>2 DEF Full

LEMMA InitInv == Init => IInv
<1> SUFFICES ASSUME Init PROVE IInv
  OBVIOUS
<1>1. Control  BY DEF Init, Control, Cmd
<1>2. Locked   BY DEF Init, Locked
<1>3. Reading  BY DEF Init, Reading
<1>4. Coherent
  <2>1. Partial(0) = Zero  BY DEF Partial
  <2> QED  BY <2>1 DEF Init, Coherent
<1>5. Looked   BY DEF Init, Looked
<1> QED  BY <1>1, <1>2, <1>3, <1>4, <1>5 DEF IInv

\* An end of a handler, whatever it commits: its own partial result goes, and its
\* lock with it.
LEMMA LeaveKeeps ==
  ASSUME IInv, NEW t \in Task, Leave(t), raced' \in [Task -> BOOLEAN],
         \A x \in Task \ {t} : ~raced'[x] => ~raced[x],
         \/ ledger' = ledger
         \/ \A x \in Task \ {t} : ~raced'[x] => reads[x] = 0 /\ due[x] = NoDue
  PROVE  IInv'
<1> USE LedgerDistinct
<1>1. Control'
  <2>1. lock' \in Task \cup {NoTask}
    BY DEF IInv, Control, Leave
  <2>2. pc' \in [Task -> {"idle", "open", "read", "fetched", "written"}]
    BY DEF IInv, Control, Leave
  <2>3. job' \in [Task -> Cmd]
    BY DEF IInv, Control, Leave, Cmd
  <2>4. reads' \in [Task -> 0..4]
    BY DEF IInv, Control, Leave
  <2>5. DOMAIN sum' = Task /\ DOMAIN due' = Task
    BY DEF IInv, Control, Leave
  <2> QED  BY <2>1, <2>2, <2>3, <2>4, <2>5 DEF Control
<1>2. Locked'
  BY DEF IInv, Control, Locked, Leave
<1>3. Reading'
  BY DEF IInv, Control, Reading, Leave
<1>4. Coherent'
  <2> SUFFICES ASSUME NEW x \in Task, NEW q \in 0..4, reads'[x] = q, ~raced'[x]
               PROVE  sum'[x] = Partial(q)'
    BY DEF Coherent
  <2>0. Partial(0)' = Zero
    BY DEF Partial, Zero
  <2>1. CASE x = t
    <3>1. sum'[x] = Zero /\ reads'[x] = 0  BY <2>1 DEF IInv, Control, Leave
    <3> QED  BY <2>0, <3>1
  <2>2. CASE x # t
    <3>1. sum'[x] = sum[x] /\ reads[x] = q  BY <2>2 DEF IInv, Control, Leave
    <3>2. sum[x] = Partial(q)  BY <2>2, <3>1 DEF IInv, Coherent
    <3>3. CASE q = 0
      <4>1. Partial(0) = Zero  BY DEF Partial
      <4> QED  BY <2>0, <3>1, <3>2, <3>3, <4>1
    <3>4. CASE ledger' = ledger  BY <3>1, <3>2, <3>4, PartialStable
    <3> QED  BY <2>2, <3>1, <3>3, <3>4
  <2> QED  BY <2>1, <2>2
<1>5. Looked'
  <2> SUFFICES ASSUME NEW x \in Task, due'[x] # NoDue, ~raced'[x]
               PROVE  Full(due[x])'
    BY DEF Looked
  <2>1. x # t /\ due'[x] = due[x]
    BY DEF IInv, Control, Leave
  <2>2. ledger' = ledger /\ Full(due[x])
    BY <2>1 DEF IInv, Looked
  <2>3. PICK d : d = due[x]
    OBVIOUS
  <2>4. Full(d)'
    BY <2>2, <2>3, FullStable
  <2>5. d = due[x]'
    BY <2>1, <2>3
  <2> QED  BY <2>4, <2>5 DEF Full
<1> QED  BY <1>1, <1>2, <1>3, <1>4, <1>5 DEF IInv

-----------------------------------------------------------------------------
(* The steps that keep the transaction open.                               *)

\* Steps that change neither the ledger, the lock nor what was read.
LEMMA QuietKeeps ==
  ASSUME IInv, NEW t \in Task, pc[t] # "idle",
         pc' \in [Task -> {"idle", "open", "read", "fetched", "written"}],
         \A x \in Task \ {t} : pc'[x] = pc[x], pc'[t] # "idle",
         UNCHANGED <<ledger, lock, job, reads, sum, due, raced>>
  PROVE  IInv'
<1>1. Control'  BY DEF IInv, Control
<1>2. Locked'   BY DEF IInv, Locked
<1>3. Reading'  BY DEF IInv, Reading
<1>4. Coherent'
  <2>1. \A q \in 0..4 : Partial(q)' = Partial(q)  BY PartialStable
  <2> QED  BY <2>1 DEF IInv, Coherent
<1>5. Looked'
  BY FullStable DEF IInv, Looked, Full
<1> QED  BY <1>1, <1>2, <1>3, <1>4, <1>5 DEF IInv

LEMMA BeginKeeps ==
  ASSUME IInv, NEW t \in Task, NEW c \in Cmd, Begin(t, c)
  PROVE  IInv'
<1> USE LedgerDistinct
<1>1. Control'
  <2>1. pc' \in [Task -> {"idle", "open", "read", "fetched", "written"}]
    BY DEF IInv, Control, Begin
  <2>2. job' \in [Task -> Cmd]  BY DEF IInv, Control, Begin
  <2> QED  BY <2>1, <2>2 DEF IInv, Control, Begin
<1>2. Locked'   BY DEF IInv, Control, Locked, Begin
<1>3. Reading'  BY DEF IInv, Control, Reading, Begin
<1>4. Coherent'
  <2>1. \A q \in 0..4 : Partial(q)' = Partial(q)  BY PartialStable DEF Begin
  <2> QED  BY <2>1 DEF IInv, Coherent, Begin
<1>5. Looked'
  BY FullStable DEF IInv, Looked, Full, Begin
<1> QED  BY <1>1, <1>2, <1>3, <1>4, <1>5 DEF IInv

LEMMA ReadSumKeeps ==
  ASSUME IInv, NEW t \in Task, ReadSum(t)
  PROVE  IInv'
<1>1. Control'
  <2>1. pc' \in [Task -> {"idle", "open", "read", "fetched", "written"}]
    BY DEF IInv, Control, ReadSum
  <2>2. reads' \in [Task -> 0..4]
    BY DEF IInv, Control, ReadSum
  <2>3. DOMAIN sum' = Task
    BY DEF IInv, Control, ReadSum
  <2> QED  BY <2>1, <2>2, <2>3 DEF IInv, Control, ReadSum
<1>2. Locked'   BY DEF IInv, Control, Locked, ReadSum
<1>3. Reading'  BY DEF IInv, Control, Reading, ReadSum
<1>4. Coherent'
  <2> SUFFICES ASSUME NEW x \in Task, NEW q \in 0..4, reads'[x] = q, ~raced'[x]
               PROVE  sum'[x] = Partial(q)'
    BY DEF Coherent
  <2>0. Partial(q)' = Partial(q) /\ ~raced[x]
    BY PartialStable DEF ReadSum
  <2>1. CASE x = t
    <3>1. reads[t] \in 0..3 /\ q = reads[t] + 1
      BY <2>1 DEF IInv, Control, ReadSum
    <3>2. sum'[t] = Select(reads[t] + 1, sum[t])
      BY DEF IInv, Control, ReadSum
    <3>3. sum[t] = Partial(reads[t])
      BY <2>0, <2>1, <3>1 DEF IInv, Coherent
    <3> QED  BY <2>0, <2>1, <3>1, <3>2, <3>3, NextPartial
  <2>2. CASE x # t
    <3>1. sum'[x] = sum[x] /\ reads[x] = q
      BY <2>2 DEF IInv, Control, ReadSum
    <3> QED  BY <2>0, <3>1 DEF IInv, Coherent
  <2> QED  BY <2>1, <2>2
<1>5. Looked'
  BY FullStable DEF IInv, Looked, Full, ReadSum
<1> QED  BY <1>1, <1>2, <1>3, <1>4, <1>5 DEF IInv

\* What is looked up from undisturbed balances is the whole suggestion.
LEMMA LookUpKeeps ==
  ASSUME IInv, NEW t \in Task, LookUp(t)
  PROVE  IInv'
<1>1. PICK simplify, s :
        /\ s \in Suggested(sum[t], simplify)
        /\ due' = [due EXCEPT ![t] = [from |-> s.from, to |-> s.to, amount |-> s.amount,
                                 simplify |-> simplify]]
  BY DEF LookUp
<1>2. /\ UNCHANGED <<ledger, lock, job, raced>> /\ pc' = [pc EXCEPT ![t] = "open"]
      /\ reads' = [reads EXCEPT ![t] = 0] /\ sum' = [sum EXCEPT ![t] = Zero]
      /\ pc[t] = "read" /\ reads[t] = 4 /\ job[t] = "settle"
  BY DEF LookUp, HasBalances
<1>3. Control'
  <2>1. pc' \in [Task -> {"idle", "open", "read", "fetched", "written"}]
    BY <1>2 DEF IInv, Control
  <2>2. reads' \in [Task -> 0..4] /\ DOMAIN sum' = Task /\ DOMAIN due' = Task
    BY <1>1, <1>2 DEF IInv, Control
  <2> QED  BY <1>2, <2>1, <2>2 DEF IInv, Control
<1>4. Locked'   BY <1>2 DEF IInv, Control, Locked
<1>5. Reading'  BY <1>1, <1>2 DEF IInv, Control, Reading
<1>6. Coherent'
  <2> SUFFICES ASSUME NEW x \in Task, NEW q \in 0..4, reads'[x] = q, ~raced'[x]
               PROVE  sum'[x] = Partial(q)'
    BY DEF Coherent
  <2>1. CASE x = t
    <3>1. Partial(0)' = Zero
      BY DEF Partial, Zero
    <3>2. sum'[x] = Zero /\ reads'[x] = 0
      BY <1>2, <2>1 DEF IInv, Control
    <3> QED  BY <3>1, <3>2
  <2>2. CASE x # t
    <3>1. sum'[x] = sum[x] /\ reads[x] = q /\ ~raced[x]
      BY <1>2, <2>2 DEF IInv, Control
    <3> QED  BY <1>2, <3>1, PartialStable DEF IInv, Coherent
  <2> QED  BY <2>1, <2>2
<1>7. Looked'
  <2> SUFFICES ASSUME NEW x \in Task, due'[x] # NoDue, ~raced'[x]
               PROVE  Full(due[x])'
    BY DEF Looked
  <2>0. PICK d : d = due'[x]
    OBVIOUS
  <2> SUFFICES Full(d)
    <3>1. Full(d)'
      BY <1>2, FullStable
    <3> QED  BY <2>0, <3>1 DEF Full
  <2>1. CASE x = t
    <3>1. sum[t] = Balance
      <4>1. sum[t] = Partial(4)  BY <1>2, <2>1 DEF IInv, Coherent
      <4>2. Partial(4) = Balance  BY DEF Partial
      <4> QED  BY <4>1, <4>2
    <3>2. s.amount = Owed(sum[t], simplify, s.from, s.to)
      BY <1>1, SuggestedOwed
    <3>3. due'[t] = [from |-> s.from, to |-> s.to, amount |-> s.amount, simplify |-> simplify]
      BY <1>1 DEF IInv, Control
    <3>4. d.amount = s.amount /\ d.simplify = simplify /\ d.from = s.from /\ d.to = s.to
      BY <2>0, <2>1, <3>3
    <3> QED  BY <3>1, <3>2, <3>4 DEF Full
  <2>2. CASE x # t
    <3>1. d = due[x] /\ ~raced[x] /\ due[x] # NoDue
      BY <1>1, <1>2, <2>0, <2>2 DEF IInv, Control
    <3> QED  BY <3>1 DEF IInv, Looked
  <2> QED  BY <2>1, <2>2
<1> QED  BY <1>3, <1>4, <1>5, <1>6, <1>7 DEF IInv

\* The heart of it: a commit changes the ledger under the lock, when nobody else
\* is reading, or it is a Submit's, and then whoever holds the lock is marked.
LEMMA CommitKeeps ==
  ASSUME IInv, NEW t \in Task, Commit(t)
  PROVE  IInv'
<1>1. Leave(t)  BY DEF Commit
<1>2. raced' \in [Task -> BOOLEAN]
  BY DEF IInv, Control, Commit
<1>3. \A x \in Task \ {t} : ~raced'[x] => ~raced[x]
  BY DEF Commit
<1>4. ASSUME NEW x \in Task \ {t}, ~raced'[x]
      PROVE  reads[x] = 0 /\ due[x] = NoDue
  <2>1. SUFFICES ASSUME reads[x] # 0 \/ due[x] # NoDue PROVE FALSE
    OBVIOUS
  <2>2. pc[x] # "idle" /\ job[x] # "submit"
    BY <2>1 DEF IInv, Reading
  <2>3. lock = x
    BY <2>2 DEF IInv, Locked
  <2>4. job[t] = "submit"
    BY <2>3 DEF IInv, Locked, Commit
  <2> QED  BY <1>4, <2>3, <2>4 DEF Commit
<1> QED  BY <1>1, <1>2, <1>3, <1>4, LeaveKeeps

LEMMA GiveUpKeeps ==
  ASSUME IInv, NEW t \in Task, GiveUp(t)
  PROVE  IInv'
<1>1. raced' \in [Task -> BOOLEAN]
  BY DEF IInv, Control, GiveUp
<1>2. \A x \in Task \ {t} : ~raced'[x] => ~raced[x]
  BY DEF IInv, Control, GiveUp
<1> QED  BY <1>1, <1>2, LeaveKeeps DEF GiveUp

\* A buffered write: pc moves on to "written", and nothing else that matters here.
LEMMA BufferKeeps ==
  ASSUME IInv, NEW t \in Task, NEW w, pc[t] # "idle", Buffer(t, w), reads' = reads
  PROVE  IInv'
<1>1. /\ pc' \in [Task -> {"idle", "open", "read", "fetched", "written"}]
      /\ \A x \in Task \ {t} : pc'[x] = pc[x]
      /\ pc'[t] # "idle"
  BY DEF IInv, Control, Buffer
<1> QED  BY <1>1, QuietKeeps DEF Buffer

LEMMA FetchRowKeeps ==
  ASSUME IInv, NEW t \in Task, FetchRow(t)
  PROVE  IInv'
<1>1. /\ pc' \in [Task -> {"idle", "open", "read", "fetched", "written"}]
      /\ \A x \in Task \ {t} : pc'[x] = pc[x]
      /\ pc'[t] # "idle" /\ pc[t] # "idle"
  BY DEF IInv, Control, FetchRow
<1> QED  BY <1>1, QuietKeeps DEF FetchRow

LEMMA StepInv == IInv /\ [Next]_vars => IInv'
<1> SUFFICES ASSUME IInv, [Next]_vars PROVE IInv'
  OBVIOUS
<1>1. CASE UNCHANGED vars
  <2>1. \A q \in 0..4 : Partial(q)' = Partial(q)
    BY <1>1, PartialStable DEF vars
  <2>2. UNCHANGED <<lock, pc, job, reads, sum, due, raced>>
    BY <1>1 DEF vars
  <2>3. Looked'
    BY <1>1, <2>2, FullStable DEF vars, IInv, Looked, Full
  <2> QED  BY <2>1, <2>2, <2>3 DEF IInv, Control, Locked, Reading, Coherent
<1>2. ASSUME NEW t \in Task, NEW c \in Cmd, Begin(t, c) PROVE IInv'
  BY <1>2, BeginKeeps
<1>3. ASSUME NEW t \in Task, AddExpense(t) PROVE IInv'
  BY <1>3, BufferKeeps DEF AddExpense, File
<1>4. ASSUME NEW t \in Task, ReadSum(t) PROVE IInv'
  BY <1>4, ReadSumKeeps
<1>5. ASSUME NEW t \in Task, SettleUp(t) PROVE IInv'
  BY <1>5, BufferKeeps DEF SettleUp, HasBalances, File
<1>11. ASSUME NEW t \in Task, LookUp(t) PROVE IInv'
  BY <1>11, LookUpKeeps
<1>12. ASSUME NEW t \in Task, PayDue(t) PROVE IInv'
  BY <1>12, BufferKeeps DEF PayDue, HasBalances, File
<1>6. ASSUME NEW t \in Task, SettleAll(t) PROVE IInv'
  BY <1>6, BufferKeeps DEF SettleAll, HasBalances, File
<1>7. ASSUME NEW t \in Task, FetchRow(t) PROVE IInv'
  BY <1>7, FetchRowKeeps
<1>8. ASSUME NEW t \in Task, VoidRow(t) PROVE IInv'
  BY <1>8, BufferKeeps DEF VoidRow
<1>9. ASSUME NEW t \in Task, Commit(t) PROVE IInv'
  BY <1>9, CommitKeeps
<1>10. ASSUME NEW t \in Task, GiveUp(t) PROVE IInv'
  BY <1>10, GiveUpKeeps
<1> QED
  BY <1>1, <1>2, <1>3, <1>4, <1>5, <1>6, <1>7, <1>8, <1>9, <1>10, <1>11, <1>12 DEF Next

\* The group lock is held by every handler in progress but a Submit, so the
\* partial sums of an undisturbed reader are always those of one instant.
THEOREM InvHolds == Spec => []IInv
<1>1. Init => IInv  BY InitInv
<1>2. IInv /\ [Next]_vars => IInv'  BY StepInv
<1> QED  BY <1>1, <1>2, PTL DEF Spec

\* compute_for_group returns the committed balances to every handler whose lock no
\* Submit bypassed, for any ledger, any bills and any number of handlers.
THEOREM SnapshotExactHolds == Spec => []SnapshotExact
<1>1. IInv => SnapshotExact
  <2> SUFFICES ASSUME IInv, NEW t \in Task, reads[t] = 4, ~raced[t]
               PROVE  sum[t] = Balance
    BY DEF SnapshotExact
  <2>1. sum[t] = Partial(4)  BY DEF IInv, Coherent
  <2>2. Partial(4) = Balance  BY DEF Partial
  <2> QED  BY <2>1, <2>2
<1> QED  BY <1>1, InvHolds, PTL

\* What a tap records is the whole suggestion of the balances at that moment, though
\* they were read twice, for any ledger, any bills and any number of handlers.
THEOREM PaysInFullHolds == Spec => []PaysInFull
<1>1. IInv => PaysInFull
  BY DEF IInv, Looked, Full, PaysInFull
<1> QED  BY <1>1, InvHolds, PTL

-----------------------------------------------------------------------------
(* The ledger is append-only.  A void stamp is decided from a row fetched  *)
(* under the lock, and nobody else stamps until the transaction ends; a    *)
(* Submit, which needs no lock, only appends.                              *)

IsRow(r) == \E k, a, m, o, v :
              r = [kind |-> k, actor |-> a, amount |-> m, owes |-> o, voidedBy |-> v]

\* A sequence of rows, whatever the shares in them.
RowSeq(s) == \E S : s \in Seq(S) /\ \A e \in S : IsRow(e)

Live(x) == x \in DOMAIN ledger /\ ledger[x].voidedBy = NoUser

\* The row a handler fetched, or is about to stamp, is still unvoided.
Fetched(t) == /\ pc[t] = "fetched" => job[t] = "void" /\ Live(row[t])
              /\ pc[t] = "written" /\ write[t].void # 0 => job[t] = "void" /\ Live(write[t].void)

Shape == /\ RowSeq(ledger)
         /\ DOMAIN row = Task /\ DOMAIN write = Task
         /\ \A t \in Task : RowSeq(write[t].add) /\ DOMAIN sum[t] = User

VInv == IInv /\ Shape /\ \A t \in Task : Fetched(t)

LEMMA MakeRows ==
  ASSUME NEW S, NEW s \in Seq(S), \A e \in S : IsRow(e)
  PROVE  RowSeq(s)
BY DEF RowSeq

LEMMA NoRows == RowSeq(<< >>)
<1>1. PICK e : e = << >>
  OBVIOUS
<1>2. e \in Seq({})
  BY <1>1, EmptySeq
<1>3. RowSeq(e)
  BY <1>2, MakeRows
<1> QED  BY <1>1, <1>3, Zenon

LEMMA OneRow ==
  ASSUME NEW r, IsRow(r)
  PROVE  RowSeq(<<r>>)
<1>1. PICK e, S : e = <<r>> /\ S = {r}
  OBVIOUS
<1>2. e \in Seq(S)
  BY <1>1
<1>3. \A x \in S : IsRow(x)
  BY <1>1
<1>4. RowSeq(e)
  BY <1>2, <1>3, MakeRows
<1> QED  BY <1>1, <1>4, Zenon

\* Appending rows to rows gives rows, and leaves the first ones alone.
LEMMA AppendRows ==
  ASSUME NEW s, NEW a, RowSeq(s), RowSeq(a)
  PROVE  /\ RowSeq(s \o a) /\ Len(s) \in Nat /\ Len(s \o a) >= Len(s)
         /\ DOMAIN s \subseteq DOMAIN (s \o a)
         /\ \A x \in DOMAIN s : (s \o a)[x] = s[x]
<1>1. PICK S : s \in Seq(S) /\ \A e \in S : IsRow(e)
  BY DEF RowSeq
<1>2. PICK A : a \in Seq(A) /\ \A e \in A : IsRow(e)
  BY DEF RowSeq
<1>3. s \in Seq(S \cup A) /\ a \in Seq(S \cup A) /\ \A e \in S \cup A : IsRow(e)
  BY <1>1, <1>2, SeqMonotonic
<1>4. Len(s) \in Nat /\ Len(a) \in Nat /\ DOMAIN s = 1..Len(s)
  BY <1>3, LenProperties
<1>5. /\ s \o a \in Seq(S \cup A) /\ Len(s \o a) = Len(s) + Len(a)
      /\ \A x \in 1..Len(s) + Len(a) : (s \o a)[x] = IF x <= Len(s) THEN s[x] ELSE a[x - Len(s)]
  BY <1>3, ConcatProperties
<1>6. DOMAIN (s \o a) = 1..(Len(s) + Len(a))
  BY <1>5, LenProperties
<1>7. RowSeq(s \o a)
  BY <1>3, <1>5 DEF RowSeq
<1> QED
  BY <1>4, <1>5, <1>6, <1>7

\* Stamping a row changes that row, in its stamp.
LEMMA StampRow ==
  ASSUME NEW s, RowSeq(s), NEW v, v \in DOMAIN s, NEW r, IsRow(r),
         NEW z, [s EXCEPT ![v] = r] = z
  PROVE  /\ RowSeq(z) /\ Len(s) \in Nat /\ Len(z) = Len(s) /\ DOMAIN z = DOMAIN s
         /\ \A x \in DOMAIN s : z[x] = IF x = v THEN r ELSE s[x]
<1>1. PICK S : s \in Seq(S) /\ \A e \in S : IsRow(e)
  BY DEF RowSeq
<1>2. PICK R : R = S \cup {r}
  OBVIOUS
<1>3. s \in Seq(R) /\ r \in R /\ \A e \in R : IsRow(e)
  BY <1>1, <1>2, SeqMonotonic
<1>4. Len(s) \in Nat /\ DOMAIN s = 1..Len(s)
  BY <1>1, LenProperties
<1>5. /\ z \in Seq(R) /\ Len(z) = Len(s)
      /\ \A x \in 1..Len(s) : z[x] = IF x = v THEN r ELSE s[x]
  BY <1>3, <1>4, ExceptSeq
<1>6. DOMAIN z = 1..Len(s)
  BY <1>5, LenProperties
<1>7. RowSeq(z)
  BY <1>3, <1>5, MakeRows
<1> QED  BY <1>4, <1>5, <1>6, <1>7

\* A void stamp changes nothing else of the row.
LEMMA Stamped ==
  ASSUME NEW e, IsRow(e), NEW u, NEW r, r = [e EXCEPT !.voidedBy = u]
  PROVE  IsRow(r) /\ r.voidedBy = u /\ r = [e EXCEPT !.voidedBy = r.voidedBy]
<1>1. r.voidedBy = u
  BY DEF IsRow
<1>2. IsRow(r)
  BY DEF IsRow
<1> QED  BY <1>1, <1>2

\* A step that leaves the ledger and every other handler alone needs a look at
\* one handler.
LEMMA LocalKeeps ==
  ASSUME VInv, IInv', NEW t \in Task, UNCHANGED ledger,
         DOMAIN row' = Task, DOMAIN write' = Task,
         \A x \in Task \ {t} : /\ pc'[x] = pc[x] /\ job'[x] = job[x] /\ row'[x] = row[x]
                              /\ write'[x] = write[x] /\ sum'[x] = sum[x],
         RowSeq(write'[t].add), DOMAIN sum'[t] = User,
         pc'[t] = "fetched" => job'[t] = "void" /\ Live(row'[t]),
         pc'[t] = "written" /\ write'[t].void # 0 => job'[t] = "void" /\ Live(write'[t].void)
  PROVE  VInv'
<1>1. \A x : Live(x)' <=> Live(x)
  BY DEF Live
<1>2. \A x \in Task : x = t \/ x \in Task \ {t}
  OBVIOUS
<1>3. RowSeq(ledger)'
  BY DEF VInv, Shape, RowSeq
<1>4. Shape'
  BY <1>2, <1>3 DEF VInv, Shape, RowSeq
<1>5. \A x \in Task : Fetched(x)'
  <2>1. Fetched(t)'
    BY DEF Fetched, Live
  <2>2. ASSUME NEW x \in Task \ {t} PROVE Fetched(x)'
    BY <2>2, <1>1 DEF VInv, Fetched, Live
  <2> QED  BY <1>2, <2>1, <2>2
<1> QED  BY <1>4, <1>5 DEF VInv

\* Filing rows leaves no stamp to write.
LEMMA FileKeeps ==
  ASSUME VInv, IInv', NEW t \in Task, NEW rows, RowSeq(rows), File(t, rows)
  PROVE  VInv'
<1>1. PICK w : w = [Nothing EXCEPT !.add = rows]
  OBVIOUS
<1>2. w.add = rows /\ w.void = 0
  BY <1>1 DEF Nothing
<1>3. /\ write' = [write EXCEPT ![t] = w] /\ pc' = [pc EXCEPT ![t] = "written"]
      /\ UNCHANGED <<ledger, job, sum, row>>
  BY <1>1 DEF File, Buffer
<1>4. t \in DOMAIN write /\ t \in DOMAIN pc /\ DOMAIN row = Task /\ DOMAIN write = Task
  BY DEF VInv, Shape, IInv, Control
<1>5. write'[t] = w /\ pc'[t] = "written" /\ DOMAIN write' = Task /\ DOMAIN row' = Task
  BY <1>3, <1>4
<1>6. DOMAIN sum'[t] = User
  BY <1>3 DEF VInv, Shape
<1> QED  BY <1>2, <1>3, <1>4, <1>5, <1>6, LocalKeeps

\* A handler that ends without a write.
LEMMA GiveUpRows ==
  ASSUME VInv, IInv', NEW t \in Task, GiveUp(t)
  PROVE  VInv'
<1>1. /\ UNCHANGED ledger /\ pc' = [pc EXCEPT ![t] = "idle"] /\ write' = [write EXCEPT ![t] = Nothing]
      /\ row' = [row EXCEPT ![t] = 0] /\ sum' = [sum EXCEPT ![t] = Zero]
      /\ job' = [job EXCEPT ![t] = "expense"]
  BY DEF GiveUp, Leave
<1>2. DOMAIN row = Task /\ DOMAIN write = Task /\ DOMAIN sum = Task /\ DOMAIN pc = Task
  BY DEF VInv, Shape, IInv, Control
<1>3. write'[t] = Nothing /\ sum'[t] = Zero /\ pc'[t] = "idle" /\ DOMAIN row' = Task /\ DOMAIN write' = Task
  BY <1>1, <1>2
<1>4. RowSeq(Nothing.add)
  BY NoRows DEF Nothing
<1>5. DOMAIN sum'[t] = User
  BY <1>3 DEF Zero
<1> QED  BY <1>1, <1>2, <1>3, <1>4, <1>5, LocalKeeps

LEMMA BeginRows ==
  ASSUME VInv, IInv', NEW t \in Task, NEW c \in Cmd, Begin(t, c)
  PROVE  VInv'
<1>1. /\ UNCHANGED <<ledger, sum, row, write>> /\ pc' = [pc EXCEPT ![t] = "open"]
      /\ job' = [job EXCEPT ![t] = c]
  BY DEF Begin
<1>2. DOMAIN row = Task /\ DOMAIN write = Task /\ DOMAIN pc = Task
  BY DEF VInv, Shape, IInv, Control
<1>3. pc'[t] = "open" /\ DOMAIN row' = Task /\ DOMAIN write' = Task
  BY <1>1, <1>2
<1>4. RowSeq(write'[t].add) /\ DOMAIN sum'[t] = User
  BY <1>1 DEF VInv, Shape
<1> QED  BY <1>1, <1>2, <1>3, <1>4, LocalKeeps

LEMMA ReadSumRows ==
  ASSUME VInv, IInv', NEW t \in Task, ReadSum(t)
  PROVE  VInv'
<1>1. /\ UNCHANGED <<ledger, job, row, write>> /\ pc' = [pc EXCEPT ![t] = "read"]
      /\ sum' = [sum EXCEPT ![t] = Select(reads[t] + 1, sum[t])]
  BY DEF ReadSum
<1>2. DOMAIN row = Task /\ DOMAIN write = Task /\ DOMAIN pc = Task /\ DOMAIN sum = Task
  BY DEF VInv, Shape, IInv, Control
<1>3. /\ pc'[t] = "read" /\ DOMAIN row' = Task /\ DOMAIN write' = Task
      /\ sum'[t] = Select(reads[t] + 1, sum[t])
  BY <1>1, <1>2
<1>4. RowSeq(write'[t].add)
  BY <1>1 DEF VInv, Shape
<1>5. DOMAIN sum'[t] = User
  BY <1>3 DEF Select
<1> QED  BY <1>1, <1>2, <1>3, <1>4, <1>5, LocalKeeps

LEMMA LookUpRows ==
  ASSUME VInv, IInv', NEW t \in Task, LookUp(t)
  PROVE  VInv'
<1>1. /\ UNCHANGED <<ledger, job, row, write>> /\ pc' = [pc EXCEPT ![t] = "open"]
      /\ sum' = [sum EXCEPT ![t] = Zero]
  BY DEF LookUp
<1>2. DOMAIN row = Task /\ DOMAIN write = Task /\ DOMAIN pc = Task /\ DOMAIN sum = Task
  BY DEF VInv, Shape, IInv, Control
<1>3. pc'[t] = "open" /\ DOMAIN row' = Task /\ DOMAIN write' = Task /\ sum'[t] = Zero
  BY <1>1, <1>2
<1>4. RowSeq(write'[t].add)
  BY <1>1 DEF VInv, Shape
<1>5. DOMAIN sum'[t] = User
  BY <1>3 DEF Zero
<1> QED  BY <1>1, <1>2, <1>3, <1>4, <1>5, LocalKeeps

LEMMA FetchRowRows ==
  ASSUME VInv, IInv', NEW t \in Task, FetchRow(t)
  PROVE  VInv'
<1>1. PICK x \in DOMAIN ledger : ledger[x].voidedBy = NoUser /\ row' = [row EXCEPT ![t] = x]
  BY DEF FetchRow
<1>2. /\ UNCHANGED <<ledger, job, sum, write>> /\ pc' = [pc EXCEPT ![t] = "fetched"]
      /\ job[t] = "void"
  BY DEF FetchRow
<1>3. DOMAIN row = Task /\ DOMAIN write = Task /\ DOMAIN pc = Task
  BY DEF VInv, Shape, IInv, Control
<1>4. pc'[t] = "fetched" /\ row'[t] = x /\ DOMAIN row' = Task /\ DOMAIN write' = Task
  BY <1>1, <1>2, <1>3
<1>5. RowSeq(write'[t].add) /\ DOMAIN sum'[t] = User
  BY <1>2 DEF VInv, Shape
<1>6. Live(x)
  BY <1>1 DEF Live
<1> QED  BY <1>1, <1>2, <1>3, <1>4, <1>5, <1>6, LocalKeeps

LEMMA VoidRowRows ==
  ASSUME VInv, IInv', NEW t \in Task, VoidRow(t)
  PROVE  VInv'
<1>1. PICK u \in User : Buffer(t, [Nothing EXCEPT !.void = row[t], !.by = u])
  BY DEF VoidRow
<1>2. PICK w : w = [Nothing EXCEPT !.void = row[t], !.by = u]
  OBVIOUS
<1>3. w.add = << >> /\ w.void = row[t]
  BY <1>2 DEF Nothing
<1>4. /\ UNCHANGED <<ledger, job, sum, row>> /\ pc' = [pc EXCEPT ![t] = "written"]
      /\ write' = [write EXCEPT ![t] = w]
  BY <1>1, <1>2 DEF VoidRow, Buffer
<1>5. DOMAIN row = Task /\ DOMAIN write = Task /\ DOMAIN pc = Task
  BY DEF VInv, Shape, IInv, Control
<1>6. pc'[t] = "written" /\ write'[t] = w /\ DOMAIN row' = Task /\ DOMAIN write' = Task
  BY <1>4, <1>5
<1>7. RowSeq(w.add)
  BY <1>3, NoRows
<1>8. job[t] = "void" /\ Live(row[t])
  BY DEF VoidRow, VInv, Fetched
<1>9. DOMAIN sum'[t] = User
  BY <1>4 DEF VInv, Shape
<1> QED  BY <1>3, <1>4, <1>5, <1>6, <1>7, <1>8, <1>9, LocalKeeps

LEMMA RowsAreRows ==
  /\ \A b : IsRow(ExpenseRow(b))
  /\ \A tr : IsRow(SettlementRow(tr))
<1>1. \A b : IsRow(ExpenseRow(b))
  BY DEF ExpenseRow, IsRow
<1>2. \A tr : IsRow(SettlementRow(tr))
  BY DEF SettlementRow, IsRow
<1> QED  BY <1>1, <1>2

\* There is one suggested transfer at most for each pair of users.
LEMMA SuggestedFinite ==
  ASSUME NEW bal, DOMAIN bal = User, NEW simplify
  PROVE  IsFiniteSet(Suggested(bal, simplify)) /\ Cardinality(Suggested(bal, simplify)) \in Nat
<1> DEFINE All == Suggested(bal, simplify)
           f   == [tr \in All |-> <<tr.from, tr.to>>]
<1>1. ASSUME NEW tr \in All
      PROVE  /\ tr.from \in User /\ tr.to \in User
             /\ tr = [from |-> tr.from, to |-> tr.to, amount |-> Owed(bal, simplify, tr.from, tr.to)]
  BY <1>1, SuggestedOwed
<1>2. f \in Injection(All, User \X User)
  <2>1. f \in [All -> User \X User]
    BY <1>1
  <2>2. ASSUME NEW a \in All, NEW b \in All, f[a] = f[b] PROVE a = b
    <3>1. a.from = b.from /\ a.to = b.to
      BY <2>2
    <3> QED  BY <1>1, <3>1
  <2> QED  BY <2>1, <2>2 DEF Injection, IsInjective
<1>3. IsFiniteSet(User \X User)
  BY LedgerUsers, FS_Product
<1>4. IsFiniteSet(All)
  BY <1>2, <1>3, FS_Injection
<1> QED  BY <1>4, FS_CardinalityType

LEMMA SettleAllRows ==
  ASSUME VInv, IInv', NEW t \in Task, SettleAll(t)
  PROVE  VInv'
<1> DEFINE All(simplify) == Suggested(sum[t], simplify)
           N(simplify)   == Cardinality(All(simplify))
<1>0. PICK simplify \in BOOLEAN :
        \E order \in [1..N(simplify) -> All(simplify)] :
          File(t, [x \in 1..N(simplify) |-> SettlementRow(order[x])])
  BY DEF SettleAll
<1>1. PICK order : File(t, [x \in 1..N(simplify) |-> SettlementRow(order[x])])
  BY <1>0
<1> DEFINE n == N(simplify)
<1>2. n \in Nat
  BY SuggestedFinite DEF VInv, Shape
<1> HIDE DEF N
<1> DEFINE rows == [x \in 1..n |-> SettlementRow(order[x])]
           S    == {SettlementRow(order[x]) : x \in 1..n}
<1>3. rows \in Seq(S)
  <2>1. rows \in [1..n -> S]
    OBVIOUS
  <2> HIDE DEF rows, S
  <2> QED  BY <1>2, <2>1
<1>4. \A e \in S : IsRow(e)
  BY RowsAreRows
<1>5. RowSeq(rows)
  <2> HIDE DEF rows, S
  <2> QED  BY <1>3, <1>4 DEF RowSeq
<1> QED  BY <1>1, <1>5, FileKeeps

\* A transaction commits its rows, or its stamp: the row it stamps was still
\* unvoided, and no other stamp is waiting, for its handler would hold the lock.
LEMMA CommitRows ==
  ASSUME VInv, IInv', NEW t \in Task, Commit(t)
  PROVE  /\ VInv'
         /\ Len(ledger') >= Len(ledger)
         /\ \A x \in DOMAIN ledger :
              \/ ledger'[x] = ledger[x]
              \/ /\ ledger[x].voidedBy = NoUser
                 /\ ledger'[x] = [ledger[x] EXCEPT !.voidedBy = ledger'[x].voidedBy]
<1> DEFINE Kept == /\ RowSeq(ledger') /\ Len(ledger') >= Len(ledger) /\ DOMAIN ledger \subseteq DOMAIN ledger'
                   /\ \A x \in DOMAIN ledger :
                        \/ ledger'[x] = ledger[x]
                        \/ /\ ledger[x].voidedBy = NoUser
                           /\ ledger'[x] = [ledger[x] EXCEPT !.voidedBy = ledger'[x].voidedBy]
           Waits(x) == pc[x] = "fetched" \/ (pc[x] = "written" /\ write[x].void # 0)
<1>1. /\ pc' = [pc EXCEPT ![t] = "idle"] /\ write' = [write EXCEPT ![t] = Nothing]
      /\ row' = [row EXCEPT ![t] = 0] /\ sum' = [sum EXCEPT ![t] = Zero]
      /\ job' = [job EXCEPT ![t] = "expense"] /\ pc[t] = "written"
  BY DEF Commit, Leave
<1>2. DOMAIN row = Task /\ DOMAIN write = Task /\ DOMAIN sum = Task /\ DOMAIN pc = Task
  BY DEF VInv, Shape, IInv, Control
<1>3. /\ write'[t] = Nothing /\ sum'[t] = Zero /\ pc'[t] = "idle"
      /\ DOMAIN row' = Task /\ DOMAIN write' = Task
  BY <1>1, <1>2
<1>4. \A x \in Task \ {t} : /\ pc'[x] = pc[x] /\ job'[x] = job[x] /\ row'[x] = row[x]
                            /\ write'[x] = write[x] /\ sum'[x] = sum[x]
  BY <1>1
<1>5. \A x \in Task : Waits(x) => lock = x
  BY DEF VInv, Fetched, IInv, Locked
<1>6. /\ Kept
      /\ \A x \in Task \ {t} : Waits(x) => \A e : Live(e) => Live(e)'
  <2>1. CASE write[t].void # 0
    <3>1. PICK v : v = write[t].void
      OBVIOUS
    <3>2. v \in DOMAIN ledger /\ ledger[v].voidedBy = NoUser
      BY <1>1, <2>1, <3>1 DEF VInv, Fetched, Live
    <3>3. PICK e, r, u : e = ledger[v] /\ u = write[t].by /\ r = [e EXCEPT !.voidedBy = u]
      OBVIOUS
    <3>4. ledger' = [ledger EXCEPT ![v] = r]
      BY <2>1, <3>1, <3>3 DEF Commit
    <3>5. IsRow(e)
      BY <3>2, <3>3, ElementOfSeq, LenProperties DEF VInv, Shape, RowSeq
    <3>6. IsRow(r) /\ r = [e EXCEPT !.voidedBy = r.voidedBy]
      BY <3>3, <3>5, Stamped
    <3>7. /\ RowSeq(ledger') /\ Len(ledger) \in Nat /\ Len(ledger') = Len(ledger) /\ DOMAIN ledger' = DOMAIN ledger
          /\ \A x \in DOMAIN ledger : ledger'[x] = IF x = v THEN r ELSE ledger[x]
      <4>1. PICK s, z : s = ledger /\ z = ledger'
        OBVIOUS
      <4>2. RowSeq(s) /\ v \in DOMAIN s /\ IsRow(r)
        BY <3>2, <3>6, <4>1 DEF VInv, Shape
      <4>3. [s EXCEPT ![v] = r] = z
        BY <3>4, <4>1
      <4>4. /\ RowSeq(z) /\ Len(s) \in Nat /\ Len(z) = Len(s) /\ DOMAIN z = DOMAIN s
            /\ \A x \in DOMAIN s : z[x] = IF x = v THEN r ELSE s[x]
        BY <4>2, <4>3, StampRow
      <4> QED  BY <4>1, <4>4
    <3>8. Kept
      BY <3>2, <3>3, <3>6, <3>7
    <3>9. \A x \in Task \ {t} : ~Waits(x)
      BY <1>1, <1>5, <2>1
    <3> QED  BY <3>8, <3>9
  <2>2. CASE write[t].void = 0
    <3>1. ledger' = ledger \o write[t].add
      BY <2>2 DEF Commit
    <3>2. RowSeq(ledger) /\ RowSeq(write[t].add)
      BY DEF VInv, Shape
    <3>3. /\ RowSeq(ledger') /\ Len(ledger) \in Nat /\ Len(ledger') >= Len(ledger)
          /\ DOMAIN ledger \subseteq DOMAIN ledger'
          /\ \A x \in DOMAIN ledger : ledger'[x] = ledger[x]
      BY <3>1, <3>2, AppendRows
    <3>4. \A e : Live(e) => Live(e)'
      BY <3>3 DEF Live
    <3> QED  BY <3>3, <3>4
  <2> QED  BY <2>1, <2>2
<1>7. Shape'
  <2>1. RowSeq(ledger)'
    BY <1>6 DEF RowSeq
  <2>2. RowSeq(Nothing.add)
    BY NoRows DEF Nothing
  <2>3. \A x \in Task : RowSeq(write'[x].add) /\ DOMAIN sum'[x] = User
    BY <1>3, <1>4, <2>2 DEF VInv, Shape, Zero
  <2> QED  BY <1>3, <2>1, <2>3 DEF Shape, RowSeq
<1>8. \A x \in Task : Fetched(x)'
  <2>1. Fetched(t)'
    BY <1>3 DEF Fetched
  <2>2. ASSUME NEW x \in Task \ {t} PROVE Fetched(x)'
    BY <1>4, <1>6, <2>2 DEF VInv, Fetched, Live
  <2> QED  BY <2>1, <2>2
<1> QED  BY <1>6, <1>7, <1>8 DEF VInv

LEMMA VInvStep == VInv /\ IInv' /\ [Next]_vars => VInv'
<1> SUFFICES ASSUME VInv, IInv', [Next]_vars PROVE VInv'
  OBVIOUS
<1>1. CASE UNCHANGED vars
  <2>1. RowSeq(ledger)'
    BY <1>1 DEF vars, VInv, Shape, RowSeq
  <2>2. Shape'
    BY <1>1, <2>1 DEF vars, VInv, Shape, RowSeq
  <2> QED  BY <1>1, <2>2 DEF vars, VInv, Fetched, Live
<1>2. ASSUME NEW t \in Task, NEW c \in Cmd, Begin(t, c) PROVE VInv'
  BY <1>2, BeginRows
<1>3. ASSUME NEW t \in Task, AddExpense(t) PROVE VInv'
  BY <1>3, FileKeeps, OneRow, RowsAreRows DEF AddExpense
<1>4. ASSUME NEW t \in Task, ReadSum(t) PROVE VInv'
  BY <1>4, ReadSumRows
<1>5. ASSUME NEW t \in Task, SettleUp(t) PROVE VInv'
  BY <1>5, FileKeeps, OneRow, RowsAreRows DEF SettleUp
<1>11. ASSUME NEW t \in Task, LookUp(t) PROVE VInv'
  BY <1>11, LookUpRows
<1>12. ASSUME NEW t \in Task, PayDue(t) PROVE VInv'
  BY <1>12, FileKeeps, OneRow, RowsAreRows DEF PayDue
<1>6. ASSUME NEW t \in Task, SettleAll(t) PROVE VInv'
  BY <1>6, SettleAllRows
<1>7. ASSUME NEW t \in Task, FetchRow(t) PROVE VInv'
  BY <1>7, FetchRowRows
<1>8. ASSUME NEW t \in Task, VoidRow(t) PROVE VInv'
  BY <1>8, VoidRowRows
<1>9. ASSUME NEW t \in Task, Commit(t) PROVE VInv'
  BY <1>9, CommitRows
<1>10. ASSUME NEW t \in Task, GiveUp(t) PROVE VInv'
  BY <1>10, GiveUpRows
<1> QED
  BY <1>1, <1>2, <1>3, <1>4, <1>5, <1>6, <1>7, <1>8, <1>9, <1>10, <1>11, <1>12 DEF Next

LEMMA InitRows == Init => VInv
<1> SUFFICES ASSUME Init PROVE VInv
  OBVIOUS
<1>1. IInv
  BY InitInv
<1>2. RowSeq(ledger) /\ RowSeq(Nothing.add)
  BY NoRows DEF Init, Nothing
<1>3. Shape
  BY <1>2 DEF Init, Shape, Zero
<1>4. \A t \in Task : Fetched(t)
  BY DEF Init, Fetched
<1> QED  BY <1>1, <1>3, <1>4 DEF VInv

LEMMA RowsHold == Spec => []VInv
<1>1. Init => VInv  BY InitRows
<1>2. VInv /\ IInv' /\ [Next]_vars => VInv'  BY VInvStep
<1> QED  BY <1>1, <1>2, InvHolds, PTL DEF Spec

\* However many voids and Submits race: a row in the ledger never changes but for
\* one void stamp, and only while it has none.
THEOREM AppendOnlyHolds == Spec => AppendOnly
<1>1. VInv /\ IInv' /\ [Next]_vars =>
        [/\ Len(ledger') >= Len(ledger)
         /\ \A x \in DOMAIN ledger :
              \/ ledger'[x] = ledger[x]
              \/ /\ ledger[x].voidedBy = NoUser
                 /\ ledger'[x] = [ledger[x] EXCEPT !.voidedBy = ledger'[x].voidedBy]]_vars
  <2> SUFFICES ASSUME VInv, IInv', Next
               PROVE  /\ Len(ledger') >= Len(ledger)
                      /\ \A x \in DOMAIN ledger :
                           \/ ledger'[x] = ledger[x]
                           \/ /\ ledger[x].voidedBy = NoUser
                              /\ ledger'[x] = [ledger[x] EXCEPT !.voidedBy = ledger'[x].voidedBy]
    OBVIOUS
  <2>1. CASE \E t \in Task : Commit(t)
    BY <2>1, CommitRows
  <2>2. CASE ~\E t \in Task : Commit(t)
    <3>1. ledger' = ledger
      BY <2>2 DEF Next, Begin, AddExpense, ReadSum, SettleUp, LookUp, PayDue, SettleAll, File, Buffer,
                  FetchRow, VoidRow, GiveUp
    <3>2. Len(ledger) \in Nat
      BY LenProperties DEF VInv, Shape, RowSeq
    <3> QED  BY <3>1, <3>2
  <2> QED  BY <2>1, <2>2
<1> QED  BY <1>1, InvHolds, RowsHold, PTL DEF Spec, AppendOnly

-----------------------------------------------------------------------------
(* Nobody owes or is owed money that no counterparty has.  Every row, on   *)
(* the ledger or about to be, owes exactly its amount, since the shares of *)
(* a split add up; so the four sums cancel over all users.                 *)

\* A row whose shares add up to its amount.
Row == {e \in Entry : Total(e.owes) = e.amount}

LEMMA UsersFinite == IsFiniteSet(User) /\ User \subseteq Nat
BY LedgerUsers

LEMMA ExpenseRowIsRow ==
  ASSUME NEW b \in Bill, Valid(b.amount, b.mode, b.params)
  PROVE  ExpenseRow(b) \in Row
<1> DEFINE D == DOMAIN b.params
           s == Shares(b.amount, b.mode, b.params)
           o == [u \in User |-> IF u \in D THEN s[u] ELSE 0]
           p == b.params
<1>1. /\ b.payer \in User /\ b.amount \in Nat /\ b.mode \in {"equal", "weighted", "percent", "exact"}
      /\ D \in SUBSET User /\ p \in [D -> Nat]
  BY LedgerBills DEF IsBill
<1>2. IsFiniteSet(D) /\ D \in SUBSET Nat
  BY <1>1, UsersFinite, FS_Subset
<1>3. s \in [D -> Nat] /\ Total(s) = b.amount
  <2> DEFINE a == b.amount
             k == b.mode
  <2>1. Valid(a, k, p) /\ s = Shares(a, k, p)  OBVIOUS
  <2> HIDE DEF s, D, p, a, k
  <2>2. /\ D \in SUBSET Nat /\ IsFiniteSet(D) /\ p \in [D -> Nat] /\ a \in Nat
        /\ k \in {"equal", "weighted", "percent", "exact"} /\ Valid(a, k, p)
    BY <1>1, <1>2, <2>1 DEF a, k
  <2>3. Shares(a, k, p) \in [D -> Nat] /\ Total(Shares(a, k, p)) = a  BY <2>2, SharesAddUp
  <2> QED  BY <2>1, <2>3 DEF a
<1>4. o \in [User -> Nat]
  <2> HIDE DEF s, D
  <2> QED  BY <1>3
<1>5. Total(o) = b.amount
  <2>1. o \in [User -> Int] /\ Keeps(User, D, o, o)
    <3> HIDE DEF s, D
    <3> QED  BY <1>3, <1>4 DEF Keeps
  <2>2. [u \in D |-> o[u]] = s
    <3> HIDE DEF s, D
    <3> QED  BY <1>1, <1>3
  <2> HIDE DEF o, s, D
  <2>3. IsFiniteSet(User) /\ o \in [User -> Int] /\ D \in SUBSET User /\ Keeps(User, D, o, o)
    BY <1>1, <2>1, UsersFinite
  <2>4. Over(o, D) = Total(o)  BY <2>3, OverFilter
  <2> QED  BY <1>3, <2>2, <2>4 DEF Over
<1>6. ExpenseRow(b) = [kind |-> "expense", actor |-> b.payer, amount |-> b.amount,
                       owes |-> o, voidedBy |-> NoUser]
  <2>1. DOMAIN s = D
    <3> HIDE DEF s, D
    <3> QED  BY <1>3
  <2> QED  BY <2>1 DEF ExpenseRow
<1> HIDE DEF o
<1>7. ExpenseRow(b) \in Entry  BY <1>1, <1>4, <1>6 DEF Entry
<1> QED  BY <1>5, <1>6, <1>7 DEF Row

LEMMA SettlementRowIsRow ==
  ASSUME NEW t, t.from \in User, t.to \in User, t.amount \in Nat
  PROVE  SettlementRow(t) \in Row
<1> DEFINE o == [u \in User |-> IF u = t.to THEN t.amount ELSE 0]
           v == t.amount
           x == t.to
<1>1. o \in [User -> Nat] /\ o \in [User -> Int]  OBVIOUS
<1>2. o = [u \in User |-> IF u = x THEN v ELSE 0]  OBVIOUS
<1> HIDE DEF o, v, x
<1>3. Total(o) = v
  <2>1. /\ IsFiniteSet(User) /\ x \in User /\ v \in Int /\ o \in [User -> Int]
        /\ o = [u \in User |-> IF u = x THEN v ELSE 0]
    BY <1>1, <1>2, UsersFinite DEF v, x
  <2> QED  BY <2>1, TotalPoint
<1>4. SettlementRow(t) = [kind |-> "settlement", actor |-> t.from, amount |-> t.amount,
                          owes |-> o, voidedBy |-> NoUser]
  BY DEF SettlementRow, o
<1>5. SettlementRow(t) \in Entry  BY <1>1, <1>4 DEF Entry
<1> QED  BY <1>3, <1>4, <1>5 DEF Row, v

\* Over all users, what one kind of row fronts is what it consumes.
LEMMA KindCancels ==
  ASSUME ledger \in Seq(Row), NEW kind
  PROVE  /\ [u \in User |-> Fronted(kind, u)]  \in [User -> Int]
         /\ [u \in User |-> Consumed(kind, u)] \in [User -> Int]
         /\ Total([u \in User |-> Fronted(kind, u)]) = Total([u \in User |-> Consumed(kind, u)])
<1> DEFINE D == DOMAIN ledger
           A == Active(kind)
           amt == [x \in D |-> ledger[x].amount]
           m == [x \in D |-> ledger[x].owes]
           p == [x \in D |-> [u \in User |-> IF ledger[x].actor = u THEN ledger[x].amount ELSE 0]]
           F == [u \in User |-> Fronted(kind, u)]
           C == [u \in User |-> Consumed(kind, u)]
<1>1. D = 1..Len(ledger) /\ Len(ledger) \in Nat /\ \A x \in D : ledger[x] \in Row
  OBVIOUS
<1>2. IsFiniteSet(D) /\ A \in SUBSET D
  BY <1>1, FS_Interval DEF Active
<1>3. \A x \in D : /\ ledger[x].amount \in Nat /\ ledger[x].owes \in [User -> Nat]
                   /\ ledger[x].actor \in User /\ Total(ledger[x].owes) = ledger[x].amount
  BY <1>1 DEF Row, Entry
<1>4. amt \in [D -> Int] /\ m \in [D -> [User -> Int]] /\ p \in [D -> [User -> Int]]
  BY <1>3
<1>5. C = ColumnSums(D, User, m, A)
  <2>1. ASSUME NEW u \in User
        PROVE  Consumed(kind, u) = Over([x \in D |-> m[x][u]], A)
    <3>1. [x \in A |-> [y \in D |-> m[y][u]][x]] = [x \in A |-> ledger[x].owes[u]]
      BY <1>2
    <3> QED  BY <3>1 DEF Consumed, Over
  <2> QED  BY <2>1 DEF ColumnSums
<1>6. F = ColumnSums(D, User, p, A)
  <2>1. ASSUME NEW u \in User
        PROVE  Fronted(kind, u) = Over([x \in D |-> p[x][u]], A)
    <3> DEFINE E == {y \in A : ledger[y].actor = u}
               f == [x \in A |-> ledger[x].amount]
               g == [x \in A |-> p[x][u]]
    <3>1. f \in [A -> Int] /\ g \in [A -> Int] /\ E \in SUBSET A
      BY <1>2, <1>3
    <3>2. Keeps(A, E, f, g)
      BY <1>2 DEF Keeps
    <3>3. [x \in E |-> f[x]] = [x \in E |-> ledger[x].amount]
      OBVIOUS
    <3>4. [x \in A |-> [y \in D |-> p[y][u]][x]] = g
      BY <1>2
    <3>5. Fronted(kind, u) = Total([x \in E |-> f[x]])
      BY <3>3 DEF Fronted
    <3>6. Over([x \in D |-> p[x][u]], A) = Total(g)
      BY <3>4 DEF Over
    <3> HIDE DEF E, f, g, A
    <3>7. IsFiniteSet(A)  BY <1>2, FS_Subset
    <3>8. Over(f, E) = Total(g)  BY <3>1, <3>2, <3>7, OverFilter
    <3> QED  BY <3>5, <3>6, <3>8 DEF Over
  <2> QED  BY <2>1 DEF ColumnSums
<1>7. \A x \in D : Total(m[x]) = amt[x]
  BY <1>3
<1>8. \A x \in D : Total(p[x]) = amt[x]
  <2> SUFFICES ASSUME NEW x \in D PROVE Total(p[x]) = amt[x]
    OBVIOUS
  <2> DEFINE q == p[x] v == ledger[x].amount a == ledger[x].actor
  <2>1. q \in [User -> Int] /\ v \in Int /\ a \in User /\ amt[x] = v
    BY <1>3
  <2>2. q = [u \in User |-> IF u = a THEN v ELSE 0]
    OBVIOUS
  <2> HIDE DEF q, v, a, p, amt
  <2>3. /\ IsFiniteSet(User) /\ a \in User /\ v \in Int /\ q \in [User -> Int]
        /\ q = [u \in User |-> IF u = a THEN v ELSE 0]
    BY <2>1, <2>2, UsersFinite
  <2>4. Total(q) = v  BY <2>3, TotalPoint
  <2> QED  BY <2>1, <2>4 DEF q
<1> HIDE DEF F, C, m, p, amt, D, A
<1>9. Total(C) = Over(RowSums(D, m), A)
  <2>1. /\ IsFiniteSet(D) /\ IsFiniteSet(User) /\ m \in [D -> [User -> Int]] /\ A \in SUBSET D
    BY <1>2, <1>4, UsersFinite
  <2>2. Total(ColumnSums(D, User, m, A)) = Over(RowSums(D, m), A)  BY <2>1, Exchange
  <2> QED  BY <1>5, <2>2
<1>10. Total(F) = Over(RowSums(D, p), A)
  <2>1. /\ IsFiniteSet(D) /\ IsFiniteSet(User) /\ p \in [D -> [User -> Int]] /\ A \in SUBSET D
    BY <1>2, <1>4, UsersFinite
  <2>2. Total(ColumnSums(D, User, p, A)) = Over(RowSums(D, p), A)  BY <2>1, Exchange
  <2> QED  BY <1>6, <2>2
<1>11. RowSums(D, m) = RowSums(D, p)
  BY <1>7, <1>8 DEF RowSums
<1>12. ASSUME NEW z \in [D -> [User -> Int]]
       PROVE  ColumnSums(D, User, z, A) \in [User -> Int]
  <2>1. ASSUME NEW u \in User PROVE Over([x \in D |-> z[x][u]], A) \in Int
    <3> DEFINE c == [x \in D |-> z[x][u]]
    <3>1. c \in [D -> Int]  OBVIOUS
    <3> HIDE DEF c
    <3>2. Over(c, A) \in Int  BY <1>2, <3>1, OverInt
    <3> QED  BY <3>2 DEF c
  <2> QED  BY <2>1 DEF ColumnSums
<1>13. F \in [User -> Int] /\ C \in [User -> Int]
  BY <1>4, <1>5, <1>6, <1>12
<1> QED  BY <1>9, <1>10, <1>11, <1>13 DEF F, C

\* The balances of a ledger of such rows add up to zero.
LEMMA BalancesCancel ==
  ASSUME ledger \in Seq(Row)
  PROVE  Balance \in [User -> Int] /\ Total(Balance) = 0
<1> DEFINE F(kind) == [u \in User |-> Fronted(kind, u)]
           C(kind) == [u \in User |-> Consumed(kind, u)]
<1>1. PICK f, c, g, d : f = F("expense") /\ c = C("expense") /\ g = F("settlement") /\ d = C("settlement")
  OBVIOUS
<1>2. /\ f \in [User -> Int] /\ c \in [User -> Int] /\ Total(f) = Total(c)
      /\ g \in [User -> Int] /\ d \in [User -> Int] /\ Total(g) = Total(d)
  BY <1>1, KindCancels
<1>3. Balance = [u \in User |-> (((0 + f[u]) - c[u]) + g[u]) - d[u]]
  BY <1>1 DEF Balance, Select, Zero
<1>4. PICK x, y, z : /\ x = [u \in User |-> f[u] - c[u]]
                     /\ y = [u \in User |-> x[u] + g[u]]
                     /\ z = Balance
  OBVIOUS
<1>5. x \in [User -> Int] /\ y \in [User -> Int] /\ z \in [User -> Int]
  BY <1>2, <1>3, <1>4
<1>6. 1 \in Int /\ IsFiniteSet(User)  BY UsersFinite
<1>7. Total(f) = 1 * Total(c) + Total(x)
  <2>1. Combines(User, f, 1, c, x)  BY <1>2, <1>4 DEF Combines
  <2>2. /\ IsFiniteSet(User) /\ f \in [User -> Int] /\ c \in [User -> Int] /\ x \in [User -> Int]
        /\ 1 \in Int /\ Combines(User, f, 1, c, x)
    BY <1>2, <1>5, <1>6, <2>1
  <2> QED  BY <2>2, TotalPlus
<1>8. Total(y) = 1 * Total(x) + Total(g)
  <2>1. Combines(User, y, 1, x, g)  BY <1>2, <1>4, <1>5 DEF Combines
  <2>2. /\ IsFiniteSet(User) /\ y \in [User -> Int] /\ x \in [User -> Int] /\ g \in [User -> Int]
        /\ 1 \in Int /\ Combines(User, y, 1, x, g)
    BY <1>2, <1>5, <1>6, <2>1
  <2> QED  BY <2>2, TotalPlus
<1>9. Total(y) = 1 * Total(d) + Total(z)
  <2>1. Combines(User, y, 1, d, z)  BY <1>2, <1>3, <1>4 DEF Combines
  <2>2. /\ IsFiniteSet(User) /\ y \in [User -> Int] /\ d \in [User -> Int] /\ z \in [User -> Int]
        /\ 1 \in Int /\ Combines(User, y, 1, d, z)
    BY <1>2, <1>5, <1>6, <2>1
  <2> QED  BY <2>2, TotalPlus
<1>10. /\ Total(c) \in Int /\ Total(d) \in Int /\ Total(x) \in Int /\ Total(y) \in Int
       /\ Total(z) \in Int
  BY <1>2, <1>5, <1>6, TotalInt
<1>11. Total(z) = 0
  BY <1>2, <1>7, <1>8, <1>9, <1>10
<1> QED  BY <1>4, <1>5, <1>11
-----------------------------------------------------------------------------
(* Types, and with them that sum.                                           *)

\* Nobody is suggested to pay more than they owe, nor to anybody more than they are
\* owed; and a transfer goes from a debtor to a creditor.
LEMMA OwedBounds ==
  ASSUME NEW bal \in [User -> Int], NEW simplify, NEW d, NEW c
  PROVE  LET o == Owed(bal, simplify, d, c)
         IN  /\ o \in Nat
             /\ o > 0 => /\ d \in User /\ c \in User /\ bal[d] < 0 /\ bal[c] > 0
                         /\ o <= -bal[d] /\ o <= bal[c]
<1> DEFINE o == Owed(bal, simplify, d, c)
<1>1. CASE ~(d \in Debtors(bal) /\ c \in Creditors(bal))
  <2>1. o = 0  BY <1>1 DEF Owed
  <2> QED  BY <2>1
<1>2. CASE d \in Debtors(bal) /\ c \in Creditors(bal)
  <2> DEFINE S(side, u) == Lower(bal, simplify, side, u)
             X(side, u) == Upper(bal, simplify, side, u)
  <2>1. d \in User /\ c \in User /\ bal[d] < 0 /\ bal[c] > 0 /\ bal[d] \in Int /\ bal[c] \in Int
    BY <1>2 DEF Debtors, Creditors
  <2>2. ASSUME NEW side \in SUBSET User, NEW u PROVE S(side, u) \in Int
    <3> DEFINE A == {w \in side : Before(bal, simplify, w, u)}
               f == [v \in A |-> Size(bal, v)]
    <3>1. A \in SUBSET User  OBVIOUS
    <3>2. f \in [A -> Int]
      <4> HIDE DEF A
      <4> QED  BY <3>1 DEF Size
    <3>3. S(side, u) = Total(f)  BY SumIsTotal DEF Lower
    <3> HIDE DEF A, f, S
    <3>4. IsFiniteSet(A)  BY <3>1, UsersFinite, FS_Subset
    <3>5. Total(f) \in Int  BY <3>2, <3>4, TotalInt
    <3> QED  BY <3>3, <3>5
  <2>3. Debtors(bal) \in SUBSET User /\ Creditors(bal) \in SUBSET User
    BY DEF Debtors, Creditors
  <2> DEFINE s == S(Debtors(bal), d)  r == S(Creditors(bal), c)
             x == X(Debtors(bal), d)  y == X(Creditors(bal), c)
  <2>4. s \in Int /\ r \in Int  BY <2>2, <2>3
  <2>5. x = s + (-bal[d]) /\ y = r + bal[c]  BY <2>1 DEF Upper, Size
  <2>6. o = Max({0, Min({x, y}) - Max({s, r})})  BY <1>2 DEF Owed
  <2> HIDE DEF s, r, x, y, o
  <2>7. x \in Int /\ y \in Int  BY <2>1, <2>4, <2>5
  <2> DEFINE lo == Max({s, r})  hi == Min({x, y})
  <2>8. lo \in Int /\ lo >= s /\ lo >= r  BY <2>4, Larger
  <2>9. hi \in Int /\ hi <= x /\ hi <= y  BY <2>7, Smaller
  <2> HIDE DEF lo, hi
  <2>10. hi - lo \in Int  BY <2>8, <2>9
  <2> DEFINE z == hi - lo
  <2> HIDE DEF z
  <2>11. o \in {0, z} /\ o >= 0
    <3>1. 0 \in Int /\ z \in Int  BY <2>10 DEF z
    <3>2. Max({0, z}) \in {0, z} /\ Max({0, z}) >= 0  BY <3>1, Larger
    <3> QED  BY <2>6, <3>2 DEF lo, hi, z
  <2>12. hi - lo <= -bal[d] /\ hi - lo <= bal[c]
    BY <2>1, <2>4, <2>5, <2>7, <2>8, <2>9
  <2> QED  BY <2>1, <2>10, <2>11, <2>12 DEF o, z
<1> QED  BY <1>1, <1>2

\* So every suggested transfer pays off some of a debt to somebody who is owed it.
LEMMA SuggestedBounds ==
  ASSUME NEW bal \in [User -> Int], NEW simplify, NEW s \in Suggested(bal, simplify)
  PROVE  /\ s.from \in User /\ s.to \in User /\ s.amount \in Nat \ {0}
         /\ s.amount = Owed(bal, simplify, s.from, s.to)
         /\ s = [from |-> s.from, to |-> s.to, amount |-> s.amount]
<1>1. PICK p \in Debtors(bal) \X Creditors(bal) :
        /\ Owed(bal, simplify, p[1], p[2]) > 0
        /\ s = [from |-> p[1], to |-> p[2], amount |-> Owed(bal, simplify, p[1], p[2])]
  BY DEF Suggested
<1>2. s.from = p[1] /\ s.to = p[2] /\ s.amount = Owed(bal, simplify, p[1], p[2])
  BY <1>1
<1>3. p[1] \in User /\ p[2] \in User
  BY DEF Debtors, Creditors
<1>4. Owed(bal, simplify, p[1], p[2]) \in Nat
  BY OwedBounds
<1> QED  BY <1>1, <1>2, <1>3, <1>4

Filed == [add : Seq(Row), void : Nat, by : User \cup {NoUser}]

\* The data of the ledger and of each handler have their types.
Data ==
  /\ ledger \in Seq(Row)
  /\ sum    \in [Task -> [User -> Int]]
  /\ due    \in [Task -> Due \cup {NoDue}]
  /\ row    \in [Task -> Nat]
  /\ write  \in [Task -> Filed]

LEMMA DataOK == Control /\ Data => TypeOK
<1>1. Seq(Row) \subseteq Seq(Entry)
  BY SeqMonotonic DEF Row
<1>2. Filed \subseteq Write
  BY <1>1 DEF Filed, Write
<1> QED  BY <1>1, <1>2 DEF Control, Data, TypeOK

LEMMA NothingFiled == Nothing \in Filed
<1>1. PICK e : e = << >>
  OBVIOUS
<1>2. e \in Seq(Row)
  BY <1>1, EmptySeq
<1>3. [add |-> e, void |-> 0, by |-> NoUser] \in Filed
  BY <1>2 DEF Filed
<1> QED  BY <1>1, <1>3, Zenon DEF Nothing

LEMMA OneFiled ==
  ASSUME NEW r \in Row
  PROVE  <<r>> \in Seq(Row)
OBVIOUS

\* What a SELECT adds to a map of cents is a map of cents.
LEMMA SelectInt ==
  ASSUME ledger \in Seq(Row), NEW q \in 1..4, NEW bal \in [User -> Int]
  PROVE  Select(q, bal) \in [User -> Int]
<1>1. ASSUME NEW kind, NEW u \in User
      PROVE  Fronted(kind, u) \in Int /\ Consumed(kind, u) \in Int
  <2> DEFINE F == [v \in User |-> Fronted(kind, v)]  C == [v \in User |-> Consumed(kind, v)]
  <2>1. F \in [User -> Int] /\ C \in [User -> Int]  BY KindCancels
  <2>2. F[u] = Fronted(kind, u) /\ C[u] = Consumed(kind, u)  OBVIOUS
  <2> HIDE DEF F, C
  <2> QED  BY <2>1, <2>2
<1>2. ASSUME NEW u \in User PROVE Select(q, bal)[u] \in Int
  <2>1. q = 1 \/ q = 2 \/ q = 3 \/ q = 4  OBVIOUS
  <2>2. bal[u] \in Int  OBVIOUS
  <2> QED  BY <1>1, <2>1, <2>2 DEF Select
<1>3. Select(q, bal) = [u \in User |-> Select(q, bal)[u]]  BY DEF Select
<1> QED  BY <1>2, <1>3

LEMMA LeaveData ==
  ASSUME Data, NEW t \in Task, Leave(t), ledger' \in Seq(Row)
  PROVE  Data'
<1>1. Zero \in [User -> Int]  BY DEF Zero
<1> QED  BY <1>1, NothingFiled DEF Data, Leave

LEMMA BufferData ==
  ASSUME Data, NEW t \in Task, NEW w \in Filed, Buffer(t, w), UNCHANGED row
  PROVE  Data'
BY DEF Data, Buffer

LEMMA FileData ==
  ASSUME Data, NEW t \in Task, NEW rows \in Seq(Row), File(t, rows)
  PROVE  Data'
<1>1. [Nothing EXCEPT !.add = rows] = [add |-> rows, void |-> 0, by |-> NoUser]
  BY DEF Nothing
<1>2. [Nothing EXCEPT !.add = rows] \in Filed
  BY <1>1 DEF Filed
<1>3. Buffer(t, [Nothing EXCEPT !.add = rows]) /\ UNCHANGED row
  BY DEF File
<1> QED  BY <1>2, <1>3, BufferData

LEMMA CommitData ==
  ASSUME Data, NEW t \in Task, Commit(t)
  PROVE  Data'
<1>1. PICK w : w = write[t]
  OBVIOUS
<1>2. w \in Filed /\ w.add \in Seq(Row) /\ w.by \in User \cup {NoUser}
  BY <1>1 DEF Data, Filed
<1>3. ledger' \in Seq(Row)
  <2>1. CASE w.void = 0
    <3>1. ledger' = ledger \o w.add  BY <1>1, <2>1 DEF Commit
    <3>2. ledger \in Seq(Row)  BY DEF Data
    <3> QED  BY <1>2, <3>1, <3>2, ConcatProperties
  <2>2. CASE w.void # 0
    <3>0. PICK v : v = w.void  OBVIOUS
    <3>1. ledger' = [ledger EXCEPT ![v].voidedBy = w.by]  BY <1>1, <2>2, <3>0 DEF Commit
    <3>2. PICK r : r = [ledger[v] EXCEPT !.voidedBy = w.by]  OBVIOUS
    <3>3. ledger' = [ledger EXCEPT ![v] = r]  BY <3>1, <3>2
    <3>4. ledger \in Seq(Row)  BY DEF Data
    <3>5. CASE v \in DOMAIN ledger
      <4>1. ledger[v] \in Row  BY <3>4, <3>5
      <4>2. /\ r.owes = ledger[v].owes /\ r.amount = ledger[v].amount /\ r.kind = ledger[v].kind
            /\ r.actor = ledger[v].actor /\ r.voidedBy = w.by /\ r \in Entry
        BY <1>2, <3>2, <4>1 DEF Row, Entry
      <4>3. r \in Row  BY <4>1, <4>2 DEF Row
      <4>4. v \in 1..Len(ledger)  BY <3>4, <3>5, LenProperties
      <4> QED  BY <3>3, <3>4, <4>3, <4>4, ExceptSeq
    <3>6. CASE v \notin DOMAIN ledger
      <4>1. ledger' = ledger  BY <3>3, <3>4, <3>6
      <4> QED  BY <3>4, <4>1
    <3> QED  BY <3>5, <3>6
  <2> QED  BY <2>1, <2>2
<1> QED  BY <1>3, LeaveData DEF Commit

LEMMA SettleAllData ==
  ASSUME Data, NEW t \in Task, SettleAll(t)
  PROVE  Data'
<1> DEFINE All(simplify) == Suggested(sum[t], simplify)
           N(simplify)   == Cardinality(All(simplify))
<1>0. PICK simplify \in BOOLEAN :
        \E order \in [1..N(simplify) -> All(simplify)] :
          File(t, [x \in 1..N(simplify) |-> SettlementRow(order[x])])
  BY DEF SettleAll
<1>1. PICK order \in [1..N(simplify) -> All(simplify)] :
        File(t, [x \in 1..N(simplify) |-> SettlementRow(order[x])])
  BY <1>0
<1>2. sum[t] \in [User -> Int]  BY DEF Data
<1> DEFINE n == N(simplify)
<1>3. n \in Nat  BY <1>2, SuggestedFinite
<1> HIDE DEF N
<1> DEFINE rows == [x \in 1..n |-> SettlementRow(order[x])]
<1>4. ASSUME NEW x \in 1..n PROVE SettlementRow(order[x]) \in Row
  <2>1. order[x] \in Suggested(sum[t], simplify)  OBVIOUS
  <2>2. PICK tr : tr = order[x]  OBVIOUS
  <2>3. tr.from \in User /\ tr.to \in User /\ tr.amount \in Nat
    BY <1>2, <2>1, <2>2, SuggestedBounds
  <2> QED  BY <2>2, <2>3, SettlementRowIsRow
<1>5. rows \in Seq(Row)
  <2>1. rows \in [1..n -> Row]  BY <1>4
  <2> HIDE DEF rows
  <2> QED  BY <1>3, <2>1
<1> QED  BY <1>1, <1>5, FileData

LEMMA DataStep == IInv /\ Data /\ [Next]_vars => Data'
<1> SUFFICES ASSUME IInv, Data, [Next]_vars PROVE Data'
  OBVIOUS
<1>0. Control  BY DEF IInv
<1>1. ASSUME NEW t \in Task, NEW c \in Cmd, Begin(t, c) PROVE Data'
  BY <1>1 DEF Begin, Data
<1>2. ASSUME NEW t \in Task, AddExpense(t) PROVE Data'
  <2>1. PICK b \in Bill : Valid(b.amount, b.mode, b.params) /\ File(t, <<ExpenseRow(b)>>)
    BY <1>2 DEF AddExpense
  <2>2. <<ExpenseRow(b)>> \in Seq(Row)  BY <2>1, ExpenseRowIsRow, OneFiled
  <2> QED  BY <2>1, <2>2, FileData
<1>3. ASSUME NEW t \in Task, ReadSum(t) PROVE Data'
  <2>1. reads[t] + 1 \in 1..4  BY <1>0, <1>3 DEF ReadSum, Control
  <2>2. sum[t] \in [User -> Int] /\ ledger \in Seq(Row)  BY DEF Data
  <2>3. Select(reads[t] + 1, sum[t]) \in [User -> Int]  BY <2>1, <2>2, SelectInt
  <2>4. PICK z : z = Select(reads[t] + 1, sum[t])  OBVIOUS
  <2>5. sum' = [sum EXCEPT ![t] = z]  BY <1>3, <2>4 DEF ReadSum
  <2>6. z \in [User -> Int]  BY <2>3, <2>4
  <2> QED  BY <1>3, <2>5, <2>6 DEF ReadSum, Data
<1>4. ASSUME NEW t \in Task, SettleUp(t) PROVE Data'
  <2>1. PICK simplify \in BOOLEAN : \E s \in Suggested(sum[t], simplify) :
          \E amount \in 1..s.amount : File(t, <<SettlementRow([s EXCEPT !.amount = amount])>>)
    BY <1>4 DEF SettleUp
  <2>2. PICK s \in Suggested(sum[t], simplify) :
          \E amount \in 1..s.amount : File(t, <<SettlementRow([s EXCEPT !.amount = amount])>>)
    BY <2>1
  <2>3. PICK amount \in 1..s.amount : File(t, <<SettlementRow([s EXCEPT !.amount = amount])>>)
    BY <2>2
  <2>4. sum[t] \in [User -> Int]  BY DEF Data
  <2>5. /\ s.from \in User /\ s.to \in User /\ s.amount \in Nat
        /\ s = [from |-> s.from, to |-> s.to, amount |-> s.amount]
    BY <2>4, SuggestedBounds
  <2>6. PICK tr : tr = [s EXCEPT !.amount = amount]  OBVIOUS
  <2>7. tr.from \in User /\ tr.to \in User /\ tr.amount \in Nat
    BY <2>5, <2>6
  <2>8. <<SettlementRow(tr)>> \in Seq(Row)  BY <2>7, SettlementRowIsRow, OneFiled
  <2> QED  BY <2>3, <2>6, <2>8, FileData
<1>5. ASSUME NEW t \in Task, LookUp(t) PROVE Data'
  <2>1. PICK simplify \in BOOLEAN : \E s \in Suggested(sum[t], simplify) :
          due' = [due EXCEPT ![t] = [from |-> s.from, to |-> s.to, amount |-> s.amount,
                                   simplify |-> simplify]]
    BY <1>5 DEF LookUp
  <2>2. PICK s \in Suggested(sum[t], simplify) :
          due' = [due EXCEPT ![t] = [from |-> s.from, to |-> s.to, amount |-> s.amount,
                                   simplify |-> simplify]]
    BY <2>1
  <2>3. sum[t] \in [User -> Int]  BY DEF Data
  <2>4. s.from \in User /\ s.to \in User /\ s.amount \in Nat
    BY <2>3, SuggestedBounds
  <2>5. PICK d : d = [from |-> s.from, to |-> s.to, amount |-> s.amount, simplify |-> simplify]
    OBVIOUS
  <2>6. d \in Due  BY <2>4, <2>5 DEF Due
  <2>7. due' = [due EXCEPT ![t] = d]  BY <2>2, <2>5
  <2>8. Zero \in [User -> Int]  BY DEF Zero
  <2> QED  BY <1>5, <2>6, <2>7, <2>8 DEF LookUp, Data
<1>6. ASSUME NEW t \in Task, PayDue(t) PROVE Data'
  <2>1. due[t] \in Due  BY <1>6 DEF PayDue, Data
  <2>2. PICK d : d = due[t]  OBVIOUS
  <2>3. d.from \in User /\ d.to \in User /\ d.amount \in Nat  BY <2>1, <2>2 DEF Due
  <2>4. <<SettlementRow(d)>> \in Seq(Row)  BY <2>3, SettlementRowIsRow, OneFiled
  <2> QED  BY <1>6, <2>2, <2>4, FileData DEF PayDue
<1>7. ASSUME NEW t \in Task, SettleAll(t) PROVE Data'
  BY <1>7, SettleAllData
<1>8. ASSUME NEW t \in Task, FetchRow(t) PROVE Data'
  <2>1. PICK x \in DOMAIN ledger : row' = [row EXCEPT ![t] = x]  BY <1>8 DEF FetchRow
  <2>2. x \in Nat
    <3>1. ledger \in Seq(Row)  BY DEF Data
    <3> QED  BY <2>1, <3>1, LenProperties
  <2> QED  BY <1>8, <2>1, <2>2 DEF FetchRow, Data
<1>9. ASSUME NEW t \in Task, VoidRow(t) PROVE Data'
  <2>1. PICK u \in User : Buffer(t, [Nothing EXCEPT !.void = row[t], !.by = u])
    BY <1>9 DEF VoidRow
  <2>2. Nothing \in Filed  BY NothingFiled
  <2>3. PICK w : w = [Nothing EXCEPT !.void = row[t], !.by = u]  OBVIOUS
  <2>4. row[t] \in Nat  BY DEF Data
  <2>5. w = [add |-> Nothing.add, void |-> row[t], by |-> u]  BY <2>3 DEF Nothing
  <2>6. Nothing.add \in Seq(Row)  BY <2>2 DEF Filed
  <2>7. w \in Filed  BY <2>4, <2>5, <2>6 DEF Filed
  <2> QED  BY <1>9, <2>1, <2>3, <2>7, BufferData DEF VoidRow
<1>10. ASSUME NEW t \in Task, Commit(t) PROVE Data'
  BY <1>10, CommitData
<1>11. ASSUME NEW t \in Task, GiveUp(t) PROVE Data'
  <2>1. ledger' \in Seq(Row)  BY <1>11 DEF GiveUp, Data
  <2> QED  BY <1>11, <2>1, LeaveData DEF GiveUp
<1>12. CASE UNCHANGED vars  BY <1>12 DEF vars, Data
<1> QED
  BY <1>1, <1>2, <1>3, <1>4, <1>5, <1>6, <1>7, <1>8, <1>9, <1>10, <1>11, <1>12 DEF Next

LEMMA InitData == Init => Data
<1> SUFFICES ASSUME Init PROVE Data
  OBVIOUS
<1>1. ledger \in Seq(Row)
  <2>1. PICK e : e = << >>  OBVIOUS
  <2>2. e \in Seq(Row)  BY <2>1, EmptySeq
  <2> QED  BY <2>1, <2>2 DEF Init
<1>2. Zero \in [User -> Int]  BY DEF Zero
<1> QED  BY <1>1, <1>2, NothingFiled DEF Init, Data

\* The ledger, what the handlers read of it and what they are about to write keep
\* their types: rows of cents whose shares add up to their amount.
THEOREM DataHolds == Spec => []Data
<1>1. Init => Data  BY InitData
<1>2. IInv /\ Data /\ [Next]_vars => Data'  BY DataStep
<1> QED  BY <1>1, <1>2, InvHolds, PTL DEF Spec

\* The types of the ledger and of every handler's state.
THEOREM TypeOKHolds == Spec => []TypeOK
<1>1. IInv /\ Data => TypeOK  BY DataOK DEF IInv
<1> QED  BY <1>1, InvHolds, DataHolds, PTL

\* The committed balances add up to zero, whatever was filed, settled and voided, by
\* however many handlers at once.
THEOREM ZeroSumHolds == Spec => []ZeroSum
<1>1. Data => ZeroSum  BY BalancesCancel DEF Data, ZeroSum
<1> QED  BY <1>1, DataHolds, PTL
-----------------------------------------------------------------------------
(* What a settlement may do to a balance.  One that is about to commit,    *)
(* and that no Submit overtook, pays no more than is owed now: the other   *)
(* handlers cannot have committed since it read the balances.               *)

\* A sum over two sets that have nothing in common.
Parted(D, f, A, B) ==
  IsFiniteSet(D) /\ f \in [D -> Int] /\ D = A \cup B /\ A \cap B = {}

LEMMA OverParts ==
  ASSUME NEW D, NEW f, NEW A, NEW B, Parted(D, f, A, B)
  PROVE  /\ Total(f) = Over(f, A) + Over(f, B)
         /\ Over(f, A) \in Int /\ Over(f, B) \in Int
<1>0. /\ IsFiniteSet(D) /\ f \in [D -> Int] /\ D = A \cup B /\ A \cap B = {}
      /\ A \in SUBSET D /\ B \in SUBSET D
  BY DEF Parted
<1>1. PICK g : g = [k \in D |-> IF k \in A THEN f[k] ELSE 0]  OBVIOUS
<1>2. PICK h : h = [k \in D |-> IF k \in B THEN f[k] ELSE 0]  OBVIOUS
<1>3. g \in [D -> Int] /\ h \in [D -> Int]  BY <1>0, <1>1, <1>2
<1>4. Keeps(D, A, f, g) /\ Keeps(D, B, f, h)  BY <1>1, <1>2 DEF Keeps
<1>5. Over(f, A) = Total(g)  BY <1>0, <1>3, <1>4, OverFilter
<1>6. Over(f, B) = Total(h)  BY <1>0, <1>3, <1>4, OverFilter
<1>7. Combines(D, f, 1, g, h)
  <2>1. ASSUME NEW k \in D PROVE f[k] = 1 * g[k] + h[k]
    <3>1. f[k] \in Int /\ (k \in A <=> k \notin B)  BY <1>0
    <3>2. g[k] = (IF k \in A THEN f[k] ELSE 0) /\ h[k] = (IF k \in B THEN f[k] ELSE 0)
      BY <1>1, <1>2
    <3> QED  BY <3>1, <3>2
  <2> QED  BY <2>1 DEF Combines
<1>8. 1 \in Int  OBVIOUS
<1>9. Total(f) = 1 * Total(g) + Total(h)  BY <1>0, <1>3, <1>7, <1>8, TotalPlus
<1>10. Total(g) \in Int /\ Total(h) \in Int  BY <1>0, <1>3, TotalInt
<1> QED  BY <1>5, <1>6, <1>9, <1>10

\* A sum over some places of a list, after the list has grown from m to m + n.
Grows(m, n, P, Q, f, q, g) ==
  /\ m \in Nat /\ n \in Nat /\ P \in SUBSET (1..m) /\ Q \in SUBSET (1..n)
  /\ f \in [P -> Int] /\ q \in [Q -> Int] /\ g \in [P \cup {m + x : x \in Q} -> Int]
  /\ \A x \in P : g[x] = f[x]
  /\ \A x \in Q : g[m + x] = q[x]

LEMMA GrownSum ==
  ASSUME NEW m, NEW n, NEW P, NEW Q, NEW f, NEW q, NEW g, Grows(m, n, P, Q, f, q, g)
  PROVE  Total(g) = Total(f) + Total(q) /\ Total(f) \in Int /\ Total(q) \in Int
<1>0. /\ m \in Nat /\ n \in Nat /\ P \in SUBSET (1..m) /\ Q \in SUBSET (1..n)
      /\ f \in [P -> Int] /\ q \in [Q -> Int] /\ g \in [P \cup {m + x : x \in Q} -> Int]
      /\ \A x \in P : g[x] = f[x]
      /\ \A x \in Q : g[m + x] = q[x]
  BY DEF Grows
<1>1. PICK E : E = {m + x : x \in Q}  OBVIOUS
<1>2. PICK D : D = P \cup E  OBVIOUS
<1>3. \A k \in E : k \in m + 1..m + n /\ \E x \in Q : k = m + x  BY <1>0, <1>1
<1>4. P \cap E = {}  BY <1>0, <1>3
<1>5. IsFiniteSet(P) /\ IsFiniteSet(Q) /\ IsFiniteSet(E) /\ IsFiniteSet(D)
  <2>1. IsFiniteSet(1..m) /\ IsFiniteSet(1..n) /\ IsFiniteSet(m + 1..m + n)  BY <1>0, FS_Interval
  <2>2. E \in SUBSET (m + 1..m + n)  BY <1>3
  <2>3. IsFiniteSet(P) /\ IsFiniteSet(Q) /\ IsFiniteSet(E)  BY <1>0, <2>1, <2>2, FS_Subset
  <2> QED  BY <1>2, <2>3, FS_Union
<1>6. g \in [D -> Int]  BY <1>0, <1>1, <1>2
<1>7. Parted(D, g, P, E)  BY <1>2, <1>4, <1>5, <1>6 DEF Parted
<1>8. Total(g) = Over(g, P) + Over(g, E)  BY <1>7, OverParts
<1>9. Over(g, P) = Total(f)
  <2>1. [k \in P |-> g[k]] = f  BY <1>0
  <2> QED  BY <2>1 DEF Over
<1>10. Over(g, E) = Total(q)
  <2>1. PICK e : e = [k \in E |-> g[k]]  OBVIOUS
  <2>2. PICK h : h = [x \in Q |-> m + x]  OBVIOUS
  <2>3. e \in [E -> Int]  BY <1>2, <1>6, <2>1
  <2>4. h \in [Q -> E] /\ \A x \in Q : q[x] = e[h[x]]  BY <1>0, <1>1, <2>1, <2>2
  <2>5. ASSUME NEW x \in Q, NEW y \in Q, h[x] = h[y] PROVE x = y
    <3>1. x \in Int /\ y \in Int  BY <1>0
    <3> QED  BY <1>0, <2>2, <2>5, <3>1
  <2>6. ASSUME NEW k \in E, \A x \in Q : h[x] # k PROVE e[k] = 0
    BY <1>3, <2>2, <2>6
  <2>7. Renames(Q, E, q, e, h)  BY <1>0, <1>5, <2>3, <2>4, <2>5, <2>6 DEF Renames
  <2>8. Total(q) = Total(e)  BY <2>7, Reindex
  <2> QED  BY <2>1, <2>8 DEF Over
<1>11. Total(f) \in Int /\ Total(q) \in Int  BY <1>0, <1>5, TotalInt
<1> QED  BY <1>8, <1>9, <1>10, <1>11

\* What a list of committed rows changes in the sums.
NewFront(rows, kind, u) ==
  Total([x \in {y \in DOMAIN rows : rows[y].kind = kind /\ rows[y].actor = u} |-> rows[x].amount])
NewOwed(rows, kind, u) ==
  Total([x \in {y \in DOMAIN rows : rows[y].kind = kind} |-> rows[x].owes[u]])

LEMMA AppendedAll ==
  ASSUME ledger \in Seq(Row), NEW rows \in Seq(Row), \A x \in DOMAIN rows : rows[x].voidedBy = NoUser,
         ledger' = ledger \o rows, NEW kind, NEW u \in User
  PROVE  /\ Fronted(kind, u) \in Int /\ Consumed(kind, u) \in Int
         /\ NewFront(rows, kind, u) \in Int /\ NewOwed(rows, kind, u) \in Int
         /\ Fronted(kind, u)' = Fronted(kind, u) + NewFront(rows, kind, u)
         /\ Consumed(kind, u)' = Consumed(kind, u) + NewOwed(rows, kind, u)
<1>1. PICK L : L = ledger'  OBVIOUS
<1>2. PICK l : l = ledger  OBVIOUS
<1>3. PICK m : m = Len(l)  OBVIOUS
<1>4. PICK n : n = Len(rows)  OBVIOUS
<1>5. l \in Seq(Row) /\ rows \in Seq(Row) /\ L = l \o rows  BY <1>1, <1>2
<1>6. m \in Nat /\ n \in Nat /\ DOMAIN l = 1..m /\ DOMAIN rows = 1..n
  BY <1>3, <1>4, <1>5, LenProperties
<1>7. /\ L \in Seq(Row) /\ Len(L) = m + n
      /\ \A x \in 1..m + n : L[x] = IF x <= m THEN l[x] ELSE rows[x - m]
  BY <1>3, <1>4, <1>5, ConcatProperties
<1>8. DOMAIN L = 1..m + n  BY <1>7, LenProperties
<1>9. /\ \A x \in 1..m : x \in 1..m + n /\ L[x] = l[x]
      /\ \A x \in 1..n : m + x \in 1..m + n /\ L[m + x] = rows[x]
  <2>1. ASSUME NEW x \in 1..m PROVE x \in 1..m + n /\ L[x] = l[x]  BY <1>6, <1>7
  <2>2. ASSUME NEW x \in 1..n PROVE m + x \in 1..m + n /\ L[m + x] = rows[x]
    <3>1. m + x \in 1..m + n /\ ~(m + x <= m) /\ (m + x) - m = x  BY <1>6
    <3> QED  BY <1>7, <3>1
  <2> QED  BY <2>1, <2>2
<1>10. \A k \in 1..m + n : k \in 1..m \/ \E x \in 1..n : k = m + x
  <2>1. ASSUME NEW k \in 1..m + n, k \notin 1..m PROVE \E x \in 1..n : k = m + x
    <3>1. k - m \in 1..n /\ k = m + (k - m)  BY <1>6, <2>1
    <3> QED  BY <3>1
  <2> QED  BY <2>1
<1>11. \A x \in 1..m : l[x].amount \in Int /\ l[x].owes[u] \in Int
  <2>1. \A x \in 1..m : l[x] \in Row  BY <1>5, <1>6
  <2> QED  BY <2>1 DEF Row, Entry
<1>12. \A x \in 1..n : rows[x].amount \in Int /\ rows[x].owes[u] \in Int
  <2>1. \A x \in 1..n : rows[x] \in Row  BY <1>5, <1>6
  <2> QED  BY <2>1 DEF Row, Entry
<1>13. PICK A : A = {x \in 1..m : l[x].kind = kind /\ l[x].voidedBy = NoUser}  OBVIOUS
<1>14. PICK K : K = {y \in 1..n : rows[y].kind = kind}  OBVIOUS
<1>15. PICK B : B = {x \in 1..m + n : L[x].kind = kind /\ L[x].voidedBy = NoUser}  OBVIOUS
<1>16. Active(kind) = A /\ Active(kind)' = B
  BY <1>1, <1>2, <1>6, <1>8, <1>13, <1>15 DEF Active
<1>17. B = A \cup {m + x : x \in K}
  <2>1. \A x \in 1..n : rows[x].voidedBy = NoUser  BY <1>6
  <2>2. ASSUME NEW k \in B PROVE k \in A \cup {m + x : x \in K}
    <3>1. CASE k \in 1..m  BY <1>9, <1>13, <1>15, <3>1
    <3>2. CASE k \notin 1..m
      <4>1. PICK x \in 1..n : k = m + x  BY <1>10, <1>15, <3>2
      <4>2. x \in K  BY <1>9, <1>14, <1>15, <4>1
      <4> QED  BY <4>1, <4>2
    <3> QED  BY <3>1, <3>2
  <2>3. \A k \in A : k \in B  BY <1>9, <1>13, <1>15
  <2>4. \A x \in K : m + x \in B  BY <1>9, <1>14, <1>15, <2>1
  <2> QED  BY <2>2, <2>3, <2>4
<1>18. A \in SUBSET (1..m) /\ K \in SUBSET (1..n)  BY <1>13, <1>14
<1>19. PICK F : F = {y \in A : l[y].actor = u}  OBVIOUS
<1>20. PICK G : G = {y \in 1..n : rows[y].kind = kind /\ rows[y].actor = u}  OBVIOUS
<1>21. /\ F \in SUBSET (1..m) /\ G \in SUBSET (1..n)
       /\ {y \in B : L[y].actor = u} = F \cup {m + x : x \in G}
  <2>1. F \in SUBSET (1..m) /\ G \in SUBSET (1..n)  BY <1>18, <1>19, <1>20
  <2>2. ASSUME NEW k \in B, L[k].actor = u PROVE k \in F \cup {m + x : x \in G}
    <3>1. CASE k \in A  BY <1>9, <1>18, <1>19, <2>2, <3>1
    <3>2. CASE k \notin A
      <4>1. PICK x \in K : k = m + x  BY <1>17, <3>2
      <4>2. x \in G  BY <1>9, <1>14, <1>20, <2>2, <4>1
      <4> QED  BY <4>1, <4>2
    <3> QED  BY <3>1, <3>2
  <2>3. \A k \in F : k \in B /\ L[k].actor = u  BY <1>9, <1>17, <1>18, <1>19
  <2>4. \A x \in G : m + x \in B /\ L[m + x].actor = u  BY <1>9, <1>14, <1>17, <1>20
  <2> QED  BY <2>1, <2>2, <2>3, <2>4
<1>22. PICK f : f = [x \in F |-> l[x].amount]  OBVIOUS
<1>23. PICK q : q = [x \in G |-> rows[x].amount]  OBVIOUS
<1>24. PICK g : g = [x \in F \cup {m + z : z \in G} |-> L[x].amount]  OBVIOUS
<1>25. Grows(m, n, F, G, f, q, g)
  <2>1. \A x \in F : x \in 1..m /\ L[x] = l[x] /\ l[x].amount \in Int  BY <1>9, <1>11, <1>21
  <2>2. \A x \in G : L[m + x] = rows[x] /\ rows[x].amount \in Int  BY <1>9, <1>12, <1>21
  <2>3. f \in [F -> Int] /\ q \in [G -> Int]  BY <1>22, <1>23, <2>1, <2>2
  <2>4. g \in [F \cup {m + z : z \in G} -> Int]  BY <1>24, <2>1, <2>2
  <2>5. \A x \in F : g[x] = f[x]  BY <1>22, <1>24, <2>1
  <2>6. \A x \in G : g[m + x] = q[x]  BY <1>23, <1>24, <2>2
  <2> QED  BY <1>6, <1>21, <2>3, <2>4, <2>5, <2>6 DEF Grows
<1>26. Total(g) = Total(f) + Total(q) /\ Total(f) \in Int /\ Total(q) \in Int  BY <1>25, GrownSum
<1>27. Fronted(kind, u) = Total(f)  BY <1>2, <1>16, <1>19, <1>22 DEF Fronted
<1>28. Fronted(kind, u)' = Total(g)
  <2>1. Fronted(kind, u)' = Total([x \in {y \in Active(kind)' : L[y].actor = u} |-> L[x].amount])
    BY <1>1 DEF Fronted
  <2> QED  BY <1>16, <1>21, <1>24, <2>1
<1>29. PICK c : c = [x \in A |-> l[x].owes[u]]  OBVIOUS
<1>30. PICK d : d = [x \in K |-> rows[x].owes[u]]  OBVIOUS
<1>31. PICK e : e = [x \in A \cup {m + z : z \in K} |-> L[x].owes[u]]  OBVIOUS
<1>32. Grows(m, n, A, K, c, d, e)
  <2>1. \A x \in A : x \in 1..m /\ L[x] = l[x] /\ l[x].owes[u] \in Int  BY <1>9, <1>11, <1>18
  <2>2. \A x \in K : L[m + x] = rows[x] /\ rows[x].owes[u] \in Int  BY <1>9, <1>12, <1>18
  <2>3. c \in [A -> Int] /\ d \in [K -> Int]  BY <1>29, <1>30, <2>1, <2>2
  <2>4. e \in [A \cup {m + z : z \in K} -> Int]  BY <1>31, <2>1, <2>2
  <2>5. \A x \in A : e[x] = c[x]  BY <1>29, <1>31, <2>1
  <2>6. \A x \in K : e[m + x] = d[x]  BY <1>30, <1>31, <2>2
  <2> QED  BY <1>6, <1>18, <2>3, <2>4, <2>5, <2>6 DEF Grows
<1>33. Total(e) = Total(c) + Total(d) /\ Total(c) \in Int /\ Total(d) \in Int  BY <1>32, GrownSum
<1>34. Consumed(kind, u) = Total(c)  BY <1>2, <1>16, <1>29 DEF Consumed
<1>35. Consumed(kind, u)' = Total(e)
  <2>1. Consumed(kind, u)' = Total([x \in Active(kind)' |-> L[x].owes[u]])  BY <1>1 DEF Consumed
  <2> QED  BY <1>16, <1>17, <1>31, <2>1
<1>36. NewFront(rows, kind, u) = Total(q) /\ NewOwed(rows, kind, u) = Total(d)
  BY <1>6, <1>14, <1>20, <1>23, <1>30 DEF NewFront, NewOwed
<1> QED  BY <1>26, <1>27, <1>28, <1>33, <1>34, <1>35, <1>36

Always(P, v) == [x \in P |-> v]

LEMMA OneTerm ==
  ASSUME NEW P, NEW v, P = {} \/ P = {1}, v \in Int
  PROVE  Total(Always(P, v)) = IF P = {} THEN 0 ELSE v
<1>1. PICK f : f = Always(P, v)  OBVIOUS
<1>2. CASE P = {}
  <2>1. DOMAIN f = {}  BY <1>1, <1>2 DEF Always
  <2> QED  BY <1>1, <1>2, <2>1, TotalEmpty
<1>3. CASE P = {1}
  <2>1. IsFiniteSet(P) /\ f \in [P -> Int] /\ 1 \in P /\ f = [x \in P |-> IF x = 1 THEN v ELSE 0]
    BY <1>1, <1>3, FS_Singleton DEF Always
  <2>2. Total(f) = v  BY <2>1, TotalPoint
  <2> QED  BY <1>1, <1>3, <2>2
<1> QED  BY <1>2, <1>3

\* What one committed row changes in the sums.
LEMMA Appended ==
  ASSUME ledger \in Seq(Row), NEW r \in Row, r.voidedBy = NoUser, ledger' = ledger \o <<r>>,
         NEW kind, NEW u \in User
  PROVE  /\ Fronted(kind, u) \in Int /\ Consumed(kind, u) \in Int
         /\ Fronted(kind, u)' = (IF r.kind = kind /\ r.actor = u THEN r.amount ELSE 0) + Fronted(kind, u)
         /\ Consumed(kind, u)' = (IF r.kind = kind THEN r.owes[u] ELSE 0) + Consumed(kind, u)
<1>1. PICK rows : rows = <<r>>  OBVIOUS
<1>2. rows \in Seq(Row) /\ DOMAIN rows = {1} /\ rows[1] = r  BY <1>1
<1>3. ledger' = ledger \o rows /\ \A x \in DOMAIN rows : rows[x].voidedBy = NoUser  BY <1>1, <1>2
<1>4. /\ Fronted(kind, u) \in Int /\ Consumed(kind, u) \in Int
      /\ Fronted(kind, u)' = Fronted(kind, u) + NewFront(rows, kind, u)
      /\ Consumed(kind, u)' = Consumed(kind, u) + NewOwed(rows, kind, u)
  BY <1>2, <1>3, AppendedAll
<1>5. r.amount \in Int /\ r.owes[u] \in Int  BY DEF Row, Entry
<1>7. NewFront(rows, kind, u) = IF r.kind = kind /\ r.actor = u THEN r.amount ELSE 0
  <2>1. PICK P : P = {y \in DOMAIN rows : rows[y].kind = kind /\ rows[y].actor = u}  OBVIOUS
  <2>2. P = IF r.kind = kind /\ r.actor = u THEN {1} ELSE {}  BY <1>2, <2>1
  <2>3. PICK f : f = [x \in P |-> rows[x].amount]  OBVIOUS
  <2>4. f = Always(P, r.amount)  BY <1>2, <2>1, <2>3 DEF Always
  <2>5. NewFront(rows, kind, u) = Total(f)  BY <2>1, <2>3 DEF NewFront
  <2>6. Total(f) = IF P = {} THEN 0 ELSE r.amount
    <3>1. PICK v : v = r.amount  OBVIOUS
    <3>2. (P = {} \/ P = {1}) /\ v \in Int /\ f = Always(P, v)  BY <1>5, <2>2, <2>4, <3>1
    <3> QED  BY <3>1, <3>2, OneTerm
  <2> QED  BY <2>2, <2>5, <2>6
<1>8. NewOwed(rows, kind, u) = IF r.kind = kind THEN r.owes[u] ELSE 0
  <2>1. PICK P : P = {y \in DOMAIN rows : rows[y].kind = kind}  OBVIOUS
  <2>2. P = IF r.kind = kind THEN {1} ELSE {}  BY <1>2, <2>1
  <2>3. PICK f : f = [x \in P |-> rows[x].owes[u]]  OBVIOUS
  <2>4. f = Always(P, r.owes[u])  BY <1>2, <2>1, <2>3 DEF Always
  <2>5. NewOwed(rows, kind, u) = Total(f)  BY <2>1, <2>3 DEF NewOwed
  <2>6. Total(f) = IF P = {} THEN 0 ELSE r.owes[u]
    <3>1. PICK v : v = r.owes[u]  OBVIOUS
    <3>2. (P = {} \/ P = {1}) /\ v \in Int /\ f = Always(P, v)  BY <1>5, <2>2, <2>4, <3>1
    <3> QED  BY <3>1, <3>2, OneTerm
  <2> QED  BY <2>2, <2>5, <2>6
<1>9. PICK p : p = NewFront(rows, kind, u)  OBVIOUS
<1>10. PICK q : q = NewOwed(rows, kind, u)  OBVIOUS
<1>11. p \in Int /\ q \in Int  BY <1>5, <1>7, <1>8, <1>9, <1>10
<1>12. Fronted(kind, u)' = p + Fronted(kind, u) /\ Consumed(kind, u)' = q + Consumed(kind, u)
  BY <1>4, <1>9, <1>10, <1>11
<1> QED  BY <1>4, <1>7, <1>8, <1>9, <1>10, <1>12

\* A settlement row takes its sender up and its recipient down by its amount.
LEMMA Paid ==
  ASSUME ledger \in Seq(Row), NEW r \in Row, r.kind = "settlement", r.voidedBy = NoUser,
         ledger' = ledger \o <<r>>, NEW u \in User
  PROVE  /\ Balance[u] \in Int
         /\ Balance'[u] = Balance[u] + (IF r.actor = u THEN r.amount ELSE 0) - r.owes[u]
<1> DEFINE f == Fronted("expense", u)  c == Consumed("expense", u)
           g == Fronted("settlement", u)  d == Consumed("settlement", u)
<1>1. Balance[u] = (((0 + f) - c) + g) - d
  BY DEF Balance, Select, Zero
<1>2. Balance'[u] = (((0 + Fronted("expense", u)') - Consumed("expense", u)')
                       + Fronted("settlement", u)') - Consumed("settlement", u)'
  BY DEF Balance, Select, Zero
<1>3. /\ f \in Int /\ c \in Int /\ g \in Int /\ d \in Int
      /\ Fronted("expense", u)' = 0 + f /\ Consumed("expense", u)' = 0 + c
      /\ Fronted("settlement", u)' = (IF r.actor = u THEN r.amount ELSE 0) + g
      /\ Consumed("settlement", u)' = r.owes[u] + d
  BY Appended
<1>4. r.amount \in Int /\ r.owes[u] \in Int  BY DEF Row, Entry
<1> DEFINE a == IF r.actor = u THEN r.amount ELSE 0
           o == r.owes[u]
<1>5. a \in Int /\ o \in Int  BY <1>4
<1> HIDE DEF f, c, g, d, a, o
<1>6. Balance'[u] = (((0 + (0 + f)) - (0 + c)) + (a + g)) - (o + d)
  BY <1>2, <1>3 DEF a, o
<1>7. (((0 + (0 + f)) - (0 + c)) + (a + g)) - (o + d) = ((((0 + f) - c) + g) - d) + a - o
  BY <1>3, <1>5
<1> QED  BY <1>1, <1>3, <1>6, <1>7 DEF a, o

RowsFor(rows, n, ts) == rows = [x \in 1..n |-> SettlementRow(ts[x])]

\* Settlement rows take everybody up by what they sent and down by what came.
LEMMA PaidAll ==
  ASSUME ledger \in Seq(Row), NEW rows \in Seq(Row), NEW n \in Nat, NEW ts,
         RowsFor(rows, n, ts), \A x \in 1..n : ts[x].amount \in Nat,
         ledger' = ledger \o rows, NEW u \in User
  PROVE  /\ Balance[u] \in Int
         /\ Balance'[u] = Balance[u] + Sent(1..n, ts, u) - Came(1..n, ts, u)
<1>1. DOMAIN rows = 1..n  BY DEF RowsFor
<1>2. ASSUME NEW x \in 1..n
      PROVE  /\ rows[x].kind = "settlement" /\ rows[x].voidedBy = NoUser
             /\ rows[x].actor = ts[x].from /\ rows[x].amount = ts[x].amount
             /\ rows[x].owes[u] = IF u = ts[x].to THEN ts[x].amount ELSE 0
  BY DEF RowsFor, SettlementRow
<1>3. \A x \in DOMAIN rows : rows[x].voidedBy = NoUser  BY <1>1, <1>2
<1>4. ASSUME NEW kind
      PROVE  /\ Fronted(kind, u) \in Int /\ Consumed(kind, u) \in Int
             /\ NewFront(rows, kind, u) \in Int /\ NewOwed(rows, kind, u) \in Int
             /\ Fronted(kind, u)' = Fronted(kind, u) + NewFront(rows, kind, u)
             /\ Consumed(kind, u)' = Consumed(kind, u) + NewOwed(rows, kind, u)
  BY <1>3, AppendedAll
<1>5. NewFront(rows, "expense", u) = 0 /\ NewOwed(rows, "expense", u) = 0
  <2>1. /\ {y \in DOMAIN rows : rows[y].kind = "expense" /\ rows[y].actor = u} = {}
        /\ {y \in DOMAIN rows : rows[y].kind = "expense"} = {}
    BY <1>1, <1>2
  <2>2. PICK f : f = [x \in {} |-> rows[x].amount]  OBVIOUS
  <2>3. PICK g : g = [x \in {} |-> rows[x].owes[u]]  OBVIOUS
  <2>4. DOMAIN f = {} /\ DOMAIN g = {}  BY <2>2, <2>3
  <2>5. Total(f) = 0 /\ Total(g) = 0  BY <2>4, TotalEmpty
  <2> QED  BY <2>1, <2>2, <2>3, <2>5 DEF NewFront, NewOwed
<1>6. NewFront(rows, "settlement", u) = Sent(1..n, ts, u)
  <2>1. {y \in DOMAIN rows : rows[y].kind = "settlement" /\ rows[y].actor = u}
          = {y \in 1..n : ts[y].from = u}
    BY <1>1, <1>2
  <2>2. [x \in {y \in 1..n : ts[y].from = u} |-> rows[x].amount]
          = [x \in {y \in 1..n : ts[y].from = u} |-> ts[x].amount]
    BY <1>2
  <2> QED  BY <2>1, <2>2 DEF NewFront, Sent
<1>7. NewOwed(rows, "settlement", u) = Came(1..n, ts, u)
  <2>1. {y \in DOMAIN rows : rows[y].kind = "settlement"} = 1..n  BY <1>1, <1>2
  <2>2. PICK g : g = [x \in 1..n |-> IF u = ts[x].to THEN ts[x].amount ELSE 0]  OBVIOUS
  <2>3. [x \in 1..n |-> rows[x].owes[u]] = g  BY <1>2, <2>2
  <2>4. NewOwed(rows, "settlement", u) = Total(g)  BY <2>1, <2>3 DEF NewOwed
  <2>5. PICK a : a = [x \in 1..n |-> ts[x].amount]  OBVIOUS
  <2>6. PICK E : E = {y \in 1..n : ts[y].to = u}  OBVIOUS
  <2>7. a \in [1..n -> Int] /\ g \in [1..n -> Int] /\ E \in SUBSET (1..n)  BY <2>2, <2>5, <2>6
  <2>8. Keeps(1..n, E, a, g)  BY <2>2, <2>5, <2>6 DEF Keeps
  <2>9. IsFiniteSet(1..n)  BY FS_Interval
  <2>10. Over(a, E) = Total(g)
    <3>1. PICK D : D = 1..n  OBVIOUS
    <3>2. IsFiniteSet(D) /\ a \in [D -> Int] /\ g \in [D -> Int] /\ E \in SUBSET D /\ Keeps(D, E, a, g)
      BY <2>7, <2>8, <2>9, <3>1
    <3> QED  BY <3>2, OverFilter
  <2>11. [x \in E |-> a[x]] = [x \in E |-> ts[x].amount]  BY <2>5, <2>6
  <2>12. Over(a, E) = Came(1..n, ts, u)  BY <2>6, <2>11 DEF Over, Came
  <2> QED  BY <2>4, <2>10, <2>12
<1>8. PICK s : s = Sent(1..n, ts, u)  OBVIOUS
<1>9. PICK c : c = Came(1..n, ts, u)  OBVIOUS
<1>10. PICK p : p = Fronted("expense", u)  OBVIOUS
<1>11. PICK q : q = Consumed("expense", u)  OBVIOUS
<1>12. PICK v : v = Fronted("settlement", u)  OBVIOUS
<1>13. PICK w : w = Consumed("settlement", u)  OBVIOUS
<1>14. /\ p \in Int /\ q \in Int /\ v \in Int /\ w \in Int /\ s \in Int /\ c \in Int
       /\ Fronted("expense", u)' = p + 0 /\ Consumed("expense", u)' = q + 0
       /\ Fronted("settlement", u)' = v + s /\ Consumed("settlement", u)' = w + c
  BY <1>4, <1>5, <1>6, <1>7, <1>8, <1>9, <1>10, <1>11, <1>12, <1>13
<1>15. Balance[u] = (((0 + p) - q) + v) - w
  BY <1>10, <1>11, <1>12, <1>13 DEF Balance, Select, Zero
<1>16. Balance'[u] = (((0 + Fronted("expense", u)') - Consumed("expense", u)')
                        + Fronted("settlement", u)') - Consumed("settlement", u)'
  BY DEF Balance, Select, Zero
<1>17. (((0 + (p + 0)) - (q + 0)) + (v + s)) - (w + c) = ((((0 + p) - q) + v) - w) + s - c
  BY <1>14
<1>18. (((0 + p) - q) + v) - w \in Int  BY <1>14
<1> QED  BY <1>8, <1>9, <1>14, <1>15, <1>16, <1>17, <1>18

\* The rows of a settle-all: one for each suggested transfer of the balances.
Clears(rows) ==
  \E simplify, n, ts :
    /\ n \in Nat /\ Enumerates(1..n, ts, Suggested(Balance, simplify))
    /\ RowsFor(rows, n, ts)

LEMMA ClearsAll ==
  ASSUME ledger \in Seq(Row), NEW rows \in Seq(Row), Clears(rows), ledger' = ledger \o rows
  PROVE  Balance' = Zero
<1>1. PICK simplify, n, ts :
        /\ n \in Nat /\ Enumerates(1..n, ts, Suggested(Balance, simplify))
        /\ RowsFor(rows, n, ts)
  BY DEF Clears
<1>2. PICK b : b = Balance  OBVIOUS
<1>3. b \in [User -> Int] /\ Total(b) = 0  BY <1>2, BalancesCancel
<1>4. BalanceMap(User, b)  BY <1>3, UsersFinite DEF BalanceMap
<1>5. Enumerates(1..n, ts, Suggested(b, simplify))  BY <1>1, <1>2
<1>6. \A x \in 1..n : ts[x].amount \in Nat
  <2>1. ASSUME NEW x \in 1..n PROVE ts[x].amount \in Nat
    <3>1. PICK s : s = ts[x]  OBVIOUS
    <3>2. s \in Suggested(b, simplify)  BY <1>5, <3>1 DEF Enumerates
    <3>3. s.amount \in Nat  BY <1>3, <3>2, SuggestedBounds
    <3> QED  BY <3>1, <3>3
  <2> QED  BY <2>1
<1>7. ASSUME NEW u \in User PROVE Balance'[u] = 0
  <2>1. Balance'[u] = b[u] + Sent(1..n, ts, u) - Came(1..n, ts, u)
    BY <1>1, <1>2, <1>6, PaidAll
  <2>2. b[u] + Sent(1..n, ts, u) - Came(1..n, ts, u) = 0
    BY <1>3, <1>4, <1>5, AllSettled
  <2> QED  BY <2>1, <2>2
<1>8. Balance' = [u \in User |-> Balance'[u]]  BY DEF Balance, Select
<1> QED  BY <1>7, <1>8 DEF Zero

\* The settlement a handler is about to commit pays some of what is owed now.
Payable(rows) ==
  \E simplify, d : /\ rows = <<SettlementRow(d)>> /\ d.from \in User /\ d.to \in User
                   /\ d.amount \in Nat \ {0}
                   /\ d.amount <= Owed(Balance, simplify, d.from, d.to)

Pending(t) == pc[t] = "written" /\ job[t] = "settle" /\ ~raced[t] =>
                write[t].void = 0 /\ Payable(write[t].add)
Clearing(t) == pc[t] = "written" /\ job[t] = "settleall" /\ ~raced[t] =>
                 write[t].void = 0 /\ Clears(write[t].add)
DueIsPayable(t) == due[t] # NoDue => due[t].amount > 0 /\ job[t] = "settle"

PInv == IInv /\ Data /\ \A t \in Task : Pending(t) /\ Clearing(t) /\ DueIsPayable(t)

LEMMA PayableStable ==
  ASSUME ledger' = ledger
  PROVE  \A rows : (Payable(rows)' <=> Payable(rows)) /\ (Clears(rows)' <=> Clears(rows))
<1>1. \A q, bal : Select(q, bal)' = Select(q, bal)
  BY DEF Select, Fronted, Consumed, Active
<1>2. Balance' = Balance
  BY <1>1 DEF Balance, Zero
<1> QED  BY <1>2 DEF Payable, Clears, RowsFor, SettlementRow

\* A step of one handler that commits nothing.
LEMMA LocalPending ==
  ASSUME PInv, IInv', Data', NEW t \in Task, UNCHANGED ledger,
         \A x \in Task \ {t} : /\ pc'[x] = pc[x] /\ job'[x] = job[x] /\ write'[x] = write[x]
                              /\ due'[x] = due[x] /\ (~raced'[x] => ~raced[x]),
         Pending(t)', Clearing(t)', due'[t] # NoDue => due'[t].amount > 0 /\ job'[t] = "settle"
  PROVE  PInv'
<1>1. \A rows : (Payable(rows)' <=> Payable(rows)) /\ (Clears(rows)' <=> Clears(rows))
  BY PayableStable
<1>2. ASSUME NEW x \in Task \ {t} PROVE Pending(x)' /\ Clearing(x)' /\ DueIsPayable(x)'
  <2>1. Pending(x) /\ Clearing(x) /\ DueIsPayable(x)  BY DEF PInv
  <2>2. PICK w : w = write[x]  OBVIOUS
  <2>3. write'[x] = w /\ pc'[x] = pc[x] /\ job'[x] = job[x] /\ (~raced'[x] => ~raced[x])
    BY <2>2
  <2>4. (Payable(w.add)' <=> Payable(w.add)) /\ (Clears(w.add)' <=> Clears(w.add))  BY <1>1
  <2>5. Pending(x)'  BY <2>1, <2>2, <2>3, <2>4 DEF Pending
  <2>6. Clearing(x)'  BY <2>1, <2>2, <2>3, <2>4 DEF Clearing
  <2>7. DueIsPayable(x)'
    <3>1. due'[x] = due[x] /\ job'[x] = job[x]  OBVIOUS
    <3> QED  BY <2>1, <3>1 DEF DueIsPayable
  <2> QED  BY <2>5, <2>6, <2>7
<1>3. DueIsPayable(t)'  BY DEF DueIsPayable
<1> QED  BY <1>2, <1>3 DEF PInv

\* What a handler files along a suggested transfer, with the balances just read.
LEMMA FilePending ==
  ASSUME PInv, IInv', Data', NEW t \in Task, HasBalances(t), job[t] = "settle", NEW d, NEW simplify,
         d.from \in User, d.to \in User, d.amount \in Nat \ {0},
         d.amount <= Owed(sum[t], simplify, d.from, d.to),
         File(t, <<SettlementRow(d)>>)
  PROVE  PInv'
<1>1. ~raced[t] => sum[t] = Balance
  <2>1. Partial(4) = Balance  BY DEF Partial
  <2>2. 4 \in 0..4 /\ Coherent /\ reads[t] = 4  BY DEF PInv, IInv, HasBalances
  <2> QED  BY <2>1, <2>2 DEF Coherent
<1>2. PICK rows : rows = <<SettlementRow(d)>>  OBVIOUS
<1>3. ~raced[t] => Payable(rows)  BY <1>1, <1>2 DEF Payable
<1>4. /\ pc'    = [pc EXCEPT ![t] = "written"]
      /\ write' = [write EXCEPT ![t] = [Nothing EXCEPT !.add = rows]]
      /\ UNCHANGED <<ledger, lock, job, sum, due, raced>>
  BY <1>2 DEF File, Buffer
<1>5. write \in [Task -> Filed] /\ pc \in [Task -> {"idle", "open", "read", "fetched", "written"}]
  BY DEF PInv, Data, IInv, Control
<1>6. write'[t].add = rows /\ write'[t].void = 0
  BY <1>4, <1>5 DEF Nothing
<1>7. \A z : (Payable(z)' <=> Payable(z))  BY <1>4, PayableStable
<1>8. Pending(t)'
  <2>1. ~raced'[t] => Payable(rows)'  BY <1>3, <1>4, <1>7
  <2> QED  BY <1>6, <2>1 DEF Pending
<1>9. DueIsPayable(t)  BY DEF PInv
<1>10. due'[t] # NoDue => due'[t].amount > 0 /\ job'[t] = "settle"  BY <1>4, <1>9 DEF DueIsPayable
<1>11. \A x \in Task \ {t} : /\ pc'[x] = pc[x] /\ job'[x] = job[x] /\ write'[x] = write[x]
                            /\ due'[x] = due[x] /\ (~raced'[x] => ~raced[x])
  BY <1>4, <1>5
<1>12. Clearing(t)'  BY <1>4 DEF Clearing
<1> QED  BY <1>4, <1>8, <1>10, <1>11, <1>12, LocalPending

\* What a settle-all files.
InOrder(n, order) ==
  \A x, y \in 1..n : x < y =>
    \/ order[x].from < order[y].from
    \/ order[x].from = order[y].from /\ order[x].to < order[y].to

LEMMA ListedOnce ==
  ASSUME NEW bal \in [User -> Int], NEW simplify, NEW n, n = Cardinality(Suggested(bal, simplify)),
         NEW order \in [1..n -> Suggested(bal, simplify)],
         InOrder(n, order)
  PROVE  n \in Nat /\ Enumerates(1..n, order, Suggested(bal, simplify))
<1>1. PICK S : S = Suggested(bal, simplify)  OBVIOUS
<1>2. n \in Nat /\ IsFiniteSet(S)
  <2>1. DOMAIN bal = User  OBVIOUS
  <2> QED  BY <1>1, <2>1, SuggestedFinite
<1>3. ASSUME NEW x \in 1..n PROVE order[x] \in S /\ order[x].from \in Nat /\ order[x].to \in Nat
  <2>1. PICK s : s = order[x]  OBVIOUS
  <2>2. s \in Suggested(bal, simplify)  BY <2>1
  <2>3. s.from \in User /\ s.to \in User
    <3>1. bal \in [User -> Int]  OBVIOUS
    <3> QED  BY <2>2, <3>1, SuggestedBounds
  <2> QED  BY <1>1, <2>1, <2>2, <2>3, UsersFinite
<1>4. ASSUME NEW x \in 1..n, NEW y \in 1..n, order[x] = order[y] PROVE x = y
  <2>1. ~(x < y)  BY <1>3, <1>4 DEF InOrder
  <2>2. ~(y < x)  BY <1>3, <1>4 DEF InOrder
  <2> QED  BY <1>2, <2>1, <2>2
<1>5. order \in Injection(1..n, S)  BY <1>1, <1>3, <1>4 DEF Injection, IsInjective
<1>6. IsFiniteSet(1..n) /\ Cardinality(1..n) = n
  <2>1. 1 \in Int /\ n \in Int  BY <1>2
  <2> QED  BY <1>2, <2>1, FS_Interval
<1>7. order \in Surjection(1..n, S)  BY <1>1, <1>2, <1>5, <1>6, FS_Injection
<1>8. \A s \in S : \E x \in 1..n : order[x] = s  BY <1>7 DEF Surjection
<1> QED  BY <1>1, <1>2, <1>3, <1>4, <1>6, <1>8 DEF Enumerates

LEMMA FileClearing ==
  ASSUME PInv, IInv', Data', NEW t \in Task, SettleAll(t)
  PROVE  PInv'
<1>1. ~raced[t] => sum[t] = Balance
  <2>1. Partial(4) = Balance  BY DEF Partial
  <2>2. 4 \in 0..4 /\ Coherent /\ reads[t] = 4  BY DEF PInv, IInv, SettleAll, HasBalances
  <2> QED  BY <2>1, <2>2 DEF Coherent
<1>2. PICK b : b = sum[t]  OBVIOUS
<1>3. b \in [User -> Int]  BY <1>2 DEF PInv, Data
<1>4. PICK simplify \in BOOLEAN :
        \E order \in [1..Cardinality(Suggested(b, simplify)) -> Suggested(b, simplify)] :
          /\ InOrder(Cardinality(Suggested(b, simplify)), order)
          /\ File(t, [x \in 1..Cardinality(Suggested(b, simplify)) |-> SettlementRow(order[x])])
  BY <1>2 DEF SettleAll, InOrder
<1>5. PICK n : n = Cardinality(Suggested(b, simplify))  OBVIOUS
<1>6. PICK order \in [1..n -> Suggested(b, simplify)] :
        /\ InOrder(n, order)
        /\ File(t, [x \in 1..n |-> SettlementRow(order[x])])
  BY <1>4, <1>5
<1>7. n \in Nat /\ Enumerates(1..n, order, Suggested(b, simplify))  BY <1>3, <1>5, <1>6, ListedOnce
<1>8. PICK rows : rows = [x \in 1..n |-> SettlementRow(order[x])]  OBVIOUS
<1>9. RowsFor(rows, n, order)  BY <1>8 DEF RowsFor
<1>10. ~raced[t] => Clears(rows)  BY <1>1, <1>2, <1>7, <1>9 DEF Clears
<1>11. /\ pc'    = [pc EXCEPT ![t] = "written"]
       /\ write' = [write EXCEPT ![t] = [Nothing EXCEPT !.add = rows]]
       /\ UNCHANGED <<ledger, lock, job, sum, due, raced>>
  BY <1>6, <1>8 DEF File, Buffer
<1>12. write \in [Task -> Filed] /\ pc \in [Task -> {"idle", "open", "read", "fetched", "written"}]
  BY DEF PInv, Data, IInv, Control
<1>13. write'[t].add = rows /\ write'[t].void = 0  BY <1>11, <1>12 DEF Nothing
<1>14. \A z : Clears(z)' <=> Clears(z)  BY <1>11, PayableStable
<1>15. Clearing(t)'
  <2>1. ~raced'[t] => Clears(rows)'  BY <1>10, <1>11, <1>14
  <2> QED  BY <1>13, <2>1 DEF Clearing
<1>16. job'[t] = "settleall"  BY <1>11 DEF SettleAll
<1>17. Pending(t)'  BY <1>16 DEF Pending
<1>18. DueIsPayable(t)  BY DEF PInv
<1>19. due'[t] # NoDue => due'[t].amount > 0 /\ job'[t] = "settle"  BY <1>11, <1>18 DEF DueIsPayable
<1>20. \A x \in Task \ {t} : /\ pc'[x] = pc[x] /\ job'[x] = job[x] /\ write'[x] = write[x]
                            /\ due'[x] = due[x] /\ (~raced'[x] => ~raced[x])
  BY <1>11, <1>12
<1> QED  BY <1>11, <1>15, <1>17, <1>19, <1>20, LocalPending

\* A step after which its handler is not about to commit settlements.
LEMMA QuietPending ==
  ASSUME PInv, IInv', Data', NEW t \in Task, UNCHANGED ledger,
         \A x \in Task \ {t} : /\ pc'[x] = pc[x] /\ job'[x] = job[x] /\ write'[x] = write[x]
                              /\ due'[x] = due[x] /\ (~raced'[x] => ~raced[x]),
         pc'[t] # "written" \/ job'[t] \notin {"settle", "settleall"},
         due'[t] # NoDue => due'[t].amount > 0 /\ job'[t] = "settle"
  PROVE  PInv'
BY LocalPending DEF Pending, Clearing

LEMMA PStep == PInv /\ VInv /\ IInv' /\ Data' /\ [Next]_vars => PInv'
<1> SUFFICES ASSUME PInv, VInv, IInv', Data', [Next]_vars PROVE PInv'
  OBVIOUS
<1>0. /\ pc \in [Task -> {"idle", "open", "read", "fetched", "written"}] /\ job \in [Task -> Cmd]
      /\ write \in [Task -> Filed] /\ due \in [Task -> Due \cup {NoDue}]
      /\ sum \in [Task -> [User -> Int]] /\ raced \in [Task -> BOOLEAN]
  BY DEF PInv, IInv, Control, Data
<1>a. \A t \in Task : due[t] # NoDue => due[t].amount > 0 /\ job[t] = "settle" /\ pc[t] # "idle"
  BY DEF PInv, DueIsPayable, IInv, Reading
<1>1. ASSUME NEW t \in Task, NEW c \in Cmd, Begin(t, c) PROVE PInv'
  BY <1>0, <1>a, <1>1, QuietPending DEF Begin
<1>2. ASSUME NEW t \in Task, AddExpense(t) PROVE PInv'
  BY <1>0, <1>a, <1>2, QuietPending DEF AddExpense, File, Buffer
<1>3. ASSUME NEW t \in Task, ReadSum(t) PROVE PInv'
  BY <1>0, <1>a, <1>3, QuietPending DEF ReadSum
<1>4. ASSUME NEW t \in Task, SettleUp(t) PROVE PInv'
  <2>1. PICK simplify \in BOOLEAN : \E s \in Suggested(sum[t], simplify) :
          \E amount \in 1..s.amount : File(t, <<SettlementRow([s EXCEPT !.amount = amount])>>)
    BY <1>4 DEF SettleUp
  <2>2. PICK s \in Suggested(sum[t], simplify) :
          \E amount \in 1..s.amount : File(t, <<SettlementRow([s EXCEPT !.amount = amount])>>)
    BY <2>1
  <2>3. PICK amount \in 1..s.amount : File(t, <<SettlementRow([s EXCEPT !.amount = amount])>>)
    BY <2>2
  <2>4. sum[t] \in [User -> Int]  BY <1>0
  <2>5. /\ s.from \in User /\ s.to \in User /\ s.amount \in Nat
        /\ s.amount = Owed(sum[t], simplify, s.from, s.to)
        /\ s = [from |-> s.from, to |-> s.to, amount |-> s.amount]
    BY <2>4, SuggestedBounds
  <2>6. PICK tr : tr = [s EXCEPT !.amount = amount]  OBVIOUS
  <2>7. tr = [from |-> s.from, to |-> s.to, amount |-> amount]  BY <2>5, <2>6
  <2>8. /\ tr.from \in User /\ tr.to \in User /\ tr.amount \in Nat \ {0}
        /\ tr.amount <= Owed(sum[t], simplify, tr.from, tr.to)
    <3>1. tr.from = s.from /\ tr.to = s.to /\ tr.amount = amount  BY <2>7
    <3>2. amount \in Nat \ {0} /\ amount <= s.amount  BY <2>5
    <3> QED  BY <2>5, <3>1, <3>2
  <2>9. HasBalances(t) /\ job[t] = "settle"  BY <1>4 DEF SettleUp
  <2> QED  BY <2>3, <2>6, <2>8, <2>9, FilePending
<1>5. ASSUME NEW t \in Task, LookUp(t) PROVE PInv'
  <2>1. PICK simplify \in BOOLEAN : \E s \in Suggested(sum[t], simplify) :
          due' = [due EXCEPT ![t] = [from |-> s.from, to |-> s.to, amount |-> s.amount,
                                   simplify |-> simplify]]
    BY <1>5 DEF LookUp
  <2>2. PICK s \in Suggested(sum[t], simplify) :
          due' = [due EXCEPT ![t] = [from |-> s.from, to |-> s.to, amount |-> s.amount,
                                   simplify |-> simplify]]
    BY <2>1
  <2>3. sum[t] \in [User -> Int]  BY <1>0
  <2>4. s.amount > 0  BY <2>3, SuggestedBounds
  <2>5. due'[t].amount > 0  BY <1>0, <2>2, <2>4
  <2>6. \A x \in Task \ {t} : due'[x] = due[x]  BY <1>0, <2>2
  <2>7. /\ job' = job /\ job[t] = "settle" /\ UNCHANGED <<ledger, write, raced>>
        /\ pc' = [pc EXCEPT ![t] = "open"]
    BY <1>5 DEF LookUp
  <2> QED  BY <1>0, <2>5, <2>6, <2>7, QuietPending
<1>6. ASSUME NEW t \in Task, PayDue(t) PROVE PInv'
  <2>1. due[t] \in Due /\ due[t].amount > 0 /\ job[t] = "settle"  BY <1>0, <1>a, <1>6 DEF PayDue
  <2>2. PICK d : d = due[t]  OBVIOUS
  <2>3. d.from \in User /\ d.to \in User /\ d.amount \in Nat \ {0}  BY <2>1, <2>2 DEF Due
  <2>4. /\ HasBalances(t) /\ d.amount <= Owed(sum[t], d.simplify, d.from, d.to)
        /\ File(t, <<SettlementRow(d)>>)
    BY <1>6, <2>2 DEF PayDue
  <2>5. PICK simplify : simplify = d.simplify  OBVIOUS
  <2>6. d.amount <= Owed(sum[t], simplify, d.from, d.to)  BY <2>4, <2>5
  <2> QED  BY <2>1, <2>3, <2>4, <2>6, FilePending
<1>7. ASSUME NEW t \in Task, SettleAll(t) PROVE PInv'
  BY <1>7, FileClearing
<1>8. ASSUME NEW t \in Task, FetchRow(t) PROVE PInv'
  BY <1>0, <1>a, <1>8, QuietPending DEF FetchRow
<1>9. ASSUME NEW t \in Task, VoidRow(t) PROVE PInv'
  <2>1. job[t] = "void"
    <3>1. pc[t] = "fetched"  BY <1>9 DEF VoidRow
    <3> QED  BY <3>1 DEF VInv, Fetched
  <2> QED  BY <1>0, <1>a, <1>9, <2>1, QuietPending DEF VoidRow, Buffer
<1>10. ASSUME NEW t \in Task, Commit(t) PROVE PInv'
  <2>1. /\ pc'[t] = "idle" /\ due'[t] = NoDue
        /\ \A x \in Task \ {t} : /\ pc'[x] = pc[x] /\ job'[x] = job[x] /\ due'[x] = due[x]
                                /\ raced'[x] = (raced[x] \/ (job[t] = "submit" /\ lock = x))
    BY <1>0, <1>10 DEF Commit, Leave
  <2>2. ASSUME NEW x \in Task \ {t}, pc[x] = "written", job[x] \in {"settle", "settleall"}
        PROVE  raced'[x]
    <3>1. lock = x  BY <2>2 DEF PInv, IInv, Locked
    <3>2. pc[t] # "idle"  BY <1>10 DEF Commit
    <3>3. job[t] = "submit"
      <4>1. job[t] # "submit" => lock = t  BY <3>2 DEF PInv, IInv, Locked
      <4> QED  BY <3>1, <4>1
    <3> QED  BY <2>1, <3>1, <3>3
  <2>3. \A x \in Task : Pending(x)' /\ Clearing(x)' /\ DueIsPayable(x)'
    BY <1>a, <2>1, <2>2 DEF Pending, Clearing, DueIsPayable
  <2> QED  BY <2>3 DEF PInv
<1>11. ASSUME NEW t \in Task, GiveUp(t) PROVE PInv'
  BY <1>0, <1>11, QuietPending DEF GiveUp, Leave
<1>12. CASE UNCHANGED vars
  <2>1. \A rows : (Payable(rows)' <=> Payable(rows)) /\ (Clears(rows)' <=> Clears(rows))
    BY <1>12, PayableStable DEF vars
  <2>2. ASSUME NEW x \in Task PROVE Pending(x)' /\ Clearing(x)' /\ DueIsPayable(x)'
    <3>1. Pending(x) /\ Clearing(x) /\ DueIsPayable(x)  BY DEF PInv
    <3>2. PICK w : w = write[x]  OBVIOUS
    <3>3. (Payable(w.add)' <=> Payable(w.add)) /\ (Clears(w.add)' <=> Clears(w.add))  BY <2>1
    <3>4. write'[x] = w /\ pc'[x] = pc[x] /\ job'[x] = job[x] /\ raced'[x] = raced[x] /\ due'[x] = due[x]
      BY <1>12, <3>2 DEF vars
    <3> QED  BY <3>1, <3>2, <3>3, <3>4 DEF Pending, Clearing, DueIsPayable
  <2> QED  BY <2>2 DEF PInv
<1> QED
  BY <1>1, <1>2, <1>3, <1>4, <1>5, <1>6, <1>7, <1>8, <1>9, <1>10, <1>11, <1>12 DEF Next

LEMMA InitP == Init => PInv
<1> SUFFICES ASSUME Init PROVE PInv
  OBVIOUS
<1>1. IInv /\ Data  BY InitInv, InitData
<1>2. \A t \in Task : Pending(t) /\ Clearing(t) /\ DueIsPayable(t)  BY DEF Init, Pending, Clearing, DueIsPayable
<1> QED  BY <1>1, <1>2 DEF PInv

\* A commit of such a settlement.
LEMMA SettlesWithin ==
  ASSUME PInv, Next, NEW t \in Task, job[t] = "settle", pc[t] = "written", pc'[t] = "idle", ~raced[t],
         NEW s \in NewRows, NEW u \in User
  PROVE  /\ u = s.actor   => Balance[u] < 0 /\ Balance'[u] <= 0
         /\ s.owes[u] > 0 => Balance[u] > 0 /\ Balance'[u] >= 0
<1>0. /\ pc \in [Task -> {"idle", "open", "read", "fetched", "written"}]
      /\ ledger \in Seq(Row) /\ write[t].void = 0 /\ Payable(write[t].add)
  BY DEF PInv, IInv, Control, Data, Pending
<1>1. PICK simplify, d : /\ write[t].add = <<SettlementRow(d)>> /\ d.from \in User /\ d.to \in User
                         /\ d.amount \in Nat \ {0}
                         /\ d.amount <= Owed(Balance, simplify, d.from, d.to)
  BY <1>0 DEF Payable
<1>2. PICK r : r = SettlementRow(d)  OBVIOUS
<1>3. /\ r \in Row /\ r.kind = "settlement" /\ r.voidedBy = NoUser /\ r.actor = d.from
      /\ r.amount = d.amount /\ r.owes = [v \in User |-> IF v = d.to THEN d.amount ELSE 0]
  BY <1>1, <1>2, SettlementRowIsRow DEF SettlementRow
<1>4. ledger' = ledger \o <<r>> \/ ledger' = ledger
  <2>1. PICK x \in Task : \/ \E c \in Cmd : Begin(x, c)
                          \/ AddExpense(x) \/ ReadSum(x) \/ SettleUp(x) \/ LookUp(x) \/ PayDue(x)
                          \/ SettleAll(x) \/ FetchRow(x) \/ VoidRow(x) \/ Commit(x) \/ GiveUp(x)
    BY DEF Next
  <2>2. CASE Commit(x)
    <3>1. x = t  BY <1>0, <2>2 DEF Commit, Leave
    <3>2. ledger' = ledger \o write[t].add  BY <1>0, <2>2, <3>1 DEF Commit
    <3> QED  BY <1>1, <1>2, <3>2
  <2>3. CASE ~Commit(x)
    <3>1. ledger' = ledger
      BY <2>1, <2>3 DEF Begin, AddExpense, ReadSum, SettleUp, LookUp, PayDue, SettleAll, File, Buffer,
                       FetchRow, VoidRow, GiveUp
    <3> QED  BY <3>1
  <2> QED  BY <2>2, <2>3
<1>5. ledger' # ledger  BY DEF NewRows
<1>6. ledger' = ledger \o <<r>>  BY <1>4, <1>5
<1>7. s = r
  <2>1. PICK L : L = ledger'  OBVIOUS
  <2>2. PICK e : e = <<r>>  OBVIOUS
  <2>3. e \in Seq(Row) /\ Len(e) = 1 /\ e[1] = r  BY <1>3, <2>2
  <2>4. L = ledger \o e  BY <1>6, <2>1, <2>2
  <2>5. Len(ledger) \in Nat /\ DOMAIN ledger = 1..Len(ledger)  BY <1>0, LenProperties
  <2>6. /\ L \in Seq(Row) /\ Len(L) = Len(ledger) + 1
        /\ \A x \in 1..Len(ledger) + 1 : L[x] = IF x <= Len(ledger) THEN ledger[x] ELSE e[x - Len(ledger)]
    <3>1. ledger \in Seq(Row)  BY <1>0
    <3> QED  BY <2>3, <2>4, <3>1, <2>5, ConcatProperties
  <2>7. DOMAIN L = 1..Len(ledger) + 1  BY <2>6, LenProperties
  <2>8. PICK x \in DOMAIN L \ DOMAIN ledger : s = L[x]  BY <2>1 DEF NewRows
  <2>9. x = Len(ledger) + 1 /\ ~(x <= Len(ledger)) /\ x - Len(ledger) = 1
    BY <2>5, <2>7
  <2> QED  BY <2>3, <2>6, <2>7, <2>8, <2>9
<1>8. /\ Balance[u] \in Int
      /\ Balance'[u] = Balance[u] + (IF r.actor = u THEN r.amount ELSE 0) - r.owes[u]
  BY <1>0, <1>3, <1>6, Paid
<1>9. PICK b : b = Balance  OBVIOUS
<1>10. b \in [User -> Int]  BY <1>0, <1>9, BalancesCancel
<1>11. PICK o : o = Owed(b, simplify, d.from, d.to)  OBVIOUS
<1>12. /\ o \in Nat
       /\ o > 0 => b[d.from] < 0 /\ b[d.to] > 0 /\ o <= -b[d.from] /\ o <= b[d.to]
  BY <1>10, <1>11, OwedBounds
<1>13. d.amount \in Nat \ {0} /\ d.amount <= o  BY <1>1, <1>9, <1>11
<1>14. /\ b[d.from] \in Int /\ b[d.to] \in Int /\ d.from # d.to
       /\ b[d.from] < 0 /\ b[d.to] > 0 /\ d.amount <= -b[d.from] /\ d.amount <= b[d.to]
  BY <1>1, <1>10, <1>12, <1>13
<1>15. ASSUME u = s.actor PROVE Balance[u] < 0 /\ Balance'[u] <= 0
  <2>1. u = d.from /\ r.owes[u] = 0 /\ r.actor = u  BY <1>3, <1>7, <1>14, <1>15
  <2>2. Balance'[u] = b[d.from] + d.amount - 0  BY <1>3, <1>8, <1>9, <2>1
  <2> QED  BY <1>9, <1>13, <1>14, <2>1, <2>2
<1>16. ASSUME s.owes[u] > 0 PROVE Balance[u] > 0 /\ Balance'[u] >= 0
  <2>1. u = d.to /\ r.owes[u] = d.amount /\ r.actor # u
    BY <1>3, <1>7, <1>14, <1>16
  <2>2. Balance'[u] = b[d.to] + 0 - d.amount  BY <1>3, <1>8, <1>9, <2>1
  <2> QED  BY <1>9, <1>13, <1>14, <2>1, <2>2
<1> QED  BY <1>15, <1>16

\* A repeated or stale tap cannot overpay: recording what a suggested transfer says
\* never takes its sender out of debt into credit, nor its recipient the other way.
THEOREM NeverFlipsHolds == Spec => NeverFlips
<1>1. PInv /\ [Next]_vars =>
        [\A t \in Task : job[t] = "settle" /\ pc[t] = "written" /\ pc'[t] = "idle" /\ ~raced[t] =>
           \A s \in NewRows : \A u \in User :
             /\ u = s.actor    => Balance[u] < 0 /\ Balance'[u] <= 0
             /\ s.owes[u] > 0  => Balance[u] > 0 /\ Balance'[u] >= 0]_vars
  BY SettlesWithin
<1>2. Init => PInv  BY InitP
<1>3. PInv /\ VInv /\ IInv' /\ Data' /\ [Next]_vars => PInv'  BY PStep
<1> QED  BY <1>1, <1>2, <1>3, InvHolds, RowsHold, DataHolds, PTL DEF Spec, NeverFlips

\* A commit of a settle-all.
LEMMA SettlesAll ==
  ASSUME PInv, Next, NEW t \in Task, job[t] = "settleall", pc[t] = "written", pc'[t] = "idle", ~raced[t],
         ledger' # ledger
  PROVE  Balance' = Zero
<1>0. /\ pc \in [Task -> {"idle", "open", "read", "fetched", "written"}]
      /\ ledger \in Seq(Row) /\ write[t].void = 0 /\ Clears(write[t].add) /\ write[t].add \in Seq(Row)
  BY DEF PInv, IInv, Control, Data, Filed, Clearing
<1>1. PICK x \in Task : \/ \E c \in Cmd : Begin(x, c)
                        \/ AddExpense(x) \/ ReadSum(x) \/ SettleUp(x) \/ LookUp(x) \/ PayDue(x)
                        \/ SettleAll(x) \/ FetchRow(x) \/ VoidRow(x) \/ Commit(x) \/ GiveUp(x)
  BY DEF Next
<1>2. Commit(x)
  <2> SUFFICES ASSUME ~Commit(x) PROVE ledger' = ledger
    OBVIOUS
  <2> QED  BY <1>1 DEF Begin, AddExpense, ReadSum, SettleUp, LookUp, PayDue, SettleAll, File, Buffer,
                       FetchRow, VoidRow, GiveUp
<1>3. x = t  BY <1>0, <1>2 DEF Commit, Leave
<1>4. PICK rows : rows = write[t].add  OBVIOUS
<1>5. ledger' = ledger \o rows  BY <1>0, <1>2, <1>3, <1>4 DEF Commit
<1> QED  BY <1>0, <1>4, <1>5, ClearsAll

\* A settle-all that no Submit overtook leaves nobody owing anything.
THEOREM ClearsBoardHolds == Spec => ClearsBoard
<1>1. PInv /\ [Next]_vars =>
        [\A t \in Task : /\ job[t] = "settleall" /\ ~raced[t]
                         /\ pc[t] = "written" /\ pc'[t] = "idle" /\ ledger' # ledger
                         => Balance' = Zero]_vars
  BY SettlesAll
<1>2. Init => PInv  BY InitP
<1>3. PInv /\ VInv /\ IInv' /\ Data' /\ [Next]_vars => PInv'  BY PStep
<1> QED  BY <1>1, <1>2, <1>3, InvHolds, RowsHold, DataHolds, PTL DEF Spec, ClearsBoard
=============================================================================
