------------------------------ MODULE LedgerTx ------------------------------
(***************************************************************************)
(* The append-only ledger of one scope and currency, and the handlers that *)
(* read balances from it and write to it in concurrent READ COMMITTED      *)
(* transactions.  A balance is not stored: compute_for_group adds it up    *)
(* from four SELECTs, each of which sees what is committed when it runs.   *)
(* Every handler but the wizard's Submit first takes the groups row lock.  *)
(*                                                                         *)
(* Splits come from Split and suggested transfers from Transfers; the      *)
(* simplify toggle is the session's copy and may be stale, so a handler    *)
(* may use either value.                                                   *)
(***************************************************************************)
EXTENDS Integers, Sequences, FiniteSets, Split, Transfers

CONSTANTS
  Task,   \* slots for concurrently running handlers
  NoTask, \* the group row is unlocked
  User,   \* user ids in id order
  NoUser, \* voided_by IS NULL
  Admin,  \* the group's Telegram admins
  Bill,   \* the expenses people record: payer, amount, split mode and parameters
  MaxEntries \* bound: no expense begins, and nothing is filed, once the ledger is full

IsBill(b) == /\ b.payer \in User
             /\ b.amount \in Nat \ {0}
             /\ b.mode \in {"equal", "weighted", "percent", "exact"}
             /\ DOMAIN b.params \in SUBSET User \ {{}}
             /\ b.params \in [DOMAIN b.params -> Nat]

ASSUME LedgerDistinct == NoTask \notin Task /\ NoUser \notin User
ASSUME LedgerUsers    == User \subseteq Nat /\ IsFiniteSet(User) /\ Admin \subseteq User
ASSUME LedgerBills    == \A b \in Bill : IsBill(b)
ASSUME LedgerBound    == MaxEntries \in Nat

VARIABLES
  ledger, \* committed expenses and settlements, oldest first
  lock,   \* holder of the groups row lock
  pc,     \* how far each handler has come
  job,    \* the command each handler serves
  reads,  \* how many of the four SELECTs of compute_for_group it has run
  sum,    \* and what they add up to so far
  due,    \* the suggested payment a tap found, to be recorded in full
  row,    \* the entry void_entry fetched; 0 for none
  write,  \* each transaction's uncommitted rows, or void stamp
  raced   \* whether a Submit committed while the handler held the lock (history)

vars == <<ledger, lock, pc, job, reads, sum, due, row, write, raced>>

Cmd   == {"expense", "settle", "settleall", "void", "submit"}
Entry == [kind : {"expense", "settlement"}, actor : User, amount : Nat,
          owes : [User -> Nat], voidedBy : User \cup {NoUser}]
Due   == [from : User, to : User, amount : Nat, simplify : BOOLEAN]
Write == [add : Seq(Entry), void : Nat, by : User \cup {NoUser}]

Nothing == [add |-> << >>, void |-> 0, by |-> NoUser]
NoDue   == [amount |-> 0]
Zero    == [u \in User |-> 0]

-----------------------------------------------------------------------------
(* Rows and balances.                                                      *)

\* Mutant of ExpenseRow: shares recorded with the sign they have in a balance.
ExpenseRowSigned(b) ==
  LET shares == Shares(b.amount, b.mode, b.params)
  IN  [kind |-> "expense", actor |-> b.payer, amount |-> b.amount,
       owes |-> [u \in User |-> IF u \in DOMAIN shares THEN -shares[u] ELSE 0],
       voidedBy |-> NoUser]

\* ExpenseRepository.add: the expense and its share rows.
ExpenseRow(b) ==
  LET shares == Shares(b.amount, b.mode, b.params)
  IN  [kind |-> "expense", actor |-> b.payer, amount |-> b.amount,
       owes |-> [u \in User |-> IF u \in DOMAIN shares THEN shares[u] ELSE 0],
       voidedBy |-> NoUser]

\* SettlementRepository.add.
SettlementRow(t) ==
  [kind |-> "settlement", actor |-> t.from, amount |-> t.amount,
   owes |-> [u \in User |-> IF u = t.to THEN t.amount ELSE 0], voidedBy |-> NoUser]

Active(kind) == {x \in DOMAIN ledger : ledger[x].kind = kind /\ ledger[x].voidedBy = NoUser}

\* Mutant of Fronted: no voided_at IS NULL in the first SELECT.
FrontedWithVoided(kind, u) ==
  Total([x \in {y \in DOMAIN ledger : ledger[y].kind = kind /\ ledger[y].actor = u} |->
             ledger[x].amount])

\* SUM(amount_cents) GROUP BY payer_id, or from_user_id.
Fronted(kind, u) ==
  Total([x \in {y \in Active(kind) : ledger[y].actor = u} |-> ledger[x].amount])

\* SUM(share_cents) GROUP BY user_id, or SUM(amount_cents) GROUP BY to_user_id.
Consumed(kind, u) == Total([x \in Active(kind) |-> ledger[x].owes[u]])

\* The effect of the q-th SELECT on the result map of compute_for_group.
Select(q, bal) ==
  [u \in User |->
     CASE q = 1 -> bal[u] + Fronted("expense", u)
       [] q = 2 -> bal[u] - Consumed("expense", u)
       [] q = 3 -> bal[u] + Fronted("settlement", u)
       [] q = 4 -> bal[u] - Consumed("settlement", u)]

\* The committed balances: all four SELECTs at one instant.
Balance == Select(4, Select(3, Select(2, Select(1, Zero))))

-----------------------------------------------------------------------------
(* Beginning and ending a handler.                                         *)

Init ==
  /\ ledger = << >>
  /\ lock  = NoTask
  /\ pc    = [t \in Task |-> "idle"]
  /\ job   = [t \in Task |-> "expense"]
  /\ reads = [t \in Task |-> 0]
  /\ sum   = [t \in Task |-> Zero]
  /\ due   = [t \in Task |-> NoDue]
  /\ row   = [t \in Task |-> 0]
  /\ write = [t \in Task |-> Nothing]
  /\ raced = [t \in Task |-> FALSE]

\* Mutant of Begin: the group is read without taking its row lock.
BeginUnlocked(t, c) ==
  /\ pc[t] = "idle"
  /\ c \in {"expense", "submit"} => Len(ledger) < MaxEntries
  /\ lock' = IF c = "submit" THEN lock ELSE t
  /\ pc'  = [pc EXCEPT ![t] = "open"]
  /\ job' = [job EXCEPT ![t] = c]
  /\ UNCHANGED <<ledger, reads, sum, due, row, write, raced>>

\* A handler's transaction opens with groups.upsert, which waits for the row lock;
\* the wizard's Submit does not make that call.
Begin(t, c) ==
  /\ pc[t] = "idle"
  /\ c # "submit" => lock = NoTask
  /\ c \in {"expense", "submit"} => Len(ledger) < MaxEntries
  /\ lock' = IF c = "submit" THEN lock ELSE t
  /\ pc'  = [pc EXCEPT ![t] = "open"]
  /\ job' = [job EXCEPT ![t] = c]
  /\ UNCHANGED <<ledger, reads, sum, due, row, write, raced>>

Leave(t) ==
  /\ pc'    = [pc EXCEPT ![t] = "idle"]
  /\ job'   = [job EXCEPT ![t] = "expense"]
  /\ reads' = [reads EXCEPT ![t] = 0]
  /\ sum'   = [sum EXCEPT ![t] = Zero]
  /\ due'   = [due EXCEPT ![t] = NoDue]
  /\ row'   = [row EXCEPT ![t] = 0]
  /\ write' = [write EXCEPT ![t] = Nothing]
  /\ lock'  = IF lock = t THEN NoTask ELSE lock

\* The handler raises, or replies that there is nothing to record, before it wrote.
GiveUp(t) ==
  /\ pc[t] # "idle"
  /\ Leave(t)
  /\ raced' = [raced EXCEPT ![t] = FALSE]
  /\ UNCHANGED ledger

Commit(t) ==
  LET w == write[t] IN
  /\ pc[t] = "written"
  /\ ledger' = IF w.void # 0 THEN [ledger EXCEPT ![w.void].voidedBy = w.by]
                             ELSE ledger \o w.add
  /\ raced' = [x \in Task |-> IF x = t THEN FALSE
                              ELSE raced[x] \/ (job[t] = "submit" /\ lock = x)]
  /\ Leave(t)

-----------------------------------------------------------------------------
(* The handlers between lock and commit.                                   *)

Buffer(t, w) ==
  /\ pc'    = [pc EXCEPT ![t] = "written"]
  /\ write' = [write EXCEPT ![t] = w]
  /\ UNCHANGED <<ledger, lock, job, sum, due, raced>>

File(t, rows) ==
  /\ Len(ledger) + Len(rows) <= MaxEntries
  /\ Buffer(t, [Nothing EXCEPT !.add = rows])
  /\ UNCHANGED <<reads, row>>

\* add_expense, under the lock (/addexpense) or without it (the wizard's Submit).
AddExpense(t) ==
  /\ pc[t] = "open"
  /\ job[t] \in {"expense", "submit"}
  /\ \E b \in Bill : /\ Valid(b.amount, b.mode, b.params)
                     /\ File(t, <<ExpenseRow(b)>>)

\* The next SELECT of compute_for_group.
ReadSum(t) ==
  /\ pc[t] \in {"open", "read"}
  /\ job[t] \in {"settle", "settleall"}
  /\ reads[t] < 4
  /\ pc'    = [pc EXCEPT ![t] = "read"]
  /\ reads' = [reads EXCEPT ![t] = @ + 1]
  /\ sum'   = [sum EXCEPT ![t] = Select(reads[t] + 1, @)]
  /\ UNCHANGED <<ledger, lock, job, due, row, write, raced>>

HasBalances(t) == pc[t] = "read" /\ reads[t] = 4

\* Mutant of SettleUp: only the payer's own debt bounds the amount.
SettleUpDebt(t) ==
  /\ HasBalances(t)
  /\ job[t] = "settle"
  /\ due[t] = NoDue
  /\ \E simplify \in BOOLEAN : \E s \in Suggested(sum[t], simplify) :
       \E amount \in 1..-sum[t][s.from] :
         File(t, <<SettlementRow([s EXCEPT !.amount = amount])>>)

\* settle_up: along a suggested transfer, and for no more than its amount.
SettleUp(t) ==
  /\ HasBalances(t)
  /\ job[t] = "settle"
  /\ due[t] = NoDue
  /\ \E simplify \in BOOLEAN : \E s \in Suggested(sum[t], simplify) :
       \E amount \in 1..s.amount :
         File(t, <<SettlementRow([s EXCEPT !.amount = amount])>>)

\* Mutant of LookUp: the payer's whole debt, whoever else it is owed to.
LookUpDebt(t) ==
  /\ HasBalances(t)
  /\ job[t] = "settle"
  /\ due[t] = NoDue
  /\ \E simplify \in BOOLEAN : \E s \in Suggested(sum[t], simplify) :
       due' = [due EXCEPT ![t] = [from |-> s.from, to |-> s.to, amount |-> -sum[t][s.from],
                                simplify |-> simplify]]
  /\ pc'    = [pc EXCEPT ![t] = "open"]
  /\ reads' = [reads EXCEPT ![t] = 0]
  /\ sum'   = [sum EXCEPT ![t] = Zero]
  /\ UNCHANGED <<ledger, lock, job, row, write, raced>>

\* A tap, and /settleup without an amount, first look up what is owed: then settle_up
\* adds the balances up a second time.  Nothing suggested any more is a reply (GiveUp).
LookUp(t) ==
  /\ HasBalances(t)
  /\ job[t] = "settle"
  /\ due[t] = NoDue
  /\ \E simplify \in BOOLEAN : \E s \in Suggested(sum[t], simplify) :
       due' = [due EXCEPT ![t] = [from |-> s.from, to |-> s.to, amount |-> s.amount,
                                simplify |-> simplify]]
  /\ pc'    = [pc EXCEPT ![t] = "open"]
  /\ reads' = [reads EXCEPT ![t] = 0]
  /\ sum'   = [sum EXCEPT ![t] = Zero]
  /\ UNCHANGED <<ledger, lock, job, row, write, raced>>

\* settle_up of what was looked up, if it is still suggested.
PayDue(t) ==
  /\ HasBalances(t)
  /\ due[t] # NoDue
  /\ due[t].amount <= Owed(sum[t], due[t].simplify, due[t].from, due[t].to)
  /\ File(t, <<SettlementRow(due[t])>>)

\* Mutant of SettleAll: only the first suggested transfer is recorded.
SettleAllFirst(t) ==
  /\ HasBalances(t)
  /\ job[t] = "settleall"
  /\ \E simplify \in BOOLEAN : \E s \in Suggested(sum[t], simplify) :
       File(t, <<SettlementRow(s)>>)

\* settle_all: one settlement for each suggested transfer; their order, here by the
\* users' ids, does not matter.
SettleAll(t) ==
  /\ HasBalances(t)
  /\ job[t] = "settleall"
  /\ \E simplify \in BOOLEAN :
       LET all == Suggested(sum[t], simplify)
           n   == Cardinality(all)
       IN  \E order \in [1..n -> all] :
             /\ \A x, y \in 1..n : x < y =>
                  \/ order[x].from < order[y].from
                  \/ order[x].from = order[y].from /\ order[x].to < order[y].to
             /\ File(t, [x \in 1..n |-> SettlementRow(order[x])])

\* Mutant of FetchRow: no look at voided_at.
FetchAnyRow(t) ==
  /\ pc[t] = "open"
  /\ job[t] = "void"
  /\ \E x \in DOMAIN ledger : row' = [row EXCEPT ![t] = x]
  /\ pc' = [pc EXCEPT ![t] = "fetched"]
  /\ UNCHANGED <<ledger, lock, job, reads, sum, due, write, raced>>

\* void_entry fetches the row by id; an already voided one is NOTHING (GiveUp).
FetchRow(t) ==
  /\ pc[t] = "open"
  /\ job[t] = "void"
  /\ \E x \in DOMAIN ledger : /\ ledger[x].voidedBy = NoUser
                              /\ row' = [row EXCEPT ![t] = x]
  /\ pc' = [pc EXCEPT ![t] = "fetched"]
  /\ UNCHANGED <<ledger, lock, job, reads, sum, due, write, raced>>

\* may_void: an expense's payer, either side of a settlement, or an admin.
MayVoid(u, e) ==
  \/ u \in Admin
  \/ u = e.actor
  \/ e.kind = "settlement" /\ e.owes[u] > 0

\* mark_voided; anybody else is refused (GiveUp).
VoidRow(t) ==
  /\ pc[t] = "fetched"
  /\ \E u \in User : MayVoid(u, ledger[row[t]]) /\ Buffer(t, [Nothing EXCEPT !.void = row[t], !.by = u])
  /\ UNCHANGED <<reads, row>>

-----------------------------------------------------------------------------

Next == \E t \in Task :
  \/ \E c \in Cmd : Begin(t, c)
  \/ AddExpense(t) \/ ReadSum(t) \/ SettleUp(t) \/ LookUp(t) \/ PayDue(t) \/ SettleAll(t)
  \/ FetchRow(t) \/ VoidRow(t) \/ Commit(t) \/ GiveUp(t)

Spec == Init /\ [][Next]_vars

-----------------------------------------------------------------------------
(* Properties.                                                             *)

TypeOK ==
  /\ ledger \in Seq(Entry)
  /\ lock  \in Task \cup {NoTask}
  /\ pc    \in [Task -> {"idle", "open", "read", "fetched", "written"}]
  /\ job   \in [Task -> Cmd]
  /\ reads \in [Task -> 0..4]
  /\ sum   \in [Task -> [User -> Int]]
  /\ due   \in [Task -> Due \cup {NoDue}]
  /\ row   \in [Task -> Nat]
  /\ write \in [Task -> Write]
  /\ raced \in [Task -> BOOLEAN]

\* The committed balances add up to zero, voids and roundings included: nobody owes
\* or is owed money that no counterparty has.
ZeroSum == Total(Balance) = 0

\* A handler whose lock no Submit bypassed has read exactly the committed balances,
\* though it read them in four statements.
SnapshotExact ==
  \A t \in Task : reads[t] = 4 /\ ~raced[t] => sum[t] = Balance

\* Every map compute_for_group returns adds up to zero (its docstring), with no
\* exception for a Submit that commits between two of its SELECTs.
SnapshotZeroSum == \A t \in Task : reads[t] = 4 => Total(sum[t]) = 0

\* What a tap records as "full amount owed" is all that is suggested between the two,
\* though it was looked up before settle_up read the balances again.
PaysInFull ==
  \A t \in Task : due[t] # NoDue /\ ~raced[t] =>
    due[t].amount = Owed(Balance, due[t].simplify, due[t].from, due[t].to)

NewRows == {ledger'[x] : x \in DOMAIN ledger' \ DOMAIN ledger}

\* A settlement recorded without such a race moves its sender from debt towards
\* zero and its recipient likewise, never past it: a repeated or stale tap cannot
\* overpay.
NeverFlips ==
  [][\A t \in Task : job[t] = "settle" /\ pc[t] = "written" /\ pc'[t] = "idle" /\ ~raced[t] =>
       \A s \in NewRows : \A u \in User :
         /\ u = s.actor    => Balance[u] < 0 /\ Balance'[u] <= 0
         /\ s.owes[u] > 0  => Balance[u] > 0 /\ Balance'[u] >= 0]_vars

\* A settle-all recorded without such a race leaves every balance at zero.
ClearsBoard ==
  [][\A t \in Task : /\ job[t] = "settleall" /\ ~raced[t]
                     /\ pc[t] = "written" /\ pc'[t] = "idle" /\ ledger' # ledger
                     => Balance' = Zero]_vars

\* The ledger is append-only: a row never changes but for one void stamp, which
\* stays with whoever set it first, however many void taps race.
AppendOnly ==
  [][/\ Len(ledger') >= Len(ledger)
     /\ \A x \in DOMAIN ledger :
          \/ ledger'[x] = ledger[x]
          \/ /\ ledger[x].voidedBy = NoUser
             /\ ledger'[x] = [ledger[x] EXCEPT !.voidedBy = ledger'[x].voidedBy]]_vars
=============================================================================
