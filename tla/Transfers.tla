----------------------------- MODULE Transfers ------------------------------
(***************************************************************************)
(* The suggested transfers of a balance map in closed form.  Lay the debts *)
(* end to end in their order, and the credits likewise: a debtor owes a    *)
(* creditor the overlap of their two intervals.  Users are natural numbers *)
(* ordered as their ids are; a balance map is a function from users to     *)
(* cents of one currency, negative for a debtor.                           *)
(***************************************************************************)
EXTENDS Integers, FiniteSetsExt

Sum(f) == SumFunction(f)

Debtors(bal)   == {u \in DOMAIN bal : bal[u] < 0}
Creditors(bal) == {u \in DOMAIN bal : bal[u] > 0}

Size(bal, u) == IF bal[u] < 0 THEN -bal[u] ELSE bal[u]

\* ordered: by amount, largest first, then id when simplifying; else by id alone.
Before(bal, simplify, u, v) ==
  IF simplify /\ Size(bal, u) # Size(bal, v)
    THEN Size(bal, u) > Size(bal, v)
    ELSE u < v

\* Where u's interval starts among the parties of its side.
Lower(bal, simplify, side, u) ==
  Sum([v \in {w \in side : Before(bal, simplify, w, u)} |-> Size(bal, v)])

Upper(bal, simplify, side, u) == Lower(bal, simplify, side, u) + Size(bal, u)

\* suggested_owed: what d is suggested to pay c, 0 when no transfer joins them.
Owed(bal, simplify, d, c) ==
  IF d \in Debtors(bal) /\ c \in Creditors(bal)
    THEN Max({0, Min({Upper(bal, simplify, Debtors(bal), d), Upper(bal, simplify, Creditors(bal), c)})
                   - Max({Lower(bal, simplify, Debtors(bal), d), Lower(bal, simplify, Creditors(bal), c)})})
    ELSE 0

\* The transfers between distinct users, as a set: one per pair.
Suggested(bal, simplify) ==
  {[from |-> p[1], to |-> p[2], amount |-> Owed(bal, simplify, p[1], p[2])] :
     p \in {q \in Debtors(bal) \X Creditors(bal) : Owed(bal, simplify, q[1], q[2]) > 0}}
=============================================================================
