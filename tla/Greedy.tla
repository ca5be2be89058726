------------------------------- MODULE Greedy -------------------------------
(***************************************************************************)
(* _greedy_transfers for one currency: the two-pointer loop that matches   *)
(* debtors to creditors, one step per iteration.  Every balance map is an  *)
(* input, those that do not sum to zero included: a caller may hand it one *)
(* (see LedgerTx).                                                         *)
(***************************************************************************)
EXTENDS Integers, Sequences, Transfers

CONSTANTS
  User,    \* user ids in id order
  MaxCents \* bound: the largest balance tried, in cents

ASSUME UserAssumption == User \subseteq Nat /\ IsFiniteSet(User)
ASSUME CentsAssumption == MaxCents \in Nat

VARIABLES
  balances, \* the argument
  byAmount, \* the match order: the simplify toggle
  debtors, creditors, \* the ordered parties
  owes, gets, \* what each party has remaining, by position
  i, j,     \* the two pointers
  transfers \* the transfers emitted so far

input == <<balances, byAmount, debtors, creditors>>
greedyVars == <<input, owes, gets, i, j, transfers>>

\* The lists `sorted` can return for one side.
Ordered(party) ==
  {s \in [1..Cardinality(party) -> party] :
     \A a, b \in DOMAIN s : a < b => Before(balances, byAmount, s[a], s[b])}

GreedyInit ==
  /\ balances \in [User -> -MaxCents..MaxCents]
  /\ byAmount \in BOOLEAN
  /\ debtors \in Ordered(Debtors(balances))
  /\ creditors \in Ordered(Creditors(balances))
  /\ owes = [a \in DOMAIN debtors |-> -balances[debtors[a]]]
  /\ gets = [b \in DOMAIN creditors |-> balances[creditors[b]]]
  /\ i = 1
  /\ j = 1
  /\ transfers = << >>

Running == i <= Len(debtors) /\ j <= Len(creditors)

\* Mutant of Pay: the debtor's side alone.
PayDebt == owes[i]

\* pay = min(debtors[i].remaining, creditors[j].remaining)
Pay == IF owes[i] <= gets[j] THEN owes[i] ELSE gets[j]

\* Mutant of Match: pay a cent at a time.
MatchByCents ==
  /\ Running
  /\ transfers' = Append(transfers, [from |-> debtors[i], to |-> creditors[j], amount |-> 1])
  /\ owes' = [owes EXCEPT ![i] = @ - 1]
  /\ gets' = [gets EXCEPT ![j] = @ - 1]
  /\ i' = IF owes[i] = 1 THEN i + 1 ELSE i
  /\ j' = IF gets[j] = 1 THEN j + 1 ELSE j
  /\ UNCHANGED input

\* Mutant of Match: the pointers never move.
MatchForever ==
  /\ Running
  /\ UNCHANGED greedyVars

Match ==
  /\ Running
  /\ transfers' = Append(transfers, [from |-> debtors[i], to |-> creditors[j], amount |-> Pay])
  /\ owes' = [owes EXCEPT ![i] = @ - Pay]
  /\ gets' = [gets EXCEPT ![j] = @ - Pay]
  /\ i' = IF owes[i] = Pay THEN i + 1 ELSE i
  /\ j' = IF gets[j] = Pay THEN j + 1 ELSE j
  /\ UNCHANGED input

GreedySpec == GreedyInit /\ [][Match]_greedyVars
FairGreedySpec == GreedySpec /\ WF_greedyVars(Match)

-----------------------------------------------------------------------------

\* A greedy transfer never exceeds either side's balance, so paying one, or less,
\* flips nobody from debtor to creditor; and it is never empty.
NeverExceeds ==
  \A x \in DOMAIN transfers :
    LET t == transfers[x]
    IN  0 < t.amount /\ t.amount <= -balances[t.from] /\ t.amount <= balances[t.to]

\* At most one transfer per pair: the lookup by pair in suggested_owed is
\* unambiguous.
OnePerPair ==
  \A x, y \in DOMAIN transfers :
    transfers[x].from = transfers[y].from /\ transfers[x].to = transfers[y].to => x = y

\* Fewer transfers than there are parties.
Few == transfers # << >> => Len(transfers) < Len(debtors) + Len(creditors)

Paid(u) == Sum([x \in {y \in DOMAIN transfers : transfers[y].from = u} |-> transfers[x].amount])
Got(u)  == Sum([x \in {y \in DOMAIN transfers : transfers[y].to = u} |-> transfers[x].amount])

\* The loop computes the closed form; with balances that sum to zero it settles
\* everybody, and otherwise at least one whole side.
MatchesTransfers ==
  ~Running =>
    /\ {transfers[x] : x \in DOMAIN transfers} = Suggested(balances, byAmount)
    /\ \/ \A u \in Debtors(balances) : Paid(u) = -balances[u]
       \/ \A u \in Creditors(balances) : Got(u) = balances[u]
    /\ Sum(balances) = 0 =>
         \A u \in User : balances[u] + Paid(u) - Got(u) = 0

\* The loop ends: each iteration finishes with a party.
Terminates == <>~Running
=============================================================================
