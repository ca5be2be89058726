--------------------------- MODULE Apportionment ----------------------------
(***************************************************************************)
(* compute_shares and the loops of apportion, one step per iteration: sum  *)
(* the weights, take each participant's floor and remainder, then hand the *)
(* left-over cents out along the sorted remainders.                        *)
(*                                                                         *)
(* Participants are 1..n in id order; the order in which the dict lists    *)
(* them does not matter to the loops.  Python integers do not overflow.    *)
(***************************************************************************)
EXTENDS Integers, Sequences, FiniteSets, Split

CONSTANTS
  MaxPeople,  \* bound: participants of one expense
  Amount,     \* the amounts tried, in cents
  Param       \* the split parameters tried: cents, percents or weights

ASSUME AmountAssumption == Amount \subseteq Nat \ {0}
ASSUME ParamAssumption  == Param \subseteq Nat
ASSUME PeopleAssumption == MaxPeople \in Nat \ {0}

VARIABLES
  amount, mode, params,  \* the command
  weights,  \* apportion's argument
  phase,    \* "call", "sum", "floor", "extra", "done" or "rejected"
  k,        \* iterations done in this phase
  upto,     \* upto[j]: the weights of the first j participants (sum's partial results)
  shares,   \* the result under construction
  rems,     \* each participant's remainder
  allocated,\* cents handed out so far
  line      \* the participants in the order remainders.sort puts them

command == <<amount, mode, params>>
vars    == <<command, weights, phase, k, upto, shares, rems, allocated, line>>

n      == Len(params)
People == 1..n
Zeros  == [j \in People |-> 0]
total  == upto[n]

Init ==
  /\ amount \in Amount
  /\ mode \in {"equal", "weighted", "percent", "exact"}
  /\ \E m \in 1..MaxPeople : params \in [1..m -> Param]
  /\ weights = Zeros
  /\ phase = "call"
  /\ k = 0
  /\ upto = [j \in 0..n |-> 0]
  /\ shares = Zeros
  /\ rems = Zeros
  /\ allocated = 0
  /\ line = << >>

\* sum(weights.values()), one addition per step; for percent and exact it is the
\* check of compute_shares, for apportion its total.
AddWeight ==
  /\ phase = "sum" /\ k < n
  /\ k' = k + 1
  /\ upto' = [upto EXCEPT ![k + 1] = upto[k] + weights[k + 1]]
  /\ UNCHANGED <<command, weights, phase, shares, rems, allocated, line>>

\* match mode: an equal split weighs everybody 1.
Call ==
  /\ phase = "call"
  /\ phase' = "sum"
  /\ weights' = IF mode = "equal" THEN [j \in People |-> 1] ELSE params
  /\ UNCHANGED <<command, k, upto, shares, rems, allocated, line>>

Summed == phase = "sum" /\ k = n

\* percentages must sum to 100, exact shares to the amount, weights to something.
Reject ==
  /\ Summed
  /\ \/ mode = "percent" /\ total # 100
     \/ mode = "exact" /\ total # amount
     \/ mode = "weighted" /\ total <= 0
  /\ phase' = "rejected"
  /\ UNCHANGED <<command, weights, k, upto, shares, rems, allocated, line>>

\* Exact shares are returned as they are.
ReturnExact ==
  /\ Summed
  /\ mode = "exact" /\ total = amount
  /\ phase' = "done"
  /\ shares' = params
  /\ allocated' = total
  /\ UNCHANGED <<command, weights, k, upto, rems, line>>

\* Mutant of StartFloors: percentages that do not add up to 100 are let through.
StartFloorsUnchecked ==
  /\ Summed
  /\ mode # "exact"
  /\ total > 0
  /\ phase' = "floor"
  /\ k' = 0
  /\ UNCHANGED <<command, weights, upto, shares, rems, allocated, line>>

StartFloors ==
  /\ Summed
  /\ mode # "exact"
  /\ mode = "percent" => total = 100
  /\ total > 0
  /\ phase' = "floor"
  /\ k' = 0
  /\ UNCHANGED <<command, weights, upto, shares, rems, allocated, line>>

\* Mutant of TakeFloor: quotients rounded up.
TakeCeiling ==
  LET exact == amount * weights[k + 1] IN
  /\ phase = "floor" /\ k < n
  /\ k' = k + 1
  /\ shares' = [shares EXCEPT ![k + 1] = exact \div total + 1]
  /\ rems'   = [rems EXCEPT ![k + 1] = (exact % total) - total]
  /\ allocated' = allocated + exact \div total + 1
  /\ UNCHANGED <<command, weights, phase, upto, line>>

TakeFloor ==
  LET exact == amount * weights[k + 1] IN
  /\ phase = "floor" /\ k < n
  /\ k' = k + 1
  /\ shares' = [shares EXCEPT ![k + 1] = exact \div total]
  /\ rems'   = [rems EXCEPT ![k + 1] = exact % total]
  /\ allocated' = allocated + exact \div total
  /\ UNCHANGED <<command, weights, phase, upto, line>>

\* Mutant of Earlier: ties against the id order.
EarlierByLastId(i, j) == rems[i] > rems[j] \/ (rems[i] = rems[j] /\ i > j)

\* key=lambda r: (-r[0], r[1])
Earlier(i, j) == rems[i] > rems[j] \/ (rems[i] = rems[j] /\ i < j)

SortRemainders ==
  /\ phase = "floor" /\ k = n
  /\ phase' = "extra"
  /\ k' = 0
  /\ line' \in {p \in [People -> People] : \A i, j \in People : i < j => Earlier(p[i], p[j])}
  /\ UNCHANGED <<command, weights, upto, shares, rems, allocated>>

\* Mutant of GiveCent: the same person gets every left-over cent.
GiveCentToFirst ==
  /\ phase = "extra" /\ k < n /\ allocated < amount
  /\ k' = k + 1
  /\ shares' = [shares EXCEPT ![line[1]] = @ + 1]
  /\ allocated' = allocated + 1
  /\ UNCHANGED <<command, weights, phase, upto, rems, line>>

\* Mutant of GiveCent: the cent is counted but not added to a share.
GiveCentLost ==
  /\ phase = "extra" /\ k < n /\ allocated < amount
  /\ k' = k + 1
  /\ allocated' = allocated + 1
  /\ UNCHANGED <<command, weights, phase, upto, shares, rems, line>>

\* remainders[: amount_cents - allocated]: the slice ends at the list's end.  The
\* code takes it once; amount - allocated shrinks here as k grows.
GiveCent ==
  /\ phase = "extra" /\ k < n /\ allocated < amount
  /\ k' = k + 1
  /\ shares' = [shares EXCEPT ![line[k + 1]] = @ + 1]
  /\ allocated' = allocated + 1
  /\ UNCHANGED <<command, weights, phase, upto, rems, line>>

Return ==
  /\ phase = "extra" /\ (k = n \/ allocated >= amount)
  /\ phase' = "done"
  /\ UNCHANGED <<command, weights, k, upto, shares, rems, allocated, line>>

Next == \/ Call \/ AddWeight \/ Reject \/ ReturnExact \/ StartFloors \/ TakeFloor
        \/ SortRemainders \/ GiveCent \/ Return

Spec == Init /\ [][Next]_vars

-----------------------------------------------------------------------------

TypeOK ==
  /\ amount \in Amount
  /\ mode \in {"equal", "weighted", "percent", "exact"}
  /\ \E m \in 1..MaxPeople : params \in [1..m -> Param]
  /\ phase \in {"call", "sum", "floor", "extra", "done", "rejected"}
  /\ k \in 0..n
  /\ weights \in [People -> Nat]
  /\ upto \in [0..n -> Nat]
  /\ shares \in [People -> Nat]
  /\ rems \in [People -> Nat]
  /\ allocated \in Nat
  /\ line \in {<< >>} \cup [People -> People]

\* Every cent of the expense is somebody's share, none is invented: the recorded
\* shares always add up to the amount, whatever the rounding.
Reconciles == phase = "done" => Total(shares) = amount

\* Nobody gains or loses a whole cent against the exact proportional share, so in
\* particular a zero weight owes nothing.
WithinACent ==
  phase = "done" /\ mode # "exact" =>
    \A j \in People : LET error == shares[j] * total - amount * weights[j]
                      IN  -total < error /\ error < total

\* A larger weight never owes less, and of equal weights the lower id owes the
\* extra cent: rounding is fair and deterministic.
Monotone ==
  phase = "done" =>
    \A i, j \in People :
      weights[i] > weights[j] \/ (weights[i] = weights[j] /\ i < j) => shares[i] >= shares[j]

\* The loop computes the closed form the ledger model uses, and rejects exactly
\* the splits that do not add up.
ClosedForm ==
  /\ phase = "done" => /\ Valid(amount, mode, params)
                       /\ shares = Shares(amount, mode, params)
  /\ phase = "rejected" => ~Valid(amount, mode, params)
=============================================================================
