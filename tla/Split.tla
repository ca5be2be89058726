------------------------------- MODULE Split --------------------------------
(***************************************************************************)
(* What compute_shares promises, in closed form.  Users are natural        *)
(* numbers ordered as their ids are; a split is a function from the        *)
(* participants to cents.  Apportionment runs the code's loop and is       *)
(* checked against this; LedgerTx files expenses with it.                  *)
(***************************************************************************)
EXTENDS Integers, FiniteSets, Functions

Total(f) == SumFunction(f)

Floor(amount, w, k) == (amount * w[k]) \div Total(w)
Rem(amount, w, k)   == (amount * w[k]) % Total(w)

\* The cents the floors leave over.
LeftOver(amount, w) == amount - Total([k \in DOMAIN w |-> Floor(amount, w, k)])

\* remainders.sort: the larger remainder first, ties by id.
Ahead(r, j, k) == r[j] > r[k] \/ (r[j] = r[k] /\ j < k)

\* apportion: the floors, and one cent more for the first LeftOver in line.
Apportion(amount, w) ==
  LET r == [k \in DOMAIN w |-> Rem(amount, w, k)]
      Place(k) == Cardinality({j \in DOMAIN w : Ahead(r, j, k)})
  IN  [k \in DOMAIN w |-> Floor(amount, w, k)
                            + (IF Place(k) < LeftOver(amount, w) THEN 1 ELSE 0)]

Equally(people) == [u \in people |-> 1]

\* The splits compute_shares accepts rather than rejects with a DomainError.
Valid(amount, mode, w) ==
  CASE mode = "equal"    -> DOMAIN w # {}
    [] mode = "weighted" -> Total(w) > 0
    [] mode = "percent"  -> Total(w) = 100
    [] mode = "exact"    -> Total(w) = amount

Shares(amount, mode, w) ==
  CASE mode = "equal" -> Apportion(amount, Equally(DOMAIN w))
    [] mode = "exact" -> w
    [] OTHER          -> Apportion(amount, w)
=============================================================================
