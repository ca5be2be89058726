----------------------------- MODULE MCLedgerTx -----------------------------
(***************************************************************************)
(* Instances of LedgerTx: three people and expenses that leave a cent over *)
(* and make somebody both a payer and a debtor.                            *)
(***************************************************************************)
EXTENDS LedgerTx, TLC

SomeBills == {
  [payer |-> 1, amount |-> 4, mode |-> "equal", params |-> [u \in {1, 2, 3} |-> 0]],
  [payer |-> 2, amount |-> 2, mode |-> "exact", params |-> 3 :> 2]}

Symmetry == Permutations(Task)
=============================================================================
