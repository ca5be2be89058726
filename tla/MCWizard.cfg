SPECIFICATION PacedSpec
CONSTANTS
  Task = {t1, t2}
  Person = {"ann", "bob"}
  Members <- Rosters
  Mode = {"exact", "percent"}
  Cents = {50, 100}
  Number = {50}
  Verb <- AllTaps
INVARIANTS
  TypeOK
  ServiceAccepts
  SelectedInRoster
  OneExpensePerDraft
SYMMETRY Symmetry
