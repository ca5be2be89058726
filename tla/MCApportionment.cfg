SPECIFICATION Spec
CONSTANTS
  MaxPeople = 3
  Amount <- Amounts
  Param <- Params
INVARIANTS
  TypeOK
  Reconciles
  WithinACent
  Monotone
  ClosedForm
CHECK_DEADLOCK FALSE
