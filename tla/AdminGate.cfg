SPECIFICATION FairSpec
CONSTANTS
  Task = {t1, t2, t3}
  NoTask = NoTask
  MaxStream = 2
INVARIANTS
  TypeOK
  FlagExact
PROPERTIES
  SelfHeals
