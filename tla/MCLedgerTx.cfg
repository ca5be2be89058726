SPECIFICATION Spec
CONSTANTS
  Task = {t1, t2}
  NoTask = NoTask
  User = {1, 2, 3}
  NoUser = NoUser
  Admin = {1}
  Bill <- SomeBills
  MaxEntries = 3
INVARIANTS
  TypeOK
  ZeroSum
  SnapshotExact
  PaysInFull
PROPERTIES
  NeverFlips
  ClearsBoard
  AppendOnly
SYMMETRY Symmetry
