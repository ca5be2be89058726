SPECIFICATION Spec
CONSTANTS
  Task = {t1, t2}
  NoTask = NoTask
  Person = {p1, p2}
  NoPerson = NoPerson
  Handle = {h1}
  NoHandle = NoHandle
  Group = {g1, g2}
  MaxRows = 2
INVARIANTS
  TypeOK
  OneMembership
  OneRowEach
PROPERTIES
  ClaimIsLocal
SYMMETRY Symmetry
