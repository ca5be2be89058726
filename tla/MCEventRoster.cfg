SPECIFICATION Spec
CONSTANTS
  Task = {t1, t2}
  NoTask = NoTask
  User = {1, 2}
  NoUser = NoUser
  Author = {1, 2}
  Name <- NoHandles
  Event = {e1}
  NoEvent = NoEvent
  PageSize = 1
  MaxPage = 1
  MaxNamed = 1
INVARIANTS
  TypeOK
  PaintHolds
  FreshTapFlips
PROPERTIES
  NeverBlank
  ImplementsBook
SYMMETRY Symmetry
