SPECIFICATION Spec
CONSTANTS
  Task = {t1, t2}
  Traffic <- AllTraffic
  Event = {e1, e2}
  NoEvent = NoEvent
  NoDraft = NoDraft
  NoTask = NoTask
  MaxEntries = 1
PROPERTIES
  ClosedRejectsSubmit
SYMMETRY Symmetry
