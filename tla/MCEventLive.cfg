SPECIFICATION FairSpec
CONSTANTS
  Task = {t1, t2, t3}
  Traffic <- ContendedTraffic
  Event = {e1}
  NoEvent = NoEvent
  NoDraft = NoDraft
  NoTask = NoTask
  MaxEntries = 0
PROPERTIES
  HandlersFinish
