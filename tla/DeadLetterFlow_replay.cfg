SPECIFICATION FairSpec
CONSTANTS
  e1 = e1
  a1 = a1
  h1 = h1
  o1 = o1
  o2 = o2
  i1 = i1
  i2 = i2
  i3 = i3
  NoOne = NoOne
  Nothing = Nothing
  Event <- OneEvent
  Announcement <- OneAnnouncement
  Handler <- OneHandler
  Operator <- TwoOperators
  Id <- ThreeIds
  MaxReceive = 1
  MaxBatch = 2
  MaxMessages = 2
  MaxInterruptions = 1
CHECK_DEADLOCK FALSE
INVARIANTS
  TypeOK
  NothingLost
  CopiesAreInterruptions
PROPERTY ReplayEnds
