SPECIFICATION FairLogSpec
CONSTANTS
  Writers = {w1, w2}
  Clients = {c1, c2}
  Capacity = 2
  ChanCap = 1
  Backfill = 2
  MaxEntries = 3
CHECK_DEADLOCK FALSE
INVARIANTS
  RecentIsTheLast
  NeverBoth
  MissesAreKnown
  RealTimeOrder
PROPERTY RecordEnds
