SPECIFICATION FairSpec
CONSTANTS
  Publishers = {p1, p2}
  Subscribers = {s1}
  HistoryLimit = 2
  Capacity = 2
  MaxEvents = 4
INVARIANTS
  HistoryIsLatest
  EveryEventAccounted
  InOrderPerSource
PROPERTIES
  PublishReturns
  NothingLeaks
CHECK_DEADLOCK FALSE
