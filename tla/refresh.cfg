SPECIFICATION FairSpec
CONSTANTS
  news = news
  Processes = {p1, p2}
  Categories = {news}
  Batch = 2
  Small = 2
  MaxId = 4
  Stock <- Two
INVARIANTS
  TypeOK
  Filed
  Centred
PROPERTY
  RefreshEnds
CHECK_DEADLOCK FALSE
