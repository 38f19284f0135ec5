SPECIFICATION Spec
CONSTANTS
  i1 = i1
  u1 = u1
  u2 = u2
  s1 = s1
  d1 = d1
  Owner = {alice}
  Category = {books}
  Request = {u1, s1, d1}
  Instance = {i1}
  At <- OneProcess
  May <- SearchOrDelete
  After <- Concurrent
  ForeignKeys = TRUE
  Docs = 1
  Sections = 1
  Batch = 2
  Limit = 3
  Fallible = {}
  Lagging = FALSE
  Crashing = {}
INVARIANTS TypeOK AckedSearchable DeletedNotServed CompleteSearch
