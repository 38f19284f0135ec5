SPECIFICATION FairSpec
CONSTANTS
  i1 = i1
  u1 = u1
  u2 = u2
  s1 = s1
  d1 = d1
  Owner = {alice}
  Category = {books}
  Request = {u1, d1}
  Instance = {i1}
  At <- OneProcess
  May <- UploadWithAny
  After <- Concurrent
  ForeignKeys = TRUE
  Docs = 1
  Sections = 2
  Batch = 2
  Limit = 3
  Fallible = {u1, d1}
  Lagging = FALSE
  Crashing = {i1}
INVARIANT OneInitialCentroid
PROPERTY Answered
