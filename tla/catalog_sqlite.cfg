SPECIFICATION Spec
SYMMETRY CategorySymmetry
CONSTANTS
  i1 = i1
  u1 = u1
  u2 = u2
  s1 = s1
  d1 = d1
  Owner = {alice}
  Category = {books, films}
  Request = {u1, u2, s1, d1}
  Instance = {i1}
  At <- OneProcess
  May <- OwnerDeleted
  After <- SearchLast
  ForeignKeys = FALSE
  Docs = 1
  Sections = 1
  Batch = 2
  Limit = 3
  Fallible = {}
  Lagging = TRUE
  Crashing = {}
INVARIANTS Isolation EmbeddingsAgree
