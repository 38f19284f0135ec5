SPECIFICATION FairSpec
CONSTANTS
  d1 = d1
  d2 = d2
  d3 = d3
  f1 = f1
  f2 = f2
  t1 = t1
  wiki = wiki
  empty = empty
  lions = lions
  Blank = blank
  General = general
  Docs <- MCDocs
  Categories = {blank, general, wiki}
  Files = {f1, f2}
  Texts = {t1}
  Broken = {f2}
  Queries = {empty, lions}
  NoQuery = empty
  NoText = notext
  Rankings <- MCRankings
  Uploaded <- MCUploaded
  Listed <- MCListed
  itemsPerPage = 2
  Mounts = 1
  MaxEvents = 5
  Undefined = Undefined
  Waiting = Waiting
INVARIANTS TypeOK SpinnerMeansSearch WalkIsComplete HitsBelong SelectedKnown FilesKept SentOnce
PROPERTIES SpinnerStops UploadEnds
CHECK_DEADLOCK FALSE
