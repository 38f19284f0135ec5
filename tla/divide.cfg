SPECIFICATION FairSpec
CONSTANTS
  Row = {r1, r2, r3}
  Target = 1
  SplitSize = 2
  SampleSize = 4
  Parallel = 2
  EmptyLevels = 1
INVARIANTS TypeOK ClosedByTheLast EveryRowOnce
PROPERTIES Terminates ImplementsPartitioning
