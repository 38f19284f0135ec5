SPECIFICATION Spec
CONSTANTS
  c1 = c1
  c2 = c2
  k1 = k1
  k2 = k2
  Caller = {c1, c2}
  Key = {k1}
  Question <- OthersOnly
  Asks <- Anything
  Duration = 1
  MaxTime = 4
INVARIANT MapsGuarded
