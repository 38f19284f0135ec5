SPECIFICATION FairSpec
CONSTANTS
  c1 = c1
  c2 = c2
  k1 = k1
  k2 = k2
  Caller = {c1, c2}
  Key = {k1, k2}
  Question <- OwnersAndCategory
  Asks <- InPart
  Duration = 1
  MaxTime = 3
INVARIANTS TypeOK OwnerGuarded HandlersGuarded
PROPERTIES FreshOwnersStay ImplementsMemo Answered SweepsEnd
