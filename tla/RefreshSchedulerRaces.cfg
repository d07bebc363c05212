SPECIFICATION FairSpec
CONSTANTS
  w1 = w1
  w2 = w2
  w3 = w3
  Workers = {w1, w2, w3}
  Manual = {w1}
  NoLease = NoLease
  Gone = Gone
  Ttl = 2
  RenewEvery = 1
  Interval = 2
  Daily = {w2}
  MaxRun = 3
  MaxFaults = 2
INVARIANTS
  TypeOK
  FollowerOwnsNothing
PROPERTIES
  StaleLeaderStepsDown
  SomeoneRefreshes
