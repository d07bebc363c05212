SPECIFICATION FairSpec
CONSTANTS
  Chats = {c1, c2}
  Rows = {1, 2, 3, 4, 5, 6, 7, 8}
  KindOf <- MCKindOf
  TsOf <- MCTsOf
  GroupOf <- MCGroupOf
  Score <- MCScore
  Size <- MCSize
  Notable <- MCNotable
  Limit = 1
  Factor <- MCFactor
  Ttl = 1
  Reopen = 1
  Cooldown = 1
  MaxVersion = 1
  MaxArrived = 3
  MaxNow = 2
  MaxFaults = 1
INVARIANTS
  TypeOK
  RootCursorRespectsLimit
  EpisodesHold
PROPERTIES
  AlertsAreNotRepeated
  RootIsTried
