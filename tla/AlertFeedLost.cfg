SPECIFICATION Spec
CONSTANTS
  Chats = {c1, c2}
  Rows = {1, 2, 3, 4, 5, 6, 7, 8}
  KindOf <- MCKindOf
  TsOf <- MCTsOf
  GroupOf <- MCGroupOf
  Score <- MCScore
  Size <- MCSize
  Notable <- MCNotable
  Limit = 2
  Factor <- MCFactor
  Ttl = 1
  Reopen = 1
  Cooldown = 1
  MaxVersion = 1
  MaxArrived = 3
  MaxNow = 2
  MaxFaults = 1
INVARIANTS
  PassedIsReceived
