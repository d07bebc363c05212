SPECIFICATION FairSpec
CONSTANTS
  u1 = u1
  u2 = u2
  c1 = c1
  c2 = c2
  e1 = e1
  e2 = e2
  h1 = h1
  pair1 = pair1
  PairOf <- MCPairOf
  ActionOf <- MCActionOf
  Users = {u1}
  NoChat = NoChat
  WritesFrom <- MCWritesFrom
  Chats = {c1}
  Signals = {e1}
  Pairs = {pair1}
  CallbackTtl = 1
  SentTtl = 1
  Cooldown = 1
  DayLen = 2
  Zone = 0
  HealthTime = 0
  Registered <- MCRegistered
  Ways <- MCWays
  Refused = {2}
  MaxNow = 1
  MaxUpdates = 2
  MaxEvents = 1
  MaxFaults = 0
PROPERTIES
  HeartbeatArrives
