SPECIFICATION FairSpec
CONSTANTS
  u1 = u1
  u2 = u2
  c1 = c1
  c2 = c2
  e1 = e1
  e2 = e2
  h1 = h1
  pair1 = pair1
  PairOf <- MCPairOf
  ActionOf <- MCActionOf
  Users = {u1, u2}
  NoChat = NoChat
  WritesFrom <- MCWritesFrom
  Chats = {c1, c2}
  Signals = {e1, e2, h1}
  Pairs = {pair1}
  CallbackTtl = 0
  SentTtl = 0
  Cooldown = 1
  DayLen = 2
  Zone = 1
  HealthTime = 1
  Ways <- MCWays
  Registered <- MCRegistered
  Refused = {}
  MaxNow = 1
  MaxUpdates = 2
  MaxEvents = 2
  MaxFaults = 1
INVARIANTS
  TypeOK
  NoUpdateSkipped
  
  AnswersAreTrue
PROPERTIES
  SavedLimitsHold
  NoButtonLost
  HeartbeatArrives
  SignalArrives
