SPECIFICATION Spec
CONSTANTS
  Pairs = {1, 2}
  Mult <- MCMult
  Expiry <- MCExpiry
  MaxPairs = 2
  SoftDays = {0, 1}
  MinDte = 2
  CloseBuffer = 1
  HoldDays = 2
  StopLoss = 10
  TakeProfit = 10
  LiqStreak = 2
  MaxContracts = 2
  Band = 20
  Quotes <- MCQuotes
  Limits <- MCLimits
  Cash = 64
  MaxDrawdown = 20
  MaxDay = 2
  MaxCalls = 4
  MaxFaults = 1
INVARIANTS
  TypeOK
  BooksAgree
  LogsAreAhead
  EachOrderOnce
  NeverShort
  HedgeRestored
  TurnoverHeld
  UnhedgedIsAlerted
CHECK_DEADLOCK FALSE
