SPECIFICATION FairSpec
CONSTANTS
  MaxTs = 5
  Bars <- MCBars
  NoBar = NoBar
  Day <- MCDays2
  TailMinutes = 2
  Overlap = 1
  Cutoff = 1
  Engines <- MCEngines
  States <- EngineStates
  Start <- EngineStart
  Step <- EngineStep
  SignalTs <- PendingSignalTs
  CheckpointInterval = 1
  MaxCorrections = 0
  MaxBackfills = 0
  MaxFaults = 2
  MaxReconfigurations = 0
  NoState = NoState
  NoCheckpoint = NoCheckpoint
  NoWatermark = NoWatermark
  NoFrame = NoFrame
  NoPlan = NoPlan
  NoMutation = NoMutation
  MinEdge <- MCMinEdge
  LagMinutes = 1
  MaxWaitMinutes = 1
  Tolerance = 0
  TakeProfit = 1
  SequentialExit = TRUE
  SecondLegWait = 1
  Prices <- MCPrices
  MaxCycles = 2
  Minutes = 5
INVARIANTS
  TypeOK
  OutputIsReplay
  CheckpointsAgree
PROPERTIES
  PublishesTheStore
  LatestNeverRewinds
  ImplementsPublishedReplay
  CatchesUp
CHECK_DEADLOCK FALSE
