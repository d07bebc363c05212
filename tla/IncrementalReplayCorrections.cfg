SPECIFICATION Spec
CONSTANTS
  MaxTs = 3
  Bars <- MCBars
  NoBar = NoBar
  Day <- MCDays1
  TailMinutes = 1
  Overlap = 1
  Cutoff = 0
  Engines <- MCEngines
  States <- EngineStates
  Start <- EngineStart
  Step <- EngineStep
  SignalTs <- PendingSignalTs
  CheckpointInterval = 1
  MaxCorrections = 2
  MaxBackfills = 1
  MaxFaults = 0
  MaxReconfigurations = 1
  NoState = NoState
  NoCheckpoint = NoCheckpoint
  NoWatermark = NoWatermark
  NoFrame = NoFrame
  NoPlan = NoPlan
  NoMutation = NoMutation
  MinEdge <- MCMinEdge
  LagMinutes = 1
  MaxWaitMinutes = 1
  Tolerance = 0
  TakeProfit = 1
  SequentialExit = FALSE
  SecondLegWait = 1
  Prices <- MCPrices
  MaxCycles = 2
  Minutes = 3
INVARIANTS
  SettledCheckpoints
PROPERTIES
  OldCorrectionRebuilds
CHECK_DEADLOCK FALSE
