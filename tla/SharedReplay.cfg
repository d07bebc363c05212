SPECIFICATION Spec
CONSTANTS
  MaxTs = 3
  Bars <- MCBars
  NoBar = NoBar
  Day <- MCDays
  TailMinutes = 1
  Overlap = 1
  Cutoff = 0
  Engines = {1}
  States <- EngineStates
  Start <- EngineStart
  Step <- EngineStep
  SignalTs <- PendingSignalTs
  Requests = {"snapshot"}
  Overlapping = TRUE
  Restarts = TRUE
  From <- MCSameWindow
  Engine = 1
  CheckpointInterval = 1
  Nothing = Nothing
  NoTemp = NoTemp
  NoWatermark = NoWatermark
  MinEdge <- MCMinEdge
  LagMinutes = 1
  MaxWaitMinutes = 1
  Tolerance = 0
  TakeProfit = 1
  SequentialExit = FALSE
  SecondLegWait = 1
  Prices <- MCPrices
  MaxCycles = 2
  Minutes = 3
INVARIANTS
  TypeOK
  CheckpointsAreReplayStates
CHECK_DEADLOCK FALSE
