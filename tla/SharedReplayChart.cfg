SPECIFICATION Spec
CONSTANTS
  MaxTs = 4
  Bars <- MCBars
  NoBar = NoBar
  Day <- MCDays
  TailMinutes = 1
  Overlap = 1
  Cutoff = 0
  Engines = {1}
  States <- EngineStates
  Start <- EngineStart
  Step <- EngineStep
  SignalTs <- PendingSignalTs
  Requests = {"chart"}
  Overlapping = FALSE
  Restarts = FALSE
  From <- MCChartWindow
  Engine = 1
  CheckpointInterval = 1
  Nothing = Nothing
  NoTemp = NoTemp
  NoWatermark = NoWatermark
  MinEdge <- MCMinEdge
  LagMinutes = 1
  MaxWaitMinutes = 1
  Tolerance = 0
  TakeProfit = 1
  SequentialExit = FALSE
  SecondLegWait = 1
  Prices <- MCPrices
  MaxCycles = 2
  Minutes = 4
INVARIANTS
  RefreshIsDeterministic
CHECK_DEADLOCK FALSE
