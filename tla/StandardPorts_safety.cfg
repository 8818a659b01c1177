SPECIFICATION StandardSpec
CONSTANTS
  SignalConfigs <- MCSignalConfigs
  Digital <- MCDigital
  Selectors <- MCSelectors
  SelectorPosition <- MCPosition
  ErrorState <- MCErrorState
  SceneFiles <- MCSceneFiles
  WorkOrder <- MCOrder
  FaderConfigs <- MCFaderConfigs
  FileConfigs <- MCFileConfigs
  AggregatorConfigs <- MCAggregatorConfigs
  SourceValues <- MCSourceValues
  ExprConfigs <- MCExprConfigs
  Logged = 2
  LogInterval = 1
  HasFallback = TRUE
  TestConfigs <- MCTestConfigs
  Events = {1, 2}
  Patterns <- MCPatterns
INVARIANTS
  StandardInv
PROPERTIES
  EdgesCounted
  ComesToRest
  PulseFollows
  SelectionsSettle
  FadeRuns
  ContentCounts
  ExpressionsRun
  IntervalsKept
