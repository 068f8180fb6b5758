CONSTANT Situations <- MCSituations
CONSTANT Providers <- MCProviders
CONSTANT Interface <- MCInterface
CONSTANT MaxCommands = 4
CONSTANT MaxFaults = 2
SPECIFICATION Spec
INVARIANT WorkstationTypeOK
INVARIANT RunsAreComplete
INVARIANT ReportsAreTrue
INVARIANT SettledIsReachable
INVARIANT TunnelIsOwn
INVARIANT RemovedIsGone
PROPERTY InventoryIsCurrent
PROPERTY HistoryIsKept
PROPERTY OthersAreLeftAlone
PROPERTY DeployedKeysAreSaved
PROPERTY EveryCommandEnds
CHECK_DEADLOCK FALSE
CONSTANT MaxSeconds = 4
