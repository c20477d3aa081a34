\* Two lives, a signal or a crash at any time.
SPECIFICATION FairSpec
CONSTANTS
    Partitions = {1}
    Log <- MCLog
    Envs <- MCEnvs
    MaxLives = 2
INVARIANTS TypeOK RowsArchived NothingVanishes ReportsTrue FinalMetricsComplete
PROPERTIES ShutdownEnds ComesUp
