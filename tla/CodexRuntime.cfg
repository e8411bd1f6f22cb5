SPECIFICATION FairSpec
CONSTANTS
    MaxAutomaticRestarts = 2
    MaxGeneration = 3
    MaxTurns = 1
    MaxProcesses = 1
    MaxConfig = 1
INVARIANTS
    NoOrphanProcess
    ReadyRunsCurrentConfig
PROPERTIES
    StartSettles
    KeepsLifecycle
