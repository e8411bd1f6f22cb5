SPECIFICATION Spec
CONSTANTS
    MaxAutomaticRestarts = 2
    MaxGeneration = 3
    MaxTurns = 1
    MaxProcesses = 0
    MaxConfig = 0
INVARIANTS
    FailedTurnAwaitsUser
