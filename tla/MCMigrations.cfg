SPECIFICATION FairSpec
CONSTANTS
    Files <- MCFiles
    Creates <- MCCreates
    Drops <- MCDrops
    Tolerant = {1}
    Procs = {p1, p2}
    MaxBatch = 2
    MaxStops = 1
    MaxMoves = 1
INVARIANTS
    AppliedWhenRecorded
    LeftoversExplained
PROPERTIES
    BatchIsRun
    RollbackUndoesNewest
    RetryCompletes
