CONSTANTS
    Threads = {1, 2}
    Vfpgas = {1, 2}
    None = 0
    Transfers = 3
    Runs = 2
    CMD_FIFO_DEPTH = 2
    CMD_FIFO_THR = 1
    NUM_GPUS = 2
    MaxKills = 1
    Scenarios <- MCScenarios
SPECIFICATION Spec
CHECK_DEADLOCK FALSE
INVARIANTS
    BuffersOutliveTransfers
    CompletedMeansLanded
    TurnsKeepCommandsApart

    
