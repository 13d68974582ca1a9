CONSTANTS
    a1 = a1
    a2 = a2
    Ids <- MC_Ids
    MaxConcurrent = 1
    MaxMints = 3
    TokBits = 2
    QueueBound = 1
    Attempts = {0}
    Configs <- MC_Configs
SPECIFICATION Spec
PROPERTY CancelPriority
CHECK_DEADLOCK FALSE
