CONSTANTS
    a1 = a1
    a2 = a2
    Ids <- MC_Ids
    MaxConcurrent = 1
    MaxMints = 3
    TokBits = 2
    QueueBound = 1
    Attempts = {0}
    Configs <- MC_Configs
SPECIFICATION Spec
SYMMETRY MC_Symmetry
VIEW MC_View
INVARIANT TypeOK PermitAccounting CurrentToken BackoffExclusive QueuedHasFreshToken TokensInjective
PROPERTY MintedTokenUnused
CHECK_DEADLOCK FALSE
