SPECIFICATION Spec
CONSTANTS
    SolChannels <- TwoSolChannels
    Services <- TwoServices
    Owner <- PerChannelOwner
    InitSol <- InitSolValues
    ProgressInputs = {0, 1, 2}
    EnableInputs = {0, 1}
    PrivInputs = {1, 4, 18}
    AccInputs <- AccPairs
    RetryInputs <- RetryPairs
    BaudValues <- Bauds
    MaxFailures = 1
VIEW StateView
INVARIANT CacheServesRunningService
