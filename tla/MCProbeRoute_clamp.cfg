SPECIFICATION Spec
CONSTANTS
    j1 = j1
    j2 = j2
    p1 = p1
    p2 = p2
    h1 = h1
    a = a
    b = b
    None = None
    Mask = Mask
    Letters <- MCLetters
    Runs <- MCRuns
    PoolThreads <- MCPoolThreads
    DefaultThreads <- MCDefaultThreads
    EgressEnabled = TRUE
    Hosts <- MCHosts
    Secrets <- MCSecrets
    Bodies <- MCBodies
    CallsOf <- MCCallsOf
    MaxCalls = 2
    MaxExchanges = 2
    MinBudget = 2
    MaxBudget = 2
    Halves <- MCHalves
    Dispatches <- MCDispatches
SYMMETRY Symmetry
INVARIANT EveryNumberRuns
CHECK_DEADLOCK FALSE
