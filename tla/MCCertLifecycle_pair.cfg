SPECIFICATION Spec
CONSTANTS
    MaxKeys <- MCMaxKeys
    MaxCa <- MCMaxCa
    MaxCrashes = 1
    WritesFail = FALSE
    GatewayHttps = TRUE
    SlugSet = FALSE
INVARIANT PairConsistent
CHECK_DEADLOCK FALSE
