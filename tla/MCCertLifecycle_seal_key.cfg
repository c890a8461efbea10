SPECIFICATION Spec
CONSTANTS
    MaxKeys <- MCMaxKeys
    MaxCa <- MCMaxCa
    MaxCrashes = 0
    WritesFail = FALSE
    GatewayHttps = TRUE
    SlugSet = FALSE
INVARIANT SealKeyIsServedKey
CHECK_DEADLOCK FALSE
