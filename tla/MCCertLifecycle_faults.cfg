SPECIFICATION Spec
CONSTANTS
    MaxKeys <- MCMaxKeys
    MaxCa <- MCMaxCa
    MaxCrashes = 2
    WritesFail = TRUE
    GatewayHttps = FALSE
    SlugSet = TRUE
INVARIANTS
    TypeOK
    DiskKeyCertified
    AnchorPinned
    RestartRecovers
PROPERTIES
    NoHttpOncePinned
CHECK_DEADLOCK FALSE
