SPECIFICATION Spec
CONSTANTS
    gateway = gateway
    rotated = rotated
    public = public
    private = private
    other = other
    platformCA = platformCA
    nextCA = nextCA
    publicCA = publicCA
    privateCA = privateCA
    otherCA = otherCA
    Nobody = Nobody
    Peers <- MCPeers
    Public <- MCPublic
    Private <- MCPrivate
    Pinned <- MCPinned
    CAs <- MCCAs
    Issuer <- MCIssuer
    Platform <- MCPlatform
    Hands <- MCHands
    MaxPosts = 2
INVARIANT GuardsArmedTogether
