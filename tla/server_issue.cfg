SPECIFICATION Spec
CONSTANTS
    Conns = {c1}
    Peers <- MCPeers
    Configs <- MCConfigs
    Requests <- MCRequests
    Caps <- MCCaps
    Days = {700}
    Oversized <- LargeOrQuoted
    MaxKeys = 3
    NoFrame = NoFrame
    BadFrame = BadFrame
    NoConfig = NoConfig
INVARIANTS
    TypeOK
    IssuedToOwner
    ClaimIsPolicy
