SPECIFICATION Spec
CONSTANTS
    Conns = {c1}
    Peers <- MCPeers
    Configs <- OneConfig
    Requests <- TwoRequests
    Caps <- MCCaps
    Days = {0, 1, 400}
    Oversized = {}
    MaxKeys = 1
    NoFrame = NoFrame
    BadFrame = BadFrame
    NoConfig = NoConfig
INVARIANTS
    ValidForConfiguredDays
