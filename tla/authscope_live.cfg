SPECIFICATION AuthFairSpec
CONSTANTS
    Conns = {"front", "other"}
    Guests = {"front"}
    Cid <- MCCid
    AgentConfigs <- OwnAgent
    MaxFaults = 1
    Peers <- TwoPeers
    Configs <- Endless
    Requests <- TwoRequests
    Caps <- MCCaps
    Days = {700}
    Oversized <- Large
    MaxKeys = 2
    NoFrame = NoFrame
    BadFrame = BadFrame
    NoConfig = NoConfig
    NoPem = NoPem
PROPERTIES
    AgentsSettle
    Provisioned
    RequestSettles
    EntitledServed
