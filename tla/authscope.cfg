SPECIFICATION AuthSpec
CONSTANTS
    Conns = {"front", "back"}
    Guests = {"front", "back"}
    Cid <- MCCid
    AgentConfigs <- MCAgents
    MaxFaults = 1
    Peers <- MCPeers
    Configs <- MCPolicies
    Requests <- TwoRequests
    Caps <- MCCaps
    Days = {700}
    Oversized = {BadFrame}
    MaxKeys = 2
    NoFrame = NoFrame
    BadFrame = BadFrame
    NoConfig = NoConfig
    NoPem = NoPem
INVARIANTS
    AuthTypeOK
    AcceptedWasGranted
PROPERTIES
    AgentsKeepFiles
