SPECIFICATION Spec
CONSTANTS
    Grants <- MCGrants
    Days = {0}
    PayloadSizes <- MCPayloadSizes
    Cas = {c1, c2}
    NoPem = NoPem
    Calls <- MCCalls
    Paths <- MCPaths
    Claimed <- MCClaimed
    Forms <- MCForms
    UsizeRange <- MCUsizeRange
INVARIANTS
    ReadBack
    LibrariesAgree
    CallsAsGranted
    PathsAsGranted
CHECK_DEADLOCK FALSE
