SPECIFICATION Spec
CONSTANTS
    Grants <- MCGrants
    Days = {0, 1}
    PayloadSizes <- MCPayloadSizes
    Cas = {c1, c2}
    NoPem = NoPem
    Calls <- MCCalls
    Paths <- MCPaths
    Claimed <- MCClaimed
    Forms <- MCForms
    UsizeRange <- MCUsizeRange
INVARIANTS
    AcceptedUnexpired
CHECK_DEADLOCK FALSE
