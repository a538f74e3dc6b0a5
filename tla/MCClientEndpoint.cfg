CONSTANTS
    host = host
    Agents = {p1, p2}
    Endpoint <- SameEndpoint
    MaxRetries = 1
    MaxGen = 2

SPECIFICATION Spec

INVARIANT OneAgentPerEndpoint

CHECK_DEADLOCK FALSE
