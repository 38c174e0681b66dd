CONSTANTS
    Payloads <- MCPayloads
    Contexts <- MCContexts
    MaxVersions = 2
    MaxServed = 2
SPECIFICATION Spec
INVARIANTS Attributable CountsApart CountsTogether
CHECK_DEADLOCK FALSE
