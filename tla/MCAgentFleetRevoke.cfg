SPECIFICATION FleetSpec
CONSTANTS
    Agents = {g1}
    Sockets = {s1}
    EnrollKeys = {k1}
    MaxTokens = 1
    MaxCreds = 2
    MaxIssuances = 2
PROPERTY RevocationIsImmediate
CHECK_DEADLOCK FALSE
