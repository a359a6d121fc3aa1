SPECIFICATION OperationsSpec
CONSTANTS
    Agents = {g1, g2}
    Sockets = {s1}
    EnrollKeys = {k1}
    MaxTokens = 2
    MaxCreds = 2
    MaxIssuances = 2
    Rules = {r1, r2}
    Events = {e1}
    Actions = {"restart", "stop"}
    Bodies <- RuleBodies
    KillScopes = {"*"}
    GrantScopes = {"SITE"}
    MaxVersions = 1
    MaxPolicies = 1
    MaxRequests = 1
SYMMETRY Symmetry
INVARIANTS CredentialsAreAccounted CutOffEndsSessions ConflictsExcludeEachOther ApprovedContentRuns
PROPERTIES NoEffectAfterCutOff ReadyIsSanctioned
CHECK_DEADLOCK FALSE
