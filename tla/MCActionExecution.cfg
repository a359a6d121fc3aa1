SPECIFICATION FairSpec
CONSTANTS
    i1 = i1  s1 = s1  s2 = s2
    Intents = {i1}
    Sessions = {s1}
    AcceptanceTimeout = 1
    VerifyTime = 0
    MaxTime = 2
    MaxAttempts = 2
    MaxRuntime = 1
    MaxOnline = 1
INVARIANTS
    IInv
    
PROPERTIES
    DispatchedEnds
    AcceptanceIsKept
    OutcomesReachOperators
CHECK_DEADLOCK FALSE
