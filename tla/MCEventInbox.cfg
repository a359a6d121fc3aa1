SPECIFICATION FairInboxSpec
CONSTANTS
    w1 = w1  w2 = w2
    Workers = {w1, w2}
    Events = {1, 2, 3}
    Poison = {1}
    Limit = 2
    MaxFaults = 2
    Nobody = Nobody
INVARIANTS
    InboxInv
    
PROPERTIES
    HealthyEventsAreApplied
CHECK_DEADLOCK FALSE
