SPECIFICATION FairSpec
CONSTANTS
    r1 = r1  r2 = r2  r3 = r3  r4 = r4
    k1 = k1  k2 = k2
    b1 = b1  b2 = b2
    s1 = s1
    Requests = {r1, r2, r3, r4}
    Keys = {k1, k2}
    Bodies = {b1, b2}
    Slots = {s1}
    None = None
    KeyOf <- MCKeyOf
    BodyOf <- MCBodyOf
    SlotOf <- MCSlotOf
INVARIANTS
    IInv
PROPERTIES
    ImplementsCommand
    EveryRequestEnds
CHECK_DEADLOCK FALSE
