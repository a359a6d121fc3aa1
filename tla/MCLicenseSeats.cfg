CONSTANTS
    t1 = t1
    t2 = t2
    a1 = a1
    a2 = a2
    Entitlements = {e1}
    Targets <- MCTargets
    Assets <- MCAssets
    AssetOf <- MCAssetOf
    Users = {u1}
    Assignments = {x1, x2}
    Sessions = {s1, s2}
    MaxQuantity = 2
    None = None
SPECIFICATION Spec
SYMMETRY MCSymmetry
INVARIANT IInv
PROPERTY ImplementsLedger
