SPECIFICATION CustodySpec
CONSTANTS
    Assets = {a1, a2}
    Users = {u1, u2}
    Incoming = {a1}
    Replaced = {a1}
    Retirable = {a1}
    Serviced = {a1}
    OrderTargets = {"OPEN", "CANCELLED"}
    WipeMethods = {"NIST_CLEAR", "NIST_PURGE"}
    MaxWipes = 2
    AdmitsRetired = TRUE
    NoUser = NoUser
    NoAsset = NoAsset
INVARIANTS CustodyAgrees  TrailTellsCustody
SYMMETRY UserSymmetry
CHECK_DEADLOCK FALSE
