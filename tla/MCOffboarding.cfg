SPECIFICATION OffSpec
CONSTANTS
    Assets = {a1}
    Users = {u1, u2}
    Incoming = {}
    Replaced = {}
    Retirable = {}
    Serviced = {}
    OrderTargets = {}
    WipeMethods = {}
    MaxWipes = 0
    AdmitsRetired = TRUE
    NoUser = NoUser
    NoAsset = NoAsset
    Leaver = u1
    MaxCrashes = 1
  
PROPERTY LostRequestIsFound
CHECK_DEADLOCK FALSE
