CONSTANTS
    t1 = t1
    t2 = t2
    a1 = a1
    a2 = a2
    c1 = c1
    k1 = k1
    k2 = k2
    k3 = k3
    None = None
    Targets = {t1, t2}
    Assets = {a1, a2}
    Campaigns = {c1}
    Calls = {k1, k2, k3}
    CampaignOf <- MCCampaignOf
    AssetOf <- MCAssetOf
    Order <- MCOrder
    CallerOf <- MCCallerOf
    InitialStage = 25
    MaxAttempts = 2
    Threshold = 60
    StopOnSecurityFailure = TRUE
    Quantity = 1
SPECIFICATION FairSpec
INVARIANTS DeploymentInv
PROPERTIES DispatchIsStillAllowed 
CHECK_DEADLOCK FALSE
