SPECIFICATION ObligationsSpec
CONSTANTS
    Contracts = {c1, c2}
    Cases = {k1}
    Snapshots <- ContractTerms
    MaxContractVersions = 3
    MaxApprovals = 1
    MaxTime = 1
    MaxBatch = 1
    UnitCount = 2
    Invoices = {i1, i2}
    Notes = {n1}
    CreditAmount = 3
    MaxAttempts = 2
    MaxTroubled = 1
    MaxByOperator = 1
SYMMETRY Symmetry
INVARIANTS VersionInForceIsSigned CostsSettle
PROPERTIES NoticesBindTheVersionInForce
CHECK_DEADLOCK FALSE
