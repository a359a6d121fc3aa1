\* An order that is closed or an RFQ that has ended has no step left.
SPECIFICATION SupplySpec
CONSTANTS
    Lines = {l1}
    Receipts = {r1, r2}
    MaxQty = 2
    MaxVersion = 2
    None = None
    Suppliers = {u1, u2}
    PRs = {p1}
    Rfqs = {f1}
    Quotes = {q1, q2, q3}
    AwardRequests = {a1}
    Docs = {d1, d2}
    ObjectKeys = {"k1", "k2"}
    Metadata = {"m1", "m2"}
    MaxDocVersions = 3
SYMMETRY Symmetry
INVARIANTS POInv ReceiptsCountOnce AwardsAreFinal OneOfferPerSupplier FinalDocumentsAreStored
PROPERTY ImplementsProgress
CHECK_DEADLOCK FALSE
