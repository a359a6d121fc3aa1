\* An order that is closed with every document decided has no step left.
SPECIFICATION Spec
CONSTANTS
    Lines = {l1}
    Invoices = {i1, i2}
    Notes = {c1}
    MaxQty = 2
    MaxLines = 1
    MaxVersion = 2
    MaxReceipts = 2
    MaxRequests = 1
    None = None
SYMMETRY Symmetry
CHECK_DEADLOCK FALSE
INVARIANTS  CreditsWithinInvoice DecisionsFollowEvidence
