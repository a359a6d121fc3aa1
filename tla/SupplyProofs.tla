---------------------------- MODULE SupplyProofs ----------------------------
(***************************************************************************)
(* What holds of every order with its receipts, of every request for       *)
(* quotation, of every commercial document, of every contract with its     *)
(* renewals and of the cost of the assets a receipt created, for any       *)
(* number of lines, receipts, quantities, suppliers, quotations,           *)
(* documents, versions, renewals, invoices and credit notes.               *)
(***************************************************************************)
EXTENDS PurchaseOrder, Sourcing, CommercialDocuments, Contracts, AssetCost,
        SumTheorems, SequenceTheorems, TLAPS

(* The inductive invariant holds of an order that is drafted.                *)
LEMMA InitInv == POInit => POInv
<1> SUFFICES ASSUME POInit PROVE POInv
  OBVIOUS
<1> USE OrderAssumption DEF POInit
<1>1. POTypeOK
  BY DEF POTypeOK, Orders, GoodsReceipts, Requests, Accepted, Purposes, NoRequest
<1>2. ReceiptProgressIsTrue
  BY DEF ReceiptProgressIsTrue
<1>3. IssuedTermsWereApproved
  BY DEF IssuedTermsWereApproved
<1>4. QED
  BY <1>1, <1>2, <1>3 DEF POInv, NoRequest

(* A new aggregate version makes requests stale and changes nothing else of  *)
(* them.                                                                     *)
LEMMA StaleRequests ==
    ASSUME approval \in [Purposes -> Requests], NextVersion
    PROVE  /\ approval' \in [Purposes -> Requests]
           /\ \A p \in Purposes : approval'[p].state = approval[p].state /\ approval'[p].terms = approval[p].terms
  BY DEF NextVersion, Requests

(* A step that leaves terms, receipts and the order's progress alone.        *)
LEMMA StateMoves ==
    ASSUME POInv, NEW from, NEW to \in {"ISSUED", "ON_HOLD", "CANCELLED", "CLOSED"},
           MoveTo(from, to), from \subseteq {"DRAFT", "ISSUED", "ON_HOLD"},
           "DRAFT" \in from => to = "CANCELLED",
           to = "CANCELLED" => posted = <<>>
    PROVE  POInv'
<1> USE OrderAssumption DEF POInv
<1>0. po.state \in {"DRAFT", "ISSUED", "ON_HOLD"} /\ (po.state = "DRAFT" => to = "CANCELLED")
  BY DEF MoveTo
<1>1. /\ po' \in Orders /\ po'.state = to /\ po'.receipt = po.receipt
      /\ po'.version = po.version /\ po'.received = po.received
  BY DEF MoveTo, POTypeOK, Orders
<1>2. /\ approval' \in [Purposes -> Requests]
      /\ \A p \in Purposes : approval'[p].state = approval[p].state /\ approval'[p].terms = approval[p].terms
  BY StaleRequests DEF MoveTo, POTypeOK
<1>3. UNCHANGED <<ordered, gr, posted, eligible>>
  BY DEF MoveTo
<1>4. POTypeOK'
  BY <1>1, <1>2, <1>3 DEF POTypeOK
<1>5. ReceiptProgressIsTrue'
  <2>1. posted = <<>> => \A r \in Receipts : gr[r].state # "POSTED"
    BY DEF POTypeOK
  <2>2. po.state = "DRAFT" => posted = <<>>
    BY DEF POTypeOK, ReceiptProgressIsTrue
  <2> QED BY <1>0, <1>1, <1>3, <2>1, <2>2 DEF ReceiptProgressIsTrue
<1>6. IssuedTermsWereApproved'
  BY <1>1, <1>2, <1>3 DEF IssuedTermsWereApproved, Purposes
<1> QED
  BY <1>0, <1>1, <1>2, <1>3, <1>4, <1>5, <1>6

(* Steps that touch requests, eligibility and receipts that are not posted.  *)
LEMMA Bystanders ==
    ASSUME POInv, POTypeOK', UNCHANGED <<po, ordered, posted>>,
           \A r \in Receipts : /\ gr'[r].state = "POSTED" <=> gr[r].state = "POSTED"
                               /\ gr[r].state = "POSTED" => gr'[r].version = gr[r].version,
           \/ UNCHANGED approval
           \/ /\ po.state # "NONE"
              /\ po.version > 0 => approval'["PO_ISSUE"] = approval["PO_ISSUE"]
    PROVE  POInv'
<1> USE OrderAssumption DEF POInv
<1>1. ReceiptProgressIsTrue'
  BY DEF ReceiptProgressIsTrue
<1>2. IssuedTermsWereApproved'
  BY DEF IssuedTermsWereApproved
<1> QED
  BY <1>1, <1>2

(* Writing the draft of an order that was not issued.                        *)
LEMMA DraftWritten ==
    ASSUME POInv, NEW t \in Terms, po.state \in {"NONE", "DRAFT"},
           po' = [po EXCEPT !.state = "DRAFT"], ordered' = [ordered EXCEPT ![0] = t],
           UNCHANGED <<gr, posted, eligible>>, UNCHANGED approval \/ NextVersion
    PROVE  POInv'
<1> USE OrderAssumption DEF POInv
<1>1. /\ po' \in Orders /\ po'.state = "DRAFT" /\ po'.receipt = po.receipt
      /\ po'.version = 0 /\ po'.received = po.received /\ po.version = 0
  BY DEF POTypeOK, Orders
<1>2. approval' \in [Purposes -> Requests]
  BY StaleRequests DEF POTypeOK
<1>3. ordered' \in [0 .. MaxVersion -> Terms \cup {None}] /\ ordered'[0] = t
  BY DEF POTypeOK
<1>4. POTypeOK'
  BY <1>1, <1>2, <1>3 DEF POTypeOK
<1>5. ReceiptProgressIsTrue'
  BY <1>1 DEF ReceiptProgressIsTrue
<1>6. IssuedTermsWereApproved'
  BY <1>1 DEF IssuedTermsWereApproved
<1> QED
  BY <1>1, <1>3, <1>4, <1>5, <1>6

(* A new commercial version of an order that has received nothing.           *)
LEMMA VersionWritten ==
    ASSUME POInv, NEW t \in Terms, posted = <<>>, NEW v \in 1 .. MaxVersion, v = po.version + 1,
           NEW s \in {"ISSUED", "ON_HOLD"},
           po' = [po EXCEPT !.state = s, !.version = v], ordered' = [ordered EXCEPT ![v] = t],
           UNCHANGED <<gr, posted, eligible>>, NextVersion, ordered[0] \in Terms,
           v = 1 => ApprovalAllows("PO_ISSUE", t)
    PROVE  POInv'
<1> USE OrderAssumption DEF POInv
<1>0. v \in 0 .. MaxVersion /\ po.version \in 0 .. MaxVersion
  BY DEF POTypeOK, Orders
<1>1. /\ po' \in Orders /\ po'.state = s /\ po'.receipt = po.receipt
      /\ po'.version = v /\ po'.received = po.received
  BY <1>0 DEF POTypeOK, Orders
<1>2. /\ approval' \in [Purposes -> Requests]
      /\ \A p \in Purposes : approval'[p].state = approval[p].state /\ approval'[p].terms = approval[p].terms
  BY StaleRequests DEF POTypeOK
<1>3. /\ ordered' \in [0 .. MaxVersion -> Terms \cup {None}] /\ ordered'[v] = t
      /\ \A w \in 0 .. MaxVersion : w # v => ordered'[w] = ordered[w]
  BY DEF POTypeOK
<1>4. POTypeOK'
  BY <1>1, <1>2, <1>3 DEF POTypeOK
<1>5. ReceiptProgressIsTrue'
  <2>1. \A r \in Receipts : gr[r].state # "POSTED"
    BY DEF POTypeOK
  <2>2. po.receipt = "NOT_RECEIVED"
    BY DEF ReceiptProgressIsTrue
  <2>3. \A l \in Lines : po.received[l] <= t[l]
    BY DEF Terms
  <2> QED BY <1>1, <1>3, <2>1, <2>2, <2>3 DEF ReceiptProgressIsTrue
<1>6. IssuedTermsWereApproved'
  <2>1. CASE v = 1
    BY <1>1, <1>2, <1>3, <2>1 DEF IssuedTermsWereApproved, ApprovalAllows, Purposes
  <2>2. CASE v # 1
    BY <1>0, <1>1, <1>2, <1>3, <2>2 DEF IssuedTermsWereApproved, Purposes
  <2> QED BY <2>1, <2>2
<1>7. \A w \in 1 .. po'.version : ordered'[w] \in Terms
  BY <1>0, <1>1, <1>3
<1> QED
  BY <1>1, <1>3, <1>4, <1>5, <1>6, <1>7

(* Posting: the receipt is of the current version and fits what is left.     *)
LEMMA ReceiptPosted ==
    ASSUME POInv, NEW r \in Receipts, PostGoodsReceipt(r)
    PROVE  POInv'
<1> USE OrderAssumption DEF POInv
<1> DEFINE q == gr[r].qty
           sum == [l \in Lines |-> po.received[l] + q[l]]
<1>0. /\ po.state = "ISSUED" /\ po.version \in 1 .. MaxVersion /\ gr[r].version = po.version
      /\ gr[r].state = "DRAFT" /\ q \in Accepted /\ ordered[po.version] \in Terms
      /\ \A l \in Lines : po.received[l] + q[l] <= ordered[po.version][l]
  BY DEF PostGoodsReceipt, Fits, POTypeOK, Orders, GoodsReceipts
<1>1. sum \in [Lines -> Nat] /\ ReceiptStateOf(sum, ordered[po.version]) \in {"PARTIALLY_RECEIVED", "FULLY_RECEIVED"}
  BY <1>0 DEF POTypeOK, Orders, Accepted, ReceiptStateOf
<1>2. /\ po' \in Orders /\ po'.state = "ISSUED" /\ po'.version = po.version /\ po'.received = sum
      /\ po'.receipt = ReceiptStateOf(sum, ordered[po.version])
  BY <1>0, <1>1 DEF PostGoodsReceipt, Post, POTypeOK, Orders
<1>3. /\ gr' \in [Receipts -> GoodsReceipts] /\ gr'[r].state = "POSTED" /\ gr'[r].version = po.version
      /\ \A e \in Receipts : e # r => gr'[e] = gr[e]
  <2>1. gr' = [gr EXCEPT ![r] = [gr[r] EXCEPT !.state = "POSTED"]] /\ gr \in [Receipts -> GoodsReceipts]
    BY DEF PostGoodsReceipt, Post, POTypeOK
  <2>2. [gr[r] EXCEPT !.state = "POSTED"] \in GoodsReceipts
    BY <2>1 DEF GoodsReceipts
  <2>3. gr'[r] = [gr[r] EXCEPT !.state = "POSTED"]
    BY <2>1
  <2>4. gr'[r].state = "POSTED" /\ gr'[r].version = gr[r].version
    BY <2>1, <2>3 DEF GoodsReceipts
  <2> QED BY <1>0, <2>1, <2>2, <2>4
<1>4. /\ approval' \in [Purposes -> Requests]
      /\ \A p \in Purposes : approval'[p].state = approval[p].state /\ approval'[p].terms = approval[p].terms
  BY StaleRequests DEF PostGoodsReceipt, Post, POTypeOK
<1>5. /\ posted' \in Seq(Receipts) /\ Len(posted') = Len(posted) + 1 /\ posted'[Len(posted) + 1] = r
      /\ \A k \in 1 .. Len(posted) : posted'[k] = posted[k]
      /\ Len(posted) \in Nat /\ posted' # <<>> /\ UNCHANGED <<ordered, eligible>>
  <2>1. posted \in Seq(Receipts) /\ posted' = Append(posted, r) /\ UNCHANGED <<ordered, eligible>>
    BY DEF PostGoodsReceipt, Post, POTypeOK
  <2> QED BY <2>1
<1>6. POTypeOK'
  BY <1>2, <1>3, <1>4, <1>5 DEF POTypeOK
<1>7. ReceiptProgressIsTrue'
  <2>1. \A e \in Receipts : gr'[e].state = "POSTED" => gr'[e].version = po'.version /\ po'.state = "ISSUED"
    BY <1>0, <1>2, <1>3 DEF ReceiptProgressIsTrue
  <2>2. \A l \in Lines : po'.received[l] <= ordered'[po'.version][l]
    BY <1>0, <1>2, <1>5
  <2>3. po'.receipt = "FULLY_RECEIVED" => \A l \in Lines : po'.received[l] = ordered'[po'.version][l]
    <3> SUFFICES ASSUME po'.receipt = "FULLY_RECEIVED", NEW l \in Lines
                 PROVE  po'.received[l] = ordered'[po'.version][l]
      OBVIOUS
    <3>1. sum[l] >= ordered[po.version][l]
      BY <1>2 DEF ReceiptStateOf
    <3> QED BY <3>1, <2>2, <1>0, <1>1, <1>2, <1>5 DEF Terms
  <2>4. po'.receipt # "NOT_RECEIVED" /\ posted' # <<>> /\ po'.version > 0
    BY <1>0, <1>1, <1>2, <1>5
  <2> QED BY <2>1, <2>2, <2>3, <2>4 DEF ReceiptProgressIsTrue
<1>8. IssuedTermsWereApproved'
  BY <1>0, <1>2, <1>4, <1>5 DEF IssuedTermsWereApproved, Purposes
<1>9. \A e \in Receipts : gr'[e].state = "POSTED" <=> \E k \in 1 .. Len(posted') : posted'[k] = e
  <2> TAKE e \in Receipts
  <2>1. CASE e = r
    BY <2>1, <1>3, <1>5
  <2>2. CASE e # r
    <3>1. gr'[e].state = "POSTED" <=> \E k \in 1 .. Len(posted) : posted[k] = e
      BY <2>2, <1>3
    <3>2. (\E k \in 1 .. Len(posted') : posted'[k] = e) <=> \E k \in 1 .. Len(posted) : posted[k] = e
      BY <2>2, <1>5
    <3> QED BY <3>1, <3>2
  <2> QED BY <2>1, <2>2
<1> QED
  BY <1>0, <1>2, <1>4, <1>5, <1>6, <1>7, <1>8, <1>9

(* Every step of an order and its receipts preserves the invariant.          *)
LEMMA StepInv == POInv /\ [PONext]_poVars => POInv'
<1> SUFFICES ASSUME POInv, [PONext]_poVars PROVE POInv'
  OBVIOUS
<1> USE OrderAssumption
<1>t. /\ po \in Orders /\ ordered \in [0 .. MaxVersion -> Terms \cup {None}]
      /\ gr \in [Receipts -> GoodsReceipts] /\ approval \in [Purposes -> Requests]
      /\ posted \in Seq(Receipts) /\ eligible \in BOOLEAN /\ po.version \in 0 .. MaxVersion
  BY DEF POInv, POTypeOK, Orders
<1>e. po.state \in {"NONE", "DRAFT"} => posted = <<>>
  BY <1>t DEF POInv, ReceiptProgressIsTrue
<1>1. ASSUME NEW t \in Terms, CreatePurchaseOrder(t) PROVE POInv'
  BY <1>1, DraftWritten DEF CreatePurchaseOrder
<1>2. ASSUME NEW t \in Terms, UpdateDraft(t) PROVE POInv'
  <2>1. po' = [po EXCEPT !.state = "DRAFT"]
    BY <1>2, <1>t DEF UpdateDraft, Orders
  <2> QED BY <1>2, <2>1, DraftWritten DEF UpdateDraft
<1>3. CASE Issue
  <2>1. po.version = 0 /\ ordered[0] \in Terms /\ posted = <<>> /\ 1 \in 1 .. MaxVersion
    BY <1>3, <1>e DEF Issue, POInv
  <2>2. /\ ApprovalAllows("PO_ISSUE", ordered[0]) /\ NextVersion
        /\ po' = [po EXCEPT !.state = "ISSUED", !.version = 1] /\ ordered' = [ordered EXCEPT ![1] = ordered[0]]
        /\ UNCHANGED <<gr, posted, eligible>>
    BY <1>3 DEF Issue
  <2>3. 1 = po.version + 1
    BY <2>1
  <2> QED BY <2>1, <2>2, <2>3, VersionWritten
<1>4. ASSUME NEW t \in Terms, Amend(t) PROVE POInv'
  <2>1. /\ po.version \in 1 .. MaxVersion /\ po.version + 1 \in 1 .. MaxVersion /\ posted = <<>>
        /\ ordered[0] \in Terms /\ po.state \in {"ISSUED", "ON_HOLD"} /\ po.version + 1 # 1
    BY <1>4, <1>t DEF Amend, POInv, Unreceived
  <2>2. po' = [po EXCEPT !.state = po.state, !.version = po.version + 1]
    BY <1>4, <1>t DEF Amend, Orders
  <2> QED BY <1>4, <2>1, <2>2, VersionWritten DEF Amend
<1>5. CASE Hold
  BY <1>5, StateMoves DEF Hold
<1>6. CASE Resume
  BY <1>6, StateMoves DEF Resume
<1>7. CASE Cancel
  BY <1>7, StateMoves DEF Cancel, Unreceived
<1>8. CASE Close
  BY <1>8, StateMoves DEF Close
<1>9. CASE CloseRemainder
  BY <1>9, StateMoves DEF CloseRemainder
<1>10. CASE SupplierOrAwardChanges
  <2>1. POTypeOK'
    BY <1>10, <1>t DEF SupplierOrAwardChanges, POTypeOK
  <2> QED BY <1>10, <2>1, Bystanders DEF SupplierOrAwardChanges
<1>11. ASSUME NEW p \in Purposes, NEW t \in Terms, LinkPurchaseOrderApproval(p, t) PROVE POInv'
  <2>1. POTypeOK'
    BY <1>11, <1>t DEF LinkPurchaseOrderApproval, POTypeOK, Requests
  <2>2. po.state # "NONE" /\ (po.version > 0 => approval'["PO_ISSUE"] = approval["PO_ISSUE"])
    BY <1>11, <1>t DEF LinkPurchaseOrderApproval, POInv, Purposes
  <2> QED BY <1>11, <2>1, <2>2, Bystanders DEF LinkPurchaseOrderApproval
<1>12. ASSUME NEW p \in Purposes, NEW d \in {"APPROVED", "REJECTED"}, DecideApproval(p, d) PROVE POInv'
  <2>1. POTypeOK'
    BY <1>12, <1>t DEF DecideApproval, POTypeOK, Requests
  <2>2. po.state # "NONE"
    BY <1>12, <1>t DEF DecideApproval, POInv
  <2>3. po.version > 0 => approval'["PO_ISSUE"] = approval["PO_ISSUE"]
    BY <1>12, <1>t DEF DecideApproval, POInv, IssuedTermsWereApproved, Purposes
  <2> QED BY <1>12, <2>1, <2>2, <2>3, Bystanders DEF DecideApproval
<1>13. ASSUME NEW r \in Receipts, NEW q \in Accepted, NEW ok \in BOOLEAN, CreateGoodsReceipt(r, q, ok) PROVE POInv'
  <2>1. POTypeOK'
    BY <1>13, <1>t DEF CreateGoodsReceipt, POTypeOK, GoodsReceipts
  <2> QED BY <1>13, <1>t, <2>1, Bystanders DEF CreateGoodsReceipt, GoodsReceipts
<1>14. ASSUME NEW r \in Receipts, NEW q \in Accepted, NEW ok \in BOOLEAN, UpdateGoodsReceipt(r, q, ok) PROVE POInv'
  <2>1. POTypeOK'
    BY <1>14, <1>t DEF UpdateGoodsReceipt, POTypeOK, GoodsReceipts
  <2> QED BY <1>14, <1>t, <2>1, Bystanders DEF UpdateGoodsReceipt, GoodsReceipts
<1>15. ASSUME NEW r \in Receipts, CancelGoodsReceipt(r) PROVE POInv'
  <2>1. POTypeOK'
    BY <1>15, <1>t DEF CancelGoodsReceipt, POTypeOK, GoodsReceipts
  <2> QED BY <1>15, <1>t, <2>1, Bystanders DEF CancelGoodsReceipt, GoodsReceipts
<1>16. ASSUME NEW r \in Receipts, PostGoodsReceipt(r) PROVE POInv'
  BY <1>16, ReceiptPosted
<1>17. CASE UNCHANGED poVars
  <2>1. POTypeOK'
    BY <1>17, <1>t DEF poVars, POTypeOK
  <2> QED BY <1>17, <2>1, Bystanders DEF poVars
<1> QED
  BY <1>1, <1>2, <1>3, <1>4, <1>5, <1>6, <1>7, <1>8, <1>9, <1>10, <1>11, <1>12, <1>13, <1>14, <1>15, <1>16, <1>17
     DEF PONext

(* The inductive invariant of the order holds for any number of receipts,    *)
(* lines and versions.                                                       *)
THEOREM Invariance == POSpec => []POInv
<1>1. QED
  BY InitInv, StepInv, PTL DEF POSpec

(* Posting, amending, holding and cancelling in any order keep the receipt   *)
(* progress of an order about its current terms and within them.             *)
THEOREM ReceiptProgress == POSpec => []ReceiptProgressIsTrue
<1>1. POInv => ReceiptProgressIsTrue
  BY DEF POInv
<1> QED
  BY <1>1, Invariance, PTL

(* Whatever was edited while a PO_ISSUE request waited, the terms issued are *)
(* the terms approved.                                                       *)
THEOREM ApprovedTerms == POSpec => []IssuedTermsWereApproved
<1>1. POInv => IssuedTermsWereApproved
  BY DEF POInv
<1> QED
  BY <1>1, Invariance, PTL

-----------------------------------------------------------------------------
(* Received quantities are the sum of the posted receipts.                   *)

(* The receipts that count.                                                  *)
Booked == {r \in Receipts : gr[r].state = "POSTED" /\ gr[r].version = po.version}

(* The receipts booked so far are finitely many, and quantities are numbers. *)
LEMMA BookedFacts ==
    ASSUME POInv
    PROVE  /\ IsFiniteSet(Booked)
           /\ \A l \in Lines, r \in Receipts : gr[r].qty[l] \in Int
           /\ posted = <<>> => Booked = {} /\ \A l \in Lines : po.received[l] = 0
<1>1. IsFiniteSet(Booked)
  BY OrderAssumption, FS_Subset DEF Booked
<1>2. \A l \in Lines, r \in Receipts : gr[r].qty[l] \in Int
  BY OrderAssumption DEF POInv, POTypeOK, GoodsReceipts, Accepted
<1>3. posted = <<>> => Booked = {} /\ \A l \in Lines : po.received[l] = 0
  BY DEF POInv, POTypeOK, Booked
<1> QED BY <1>1, <1>2, <1>3

(* Steps that change no receipt that counts.                                 *)
LEMMA SameCount ==
    ASSUME POInv, ReceiptsCountOnce, po'.received = po.received, Booked' = Booked,
           \A r \in Booked : gr'[r].qty = gr[r].qty
    PROVE  ReceiptsCountOnce'
<1> SUFFICES ASSUME NEW l \in Lines
             PROVE  po'.received[l] = SumFunctionOnSet([r \in Receipts |-> gr'[r].qty[l]], Booked')
  BY DEF ReceiptsCountOnce, Booked
<1>1. IsFiniteSet(Booked) /\ Booked \subseteq Receipts
  BY BookedFacts DEF Booked
<1> DEFINE m == [r \in Receipts |-> gr[r].qty[l]]
           n == [r \in Receipts |-> gr'[r].qty[l]]
<1>2. \A r \in Booked : m[r] = n[r]
  BY <1>1
<1>3. po.received[l] = SumFunctionOnSet(m, Booked)
  BY DEF ReceiptsCountOnce, Booked
<1> HIDE DEF m, n
<1>4. SumFunctionOnSet(m, Booked) = SumFunctionOnSet(n, Booked)
  BY <1>1, <1>2, SumCongruence
<1> QED BY <1>3, <1>4 DEF n

(* Posting counts one receipt more, once.                                    *)
LEMMA PostCounts ==
    ASSUME POInv, ReceiptsCountOnce, NEW r \in Receipts, PostGoodsReceipt(r)
    PROVE  ReceiptsCountOnce'
<1>1. /\ gr[r].state = "DRAFT" /\ gr[r].version = po.version
      /\ gr' = [gr EXCEPT ![r].state = "POSTED"] /\ gr \in [Receipts -> GoodsReceipts] /\ po \in Orders
      /\ po' = [po EXCEPT !.received = [l \in Lines |-> po.received[l] + gr[r].qty[l]],
                          !.receipt = ReceiptStateOf([l \in Lines |-> po.received[l] + gr[r].qty[l]], ordered[po.version])]
  BY DEF PostGoodsReceipt, Post, POInv, POTypeOK
<1>2. po'.version = po.version /\ \A l \in Lines : po'.received[l] = po.received[l] + gr[r].qty[l]
  BY <1>1 DEF Orders
<1>3. \A e \in Receipts : gr'[e].qty = gr[e].qty /\ gr'[e].version = gr[e].version /\ (e # r => gr'[e].state = gr[e].state)
  BY <1>1 DEF GoodsReceipts
<1>4. gr'[r].state = "POSTED"
  BY <1>1 DEF GoodsReceipts
<1>5. Booked' = Booked \cup {r} /\ r \notin Booked
  BY <1>1, <1>2, <1>3, <1>4 DEF Booked
<1>6. IsFiniteSet(Booked) /\ Booked \subseteq Receipts
  BY BookedFacts DEF Booked
<1> SUFFICES ASSUME NEW l \in Lines
             PROVE  po'.received[l] = SumFunctionOnSet([e \in Receipts |-> gr'[e].qty[l]], Booked')
  BY DEF ReceiptsCountOnce, Booked
<1> DEFINE m == [e \in Receipts |-> gr[e].qty[l]]
<1>7. m = [e \in Receipts |-> gr'[e].qty[l]]
  BY <1>3
<1>8. \A e \in Booked \cup {r} : m[e] \in Int
  BY <1>6, BookedFacts
<1>9. po.received[l] = SumFunctionOnSet(m, Booked) /\ m[r] = gr[r].qty[l]
  BY DEF ReceiptsCountOnce, Booked
<1> HIDE DEF m
<1>10. SumFunctionOnSet(m, Booked \cup {r}) = m[r] + SumFunctionOnSet(m, Booked)
  BY <1>5, <1>6, <1>8, SumAdds
<1>11. m[r] \in Int /\ SumFunctionOnSet(m, Booked) \in Int
  BY <1>6, <1>8, SumType
<1>12. po'.received[l] = SumFunctionOnSet(m, Booked \cup {r})
  BY <1>2, <1>9, <1>10, <1>11
<1> QED BY <1>5, <1>7, <1>12

(* Every step keeps the received quantity equal to the sum over the booked   *)
(* receipts.                                                                 *)
LEMMA StepCounts == POInv /\ ReceiptsCountOnce /\ [PONext]_poVars => ReceiptsCountOnce'
<1> SUFFICES ASSUME POInv, ReceiptsCountOnce, [PONext]_poVars PROVE ReceiptsCountOnce'
  OBVIOUS
<1>1. ASSUME NEW r \in Receipts, PostGoodsReceipt(r) PROVE ReceiptsCountOnce'
  BY <1>1, PostCounts
<1>t. po \in Orders /\ gr \in [Receipts -> GoodsReceipts]
  BY DEF POInv, POTypeOK
<1>2. ASSUME UNCHANGED gr, po'.received = po.received, po'.version = po.version PROVE ReceiptsCountOnce'
  <2>1. Booked' = Booked
    BY <1>2 DEF Booked
  <2> QED BY <1>2, <2>1, SameCount
<1>3. ASSUME UNCHANGED gr, po'.received = po.received, posted = <<>> PROVE ReceiptsCountOnce'
  <2>1. \A r \in Receipts : gr[r].state # "POSTED"
    BY <1>3 DEF POInv, POTypeOK
  <2>2. Booked' = Booked
    BY <1>3, <2>1 DEF Booked
  <2> QED BY <1>3, <2>2, SameCount
<1>4. ASSUME UNCHANGED po, NEW r \in Receipts, gr[r].state # "POSTED", gr'[r].state # "POSTED",
             \A e \in Receipts : e # r => gr'[e] = gr[e]
      PROVE  ReceiptsCountOnce'
  <2>1. Booked' = Booked /\ \A e \in Booked : gr'[e].qty = gr[e].qty
    BY <1>4 DEF Booked
  <2> QED BY <1>4, <2>1, SameCount
<1>5. CASE Issue \/ \E t \in Terms : Amend(t)
  <2>1. posted = <<>>
    BY <1>5 DEF Issue, Amend, Unreceived, POInv, POTypeOK, ReceiptProgressIsTrue
  <2>2. UNCHANGED gr /\ po'.received = po.received
    BY <1>5, <1>t DEF Issue, Amend, Orders
  <2> QED BY <1>3, <2>1, <2>2
<1>6. CASE \/ \E t \in Terms : CreatePurchaseOrder(t) \/ UpdateDraft(t)
           \/ Hold \/ Resume \/ Cancel \/ Close \/ CloseRemainder
  <2>1. UNCHANGED gr /\ po'.received = po.received /\ po'.version = po.version
    BY <1>6, <1>t DEF CreatePurchaseOrder, UpdateDraft, Hold, Resume, Cancel, Close, CloseRemainder, MoveTo, Orders
  <2> QED BY <1>2, <2>1
<1>7. CASE \/ SupplierOrAwardChanges
           \/ \E p \in Purposes, t \in Terms : LinkPurchaseOrderApproval(p, t)
           \/ \E p \in Purposes, d \in {"APPROVED", "REJECTED"} : DecideApproval(p, d)
           \/ UNCHANGED poVars
  <2>1. UNCHANGED <<gr, po>>
    BY <1>7 DEF SupplierOrAwardChanges, LinkPurchaseOrderApproval, DecideApproval, poVars
  <2> QED BY <1>2, <2>1
<1>8. ASSUME NEW r \in Receipts, NEW q \in Accepted, NEW ok \in BOOLEAN,
             CreateGoodsReceipt(r, q, ok) \/ UpdateGoodsReceipt(r, q, ok)
      PROVE  ReceiptsCountOnce'
  <2>1. UNCHANGED po /\ gr[r].state # "POSTED"
    BY <1>8 DEF CreateGoodsReceipt, UpdateGoodsReceipt
  <2>2. gr'[r].state # "POSTED" /\ \A e \in Receipts : e # r => gr'[e] = gr[e]
    BY <1>8, <1>t DEF CreateGoodsReceipt, UpdateGoodsReceipt, GoodsReceipts
  <2> QED BY <1>4, <2>1, <2>2
<1>9. ASSUME NEW r \in Receipts, CancelGoodsReceipt(r) PROVE ReceiptsCountOnce'
  <2>1. UNCHANGED po /\ gr[r].state # "POSTED"
    BY <1>9 DEF CancelGoodsReceipt
  <2>2. gr'[r].state # "POSTED" /\ \A e \in Receipts : e # r => gr'[e] = gr[e]
    BY <1>9, <1>t DEF CancelGoodsReceipt, GoodsReceipts
  <2> QED BY <1>4, <2>1, <2>2
<1> QED BY <1>1, <1>5, <1>6, <1>7, <1>8, <1>9 DEF PONext

(* Over every order of commands the received quantities of an order are the  *)
(* sum of the receipts posted against its current version: none is counted   *)
(* twice or lost when drafts are edited, cancelled or amended around it.     *)
THEOREM ReceiptsAlwaysCountOnce == POSpec => []ReceiptsCountOnce
<1>1. POInit => ReceiptsCountOnce
  <2> SUFFICES ASSUME POInit, NEW l \in Lines
               PROVE  po.received[l] = SumFunctionOnSet([r \in Receipts |-> gr[r].qty[l]], Booked)
    BY DEF ReceiptsCountOnce, Booked
  <2>1. Booked = {} /\ po.received[l] = 0
    BY DEF POInit, Booked
  <2> QED BY <2>1, SumOfNone
<1> QED
  BY <1>1, StepCounts, Invariance, PTL DEF POSpec

-----------------------------------------------------------------------------
(* The order as its readers see it.                                          *)

ViewOrder == [state |-> po.state, receipt |-> po.receipt]
ViewTerms == [v \in 1 .. po.version |-> ordered[v]]
ViewAccepted == [k \in 1 .. Len(posted) |-> gr[posted[k]].qty]

(* What OrderProgress sees of an order.                                      *)
LEMMA ViewType ==
    ASSUME POInv
    PROVE  /\ po.version \in Nat /\ Len(ViewTerms) = po.version /\ Len(posted) \in Nat
           /\ posted = <<>> <=> ViewAccepted = <<>>
           /\ \A k \in 1 .. Len(posted) : posted[k] \in Receipts /\ gr[posted[k]].state = "POSTED"
<1>1. po.version \in Nat /\ posted \in Seq(Receipts)
  BY OrderAssumption DEF POInv, POTypeOK, Orders
<1>2. Len(ViewTerms) = po.version
  BY <1>1 DEF ViewTerms
<1>3. Len(posted) \in Nat /\ \A k \in 1 .. Len(posted) : posted[k] \in Receipts
  BY <1>1
<1>4. \A k \in 1 .. Len(posted) : gr[posted[k]].state = "POSTED"
  BY <1>3 DEF POInv
<1>5. ViewAccepted = <<>> <=> Len(posted) = 0
  BY <1>3 DEF ViewAccepted
<1>6. posted = <<>> <=> Len(posted) = 0
  BY <1>1
<1> QED
  BY <1>1, <1>2, <1>3, <1>4, <1>5, <1>6

(* Steps that change no posted receipt leave the evidence as it is.          *)
LEMMA SameEvidence ==
    ASSUME POInv, UNCHANGED posted,
           \A r \in Receipts : gr[r].state = "POSTED" => gr'[r] = gr[r]
    PROVE  ViewAccepted' = ViewAccepted
  BY ViewType DEF ViewAccepted

(* A step that changes no issued terms and no posted receipt is not seen by  *)
(* OrderProgress.                                                            *)
LEMMA InvisibleStep ==
    ASSUME POInv, UNCHANGED <<po, posted>>, \A v \in 1 .. po.version : ordered'[v] = ordered[v],
           \A r \in Receipts : gr[r].state = "POSTED" => gr'[r] = gr[r]
    PROVE  UNCHANGED Progress!orderVars
<1>1. ViewAccepted' = ViewAccepted
  BY SameEvidence
<1>2. ViewTerms' = ViewTerms
  BY DEF ViewTerms
<1> QED
  BY <1>1, <1>2 DEF Progress!orderVars, ViewAccepted, ViewTerms

(* A change of the order's state is one of OrderProgress.                    *)
LEMMA VisibleMove ==
    ASSUME POInv, NEW from, NEW to, MoveTo(from, to)
    PROVE  Progress!Move(from, to)
<1>1. ViewAccepted' = ViewAccepted
  BY SameEvidence DEF MoveTo
<1>2. /\ po'.state = to /\ po'.receipt = po.receipt /\ po'.version = po.version
      /\ po'.received = po.received /\ po.state \in from
  BY DEF MoveTo, POInv, POTypeOK, Orders
<1>3. ViewTerms' = ViewTerms
  BY <1>2 DEF ViewTerms, MoveTo
<1> QED
  BY <1>1, <1>2, <1>3 DEF Progress!Move, ViewAccepted, ViewTerms

(* A version that is appended to the order is appended to what readers see.  *)
LEMMA TermsAppended ==
    ASSUME POInv, NEW t \in Terms, po.version + 1 \in 1 .. MaxVersion, po'.version = po.version + 1,
           ordered' = [ordered EXCEPT ![po.version + 1] = t]
    PROVE  ViewTerms' = Append(ViewTerms, t)
<1>1. po.version \in 0 .. MaxVersion /\ ordered \in [0 .. MaxVersion -> Terms \cup {None}]
  BY DEF POInv, POTypeOK, Orders
<1>2. ViewTerms \in Seq(Terms \cup {None}) /\ Len(ViewTerms) = po.version
  BY <1>1, OrderAssumption DEF ViewTerms
<1>3. \A v \in 1 .. po.version + 1 : ordered'[v] = IF v = po.version + 1 THEN t ELSE ordered[v]
  BY <1>1, OrderAssumption
<1>4. ViewTerms' = [v \in 1 .. po.version + 1 |-> IF v = po.version + 1 THEN t ELSE ordered[v]]
  BY <1>3 DEF ViewTerms
<1> QED
  BY <1>1, <1>2, <1>4 DEF ViewTerms

(* The initial states are initial states of OrderProgress.                   *)
LEMMA InitView == POInit => Progress!OrderInit
<1> SUFFICES ASSUME POInit PROVE Progress!OrderInit
  OBVIOUS
<1> QED
  BY DEF POInit, Progress!OrderInit

(* Every step is a step of OrderProgress or changes nothing it sees.         *)
LEMMA StepView == POInv /\ [PONext]_poVars => [Progress!OrderNext]_(Progress!orderVars)
<1> SUFFICES ASSUME POInv, [PONext]_poVars PROVE Progress!OrderNext \/ UNCHANGED Progress!orderVars
  BY DEF Progress!orderVars
<1> USE OrderAssumption
<1>t. /\ po \in Orders /\ ordered \in [0 .. MaxVersion -> Terms \cup {None}]
      /\ gr \in [Receipts -> GoodsReceipts] /\ posted \in Seq(Receipts) /\ po.version \in 0 .. MaxVersion
  BY DEF POInv, POTypeOK, Orders
<1>e. po.state \in {"NONE", "DRAFT"} => posted = <<>>
  BY <1>t DEF POInv, ReceiptProgressIsTrue
<1>p. (posted = <<>> <=> ViewAccepted = <<>>) /\ Len(ViewTerms) = po.version
  BY ViewType
<1>1. ASSUME NEW t \in Terms, CreatePurchaseOrder(t) PROVE Progress!OrderNext
  <2>1. ViewAccepted' = ViewAccepted
    BY <1>1, SameEvidence DEF CreatePurchaseOrder
  <2>2. /\ po.state = "NONE" /\ po'.state = "DRAFT" /\ po'.receipt = po.receipt /\ po'.version = po.version
        /\ po'.received = po.received
    BY <1>1, <1>t DEF CreatePurchaseOrder, Orders
  <2>3. ViewTerms' = ViewTerms
    BY <1>1, <1>t, <2>2 DEF ViewTerms, CreatePurchaseOrder
  <2>4. Progress!Draft
    BY <2>1, <2>2, <2>3 DEF Progress!Draft, Progress!Move, ViewAccepted, ViewTerms
  <2> QED BY <2>4 DEF Progress!OrderNext
<1>2. ASSUME NEW t \in Terms, UpdateDraft(t) PROVE UNCHANGED Progress!orderVars
  <2>1. \A v \in 1 .. po.version : ordered'[v] = ordered[v]
    BY <1>2, <1>t DEF UpdateDraft
  <2> QED BY <1>2, <2>1, InvisibleStep DEF UpdateDraft
<1>3. ASSUME NEW t \in Terms, NEW s \in {"ISSUED", "ON_HOLD"}, po.version + 1 \in 1 .. MaxVersion, posted = <<>>,
             \/ po.state = "DRAFT" /\ s = "ISSUED"
             \/ po.state = s,
             po' = [po EXCEPT !.state = s, !.version = po.version + 1],
             ordered' = [ordered EXCEPT ![po.version + 1] = t], UNCHANGED <<gr, posted>>
      PROVE  Progress!OrderNext
  <2>1. ViewAccepted' = ViewAccepted /\ ViewAccepted = <<>>
    BY <1>3, <1>p, SameEvidence
  <2>2. /\ po'.state = s /\ po'.receipt = po.receipt /\ po'.version = po.version + 1 /\ po'.received = po.received
    BY <1>3, <1>t DEF Orders
  <2>3. ViewTerms' = Append(ViewTerms, t)
    BY <1>3, <2>2, TermsAppended
  <2>4. t \in Progress!Terms
    BY DEF Terms, Progress!Terms
  <2>5. ViewOrder' = [ViewOrder EXCEPT !.state = s]
    BY <2>2 DEF ViewOrder
  <2>6. Progress!SetTerms(t)
    BY <1>3, <2>1, <2>2, <2>3, <2>5 DEF Progress!SetTerms, ViewAccepted, ViewTerms, ViewOrder
  <2> QED BY <2>4, <2>6 DEF Progress!OrderNext
<1>4. CASE Issue
  <2>1. po.version = 0 /\ ordered[0] \in Terms /\ posted = <<>> /\ po.version + 1 = 1 /\ 1 \in 1 .. MaxVersion
    BY <1>4, <1>e DEF Issue, POInv
  <2>2. /\ po.state = "DRAFT" /\ po' = [po EXCEPT !.state = "ISSUED", !.version = 1]
        /\ ordered' = [ordered EXCEPT ![1] = ordered[0]] /\ UNCHANGED <<gr, posted>>
    BY <1>4 DEF Issue
  <2> QED BY <2>1, <2>2, <1>3
<1>5. ASSUME NEW t \in Terms, Amend(t) PROVE Progress!OrderNext
  <2>1. /\ po.version + 1 \in 1 .. MaxVersion /\ posted = <<>> /\ po.state \in {"ISSUED", "ON_HOLD"}
        /\ ordered' = [ordered EXCEPT ![po.version + 1] = t] /\ UNCHANGED <<gr, posted>>
    BY <1>5, <1>t DEF Amend, Unreceived
  <2>2. po' = [po EXCEPT !.state = po.state, !.version = po.version + 1]
    BY <1>5, <1>t DEF Amend, Orders
  <2> QED BY <2>1, <2>2, <1>3
<1>6. CASE Hold
  BY <1>6, VisibleMove DEF Hold, Progress!OrderNext, Progress!Hold
<1>7. CASE Resume
  BY <1>7, VisibleMove DEF Resume, Progress!OrderNext, Progress!Resume
<1>8. CASE Cancel
  <2>1. Progress!Move({"DRAFT", "ISSUED", "ON_HOLD"}, "CANCELLED") /\ ViewAccepted = <<>>
    BY <1>8, <1>p, VisibleMove DEF Cancel, Unreceived
  <2> QED BY <2>1 DEF Progress!OrderNext, Progress!Cancel, ViewAccepted
<1>9. CASE Close \/ CloseRemainder
  <2>1. Progress!Move({"ISSUED", "ON_HOLD"}, "CLOSED")
    BY <1>9, VisibleMove DEF Close, CloseRemainder
  <2>2. ViewAccepted # <<>>
    BY <1>9, <1>p DEF Close, CloseRemainder, POInv, ReceiptProgressIsTrue
  <2> QED BY <2>1, <2>2 DEF Progress!OrderNext, Progress!Close, ViewAccepted
<1>10. CASE SupplierOrAwardChanges
  BY <1>10, InvisibleStep DEF SupplierOrAwardChanges
<1>11. ASSUME NEW p \in Purposes, NEW t \in Terms, LinkPurchaseOrderApproval(p, t)
       PROVE  UNCHANGED Progress!orderVars
  BY <1>11, InvisibleStep DEF LinkPurchaseOrderApproval
<1>12. ASSUME NEW p \in Purposes, NEW d, DecideApproval(p, d) PROVE UNCHANGED Progress!orderVars
  BY <1>12, InvisibleStep DEF DecideApproval
<1>13. ASSUME NEW r \in Receipts, NEW q, NEW ok, CreateGoodsReceipt(r, q, ok) PROVE UNCHANGED Progress!orderVars
  BY <1>13, <1>t, InvisibleStep DEF CreateGoodsReceipt
<1>14. ASSUME NEW r \in Receipts, NEW q, NEW ok, UpdateGoodsReceipt(r, q, ok) PROVE UNCHANGED Progress!orderVars
  BY <1>14, <1>t, InvisibleStep DEF UpdateGoodsReceipt
<1>15. ASSUME NEW r \in Receipts, CancelGoodsReceipt(r) PROVE UNCHANGED Progress!orderVars
  BY <1>15, <1>t, InvisibleStep DEF CancelGoodsReceipt
<1>16. ASSUME NEW r \in Receipts, PostGoodsReceipt(r) PROVE Progress!OrderNext
  <2>0. PICK q \in Accepted : q = gr[r].qty
    BY <1>t DEF GoodsReceipts
  <2> DEFINE sum == [l \in Lines |-> po.received[l] + q[l]]
  <2>1. /\ po.state = "ISSUED" /\ po.version \in 1 .. MaxVersion /\ gr[r].state = "DRAFT" /\ q \in Accepted
        /\ \A l \in Lines : po.received[l] + q[l] <= ordered[po.version][l]
    BY <1>16, <1>t, <2>0 DEF PostGoodsReceipt, Fits, POInv, GoodsReceipts
  <2>2. /\ po'.state = "ISSUED" /\ po'.version = po.version /\ po'.received = sum
        /\ po'.receipt = ReceiptStateOf(sum, ordered[po.version])
        /\ posted' = Append(posted, r) /\ ordered' = ordered
    BY <1>16, <1>t, <2>0, <2>1 DEF PostGoodsReceipt, Post, Orders
  <2>3. gr'[r].qty = q /\ \A e \in Receipts : e # r => gr'[e] = gr[e]
    BY <1>16, <1>t, <2>0 DEF PostGoodsReceipt, Post, GoodsReceipts
  <2>4. ViewTerms' = ViewTerms /\ ViewTerms[po.version] = ordered[po.version]
    BY <2>1, <2>2 DEF ViewTerms
  <2>5. ViewAccepted' = Append(ViewAccepted, q)
    <3>1. /\ Len(posted) \in Nat /\ Len(posted') = Len(posted) + 1 /\ posted'[Len(posted) + 1] = r
          /\ \A k \in 1 .. Len(posted) : posted'[k] = posted[k] /\ posted[k] \in Receipts
      BY <1>t, <2>2
    <3>2. \A k \in 1 .. Len(posted) : posted[k] # r
      BY <2>1, ViewType
    <3>3. \A k \in 1 .. Len(posted) + 1 :
             gr'[posted'[k]].qty = IF k = Len(posted) + 1 THEN q ELSE gr[posted[k]].qty
      BY <2>3, <3>1, <3>2
    <3>4. ViewAccepted' = [k \in 1 .. Len(posted) + 1 |-> IF k = Len(posted) + 1 THEN q ELSE gr[posted[k]].qty]
      BY <3>1, <3>3 DEF ViewAccepted
    <3>5. ViewAccepted \in Seq(Accepted) /\ Len(ViewAccepted) = Len(posted)
      BY <1>t, <3>1 DEF ViewAccepted, GoodsReceipts
    <3> QED BY <2>1, <3>1, <3>4, <3>5 DEF ViewAccepted
  <2>6. ViewOrder' = [ViewOrder EXCEPT !.receipt = ReceiptStateOf(sum, ordered[po.version])]
    BY <2>1, <2>2 DEF ViewOrder
  <2>7. Progress!Receive(q)
    BY <1>p, <2>1, <2>2, <2>4, <2>5, <2>6
       DEF Progress!Receive, Progress!Current, ReceiptStateOf, ViewAccepted, ViewTerms, ViewOrder
  <2>8. q \in Progress!Accepted
    BY <2>1 DEF Accepted, Progress!Accepted
  <2>9. \E e \in Progress!Accepted : Progress!Receive(e)
    BY <2>7, <2>8
  <2> QED BY <2>9 DEF Progress!OrderNext
<1>17. CASE UNCHANGED poVars
  BY <1>17, InvisibleStep DEF poVars
<1> QED
  BY <1>1, <1>2, <1>4, <1>5, <1>6, <1>7, <1>8, <1>9, <1>10, <1>11, <1>12, <1>13, <1>14, <1>15, <1>16, <1>17
     DEF PONext

(* The purchase order commands implement the order that invoice matching is  *)
(* specified against: approvals, drafts and unposted receipts are stutters.  *)
THEOREM Implementation == POSpec => ImplementsProgress
<1>1. QED
  BY InitView, StepView, Invariance, PTL DEF POSpec, ImplementsProgress, Progress!OrderSpec

-----------------------------------------------------------------------------
(* Sourcing: awards are final, and a supplier has one offer in the running.  *)

SupplierStates == {"NONE", "PROSPECT", "APPROVED", "PREFERRED", "SUSPENDED", "BLOCKED", "INACTIVE"}
RfqStates == {"NONE", "DRAFT", "OPEN", "EVALUATING", "AWARDED", "CLOSED_NO_AWARD", "CANCELLED"}
RfqEnds == {"AWARDED", "CLOSED_NO_AWARD", "CANCELLED"}
QuoteStates == {"NONE", "DRAFT", "SUBMITTED", "WITHDRAWN", "DISQUALIFIED", "ACCEPTED", "REJECTED", "VOID"}
RfqRecords == [state : RfqStates, invited : SUBSET Suppliers, request : PRs \cup {"NONE"}, late : BOOLEAN,
               awarded : Quotes \cup {"NONE"}, approval : AwardRequests \cup {"NONE"}]
QuoteRecords == [state : QuoteStates, rfq : Rfqs \cup {"NONE"}, supplier : Suppliers \cup {"NONE"},
                 revision : Nat, replaces : Quotes \cup {"NONE"}]

(* A quotation x, numbered q, and the RFQs R: it answers an RFQ that was     *)
(* issued to its supplier and shares the RFQ's end.                          *)
QuoteOK(q, x, R) ==
    IF x.state = "NONE" THEN x = NoQuote
    ELSE /\ x.rfq \in Rfqs /\ x.supplier \in R[x.rfq].invited /\ R[x.rfq].state \notin {"NONE", "DRAFT"}
         /\ R[x.rfq].state \in RfqEnds => x.state \notin {"DRAFT", "SUBMITTED"}
         /\ x.state = "ACCEPTED" <=> (R[x.rfq].state = "AWARDED" /\ R[x.rfq].awarded = q)
         /\ x.state = "REJECTED" => R[x.rfq].state \in {"AWARDED", "CLOSED_NO_AWARD"}

SourcingRows ==
    /\ suppliers \in [Suppliers -> SupplierStates]
    /\ rfqs \in [Rfqs -> RfqRecords] /\ quotes \in [Quotes -> QuoteRecords]
    /\ \A q \in Quotes : QuoteOK(q, quotes[q], rfqs)
    /\ \A r \in Rfqs : rfqs[r].state = "AWARDED" =>
          rfqs[r].awarded \in Quotes /\ quotes[rfqs[r].awarded].state # "NONE" /\ quotes[rfqs[r].awarded].rfq = r

(* Two offers of a supplier in the running for an RFQ are one.               *)
OneInTheRunning ==
    \A p, q \in Quotes :
        (/\ quotes[p].state \in {"SUBMITTED", "ACCEPTED"} /\ quotes[q].state \in {"SUBMITTED", "ACCEPTED"}
         /\ quotes[p].rfq = quotes[q].rfq /\ quotes[p].supplier = quotes[q].supplier) => p = q

OffersNumbered ==
    \A r \in Rfqs, s \in Suppliers :
        /\ Revisions(r, s) = 1 .. Cardinality(OffersOf(r, s))
        /\ \A q \in OffersOf(r, s) : quotes[q].replaces # "NONE" =>
             quotes[quotes[q].replaces].revision < quotes[q].revision /\ quotes[quotes[q].replaces].state = "WITHDRAWN"

SourcingInv == SourcingRows /\ OneInTheRunning /\ OffersNumbered

(* What the invariant says of one quotation.                                 *)
LEMMA QuoteFacts ==
    ASSUME SourcingInv, NEW q \in Quotes
    PROVE  /\ quotes[q] \in QuoteRecords /\ QuoteOK(q, quotes[q], rfqs)
           /\ quotes[q].state # "NONE" => quotes[q].rfq \in Rfqs /\ rfqs[quotes[q].rfq] \in RfqRecords
           /\ quotes[q].state # "NONE" => quotes[q].supplier \in Suppliers
<1>1. quotes[q] \in QuoteRecords /\ QuoteOK(q, quotes[q], rfqs) /\ rfqs \in [Rfqs -> RfqRecords]
  BY DEF SourcingInv, SourcingRows
<1>2. ASSUME quotes[q].state # "NONE" PROVE quotes[q].rfq \in Rfqs /\ quotes[q].supplier \in rfqs[quotes[q].rfq].invited
  BY <1>1, <1>2 DEF QuoteOK
<1>3. ASSUME quotes[q].state # "NONE" PROVE rfqs[quotes[q].rfq] \in RfqRecords
  BY <1>1, <1>2, <1>3
<1>4. ASSUME quotes[q].state # "NONE" PROVE quotes[q].supplier \in Suppliers
  BY <1>2, <1>3, <1>4 DEF RfqRecords
<1> QED BY <1>1, <1>2, <1>3, <1>4

(* Steps that move quotations and write none anew: numbering stays.          *)
LEMMA NumberingKept ==
    ASSUME OffersNumbered,
           \A q \in Quotes : /\ quotes'[q].rfq = quotes[q].rfq /\ quotes'[q].supplier = quotes[q].supplier
                             /\ quotes'[q].revision = quotes[q].revision /\ quotes'[q].replaces = quotes[q].replaces
                             /\ quotes[q].state = "WITHDRAWN" => quotes'[q].state = "WITHDRAWN",
           \A q \in Quotes : quotes[q].replaces \in Quotes \cup {"NONE"}
    PROVE  OffersNumbered'
<1> SUFFICES ASSUME NEW r \in Rfqs, NEW s \in Suppliers
             PROVE  /\ Revisions(r, s)' = 1 .. Cardinality(OffersOf(r, s)')
                    /\ \A q \in OffersOf(r, s)' : quotes'[q].replaces # "NONE" =>
                         /\ quotes'[quotes'[q].replaces].revision < quotes'[q].revision
                         /\ quotes'[quotes'[q].replaces].state = "WITHDRAWN"
  BY DEF OffersNumbered
<1>1. OffersOf(r, s)' = OffersOf(r, s) /\ OffersOf(r, s) \subseteq Quotes
  BY DEF OffersOf
<1>2. Revisions(r, s)' = Revisions(r, s)
  <2>1. Revisions(r, s)' = {quotes'[q].revision : q \in OffersOf(r, s)'}
    BY DEF Revisions
  <2>2. \A q \in OffersOf(r, s) : quotes'[q].revision = quotes[q].revision
    BY <1>1
  <2> QED BY <1>1, <2>1, <2>2 DEF Revisions
<1>3. ASSUME NEW q \in OffersOf(r, s), quotes[q].replaces # "NONE"
      PROVE  /\ quotes'[quotes'[q].replaces].revision < quotes'[q].revision
             /\ quotes'[quotes'[q].replaces].state = "WITHDRAWN"
  <2>1. quotes[quotes[q].replaces].revision < quotes[q].revision /\ quotes[quotes[q].replaces].state = "WITHDRAWN"
    BY <1>3 DEF OffersNumbered
  <2>2. q \in Quotes /\ quotes[q].replaces \in Quotes
    BY <1>1, <1>3
  <2> QED BY <2>1, <2>2
<1>4. Revisions(r, s) = 1 .. Cardinality(OffersOf(r, s))
  BY DEF OffersNumbered
<1> QED BY <1>1, <1>2, <1>3, <1>4

(* The suppliers, requests and approvals move.                               *)
LEMMA BesideTheRfqs ==
    ASSUME SourcingInv, UNCHANGED <<rfqs, quotes>>, suppliers' \in [Suppliers -> SupplierStates]
    PROVE  SourcingInv'
<1>1. SourcingRows' /\ OneInTheRunning'
  BY DEF SourcingInv, SourcingRows, OneInTheRunning
<1>2. OffersNumbered'
  BY DEF SourcingInv, OffersNumbered, OffersOf, Revisions
<1> QED BY <1>1, <1>2 DEF SourcingInv

(* An RFQ moves while its quotations stay: before it is issued it has none,  *)
(* and until it ends its move concerns none.                                 *)
LEMMA RfqMoved ==
    ASSUME SourcingInv, NEW r \in Rfqs, NEW x \in RfqRecords, rfqs' = [rfqs EXCEPT ![r] = x],
           UNCHANGED <<quotes, suppliers>>,
           \/ rfqs[r].state \in {"NONE", "DRAFT"} /\ x.state \in {"DRAFT", "OPEN"}
           \/ rfqs[r].state = "OPEN" /\ x.state \in {"OPEN", "EVALUATING"} /\ x.invited = rfqs[r].invited
    PROVE  SourcingInv'
<1>1. /\ rfqs' \in [Rfqs -> RfqRecords] /\ rfqs'[r] = x /\ \A e \in Rfqs : e # r => rfqs'[e] = rfqs[e]
  BY DEF SourcingInv, SourcingRows
<1>2. ASSUME NEW q \in Quotes PROVE QuoteOK(q, quotes[q], rfqs')
  <2>1. QuoteOK(q, quotes[q], rfqs)
    BY QuoteFacts
  <2>2. CASE quotes[q].state = "NONE"
    BY <2>1, <2>2 DEF QuoteOK
  <2>3. CASE quotes[q].state # "NONE" /\ quotes[q].rfq # r
    <3>1. quotes[q].rfq \in Rfqs
      BY <2>1, <2>3 DEF QuoteOK
    <3>2. rfqs'[quotes[q].rfq] = rfqs[quotes[q].rfq]
      BY <1>1, <2>3, <3>1
    <3> QED BY <2>1, <2>3, <3>2 DEF QuoteOK
  <2>4. CASE quotes[q].state # "NONE" /\ quotes[q].rfq = r
    BY <1>1, <2>1, <2>4 DEF QuoteOK, RfqEnds
  <2> QED BY <2>2, <2>3, <2>4
<1>3. \A e \in Rfqs : rfqs'[e].state = "AWARDED" => e # r
  BY <1>1
<1>4. SourcingRows'
  BY <1>1, <1>2, <1>3 DEF SourcingInv, SourcingRows
<1>5. OneInTheRunning'
  BY DEF SourcingInv, OneInTheRunning
<1>6. OffersNumbered'
  BY DEF SourcingInv, OffersNumbered, OffersOf, Revisions
<1> QED BY <1>4, <1>5, <1>6 DEF SourcingInv

(* An RFQ ends: nothing of it stays open, and the selected offer, if any,    *)
(* becomes the accepted one.                                                 *)
LEMMA RfqEnded ==
    ASSUME SourcingInv, NEW r \in Rfqs, NEW x \in RfqRecords, rfqs' = [rfqs EXCEPT ![r] = x], UNCHANGED suppliers,
           NEW command, NEW selected, SettleQuotes(r, command, selected),
           rfqs[r].state \in {"DRAFT", "OPEN", "EVALUATING"}, x.invited = rfqs[r].invited,
           \/ command = "CANCEL" /\ x.state = "CANCELLED"
           \/ command = "CLOSE_NO_AWARD" /\ x.state = "CLOSED_NO_AWARD" /\ selected = "NONE"
           \/ /\ command = "AWARD" /\ x.state = "AWARDED" /\ x.awarded = selected /\ selected \in Quotes
              /\ quotes[selected].state = "SUBMITTED" /\ quotes[selected].rfq = r
    PROVE  SourcingInv'
<1>1. /\ rfqs' \in [Rfqs -> RfqRecords] /\ rfqs'[r] = x /\ \A e \in Rfqs : e # r => rfqs'[e] = rfqs[e]
  BY DEF SourcingInv, SourcingRows
<1>2. quotes \in [Quotes -> QuoteRecords]
  BY DEF SourcingInv, SourcingRows
<1>3. ASSUME NEW q \in Quotes
      PROVE  /\ quotes[q].rfq # r => quotes'[q] = quotes[q]
             /\ quotes[q].rfq = r => quotes'[q] = [quotes[q] EXCEPT !.state = Settled(q, command, selected)]
  BY DEF SettleQuotes
<1>4. ASSUME NEW q \in Quotes
      PROVE  /\ quotes'[q] \in QuoteRecords
             /\ quotes'[q].rfq = quotes[q].rfq /\ quotes'[q].supplier = quotes[q].supplier
             /\ quotes'[q].revision = quotes[q].revision /\ quotes'[q].replaces = quotes[q].replaces
             /\ quotes'[q].state = IF quotes[q].rfq = r THEN Settled(q, command, selected) ELSE quotes[q].state
  <2>1. Settled(q, command, selected) \in QuoteStates
    BY <1>2 DEF Settled, QuoteRecords, QuoteStates
  <2>2. quotes[q] \in QuoteRecords
    BY <1>2
  <2> QED BY <1>3, <2>1, <2>2 DEF QuoteRecords
<1>5. ASSUME NEW q \in Quotes PROVE QuoteOK(q, quotes'[q], rfqs')
  <2>1. QuoteOK(q, quotes[q], rfqs) /\ quotes[q] \in QuoteRecords
    BY QuoteFacts
  <2>2. CASE quotes[q].state = "NONE"
    <3>1. quotes[q].rfq = "NONE" /\ r # "NONE"
      BY <2>1, <2>2, SourcingAssumption DEF QuoteOK, NoQuote
    <3>2. quotes'[q] = quotes[q]
      BY <1>3, <3>1
    <3> QED BY <2>1, <2>2, <3>2 DEF QuoteOK
  <2>3. CASE quotes[q].state # "NONE" /\ quotes[q].rfq # r
    <3>1. quotes[q].rfq \in Rfqs /\ quotes'[q] = quotes[q]
      BY <1>3, <2>1, <2>3 DEF QuoteOK
    <3>2. rfqs'[quotes[q].rfq] = rfqs[quotes[q].rfq]
      BY <1>1, <2>3, <3>1
    <3> QED BY <2>1, <2>3, <3>1, <3>2 DEF QuoteOK
  <2>4. CASE quotes[q].state # "NONE" /\ quotes[q].rfq = r
    <3>1. /\ quotes[q].supplier \in rfqs[r].invited /\ rfqs[r].state \notin {"NONE", "DRAFT"}
          /\ quotes[q].state \notin {"ACCEPTED", "REJECTED"}
      BY <2>1, <2>4 DEF QuoteOK
    <3>2. quotes'[q].state = Settled(q, command, selected) /\ quotes'[q].rfq = r /\ quotes'[q].supplier \in x.invited
      BY <1>4, <2>4, <3>1
    <3>3. /\ Settled(q, command, selected) \notin {"NONE", "DRAFT", "SUBMITTED"}
          /\ Settled(q, command, selected) = "ACCEPTED" <=> (x.state = "AWARDED" /\ x.awarded = q)
          /\ Settled(q, command, selected) = "REJECTED" => x.state \in {"AWARDED", "CLOSED_NO_AWARD"}
      <4>1. CASE command = "CANCEL"
        BY <2>4, <3>1, <4>1 DEF Settled
      <4>2. CASE command = "CLOSE_NO_AWARD" /\ selected = "NONE" /\ x.state = "CLOSED_NO_AWARD"
        BY <2>4, <3>1, <4>2, SourcingAssumption DEF Settled
      <4>3. CASE command = "AWARD"
        BY <2>4, <3>1, <4>3 DEF Settled
      <4> QED BY <4>1, <4>2, <4>3
    <3>4. x.state \in RfqEnds
      BY DEF RfqEnds
    <3> QED BY <1>1, <3>2, <3>3, <3>4 DEF QuoteOK, RfqEnds
  <2> QED BY <2>2, <2>3, <2>4
<1>6. quotes' \in [Quotes -> QuoteRecords]
  <2>1. quotes' = [q \in Quotes |-> quotes'[q]]
    BY DEF SettleQuotes
  <2> QED BY <1>4, <2>1
<1>7. ASSUME NEW e \in Rfqs, rfqs'[e].state = "AWARDED"
      PROVE  rfqs'[e].awarded \in Quotes /\ quotes'[rfqs'[e].awarded].state # "NONE" /\ quotes'[rfqs'[e].awarded].rfq = e
  <2>1. CASE e = r
    <3>1. x.awarded = selected /\ selected \in Quotes /\ quotes[selected].rfq = r /\ quotes[selected].state = "SUBMITTED" /\ command = "AWARD"
      BY <1>1, <1>7, <2>1
    <3>2. Settled(selected, command, selected) = "ACCEPTED"
      BY <3>1 DEF Settled
    <3> QED BY <1>1, <1>4, <2>1, <3>1, <3>2
  <2>2. CASE e # r
    <3>1. rfqs'[e] = rfqs[e] /\ rfqs[e].awarded \in Quotes /\ quotes[rfqs[e].awarded].state # "NONE" /\ quotes[rfqs[e].awarded].rfq = e
      BY <1>1, <1>7, <2>2 DEF SourcingInv, SourcingRows
    <3> QED BY <1>4, <2>2, <3>1
  <2> QED BY <2>1, <2>2
<1>8. SourcingRows'
  BY <1>1, <1>5, <1>6, <1>7 DEF SourcingInv, SourcingRows
<1>9. OneInTheRunning'
  <2>1. ASSUME NEW q \in Quotes, quotes'[q].state \in {"SUBMITTED", "ACCEPTED"}
        PROVE  quotes[q].state \in {"SUBMITTED", "ACCEPTED"}
    BY <1>4, <2>1 DEF Settled
  <2> QED BY <1>4, <2>1 DEF SourcingInv, OneInTheRunning
<1>10. OffersNumbered'
  <2>1. \A q \in Quotes : quotes[q].state = "WITHDRAWN" => quotes'[q].state = "WITHDRAWN"
    BY <1>4 DEF Settled
  <2>2. \A q \in Quotes : quotes[q].replaces \in Quotes \cup {"NONE"}
    BY <1>2 DEF QuoteRecords
  <2> QED BY <1>4, <2>1, <2>2, NumberingKept DEF SourcingInv
<1> QED BY <1>8, <1>9, <1>10 DEF SourcingInv

(* A quotation moves while its RFQ is open or evaluated.                     *)
LEMMA QuoteMoved ==
    ASSUME SourcingInv, NEW q \in Quotes, NEW to \in {"SUBMITTED", "WITHDRAWN", "DISQUALIFIED"},
           quotes' = [quotes EXCEPT ![q].state = to], UNCHANGED <<rfqs, suppliers>>,
           quotes[q].state \in {"DRAFT", "SUBMITTED"},
           rfqs[quotes[q].rfq].state \in {"OPEN", "EVALUATING"},
           to = "SUBMITTED" => ~ HasCurrentOffer(quotes[q].rfq, quotes[q].supplier)
    PROVE  SourcingInv'
<1>1. quotes \in [Quotes -> QuoteRecords] /\ quotes[q] \in QuoteRecords
  BY DEF SourcingInv, SourcingRows
<1> DEFINE x == [quotes[q] EXCEPT !.state = to]
<1>2. /\ x \in QuoteRecords /\ x.state = to /\ x.rfq = quotes[q].rfq /\ x.supplier = quotes[q].supplier
      /\ x.revision = quotes[q].revision /\ x.replaces = quotes[q].replaces
  BY <1>1 DEF QuoteRecords, QuoteStates
<1>3. quotes' = [quotes EXCEPT ![q] = x]
  BY <1>1
<1> HIDE DEF x
<1>4. quotes' \in [Quotes -> QuoteRecords] /\ quotes'[q] = x /\ \A e \in Quotes : e # q => quotes'[e] = quotes[e]
  BY <1>1, <1>2, <1>3
<1>5. \A e \in Quotes : QuoteOK(e, quotes'[e], rfqs')
  <2>1. QuoteOK(q, quotes[q], rfqs) /\ \A e \in Quotes : QuoteOK(e, quotes[e], rfqs)
    BY QuoteFacts
  <2>2. QuoteOK(q, x, rfqs)
    BY <1>2, <2>1 DEF QuoteOK, RfqEnds
  <2> QED BY <1>4, <2>1, <2>2
<1>6. ASSUME NEW r \in Rfqs, rfqs[r].state = "AWARDED"
      PROVE  /\ rfqs[r].awarded \in Quotes /\ quotes'[rfqs[r].awarded].state # "NONE"
             /\ quotes'[rfqs[r].awarded].rfq = r
  <2>1. rfqs[r].awarded \in Quotes /\ quotes[rfqs[r].awarded].state # "NONE" /\ quotes[rfqs[r].awarded].rfq = r
    BY <1>6 DEF SourcingInv, SourcingRows
  <2> QED BY <1>2, <1>4, <2>1
<1>7. SourcingRows'
  BY <1>4, <1>5, <1>6 DEF SourcingInv, SourcingRows
<1>8. OneInTheRunning'
  <2>1. ASSUME to = "SUBMITTED", NEW e \in Quotes, e # q, quotes[e].state \in {"SUBMITTED", "ACCEPTED"},
               quotes[e].rfq = quotes[q].rfq, quotes[e].supplier = quotes[q].supplier
        PROVE  FALSE
    <3>1. quotes[e].state = "ACCEPTED"
      BY <2>1 DEF HasCurrentOffer, OffersOf
    <3> QED BY <2>1, <3>1, QuoteFacts DEF QuoteOK
  <2>2. ASSUME NEW e \in Quotes, NEW f \in Quotes,
               quotes'[e].state \in {"SUBMITTED", "ACCEPTED"}, quotes'[f].state \in {"SUBMITTED", "ACCEPTED"},
               quotes'[e].rfq = quotes'[f].rfq, quotes'[e].supplier = quotes'[f].supplier, e # f
        PROVE  FALSE
    <3>1. CASE e # q /\ f # q
      BY <1>4, <2>2, <3>1 DEF SourcingInv, OneInTheRunning
    <3>2. CASE e = q
      BY <1>2, <1>4, <2>1, <2>2, <3>2
    <3>3. CASE f = q
      BY <1>2, <1>4, <2>1, <2>2, <3>3
    <3> QED BY <3>1, <3>2, <3>3
  <2> QED BY <2>2 DEF OneInTheRunning
<1>9. OffersNumbered'
  <2>1. \A e \in Quotes : quotes[e].replaces \in Quotes \cup {"NONE"}
    BY <1>1 DEF QuoteRecords
  <2> QED BY <1>2, <1>4, <2>1, NumberingKept DEF SourcingInv
<1> QED BY <1>7, <1>8, <1>9 DEF SourcingInv

(* A quotation is written: the first of its supplier, or the revision of one *)
(* that was withdrawn.                                                       *)
LEMMA QuoteWritten ==
    ASSUME SourcingInv, NEW q \in Quotes, NEW r \in Rfqs, NEW s \in Suppliers, NEW previous \in Quotes \cup {"NONE"},
           CreateQuotation(q, r, s, previous), UNCHANGED <<rfqs, suppliers>>
    PROVE  SourcingInv'
<1>1. /\ quotes \in [Quotes -> QuoteRecords] /\ quotes[q].state = "NONE" /\ rfqs[r].state = "OPEN" /\ s \in rfqs[r].invited
      /\ IF previous = "NONE" THEN 1 \notin Revisions(r, s)
         ELSE previous \in OffersOf(r, s) /\ quotes[previous].state = "WITHDRAWN"
  BY DEF SourcingInv, SourcingRows, CreateQuotation
<1>2. quotes[q] = NoQuote /\ quotes[q].rfq # r
  BY <1>1, QuoteFacts, SourcingAssumption DEF QuoteOK, NoQuote
<1> DEFINE O == OffersOf(r, s)
<1>3. PICK n \in Nat : n = Cardinality(O) /\ IsFiniteSet(O) /\ O \subseteq Quotes /\ Cardinality(O \cup {q}) = n + 1 /\ q \notin O
  <2>1. O \subseteq Quotes /\ q \notin O
    BY <1>2 DEF OffersOf
  <2>2. IsFiniteSet(O)
    BY <2>1, SourcingAssumption, FS_Subset
  <2>3. Cardinality(O) \in Nat
    BY <2>2, FS_CardinalityType
  <2>4. Cardinality(O \cup {q}) = Cardinality(O) + 1
    BY <2>1, <2>2, FS_AddElement
  <2> QED BY <2>1, <2>2, <2>3, <2>4
<1>4. Revisions(r, s) = 1 .. n
  BY <1>3 DEF SourcingInv, OffersNumbered
<1>5. Cardinality(Revisions(r, s)) = n
  <2>1. Cardinality(1 .. n) = IF 1 > n THEN 0 ELSE n - 1 + 1
    BY FS_Interval
  <2> QED BY <1>4, <2>1
<1> DEFINE x == [state |-> "DRAFT", rfq |-> r, supplier |-> s, replaces |-> previous,
                 revision |-> IF previous = "NONE" THEN 1 ELSE Cardinality(Revisions(r, s)) + 1]
<1>6. quotes' = [quotes EXCEPT ![q] = x]
  BY DEF CreateQuotation
<1>7. x.revision = n + 1
  <2>1. CASE previous = "NONE"
    <3>1. n = 0
      BY <1>1, <1>4, <2>1
    <3> QED BY <2>1, <3>1
  <2>2. CASE previous # "NONE"
    BY <1>5, <2>2
  <2> QED BY <2>1, <2>2
<1>8. x.state = "DRAFT" /\ x.rfq = r /\ x.supplier = s /\ x.replaces = previous
  OBVIOUS
<1>9. x \in QuoteRecords
  BY <1>5 DEF QuoteRecords, QuoteStates
<1> HIDE DEF x
<1>10. quotes' \in [Quotes -> QuoteRecords] /\ quotes'[q] = x /\ \A e \in Quotes : e # q => quotes'[e] = quotes[e]
  BY <1>1, <1>6, <1>9
<1>11. \A e \in Quotes : QuoteOK(e, quotes'[e], rfqs')
  <2>1. \A e \in Quotes : QuoteOK(e, quotes[e], rfqs)
    BY QuoteFacts
  <2>2. QuoteOK(q, x, rfqs)
    BY <1>1, <1>8 DEF QuoteOK, RfqEnds
  <2> QED BY <1>10, <2>1, <2>2
<1>12. SourcingRows'
  <2>1. ASSUME NEW e \in Rfqs, rfqs[e].state = "AWARDED"
        PROVE  /\ rfqs[e].awarded \in Quotes /\ quotes'[rfqs[e].awarded].state # "NONE"
               /\ quotes'[rfqs[e].awarded].rfq = e
    <3>1. rfqs[e].awarded \in Quotes /\ quotes[rfqs[e].awarded].state # "NONE" /\ quotes[rfqs[e].awarded].rfq = e
      BY <2>1 DEF SourcingInv, SourcingRows
    <3> QED BY <1>1, <1>10, <3>1
  <2> QED BY <1>10, <1>11, <2>1 DEF SourcingInv, SourcingRows
<1>13. OneInTheRunning'
  BY <1>8, <1>10 DEF SourcingInv, OneInTheRunning
<1>14. ASSUME NEW e \in Rfqs, NEW t \in Suppliers
       PROVE  OffersOf(e, t)' = IF e = r /\ t = s THEN O \cup {q} ELSE OffersOf(e, t)
  <2>1. "NONE" # e
    BY SourcingAssumption
  <2>2. quotes[q].rfq = "NONE"
    BY <1>2 DEF NoQuote
  <2> QED BY <1>8, <1>10, <2>1, <2>2 DEF OffersOf
<1>15. OffersNumbered'
  <2> SUFFICES ASSUME NEW e \in Rfqs, NEW t \in Suppliers
               PROVE  /\ Revisions(e, t)' = 1 .. Cardinality(OffersOf(e, t)')
                      /\ \A o \in OffersOf(e, t)' : quotes'[o].replaces # "NONE" =>
                           /\ quotes'[quotes'[o].replaces].revision < quotes'[o].revision
                           /\ quotes'[quotes'[o].replaces].state = "WITHDRAWN"
    BY DEF OffersNumbered
  <2>1. Revisions(e, t)' = {quotes'[o].revision : o \in OffersOf(e, t)'}
    BY DEF Revisions
  <2>2. /\ Revisions(e, t) = {quotes[o].revision : o \in OffersOf(e, t)}
        /\ q \notin OffersOf(e, t) /\ OffersOf(e, t) \subseteq Quotes
    BY <1>2, SourcingAssumption DEF Revisions, OffersOf, NoQuote
  <2>3. Revisions(e, t) = 1 .. Cardinality(OffersOf(e, t))
    BY DEF SourcingInv, OffersNumbered
  <2>4. ASSUME NEW o \in OffersOf(e, t), quotes[o].replaces # "NONE"
        PROVE  /\ quotes'[quotes'[o].replaces].revision < quotes'[o].revision
               /\ quotes'[quotes'[o].replaces].state = "WITHDRAWN"
    <3>1. quotes[quotes[o].replaces].revision < quotes[o].revision /\ quotes[quotes[o].replaces].state = "WITHDRAWN"
      BY <2>4 DEF SourcingInv, OffersNumbered
    <3>2. quotes[o].replaces \in Quotes /\ quotes[o].replaces # q /\ o # q /\ o \in Quotes
      <4>1. quotes[o] \in QuoteRecords
        BY <1>1, <2>2
      <4> QED BY <1>1, <2>2, <2>4, <3>1, <4>1 DEF QuoteRecords
    <3> QED BY <1>10, <3>1, <3>2
  <2>5. CASE ~(e = r /\ t = s)
    <3>1. OffersOf(e, t)' = OffersOf(e, t)
      BY <1>14, <2>5
    <3>2. \A o \in OffersOf(e, t) : quotes'[o] = quotes[o]
      BY <1>10, <2>2
    <3>3. Revisions(e, t)' = Revisions(e, t)
      BY <2>1, <2>2, <3>1, <3>2
    <3> QED BY <2>3, <2>4, <3>1, <3>2, <3>3
  <2>6. CASE e = r /\ t = s
    <3>1. OffersOf(e, t)' = O \cup {q} /\ OffersOf(e, t) = O
      BY <1>14, <2>6
    <3>2. \A o \in O : quotes'[o] = quotes[o]
      BY <1>10, <2>2, <3>1
    <3>3. Revisions(e, t)' = Revisions(e, t) \cup {n + 1}
      BY <1>7, <1>10, <2>1, <2>2, <3>1, <3>2
    <3>4. Revisions(e, t)' = 1 .. n + 1
      BY <1>4, <2>6, <3>3
    <3>5. ASSUME previous # "NONE"
          PROVE  quotes'[previous].revision < quotes'[q].revision /\ quotes'[previous].state = "WITHDRAWN"
      <4>1. previous \in O /\ quotes[previous].state = "WITHDRAWN"
        BY <1>1, <3>5
      <4>2. quotes[previous].revision \in 1 .. n
        BY <1>4, <4>1 DEF Revisions
      <4>3. quotes'[previous] = quotes[previous]
        BY <3>2, <4>1
      <4> QED BY <1>7, <1>10, <4>1, <4>2, <4>3
    <3>6. \A o \in O \cup {q} : quotes'[o].replaces # "NONE" =>
             /\ quotes'[quotes'[o].replaces].revision < quotes'[o].revision
             /\ quotes'[quotes'[o].replaces].state = "WITHDRAWN"
      BY <1>8, <1>10, <2>4, <3>1, <3>2, <3>5
    <3>7. 1 .. Cardinality(O \cup {q}) = 1 .. n + 1
      BY <1>3
    <3> HIDE DEF O
    <3> QED BY <3>1, <3>4, <3>6, <3>7
  <2> QED BY <2>5, <2>6
<1> QED BY <1>12, <1>13, <1>15 DEF SourcingInv

(* Every step of sourcing preserves the invariant.                           *)
LEMMA SourcingStep == SourcingInv /\ [SourcingNext]_sourcingVars => SourcingInv'
<1> SUFFICES ASSUME SourcingInv, [SourcingNext]_sourcingVars PROVE SourcingInv'
  OBVIOUS
<1>t. suppliers \in [Suppliers -> SupplierStates] /\ rfqs \in [Rfqs -> RfqRecords] /\ quotes \in [Quotes -> QuoteRecords]
  BY DEF SourcingInv, SourcingRows
<1>1. CASE SupplierCommands
  <2>1. UNCHANGED <<rfqs, quotes>>
    BY <1>1 DEF SupplierCommands
  <2>2. PICK s \in Suppliers : CreateSupplier(s) \/ TransitionSupplier(s)
    BY <1>1 DEF SupplierCommands
  <2>3. \A m \in SupplierMoves : m[2] \in SupplierStates
    BY DEF SupplierMoves, SupplierStates
  <2>4. \E z \in SupplierStates : suppliers' = [suppliers EXCEPT ![s] = z]
    BY <2>2, <2>3 DEF CreateSupplier, TransitionSupplier, SupplierStates
  <2>5. suppliers' \in [Suppliers -> SupplierStates]
    BY <1>t, <2>4
  <2> QED BY <2>1, <2>5, BesideTheRfqs
<1>2. CASE RequestCommands \/ AwardApprovalMoves \/ UNCHANGED sourcingVars
  <2>1. UNCHANGED <<rfqs, quotes, suppliers>>
    BY <1>2 DEF RequestCommands, AwardApprovalMoves, sourcingVars
  <2> QED BY <1>t, <2>1, BesideTheRfqs
<1>3. CASE RfqCommands
  <2>0. UNCHANGED suppliers
    BY <1>3 DEF RfqCommands
  <2>1. PICK r \in Rfqs :
         \/ /\ \/ \E S \in SUBSET Suppliers, p \in PRs \cup {"NONE"} : CreateRfq(r, S, p)
               \/ \E S \in SUBSET Suppliers : UpdateRfqDraft(r, S)
               \/ IssueRfq(r) \/ CloseSubmissions(r) \/ DeadlinePasses(r)
            /\ UNCHANGED quotes
         \/ CancelRfq(r) \/ CloseNoAward(r)
         \/ \E q \in Quotes, a \in AwardRequests \cup {"NONE"} : AwardRfq(r, q, a)
    BY <1>3 DEF RfqCommands
  <2>t. rfqs[r] \in RfqRecords
    BY <1>t
  <2>2. ASSUME NEW S \in SUBSET Suppliers, NEW p \in PRs \cup {"NONE"}, CreateRfq(r, S, p), UNCHANGED quotes PROVE SourcingInv'
    <3> DEFINE x == [NoRfq EXCEPT !.state = "DRAFT", !.invited = S, !.request = p]
    <3>1. x \in RfqRecords /\ x.state = "DRAFT"
      BY DEF NoRfq, RfqRecords, RfqStates
    <3>2. rfqs[r].state = "NONE" /\ rfqs' = [rfqs EXCEPT ![r] = x]
      BY <2>2 DEF CreateRfq
    <3> HIDE DEF x
    <3> QED BY <2>0, <2>2, <3>1, <3>2, RfqMoved
  <2>3. ASSUME NEW S \in SUBSET Suppliers, UpdateRfqDraft(r, S), UNCHANGED quotes PROVE SourcingInv'
    <3> DEFINE x == [rfqs[r] EXCEPT !.invited = S, !.late = FALSE]
    <3>1. rfqs[r].state = "DRAFT" /\ rfqs' = [rfqs EXCEPT ![r].invited = S, ![r].late = FALSE]
      BY <2>3 DEF UpdateRfqDraft
    <3>2. x \in RfqRecords /\ x.state = rfqs[r].state
      BY <2>t DEF RfqRecords
    <3>3. rfqs' = [rfqs EXCEPT ![r] = x]
      BY <1>t, <3>1
    <3> HIDE DEF x
    <3> QED BY <2>0, <2>3, <3>1, <3>2, <3>3, RfqMoved
  <2>4. ASSUME NEW to \in {"OPEN", "EVALUATING"}, rfqs' = [rfqs EXCEPT ![r].state = to], UNCHANGED quotes,
               <<rfqs[r].state, to>> \in {<<"DRAFT", "OPEN">>, <<"OPEN", "EVALUATING">>}
        PROVE  SourcingInv'
    <3> DEFINE x == [rfqs[r] EXCEPT !.state = to]
    <3>1. x \in RfqRecords /\ x.state = to /\ x.invited = rfqs[r].invited
      BY <2>t DEF RfqRecords, RfqStates
    <3>2. rfqs' = [rfqs EXCEPT ![r] = x]
      BY <1>t, <2>4
    <3> HIDE DEF x
    <3> QED BY <2>0, <2>4, <3>1, <3>2, RfqMoved
  <2>5. ASSUME DeadlinePasses(r), UNCHANGED quotes PROVE SourcingInv'
    <3> DEFINE x == [rfqs[r] EXCEPT !.late = TRUE]
    <3>1. x \in RfqRecords /\ x.state = rfqs[r].state /\ x.invited = rfqs[r].invited
      BY <2>t DEF RfqRecords
    <3>2. rfqs[r].state \in {"DRAFT", "OPEN"} /\ rfqs' = [rfqs EXCEPT ![r] = x]
      BY <1>t, <2>5 DEF DeadlinePasses
    <3> HIDE DEF x
    <3> QED BY <2>0, <2>5, <3>1, <3>2, RfqMoved
  <2>6. ASSUME NEW to \in {"CANCELLED", "CLOSED_NO_AWARD"}, rfqs' = [rfqs EXCEPT ![r].state = to],
               rfqs[r].state \in {"DRAFT", "OPEN", "EVALUATING"},
               SettleQuotes(r, IF to = "CANCELLED" THEN "CANCEL" ELSE "CLOSE_NO_AWARD", "NONE")
        PROVE  SourcingInv'
    <3> DEFINE x == [rfqs[r] EXCEPT !.state = to]
    <3>1. x \in RfqRecords /\ x.state = to /\ x.invited = rfqs[r].invited
      BY <2>t DEF RfqRecords, RfqStates
    <3>2. rfqs' = [rfqs EXCEPT ![r] = x]
      BY <1>t, <2>6
    <3> HIDE DEF x
    <3>3. CASE to = "CANCELLED"
      BY <2>0, <2>6, <3>1, <3>2, <3>3, RfqEnded
    <3>4. CASE to = "CLOSED_NO_AWARD"
      BY <2>0, <2>6, <3>1, <3>2, <3>4, RfqEnded
    <3> QED BY <3>3, <3>4
  <2>7. ASSUME NEW q \in Quotes, NEW a \in AwardRequests \cup {"NONE"}, AwardRfq(r, q, a) PROVE SourcingInv'
    <3> DEFINE x == [rfqs[r] EXCEPT !.state = "AWARDED", !.awarded = q, !.approval = a]
    <3>1. x \in RfqRecords /\ x.state = "AWARDED" /\ x.invited = rfqs[r].invited /\ x.awarded = q
      BY <2>t DEF RfqRecords, RfqStates
    <3>2. /\ rfqs[r].state = "EVALUATING" /\ quotes[q].state = "SUBMITTED" /\ quotes[q].rfq = r /\ SettleQuotes(r, "AWARD", q)
          /\ rfqs' = [rfqs EXCEPT ![r].state = "AWARDED", ![r].awarded = q, ![r].approval = a]
      BY <2>7 DEF AwardRfq
    <3>3. rfqs' = [rfqs EXCEPT ![r] = x]
      BY <1>t, <3>2
    <3> HIDE DEF x
    <3> QED BY <2>0, <3>1, <3>2, <3>3, RfqEnded
  <2>8. CASE (IssueRfq(r) \/ CloseSubmissions(r)) /\ UNCHANGED quotes
    BY <2>4, <2>8 DEF IssueRfq, CloseSubmissions
  <2>9. CASE CancelRfq(r) \/ CloseNoAward(r)
    BY <2>6, <2>9 DEF CancelRfq, CloseNoAward
  <2> QED BY <2>1, <2>2, <2>3, <2>5, <2>7, <2>8, <2>9
<1>4. CASE QuotationCommands
  <2>1. UNCHANGED <<rfqs, suppliers>>
    BY <1>4 DEF QuotationCommands
  <2>2. PICK q \in Quotes :
         \/ \E r \in Rfqs, s \in Suppliers, p \in Quotes \cup {"NONE"} : CreateQuotation(q, r, s, p)
         \/ SubmitQuotation(q) \/ WithdrawQuotation(q) \/ DisqualifyQuotation(q)
    BY <1>4 DEF QuotationCommands
  <2>3. ASSUME NEW r \in Rfqs, NEW s \in Suppliers, NEW p \in Quotes \cup {"NONE"}, CreateQuotation(q, r, s, p)
        PROVE  SourcingInv'
    BY <2>1, <2>3, QuoteWritten
  <2>4. CASE SubmitQuotation(q)
    BY <2>1, <2>4, QuoteMoved DEF SubmitQuotation
  <2>5. CASE WithdrawQuotation(q)
    BY <2>1, <2>5, QuoteMoved DEF WithdrawQuotation
  <2>6. CASE DisqualifyQuotation(q)
    BY <2>1, <2>6, QuoteMoved DEF DisqualifyQuotation
  <2> QED BY <2>2, <2>3, <2>4, <2>5, <2>6
<1> QED BY <1>1, <1>2, <1>3, <1>4 DEF SourcingNext

(* The invariant holds before the first request for quotation.               *)
LEMMA SourcingStart == SourcingInit => SourcingInv
<1> SUFFICES ASSUME SourcingInit PROVE SourcingInv
  OBVIOUS
<1>1. suppliers \in [Suppliers -> SupplierStates]
  BY DEF SourcingInit, SupplierStates
<1>2. rfqs \in [Rfqs -> RfqRecords] /\ \A r \in Rfqs : rfqs[r].state = "NONE"
  BY DEF SourcingInit, NoRfq, RfqRecords, RfqStates
<1>3. quotes \in [Quotes -> QuoteRecords] /\ \A q \in Quotes : quotes[q] = NoQuote /\ quotes[q].state = "NONE" /\ quotes[q].rfq = "NONE"
  BY DEF SourcingInit, NoQuote, QuoteRecords, QuoteStates
<1>4. SourcingRows
  BY <1>1, <1>2, <1>3 DEF SourcingRows, QuoteOK
<1>5. OneInTheRunning
  BY <1>3 DEF OneInTheRunning
<1>6. \A r \in Rfqs, s \in Suppliers : OffersOf(r, s) = {}
  BY <1>3, SourcingAssumption DEF OffersOf
<1>7. Cardinality({}) = 0
  BY FS_EmptySet
<1>8. OffersNumbered
  BY <1>6, <1>7 DEF OffersNumbered, Revisions
<1> QED BY <1>4, <1>5, <1>8 DEF SourcingInv

(* The inductive invariant of sourcing: every quotation shares the fate of   *)
(* its RFQ, one offer of a supplier is in the running, and revisions are     *)
(* numbered.                                                                 *)
THEOREM SourcingInvariant == SourcingSpec => []SourcingInv
<1> QED BY SourcingStart, SourcingStep, PTL DEF SourcingSpec

(* A revision number never exceeds the number of quotations.                 *)
LEMMA RevisionsWithinQuotes ==
    ASSUME SourcingInv, NEW q \in Quotes
    PROVE  quotes[q].revision \in 0 .. Cardinality(Quotes)
<1>0. Cardinality(Quotes) \in Nat /\ IsFiniteSet(Quotes)
  BY SourcingAssumption, FS_CardinalityType
<1>1. CASE quotes[q].state = "NONE"
  <2>1. quotes[q].revision = 0
    BY <1>1, QuoteFacts DEF QuoteOK, NoQuote
  <2> QED BY <1>0, <2>1
<1>2. CASE quotes[q].state # "NONE"
  <2>1. PICK r \in Rfqs, s \in Suppliers : q \in OffersOf(r, s)
    BY <1>2, QuoteFacts DEF OffersOf
  <2>2. quotes[q].revision \in 1 .. Cardinality(OffersOf(r, s))
    BY <2>1 DEF SourcingInv, OffersNumbered, Revisions
  <2>3. OffersOf(r, s) \in SUBSET Quotes
    BY DEF OffersOf
  <2>4. Cardinality(OffersOf(r, s)) <= Cardinality(Quotes) /\ IsFiniteSet(OffersOf(r, s))
    BY <1>0, <2>3, FS_Subset
  <2>5. Cardinality(OffersOf(r, s)) \in Nat
    BY <2>4, FS_CardinalityType
  <2> QED BY <1>0, <2>2, <2>4, <2>5
<1> QED BY <1>1, <1>2

(* For any number of suppliers, RFQs and quotations: when an RFQ ends no     *)
(* quotation of it stays open, the awarded one alone is ACCEPTED, and it is  *)
(* of a supplier that was invited.                                           *)
THEOREM AwardsAreAlwaysFinal == SourcingSpec => []AwardsAreFinal
<1>1. SourcingInv => AwardsAreFinal
  <2> SUFFICES ASSUME SourcingInv PROVE AwardsAreFinal
    OBVIOUS
  <2>1. \A s \in Suppliers : suppliers[s] = "NONE" \/ \E m \in SupplierMoves : suppliers[s] = m[1]
    <3> SUFFICES ASSUME NEW s \in Suppliers PROVE suppliers[s] = "NONE" \/ \E m \in SupplierMoves : suppliers[s] = m[1]
      OBVIOUS
    <3>1. suppliers[s] \in SupplierStates
      BY DEF SourcingInv, SourcingRows
    <3>2. \A z \in SupplierStates \ {"NONE"} : \E m \in SupplierMoves : z = m[1]
      <4>1. /\ <<"PROSPECT", "APPROVED">> \in SupplierMoves /\ <<"APPROVED", "PREFERRED">> \in SupplierMoves
            /\ <<"PREFERRED", "APPROVED">> \in SupplierMoves /\ <<"SUSPENDED", "APPROVED">> \in SupplierMoves
            /\ <<"BLOCKED", "PROSPECT">> \in SupplierMoves /\ <<"INACTIVE", "PROSPECT">> \in SupplierMoves
        BY DEF SupplierMoves
      <4> HIDE DEF SupplierMoves
      <4> QED BY <4>1 DEF SupplierStates
    <3> QED BY <3>1, <3>2
  <2>2. \A r \in Rfqs : rfqs[r].invited \subseteq Suppliers
    BY DEF SourcingInv, SourcingRows, RfqRecords
  <2>3. \A q \in Quotes : quotes[q].revision \in 0 .. Cardinality(Quotes)
    BY RevisionsWithinQuotes
  <2>4. \A q \in Quotes : quotes[q].state # "NONE" =>
           /\ rfqs[quotes[q].rfq].state \in {"AWARDED", "CLOSED_NO_AWARD", "CANCELLED"} => quotes[q].state \notin {"DRAFT", "SUBMITTED"}
           /\ quotes[q].state = "ACCEPTED" <=> (rfqs[quotes[q].rfq].state = "AWARDED" /\ rfqs[quotes[q].rfq].awarded = q)
           /\ quotes[q].state = "REJECTED" => rfqs[quotes[q].rfq].state \in {"AWARDED", "CLOSED_NO_AWARD"}
    BY DEF SourcingInv, SourcingRows, QuoteOK, RfqEnds
  <2>5. ASSUME NEW r \in Rfqs, rfqs[r].state = "AWARDED"
        PROVE  rfqs[r].awarded # "NONE" /\ quotes[rfqs[r].awarded].supplier \in rfqs[r].invited
    <3>1. rfqs[r].awarded \in Quotes /\ quotes[rfqs[r].awarded].state # "NONE" /\ quotes[rfqs[r].awarded].rfq = r
      BY <2>5 DEF SourcingInv, SourcingRows
    <3>2. quotes[rfqs[r].awarded].supplier \in rfqs[r].invited
      BY <3>1, QuoteFacts DEF QuoteOK
    <3> QED BY <3>1, <3>2, SourcingAssumption
  <2> QED BY <2>1, <2>2, <2>3, <2>4, <2>5 DEF AwardsAreFinal, SourcingTypeOK
<1> QED BY <1>1, SourcingInvariant, PTL

(* For any number of quotations: a supplier has one offer in the running,    *)
(* its revisions are numbered without a gap, and a revision replaces an      *)
(* earlier offer that stays withdrawn.                                       *)
THEOREM OneOfferAlways == SourcingSpec => []OneOfferPerSupplier
<1>1. SourcingInv => OneOfferPerSupplier
  <2> SUFFICES ASSUME SourcingInv, NEW r \in Rfqs, NEW s \in Suppliers
               PROVE  Cardinality({q \in OffersOf(r, s) : quotes[q].state \in {"SUBMITTED", "ACCEPTED"}}) <= 1
    BY DEF SourcingInv, OffersNumbered, OneOfferPerSupplier
  <2> DEFINE R == {q \in OffersOf(r, s) : quotes[q].state \in {"SUBMITTED", "ACCEPTED"}}
  <2>1. \A p, q \in R : p = q
    BY DEF SourcingInv, OneInTheRunning, OffersOf
  <2> HIDE DEF R
  <2>2. ASSUME NEW q \in R PROVE Cardinality(R) <= 1
    <3>1. R = {q}
      BY <2>1, <2>2
    <3>2. Cardinality({q}) = 1
      BY FS_Singleton
    <3> QED BY <3>1, <3>2
  <2>3. Cardinality(R) <= 1
    <3>1. CASE R = {}
      <4>1. Cardinality({}) = 0
        BY FS_EmptySet
      <4> QED BY <3>1, <4>1
    <3> QED BY <2>2, <3>1
  <2> QED BY <2>3 DEF R
<1> QED BY <1>1, SourcingInvariant, PTL

-----------------------------------------------------------------------------
(* Commercial documents: what may be cited as evidence is in the store.      *)

DocumentStates == {"NONE", "DRAFT", "FINAL", "SUPERSEDED", "VOID"}
VersionRecords == [state : DocumentStates, object : Declarations, signed : BOOLEAN]
DocumentRecords == [state : DocumentStates, versions : Seq(VersionRecords)]

(* One document: it exists with its first version, and its state is that of  *)
(* the current one; a FINAL version is stored as declared.                   *)
DocumentOK(x, stored) ==
    /\ x.state = "NONE" <=> x.versions = <<>>
    /\ x.state # "NONE" => x.versions[Len(x.versions)].state = x.state
    /\ \A i \in 1 .. Len(x.versions) : x.versions[i].state = "FINAL" => x.versions[i].object \in stored

DocInv ==
    /\ documents \in [Docs -> DocumentRecords]
    /\ inspected \in [Docs -> Declarations \cup {NoObject}] /\ objects \subseteq Declarations
    /\ \A d \in Docs : DocumentOK(documents[d], objects)
    /\ \A d \in Docs : inspected[d] # NoObject => inspected[d] \in objects /\ documents[d].state # "NONE"
    /\ IsFiniteSet(VersionsInUse) /\ Cardinality(VersionsInUse) <= MaxDocVersions

(* What the invariant says of one document.                                  *)
LEMMA DocFacts ==
    ASSUME DocInv, NEW d \in Docs
    PROVE  /\ documents[d] \in DocumentRecords /\ DocumentOK(documents[d], objects)
           /\ documents[d].versions \in Seq(VersionRecords) /\ Last(d) \in Nat
           /\ documents[d].state # "NONE" =>
                 /\ Last(d) \in 1 .. Last(d) /\ CurrentVersion(d) \in VersionRecords
                 /\ CurrentVersion(d).state = documents[d].state
<1>1. documents[d] \in DocumentRecords /\ DocumentOK(documents[d], objects)
  BY DEF DocInv
<1>2. documents[d].versions \in Seq(VersionRecords) /\ Last(d) \in Nat
  BY <1>1 DEF DocumentRecords, Last
<1>3. ASSUME documents[d].state # "NONE" PROVE Last(d) \in 1 .. Last(d)
  <2>1. documents[d].versions # <<>>
    BY <1>1, <1>3 DEF DocumentOK
  <2> QED BY <1>2, <2>1 DEF Last
<1>4. ASSUME documents[d].state # "NONE" PROVE CurrentVersion(d) \in VersionRecords
  BY <1>2, <1>3, <1>4 DEF Last, CurrentVersion
<1>5. documents[d].state # "NONE" => CurrentVersion(d).state = documents[d].state
  BY <1>1 DEF DocumentOK, CurrentVersion, Last
<1> QED BY <1>1, <1>2, <1>3, <1>4, <1>5

(* Moving the current version changes its state and nothing else.            *)
LEMMA MovedFacts ==
    ASSUME DocInv, NEW d \in Docs, documents[d].state # "NONE", NEW from, NEW to \in DocumentStates
    PROVE  /\ Moved(d, from, to) \in Seq(VersionRecords) /\ Len(Moved(d, from, to)) = Last(d)
           /\ \A i \in 1 .. Last(d) : /\ Moved(d, from, to)[i].object = documents[d].versions[i].object
                                      /\ i # Last(d) => Moved(d, from, to)[i] = documents[d].versions[i]
           /\ Moved(d, from, to)[Last(d)].state = IF documents[d].state = from THEN to ELSE documents[d].state
<1> DEFINE v == documents[d].versions
           n == Last(d)
           x == [v[n] EXCEPT !.state = IF v[n].state = from THEN to ELSE v[n].state]
<1>1. v \in Seq(VersionRecords) /\ n \in Nat /\ n \in 1 .. n /\ n = Len(v) /\ v[n] \in VersionRecords /\ v[n].state = documents[d].state
  BY DocFacts DEF Last, CurrentVersion
<1>2. x \in VersionRecords /\ x.object = v[n].object /\ x.state = IF documents[d].state = from THEN to ELSE documents[d].state
  BY <1>1 DEF VersionRecords
<1>3. Moved(d, from, to) = [v EXCEPT ![n] = x]
  BY <1>1 DEF Moved, VersionRecords
<1> HIDE DEF v, n, x
<1>4. [v EXCEPT ![n] = x] \in Seq(VersionRecords) /\ Len([v EXCEPT ![n] = x]) = n
  BY <1>1, <1>2
<1>5. \A i \in 1 .. n : [v EXCEPT ![n] = x][i] = IF i = n THEN x ELSE v[i]
  BY <1>1
<1>6. \A i \in 1 .. n : /\ [v EXCEPT ![n] = x][i].object = v[i].object
                        /\ i # n => [v EXCEPT ![n] = x][i] = v[i]
  BY <1>2, <1>5
<1>7. [v EXCEPT ![n] = x][n].state = IF documents[d].state = from THEN to ELSE documents[d].state
  BY <1>1, <1>2, <1>5
<1> QED BY <1>3, <1>4, <1>6, <1>7 DEF v, n

(* The versions in use, document by document.                                *)
LEMMA InUse ==
    ASSUME DocInv
    PROVE  VersionsInUse = {e \in Docs \X Nat : e[2] \in 1 .. Last(e[1])}
<1>1. \A d \in Docs : DOMAIN documents[d].versions = 1 .. Last(d) /\ Last(d) \in Nat
  BY DocFacts DEF Last
<1> QED BY <1>1 DEF VersionsInUse

(* A step that writes one document, with as many versions or one more.       *)
LEMMA DocumentWritten ==
    ASSUME DocInv, NEW d \in Docs, NEW x \in DocumentRecords, documents' = [documents EXCEPT ![d] = x],
           DocumentOK(x, objects), x.state # "NONE", UNCHANGED objects,
           inspected' \in [Docs -> Declarations \cup {NoObject}],
           \A e \in Docs : inspected'[e] \in {inspected[e], NoObject},
           \/ Len(x.versions) = Last(d)
           \/ Len(x.versions) = Last(d) + 1 /\ Cardinality(VersionsInUse) < MaxDocVersions
    PROVE  DocInv'
<1>1. /\ documents' \in [Docs -> DocumentRecords] /\ documents'[d] = x
      /\ \A e \in Docs : e # d => documents'[e] = documents[e]
  BY DEF DocInv
<1>2. \A e \in Docs : DocumentOK(documents'[e], objects')
  BY <1>1 DEF DocInv
<1>3. \A e \in Docs : inspected'[e] # NoObject => inspected'[e] \in objects' /\ documents'[e].state # "NONE"
  BY <1>1 DEF DocInv
<1>4. VersionsInUse = {e \in Docs \X Nat : e[2] \in 1 .. Last(e[1])}
  BY InUse
<1>5. /\ \A e \in Docs : Last(e) \in Nat
      /\ \A e \in Docs : e # d => Last(e)' = Last(e)
      /\ Last(d)' = Len(x.versions)
  BY <1>1, DocFacts DEF Last
<1>6. VersionsInUse' = {e \in Docs \X Nat : e[2] \in 1 .. Last(e[1])'}
  <2>1. \A e \in Docs : Len(documents'[e].versions) \in Nat /\ DOMAIN documents'[e].versions = 1 .. Len(documents'[e].versions)
    BY <1>1 DEF DocumentRecords
  <2>2. VersionsInUse' = UNION {{e} \X DOMAIN documents'[e].versions : e \in Docs}
    BY DEF VersionsInUse
  <2> QED BY <2>1, <2>2 DEF Last
<1>7. IsFiniteSet(VersionsInUse') /\ Cardinality(VersionsInUse') <= MaxDocVersions
  <2>1. CASE Len(x.versions) = Last(d)
    <3>1. VersionsInUse' = VersionsInUse
      BY <1>4, <1>5, <1>6, <2>1
    <3> QED BY <3>1 DEF DocInv
  <2>2. CASE Len(x.versions) = Last(d) + 1 /\ Cardinality(VersionsInUse) < MaxDocVersions
    <3>1. VersionsInUse' = VersionsInUse \cup {<<d, Last(d) + 1>>}
      <4>1. \A e \in Docs, i \in Nat : i \in 1 .. Last(e)' <=> (i \in 1 .. Last(e) \/ (e = d /\ i = Last(d) + 1))
        BY <1>5, <2>2
      <4> QED BY <1>4, <1>5, <1>6, <4>1
    <3>2. <<d, Last(d) + 1>> \notin VersionsInUse
      BY <1>4, <1>5
    <3>3. IsFiniteSet(VersionsInUse)
      BY DEF DocInv
    <3>4. IsFiniteSet(VersionsInUse') /\ Cardinality(VersionsInUse') = Cardinality(VersionsInUse) + 1
      BY <3>1, <3>2, <3>3, FS_AddElement
    <3>5. Cardinality(VersionsInUse) \in Nat
      BY <3>3, FS_CardinalityType
    <3> QED BY <2>2, <3>4, <3>5, DocumentAssumption
  <2> QED BY <2>1, <2>2
<1> QED BY <1>1, <1>2, <1>3, <1>7 DEF DocInv

(* Moving a document and its current version to another state preserves the  *)
(* invariant, if a FINAL one has its object.                                 *)
LEMMA DocumentMoved ==
    ASSUME DocInv, NEW d \in Docs, NEW from \in DocumentStates \ {"NONE"}, NEW to \in DocumentStates \ {"NONE"},
           documents[d].state = from,
           documents' = [documents EXCEPT ![d] = [state |-> to, versions |-> Moved(d, from, to)]],
           to = "FINAL" => CurrentVersion(d).object \in objects,
           UNCHANGED objects,
           inspected' \in [Docs -> Declarations \cup {NoObject}],
           \A e \in Docs : inspected'[e] \in {inspected[e], NoObject}
    PROVE  DocInv'
<1> DEFINE v == Moved(d, from, to)
           x == [state |-> to, versions |-> v]
<1>1. /\ v \in Seq(VersionRecords) /\ Len(v) = Last(d)
      /\ \A i \in 1 .. Last(d) : v[i].object = documents[d].versions[i].object /\ (i # Last(d) => v[i] = documents[d].versions[i])
      /\ v[Last(d)].state = to
  BY MovedFacts
<1>2. /\ DocumentOK(documents[d], objects) /\ Last(d) \in Nat /\ Last(d) \in 1 .. Last(d)
      /\ CurrentVersion(d) = documents[d].versions[Last(d)] /\ Last(d) = Len(documents[d].versions)
  BY DocFacts DEF CurrentVersion, Last
<1> HIDE DEF v
<1>3. x \in DocumentRecords /\ x.state = to /\ x.versions = v
  BY <1>1 DEF DocumentRecords
<1>4. v # <<>>
  BY <1>1, <1>2
<1>5. \A i \in 1 .. Len(v) : v[i].state = "FINAL" => v[i].object \in objects
  BY <1>1, <1>2 DEF DocumentOK
<1>6. DocumentOK(x, objects)
  BY <1>1, <1>3, <1>4, <1>5 DEF DocumentOK
<1>7. documents' = [documents EXCEPT ![d] = x] /\ Len(x.versions) = Last(d)
  BY <1>1 DEF v
<1> HIDE DEF x
<1> QED BY <1>3, <1>6, <1>7, DocumentWritten

(* Creating a document or adding a version to it preserves the invariant.    *)
LEMMA VersionAppended ==
    ASSUME DocInv, NEW d \in Docs, NEW o \in Declarations, NEW signed \in BOOLEAN,
           CreateDocument(d, o, signed) \/ AddDocumentVersion(d, o, signed)
    PROVE  DocInv'
<1> DEFINE w == DraftVersion(o, signed)
<1>1. w \in VersionRecords /\ w.state = "DRAFT"
  BY DEF DraftVersion, VersionRecords, DocumentStates
<1>2. UNCHANGED <<inspected, objects>> /\ inspected \in [Docs -> Declarations \cup {NoObject}] /\ Cardinality(VersionsInUse) < MaxDocVersions
  BY DEF DocInv, CreateDocument, AddDocumentVersion
<1>3. Last(d) \in Nat /\ Last(d) = Len(documents[d].versions) /\ DocumentOK(documents[d], objects)
  BY DocFacts DEF Last
<1>4. PICK u \in Seq(VersionRecords) :
         /\ documents' = [documents EXCEPT ![d] = [state |-> "DRAFT", versions |-> Append(u, w)]]
         /\ Len(u) = Last(d)
         /\ \A i \in 1 .. Len(u) : u[i].state = "FINAL" => u[i].object \in objects
  <2>1. CASE CreateDocument(d, o, signed)
    <3>1. documents[d].versions = <<>>
      BY <1>3, <2>1 DEF DocumentOK, CreateDocument
    <3>2. <<w>> = Append(<<>>, w) /\ <<>> \in Seq(VersionRecords) /\ Len(<<>>) = Last(d)
      BY <1>3, <3>1
    <3>3. documents' = [documents EXCEPT ![d] = [state |-> "DRAFT", versions |-> <<w>>]]
      BY <2>1 DEF CreateDocument
    <3> WITNESS <<>> \in Seq(VersionRecords)
    <3> HIDE DEF w
    <3> QED BY <3>2, <3>3
  <2>2. CASE AddDocumentVersion(d, o, signed)
    <3> DEFINE u == Moved(d, "DRAFT", "SUPERSEDED")
    <3>1. documents[d].state # "NONE" /\ CurrentVersion(d).state # "FINAL"
          /\ documents' = [documents EXCEPT ![d] = [state |-> "DRAFT", versions |-> Append(u, w)]]
      BY <2>2 DEF AddDocumentVersion
    <3>2. documents[d].state # "FINAL"
      BY <3>1, DocFacts
    <3>3. /\ u \in Seq(VersionRecords) /\ Len(u) = Last(d)
          /\ \A i \in 1 .. Last(d) : i # Last(d) => u[i] = documents[d].versions[i]
          /\ u[Last(d)].state # "FINAL"
      BY <3>1, <3>2, MovedFacts DEF DocumentStates
    <3> HIDE DEF u, w
    <3>4. \A i \in 1 .. Len(u) : u[i].state = "FINAL" => u[i].object \in objects
      BY <1>3, <3>3 DEF DocumentOK
    <3>5. u \in Seq(VersionRecords) /\ Len(u) = Last(d)
      BY <3>3
    <3> QED BY <3>1, <3>4, <3>5
  <2> QED BY <2>1, <2>2
<1> DEFINE v == Append(u, w)
           x == [state |-> "DRAFT", versions |-> v]
<1> HIDE DEF w
<1>5. /\ v \in Seq(VersionRecords) /\ Len(v) = Last(d) + 1 /\ v # <<>> /\ v[Len(v)] = w
      /\ \A i \in 1 .. Len(u) : v[i] = u[i]
  <2>1. u \in Seq(VersionRecords) /\ w \in VersionRecords /\ Len(u) = Last(d)
    BY <1>1, <1>4
  <2>2. /\ Append(u, w) \in Seq(VersionRecords) /\ Len(Append(u, w)) = Len(u) + 1 /\ Append(u, w)[Len(u) + 1] = w
        /\ \A i \in 1 .. Len(u) : Append(u, w)[i] = u[i]
    BY <2>1, AppendProperties
  <2>3. v # <<>>
    BY <2>1, <2>2, AppendProperties
  <2> QED BY <2>1, <2>2, <2>3
<1> HIDE DEF v
<1>6. x \in DocumentRecords /\ x.state = "DRAFT" /\ x.versions = v
  BY <1>5 DEF DocumentRecords, DocumentStates
<1>7. \A i \in 1 .. Len(v) : v[i].state = "FINAL" => v[i].object \in objects
  <2> TAKE i \in 1 .. Len(v)
  <2>1. i \in 1 .. Len(u) \/ i = Len(v)
    BY <1>3, <1>4, <1>5
  <2> QED BY <1>1, <1>4, <1>5, <2>1
<1>8. DocumentOK(x, objects)
  BY <1>1, <1>5, <1>6, <1>7 DEF DocumentOK
<1>9. documents' = [documents EXCEPT ![d] = x] /\ Len(x.versions) = Last(d) + 1
  BY <1>4, <1>5 DEF v
<1> HIDE DEF x
<1> QED BY <1>2, <1>6, <1>8, <1>9, DocumentWritten

(* Steps that leave the documents alone.                                     *)
LEMMA DocumentsKept ==
    ASSUME DocInv, UNCHANGED documents, objects \subseteq objects', objects' \subseteq Declarations,
           inspected' \in [Docs -> Declarations \cup {NoObject}],
           \A e \in Docs : inspected'[e] # NoObject => inspected'[e] \in objects' /\ documents[e].state # "NONE"
    PROVE  DocInv'
<1>1. VersionsInUse' = VersionsInUse
  BY DEF VersionsInUse
<1>2. \A d \in Docs : DocumentOK(documents'[d], objects')
  BY DEF DocInv, DocumentOK
<1> QED BY <1>1, <1>2 DEF DocInv

(* Every step on documents and on the object store preserves the invariant.  *)
LEMMA DocStep == DocInv /\ [DocumentsNext]_documentVars => DocInv'
<1> SUFFICES ASSUME DocInv, [DocumentsNext]_documentVars PROVE DocInv'
  OBVIOUS
<1>t. /\ inspected \in [Docs -> Declarations \cup {NoObject}] /\ objects \subseteq Declarations
      /\ \A d \in Docs : inspected[d] # NoObject => inspected[d] \in objects /\ documents[d].state # "NONE"
  BY DEF DocInv
<1>1. ASSUME NEW d \in Docs, NEW o \in Declarations, NEW signed \in BOOLEAN,
             CreateDocument(d, o, signed) \/ AddDocumentVersion(d, o, signed)
      PROVE  DocInv'
  BY <1>1, VersionAppended
<1>2. ASSUME NEW d \in Docs, InspectObject(d) PROVE DocInv'
  <2>1. PICK o \in objects : inspected' = [inspected EXCEPT ![d] = o]
    BY <1>2 DEF InspectObject
  <2>2. UNCHANGED <<documents, objects>> /\ documents[d].state # "NONE"
    BY <1>2 DEF InspectObject
  <2> QED BY <1>t, <2>1, <2>2, DocumentsKept
<1>3. ASSUME NEW d \in Docs, FinalizeDocument(d) PROVE DocInv'
  <2>1. UNCHANGED objects /\ inspected[d] # NoObject /\ inspected' = [inspected EXCEPT ![d] = NoObject]
    BY <1>3 DEF FinalizeDocument
  <2>2. inspected' \in [Docs -> Declarations \cup {NoObject}] /\ \A e \in Docs : inspected'[e] \in {inspected[e], NoObject}
    BY <1>t, <2>1
  <2>3. CASE Finalizable(d) /\ documents[d].state # "NONE"
    <3>1. documents' = [documents EXCEPT ![d] = [state |-> "FINAL", versions |-> Moved(d, "DRAFT", "FINAL")]]
      BY <1>3, <2>3 DEF FinalizeDocument
    <3>2. CurrentVersion(d).object \in objects /\ documents[d].state = "DRAFT"
      BY <1>t, <2>1, <2>3, DocFacts DEF Finalizable
    <3> QED BY <2>1, <2>2, <3>1, <3>2, DocumentMoved DEF DocumentStates
  <2>4. CASE ~ Finalizable(d)
    <3>1. UNCHANGED documents
      BY <1>3, <2>4 DEF FinalizeDocument
    <3> QED BY <1>t, <2>1, <2>2, <3>1, DocumentsKept
  <2> QED BY <1>t, <2>1, <2>3, <2>4
<1>4. ASSUME NEW d \in Docs, VoidDocument(d) PROVE DocInv'
  <2>1. /\ documents[d].state = "DRAFT" /\ UNCHANGED <<inspected, objects>>
        /\ documents' = [documents EXCEPT ![d] = [state |-> "VOID", versions |-> Moved(d, "DRAFT", "VOID")]]
    BY <1>4 DEF VoidDocument
  <2>2. "DRAFT" \in DocumentStates \ {"NONE"} /\ "VOID" \in DocumentStates \ {"NONE"} /\ "VOID" # "FINAL"
    BY DEF DocumentStates
  <2>3. inspected' \in [Docs -> Declarations \cup {NoObject}] /\ \A e \in Docs : inspected'[e] \in {inspected[e], NoObject}
    BY <1>t, <2>1
  <2> QED BY <2>1, <2>2, <2>3, DocumentMoved
<1>5. ASSUME NEW d \in Docs, NEW by \in Docs, SupersedeDocument(d, by) PROVE DocInv'
  <2>1. /\ documents[d].state = "FINAL" /\ UNCHANGED <<inspected, objects>>
        /\ documents' = [documents EXCEPT ![d] = [state |-> "SUPERSEDED", versions |-> Moved(d, "FINAL", "SUPERSEDED")]]
    BY <1>5 DEF SupersedeDocument
  <2> QED BY <1>t, <2>1, DocumentMoved DEF DocumentStates
<1>6. ASSUME NEW o \in Declarations, UploadObject(o) PROVE DocInv'
  <2>1. objects' = objects \cup {o} /\ UNCHANGED <<documents, inspected>>
    BY <1>6 DEF UploadObject
  <2> QED BY <1>t, <2>1, DocumentsKept
<1>7. CASE UNCHANGED documentVars
  <2>1. UNCHANGED <<documents, inspected, objects>>
    BY <1>7 DEF documentVars
  <2> QED BY <1>t, <2>1, DocumentsKept
<1> QED BY <1>1, <1>2, <1>3, <1>4, <1>5, <1>6, <1>7 DEF DocumentsNext, DocumentCommands

(* The invariant holds before the first document.                            *)
LEMMA DocStart == DocumentsInit => DocInv
<1> SUFFICES ASSUME DocumentsInit PROVE DocInv
  OBVIOUS
<1>1. /\ documents = [d \in Docs |-> [state |-> "NONE", versions |-> <<>>]] /\ objects = {}
      /\ inspected = [d \in Docs |-> NoObject]
  BY DEF DocumentsInit, NoDoc
<1>2. documents \in [Docs -> DocumentRecords]
  BY <1>1 DEF DocumentRecords, DocumentStates
<1>3. \A d \in Docs : DocumentOK(documents[d], objects)
  BY <1>1 DEF DocumentOK
<1>4. VersionsInUse = {}
  BY <1>1 DEF VersionsInUse
<1>5. IsFiniteSet({}) /\ Cardinality({}) = 0
  BY FS_EmptySet
<1> QED BY <1>1, <1>2, <1>3, <1>4, <1>5, DocumentAssumption DEF DocInv

(* The inductive invariant of the documents and of the running FINALIZEs.    *)
THEOREM DocumentsInvariant == DocumentsSpec => []DocInv
<1> QED BY DocStart, DocStep, PTL DEF DocumentsSpec

(* The invariant says that final documents are stored.                       *)
LEMMA DocConclusion == DocInv => FinalDocumentsAreStored
<1> SUFFICES ASSUME DocInv PROVE FinalDocumentsAreStored
  OBVIOUS
<1>1. VersionsInUse = {e \in Docs \X Nat : e[2] \in 1 .. Last(e[1])}
  BY InUse
<1>2. ASSUME NEW d \in Docs PROVE Last(d) <= MaxDocVersions /\ Last(d) \in Nat
  <2>1. Last(d) \in Nat
    BY DocFacts
  <2>2. PICK n \in Nat : n = Last(d)
    BY <2>1
  <2>3. {d} \X (1 .. n) \in SUBSET VersionsInUse
    BY <1>1, <2>2
  <2>4. /\ IsFiniteSet({d}) /\ Cardinality({d}) = 1
        /\ IsFiniteSet(1 .. n) /\ Cardinality(1 .. n) = n
    <3>1. IsFiniteSet({d}) /\ Cardinality({d}) = 1
      BY FS_Singleton
    <3>2. IsFiniteSet(1 .. n) /\ Cardinality(1 .. n) = IF 1 > n THEN 0 ELSE n - 1 + 1
      BY FS_Interval
    <3> QED BY <3>1, <3>2
  <2>5. Cardinality({d} \X (1 .. n)) = 1 * n
    BY <2>4, FS_Product
  <2>6. Cardinality({d} \X (1 .. n)) <= Cardinality(VersionsInUse) /\ IsFiniteSet(VersionsInUse)
    BY <2>3, FS_Subset DEF DocInv
  <2>7. Cardinality(VersionsInUse) \in Nat /\ Cardinality(VersionsInUse) <= MaxDocVersions
    BY <2>6, FS_CardinalityType DEF DocInv
  <2> QED BY <2>1, <2>2, <2>5, <2>6, <2>7, DocumentAssumption
<1>3. VersionsInUse \subseteq Docs \X (1 .. MaxDocVersions)
  BY <1>1, <1>2, DocumentAssumption
<1>4. \A d \in Docs : documents[d].state \in {"NONE", "DRAFT", "FINAL", "SUPERSEDED", "VOID"}
  BY DEF DocInv, DocumentRecords, DocumentStates
<1>5. \A d \in Docs : documents[d].state = "NONE" \/ documents[d].state = CurrentVersion(d).state
  BY DocFacts
<1>6. \A e \in VersionsInUse : documents[e[1]].versions[e[2]].state = "FINAL" => documents[e[1]].versions[e[2]].object \in objects
  BY <1>1, DocFacts DEF DocumentOK, Last
<1> QED BY <1>3, <1>4, <1>5, <1>6 DEF FinalDocumentsAreStored, DocumentsTypeOK, DocInv

(* However versions, uploads, inspections and finalizations interleave, and  *)
(* for any number of documents, what may be cited as evidence is stored as   *)
(* it was declared.                                                          *)
THEOREM FinalDocumentsAlwaysStored == DocumentsSpec => []FinalDocumentsAreStored
<1> QED BY DocumentsInvariant, DocConclusion, PTL

-----------------------------------------------------------------------------
(* Contracts                                                                 *)

SignedStates == {"EXECUTED", "ACTIVE", "EXPIRED", "TERMINATED"}
ContractStates == {"NONE", "DRAFT", "PENDING_SIGNATURE", "CANCELLED"} \cup SignedStates
VersionRows == [snapshot : Snapshots, source : {"CREATE", "DRAFT_UPDATE", "AMENDMENT", "RENEWAL"}]

ContractRowsOK ==
    /\ contract \in [Contracts -> [state : ContractStates, submitted : Nat]]
    /\ versions \in [Contracts -> Seq(VersionRows)]
    /\ \A c \in Contracts : contract[c].submitted <= Current(c) /\ Current(c) <= MaxContractVersions
    /\ evidence \subseteq Contracts \X (1..MaxContractVersions)
    /\ queue \subseteq Contracts
    /\ clock \in Nat /\ passTime \in Nat /\ passTime <= clock

(* Only an open case writes to its successor, which is one of the contracts. *)
CasesOK ==
    /\ DOMAIN renewal = Cases
    /\ \A k \in Cases : renewal[k].state = "OPEN" => renewal[k].succ \in Contracts /\ renewal[k].pred \in Contracts

(* What is out for signature is the latest version, and every version made   *)
(* after the one that was signed is an amendment.                            *)
SignedSoFar(c) ==
    /\ contract[c].state # "NONE" => Current(c) > 0
    /\ contract[c].state = "PENDING_SIGNATURE" => contract[c].submitted = Current(c)
    /\ contract[c].state \in SignedStates =>
         /\ <<c, contract[c].submitted>> \in evidence
         /\ \A v \in contract[c].submitted + 1..Current(c) : versions[c][v].source = "AMENDMENT"

ContractsInv == ContractRowsOK /\ CasesOK /\ \A c \in Contracts : SignedSoFar(c)

(* What the invariant says of one contract.                                  *)
LEMMA ContractFacts ==
    ASSUME ContractRowsOK, NEW c \in Contracts
    PROVE  /\ contract[c].state \in ContractStates /\ contract[c].submitted \in Nat
           /\ Current(c) \in Nat /\ DOMAIN versions[c] = 1..Current(c) /\ versions[c] \in Seq(VersionRows)
           /\ \A v \in 1..Current(c) : versions[c][v].snapshot \in Snapshots
<1>1. contract[c] \in [state : ContractStates, submitted : Nat] /\ versions[c] \in Seq(VersionRows)
  BY DEF ContractRowsOK
<1>2. Current(c) \in Nat /\ DOMAIN versions[c] = 1..Current(c)
  BY <1>1 DEF Current
<1>3. \A v \in 1..Current(c) : versions[c][v] \in VersionRows
  BY <1>1, <1>2 DEF Current
<1> QED BY <1>1, <1>2, <1>3 DEF VersionRows

(* The bound on all versions bounds those of one contract.                   *)
LEMMA OneOfAllVersions ==
    ASSUME ContractRowsOK, NEW c \in Contracts,
           Cardinality(UNION {{d} \X DOMAIN versions[d] : d \in Contracts}) < MaxContractVersions
    PROVE  Current(c) < MaxContractVersions
<1> DEFINE All == UNION {{d} \X DOMAIN versions[d] : d \in Contracts}
           Own == {c} \X DOMAIN versions[c]
<1>1. IsFiniteSet(All)
  <2>1. All \subseteq Contracts \X (1..MaxContractVersions)
    BY ContractFacts, ContractsAssumption DEF ContractRowsOK
  <2>2. IsFiniteSet(1..MaxContractVersions)
    BY FS_Interval, ContractsAssumption
  <2>3. IsFiniteSet(Contracts \X (1..MaxContractVersions))
    BY <2>2, FS_Product, ContractsAssumption
  <2> QED BY <2>1, <2>3, FS_Subset
<1>2. Own \subseteq All
  OBVIOUS
<1>3. Cardinality(Own) = Current(c)
  <2>1. IsFiniteSet({c}) /\ Cardinality({c}) = 1
    BY FS_Singleton
  <2>2. IsFiniteSet(1..Current(c)) /\ Cardinality(1..Current(c)) = Current(c)
    BY ContractFacts, FS_Interval
  <2>3. DOMAIN versions[c] = 1..Current(c) /\ Current(c) \in Nat
    BY ContractFacts
  <2>4. Cardinality(Own) = Cardinality({c}) * Cardinality(DOMAIN versions[c])
    BY <2>1, <2>2, <2>3, FS_Product
  <2> QED BY <2>1, <2>2, <2>3, <2>4
<1>4. Cardinality(Own) <= Cardinality(All) /\ Cardinality(All) \in Nat
  BY <1>1, <1>2, FS_Subset, FS_CardinalityType
<1> QED BY <1>3, <1>4, ContractsAssumption, ContractFacts

(* A step is judged by the one contract it writes to.                        *)
LEMMA ContractWritten ==
    ASSUME ContractsInv, NEW c \in Contracts,
           contract' \in [Contracts -> [state : ContractStates, submitted : Nat]],
           versions' \in [Contracts -> Seq(VersionRows)],
           \A d \in Contracts \ {c} : contract'[d] = contract[d] /\ versions'[d] = versions[d],
           evidence \subseteq evidence', evidence' \subseteq Contracts \X (1..MaxContractVersions),
           contract'[c].submitted <= Len(versions'[c]), Len(versions'[c]) <= MaxContractVersions,
           queue' \subseteq Contracts, clock' = clock, passTime' = passTime, CasesOK', SignedSoFar(c)'
    PROVE  ContractsInv'
<1>1. ContractRowsOK'
  <2>1. \A d \in Contracts : contract'[d].submitted <= Len(versions'[d]) /\ Len(versions'[d]) <= MaxContractVersions
    BY DEF ContractsInv, ContractRowsOK, Current
  <2> QED BY <2>1 DEF ContractsInv, ContractRowsOK, Current
<1>2. ASSUME NEW d \in Contracts PROVE SignedSoFar(d)'
  <2>1. CASE d = c
    BY <2>1
  <2>2. CASE d # c
    <3>1. contract'[d] = contract[d] /\ versions'[d] = versions[d] /\ SignedSoFar(d)
      BY <2>2 DEF ContractsInv
    <3> QED BY <3>1 DEF SignedSoFar, Current
  <2> QED BY <2>1, <2>2
<1> QED BY <1>1, <1>2 DEF ContractsInv

(* A new version comes after the others, which stay as they are.             *)
LEMMA VersionAdded ==
    ASSUME ContractsInv, NEW c \in Contracts, NEW s \in Snapshots,
           NEW source \in {"CREATE", "DRAFT_UPDATE", "AMENDMENT", "RENEWAL"}, AddVersion(c, s, source)
    PROVE  /\ versions' \in [Contracts -> Seq(VersionRows)]
           /\ \A d \in Contracts \ {c} : versions'[d] = versions[d]
           /\ Len(versions'[c]) = Current(c) + 1 /\ Len(versions'[c]) <= MaxContractVersions
           /\ \A v \in 1..Current(c) : versions'[c][v] = versions[c][v]
           /\ versions'[c][Current(c) + 1].source = source
<1> DEFINE x == [snapshot |-> s, source |-> source]
<1>1. Current(c) < MaxContractVersions
  BY OneOfAllVersions DEF ContractsInv, AddVersion
<1>2. versions[c] \in Seq(VersionRows) /\ Current(c) \in Nat /\ versions \in [Contracts -> Seq(VersionRows)]
  BY ContractFacts DEF ContractsInv, ContractRowsOK
<1>3. x \in VersionRows /\ x.source = source
  BY DEF VersionRows
<1>4. versions' = [versions EXCEPT ![c] = Append(versions[c], x)]
  BY DEF AddVersion
<1> HIDE DEF x
<1>5. /\ Append(versions[c], x) \in Seq(VersionRows) /\ Len(Append(versions[c], x)) = Current(c) + 1
      /\ \A v \in 1..Current(c) : Append(versions[c], x)[v] = versions[c][v]
      /\ Append(versions[c], x)[Current(c) + 1] = x
  BY <1>2, <1>3, AppendProperties DEF Current
<1> QED BY <1>1, <1>2, <1>3, <1>4, <1>5, ContractsAssumption

(* A command that changes the state of one contract.                         *)
LEMMA ContractMoved ==
    ASSUME ContractsInv, NEW c \in Contracts, NEW row \in [state : ContractStates, submitted : Nat],
           contract' = [contract EXCEPT ![c] = row], row.submitted <= Current(c),
           UNCHANGED <<versions, renewal, clock, passTime>>, queue' \subseteq Contracts,
           evidence \subseteq evidence', evidence' \subseteq Contracts \X (1..MaxContractVersions),
           row.state # "NONE" => Current(c) > 0,
           row.state = "PENDING_SIGNATURE" => row.submitted = Current(c),
           row.state \in SignedStates =>
              /\ <<c, row.submitted>> \in evidence'
              /\ \A v \in row.submitted + 1..Current(c) : versions[c][v].source = "AMENDMENT"
    PROVE  ContractsInv'
<1>1. contract \in [Contracts -> [state : ContractStates, submitted : Nat]] /\ versions \in [Contracts -> Seq(VersionRows)]
  BY DEF ContractsInv, ContractRowsOK
<1>2. /\ contract' \in [Contracts -> [state : ContractStates, submitted : Nat]] /\ contract'[c] = row
      /\ \A d \in Contracts \ {c} : contract'[d] = contract[d]
  BY <1>1
<1>3. SignedSoFar(c)'
  BY <1>2 DEF SignedSoFar, Current
<1>4. CasesOK'
  BY DEF ContractsInv, CasesOK
<1>5. Len(versions'[c]) = Current(c) /\ Current(c) <= MaxContractVersions /\ versions' \in [Contracts -> Seq(VersionRows)]
  BY <1>1 DEF ContractsInv, ContractRowsOK, Current
<1>6. contract'[c].submitted <= Len(versions'[c])
  BY <1>2, <1>5
<1> HIDE DEF ContractsInv, CasesOK, SignedSoFar
<1> QED BY <1>2, <1>3, <1>4, <1>5, <1>6, ContractWritten

(* A command that writes a new version of one contract.                      *)
LEMMA ContractRevised ==
    ASSUME ContractsInv, NEW c \in Contracts, NEW s \in Snapshots,
           NEW source \in {"CREATE", "DRAFT_UPDATE", "AMENDMENT", "RENEWAL"}, AddVersion(c, s, source),
           NEW row \in [state : ContractStates, submitted : Nat], contract' = [contract EXCEPT ![c] = row],
           UNCHANGED <<evidence, clock, passTime, queue>>, CasesOK', row.submitted <= Current(c),
           \/ row.state \in {"NONE", "DRAFT", "CANCELLED"}
           \/ source = "AMENDMENT" /\ row = contract[c] /\ row.state \in SignedStates
    PROVE  ContractsInv'
<1>1. contract \in [Contracts -> [state : ContractStates, submitted : Nat]] /\ SignedSoFar(c) /\ Current(c) \in Nat
      /\ evidence \subseteq Contracts \X (1..MaxContractVersions) /\ queue \subseteq Contracts
  BY ContractFacts DEF ContractsInv, ContractRowsOK
<1>2. /\ contract' \in [Contracts -> [state : ContractStates, submitted : Nat]] /\ contract'[c] = row
      /\ \A d \in Contracts \ {c} : contract'[d] = contract[d] /\ row.submitted \in Nat
  BY <1>1
<1>3. /\ versions' \in [Contracts -> Seq(VersionRows)]
      /\ \A d \in Contracts \ {c} : versions'[d] = versions[d]
      /\ Len(versions'[c]) = Current(c) + 1 /\ Len(versions'[c]) <= MaxContractVersions
      /\ \A v \in 1..Current(c) : versions'[c][v] = versions[c][v]
      /\ versions'[c][Current(c) + 1].source = source
  BY VersionAdded
<1>4. SignedSoFar(c)'
  <2>1. CASE row.state \in {"NONE", "DRAFT", "CANCELLED"}
    BY <1>1, <1>2, <1>3, <2>1 DEF SignedSoFar, SignedStates, Current
  <2>2. CASE source = "AMENDMENT" /\ row = contract[c] /\ row.state \in SignedStates
    <3>1. /\ <<c, row.submitted>> \in evidence /\ row.submitted \in Nat
          /\ \A v \in row.submitted + 1..Current(c) : versions[c][v].source = "AMENDMENT"
      BY <1>1, <2>2 DEF SignedSoFar
    <3>2. \A v \in row.submitted + 1..Current(c) + 1 : versions'[c][v].source = "AMENDMENT"
      <4> TAKE v \in row.submitted + 1..Current(c) + 1
      <4>1. CASE v = Current(c) + 1
        BY <1>3, <2>2, <4>1
      <4>2. CASE v # Current(c) + 1
        <5>1. v \in row.submitted + 1..Current(c) /\ v \in 1..Current(c)
          BY <4>2, <1>1, <3>1
        <5> QED BY <5>1, <3>1, <1>3
      <4> QED BY <4>1, <4>2
    <3>3. contract'[c].state # "NONE" /\ contract'[c].state # "PENDING_SIGNATURE"
      BY <1>2, <2>2 DEF SignedStates
    <3>4. Len(versions'[c]) > 0
      BY <1>1, <1>3
    <3> QED BY <1>2, <1>3, <3>1, <3>2, <3>3, <3>4 DEF SignedSoFar, Current
  <2> QED BY <2>1, <2>2
<1>5. contract'[c].submitted <= Len(versions'[c])
  BY <1>1, <1>2, <1>3
<1> HIDE DEF ContractsInv, CasesOK, SignedSoFar
<1> QED BY <1>1, <1>2, <1>3, <1>4, <1>5, ContractWritten

(* A step that leaves the contracts and their cases alone.                   *)
LEMMA ContractsKept ==
    ASSUME ContractsInv, UNCHANGED <<contract, versions, evidence, renewal>>, queue' \subseteq Contracts,
           clock' \in Nat, passTime' \in Nat, passTime' <= clock'
    PROVE  ContractsInv'
<1>1. ContractRowsOK' /\ CasesOK'
  BY DEF ContractsInv, ContractRowsOK, CasesOK, Current
<1>2. \A c \in Contracts : SignedSoFar(c)'
  BY DEF ContractsInv, SignedSoFar, Current
<1> QED BY <1>1, <1>2 DEF ContractsInv

(* A contract is created, by its own command or as the successor of a case.  *)
LEMMA ContractCreated ==
    ASSUME ContractsInv, NEW c \in Contracts, NEW s \in Snapshots, NEW source \in {"CREATE", "RENEWAL"},
           AddVersion(c, s, source), contract' = [contract EXCEPT ![c] = [NoContract EXCEPT !.state = "DRAFT"]],
           UNCHANGED <<evidence, clock, passTime, queue>>, CasesOK'
    PROVE  ContractsInv'
<1>1. PICK row \in [state : ContractStates, submitted : Nat] :
          row = [NoContract EXCEPT !.state = "DRAFT"] /\ row.state = "DRAFT" /\ row.submitted = 0
  <2>1. [NoContract EXCEPT !.state = "DRAFT"] = [state |-> "DRAFT", submitted |-> 0]
    BY DEF NoContract
  <2> QED BY <2>1 DEF ContractStates
<1>2. contract' = [contract EXCEPT ![c] = row]
  BY <1>1
<1>3. row.submitted <= Current(c) /\ row.state \in {"NONE", "DRAFT", "CANCELLED"}
  BY <1>1, ContractFacts DEF ContractsInv
<1>4. source \in {"CREATE", "DRAFT_UPDATE", "AMENDMENT", "RENEWAL"}
  OBVIOUS
<1>5. ContractsInv /\ AddVersion(c, s, source) /\ CasesOK' /\ UNCHANGED <<evidence, clock, passTime, queue>>
  OBVIOUS
<1> QED BY ONLY <1>2, <1>3, <1>4, <1>5, c \in Contracts, s \in Snapshots, row \in [state : ContractStates, submitted : Nat], ContractRevised

(* The commands on a contract preserve the invariant.                        *)
LEMMA CommandsKeepInv == ContractsInv /\ ContractCommands => ContractsInv'
<1> SUFFICES ASSUME ContractsInv, ContractCommands PROVE ContractsInv'
  OBVIOUS
<1>0. /\ UNCHANGED <<clock, passTime, queue>> /\ queue \subseteq Contracts
      /\ evidence \subseteq Contracts \X (1..MaxContractVersions)
  BY DEF ContractCommands, worldVars, passVars, ContractsInv, ContractRowsOK
<1>c. ASSUME UNCHANGED renewal PROVE CasesOK'
  BY <1>c DEF ContractsInv, CasesOK
<1>1. ASSUME NEW c \in Contracts, NEW s \in Snapshots, CreateContract(c, s) PROVE ContractsInv'
  BY <1>0, <1>1, <1>c, ContractCreated DEF CreateContract
<1>2. ASSUME NEW c \in Contracts, NEW s \in Snapshots, ReviseDraft(c, s) PROVE ContractsInv'
  <2>1. contract[c].state = "DRAFT" /\ contract' = contract
    BY <1>2 DEF ReviseDraft, MayTransition, Allowed
  <2>2. contract \in [Contracts -> [state : ContractStates, submitted : Nat]] /\ contract[c].submitted <= Current(c)
    BY DEF ContractsInv, ContractRowsOK
  <2>3. contract' = [contract EXCEPT ![c] = contract[c]]
    BY <2>1, <2>2
  <2> QED BY <1>0, <1>2, <1>c, <2>1, <2>2, <2>3, ContractRevised DEF ReviseDraft
<1>3. ASSUME NEW c \in Contracts, NEW s \in Snapshots, AmendContract(c, s) PROVE ContractsInv'
  <2>1. contract[c].state \in SignedStates /\ contract' = contract
    BY <1>3 DEF AmendContract, MayTransition, Allowed, SignedStates
  <2>2. contract \in [Contracts -> [state : ContractStates, submitted : Nat]] /\ contract[c].submitted <= Current(c)
    BY DEF ContractsInv, ContractRowsOK
  <2>3. contract' = [contract EXCEPT ![c] = contract[c]]
    BY <2>1, <2>2
  <2> QED BY <1>0, <1>3, <1>c, <2>1, <2>2, <2>3, ContractRevised DEF AmendContract
<1>f. ASSUME NEW c \in Contracts
      PROVE  /\ contract[c] \in [state : ContractStates, submitted : Nat] /\ contract[c].submitted <= Current(c)
             /\ Current(c) \in Nat /\ Current(c) <= MaxContractVersions /\ SignedSoFar(c)
  BY ContractFacts DEF ContractsInv, ContractRowsOK
<1>4. ASSUME NEW c \in Contracts, SubmitForSignature(c) PROVE ContractsInv'
  <2> DEFINE row == [contract[c] EXCEPT !.state = "PENDING_SIGNATURE", !.submitted = Current(c)]
  <2>1. contract' = [contract EXCEPT ![c] = row] /\ contract[c].state = "DRAFT" /\ UNCHANGED <<versions, evidence, renewal>>
    BY <1>4 DEF SubmitForSignature, MayTransition, Allowed
  <2>2. Current(c) > 0
    BY <1>f, <2>1 DEF SignedSoFar
  <2>a. "PENDING_SIGNATURE" \in ContractStates /\ Current(c) \in Nat /\ contract[c] \in [state : ContractStates, submitted : Nat]
    BY <1>f DEF ContractStates
  <2>b. /\ row \in [state : ContractStates, submitted : Nat] /\ row.state = "PENDING_SIGNATURE" /\ row.submitted = Current(c)
    BY <2>a
  <2>3. row.submitted <= Current(c)
    BY <2>a, <2>b
  <2>4. row.state \notin SignedStates
    BY <2>b DEF SignedStates
  <2> HIDE DEF row
  <2> QED BY <1>0, <2>1, <2>2, <2>3, <2>4, <2>b, ContractMoved
<1>5. ASSUME NEW c \in Contracts, RecallSignature(c) PROVE ContractsInv'
  <2> DEFINE row == [contract[c] EXCEPT !.state = "DRAFT", !.submitted = 0]
  <2>1. contract' = [contract EXCEPT ![c] = row] /\ contract[c].state = "PENDING_SIGNATURE" /\ UNCHANGED <<versions, evidence, renewal>>
    BY <1>5 DEF RecallSignature, MayTransition, Allowed
  <2>2. Current(c) > 0
    BY <1>f, <2>1 DEF SignedSoFar
  <2>a. "DRAFT" \in ContractStates /\ Current(c) \in Nat /\ contract[c] \in [state : ContractStates, submitted : Nat]
    BY <1>f DEF ContractStates
  <2>b. /\ row \in [state : ContractStates, submitted : Nat] /\ row.state = "DRAFT" /\ row.submitted = 0
    BY <2>a
  <2>3. row.submitted <= Current(c)
    BY <2>a, <2>b
  <2>4. row.state \notin SignedStates
    BY <2>b DEF SignedStates
  <2> HIDE DEF row
  <2> QED BY <1>0, <2>1, <2>2, <2>3, <2>4, <2>b, ContractMoved
<1>6. ASSUME NEW c \in Contracts, RecordExecution(c) PROVE ContractsInv'
  <2> DEFINE row == [contract[c] EXCEPT !.state = "EXECUTED"]
  <2>1. contract' = [contract EXCEPT ![c] = row] /\ contract[c].state = "PENDING_SIGNATURE" /\ UNCHANGED <<versions, renewal>>
        /\ evidence' = evidence \cup {<<c, contract[c].submitted>>}
    BY <1>6 DEF RecordExecution, MayTransition, Allowed
  <2>2. /\ row \in [state : ContractStates, submitted : Nat] /\ row.state = "EXECUTED" /\ row.submitted = contract[c].submitted
        /\ row.submitted = Current(c) /\ Current(c) > 0 /\ row.submitted <= Current(c)
    BY <1>f, <2>1 DEF ContractStates, SignedStates, SignedSoFar
  <2>3. evidence \subseteq evidence' /\ evidence' \subseteq Contracts \X (1..MaxContractVersions) /\ <<c, row.submitted>> \in evidence'
    BY <1>0, <1>f, <2>1, <2>2, ContractsAssumption
  <2>4. \A v \in row.submitted + 1..Current(c) : versions[c][v].source = "AMENDMENT"
    BY <1>f, <2>2
  <2> HIDE DEF row
  <2> QED BY <1>0, <2>1, <2>2, <2>3, <2>4, ContractMoved
<1>g. ASSUME NEW c \in Contracts, NEW state \in {"ACTIVE", "EXPIRED", "TERMINATED", "CANCELLED"},
             contract' = [contract EXCEPT ![c].state = state], UNCHANGED <<versions, evidence, renewal>>,
             contract[c].state \in SignedStates \/ (state = "CANCELLED" /\ contract[c].state # "NONE")
      PROVE  ContractsInv'
  <2> DEFINE row == [contract[c] EXCEPT !.state = state]
  <2>1. contract' = [contract EXCEPT ![c] = row]
    BY <1>g
  <2>2. /\ row \in [state : ContractStates, submitted : Nat] /\ row.state = state /\ row.submitted = contract[c].submitted
        /\ row.state # "PENDING_SIGNATURE" /\ Current(c) > 0 /\ row.submitted <= Current(c)
    BY <1>f, <1>g DEF ContractStates, SignedStates, SignedSoFar
  <2>3. row.state \in SignedStates =>
              /\ <<c, row.submitted>> \in evidence
              /\ \A v \in row.submitted + 1..Current(c) : versions[c][v].source = "AMENDMENT"
    BY <1>f, <1>g, <2>2 DEF SignedSoFar, SignedStates
  <2> HIDE DEF row
  <2> QED BY <1>0, <1>g, <2>1, <2>2, <2>3, ContractMoved
<1>7. ASSUME NEW c \in Contracts, Activate(c) PROVE ContractsInv'
  BY <1>7, <1>g DEF Activate, MayTransition, Allowed, SignedStates
<1>8. ASSUME NEW c \in Contracts, EndContract(c, "TERMINATE", "TERMINATED") PROVE ContractsInv'
  BY <1>8, <1>g DEF EndContract, MayTransition, Allowed, SignedStates
<1>9. ASSUME NEW c \in Contracts, EndContract(c, "CANCEL", "CANCELLED") PROVE ContractsInv'
  BY <1>9, <1>g DEF EndContract, MayTransition, Allowed, SignedStates
<1>10. ASSUME NEW c \in Contracts, Expire(c) PROVE ContractsInv'
  BY <1>10, <1>g DEF Expire, EndContract, MayTransition, Allowed, SignedStates
<1> QED BY <1>1, <1>2, <1>3, <1>4, <1>5, <1>6, <1>7, <1>8, <1>9, <1>10 DEF ContractCommands

(* The commands on renewal cases preserve the invariant.                     *)
LEMMA RenewalsKeepInv == ContractsInv /\ RenewalCommands => ContractsInv'
<1> SUFFICES ASSUME ContractsInv, RenewalCommands PROVE ContractsInv'
  OBVIOUS
<1>0. UNCHANGED <<clock, passTime, queue>>
  BY DEF RenewalCommands, worldVars, passVars
<1>1. ASSUME NEW k \in Cases, NEW p \in Contracts, NEW c \in Contracts, NEW s \in Snapshots, OpenRenewal(k, p, c, s)
      PROVE  ContractsInv'
  <2>1. CasesOK'
    BY <1>1 DEF OpenRenewal, ContractsInv, CasesOK
  <2> QED BY <1>0, <1>1, <2>1, ContractCreated DEF OpenRenewal
<1>2. ASSUME NEW k \in Cases, NEW s \in Snapshots, UpdateProposal(k, s) PROVE ContractsInv'
  <2>1. CasesOK'
    BY <1>2 DEF UpdateProposal, ContractsInv, CasesOK
  <2>2. PICK c \in Contracts : c = renewal[k].succ
    BY <1>2 DEF UpdateProposal, ContractsInv, CasesOK
  <2>3. contract[c].state = "DRAFT" /\ contract' = contract /\ AddVersion(c, s, "RENEWAL") /\ UNCHANGED evidence
    BY <1>2, <2>2 DEF UpdateProposal
  <2>4. contract \in [Contracts -> [state : ContractStates, submitted : Nat]] /\ contract[c].submitted <= Current(c)
    BY DEF ContractsInv, ContractRowsOK
  <2>5. contract' = [contract EXCEPT ![c] = contract[c]]
    BY <2>3, <2>4
  <2> QED BY <1>0, <2>1, <2>3, <2>4, <2>5, ContractRevised
<1>3. ASSUME NEW k \in Cases, NEW state \in {"COMPLETED", "CANCELLED", "NOT_RENEWED"}, EndRenewal(k, state) PROVE ContractsInv'
  <2>1. CasesOK'
    BY <1>3 DEF EndRenewal, ContractsInv, CasesOK
  <2>2. UNCHANGED <<contract, versions, evidence>>
    BY <1>3 DEF EndRenewal
  <2>3. ContractRowsOK'
    BY <1>0, <2>2 DEF ContractsInv, ContractRowsOK, Current
  <2>4. \A c \in Contracts : SignedSoFar(c)'
    BY <2>2 DEF ContractsInv, SignedSoFar, Current
  <2> QED BY <2>1, <2>3, <2>4 DEF ContractsInv
<1> QED BY <1>1, <1>2, <1>3 DEF RenewalCommands

(* Every step on contracts preserves the invariant.                          *)
LEMMA ContractsStep == ContractsInv /\ [ContractsNext]_contractVars => ContractsInv'
<1> SUFFICES ASSUME ContractsInv, [ContractsNext]_contractVars PROVE ContractsInv'
  OBVIOUS
<1>0. clock \in Nat /\ passTime \in Nat /\ passTime <= clock /\ queue \subseteq Contracts
  BY DEF ContractsInv, ContractRowsOK
<1>1. CASE ContractCommands
  BY <1>1, CommandsKeepInv
<1>2. CASE RenewalCommands
  BY <1>2, RenewalsKeepInv
<1>3. CASE World
  <2>1. UNCHANGED <<contract, versions, evidence, renewal, queue, passTime>>
    BY <1>3 DEF World, passVars
  <2>2. clock' \in Nat /\ clock <= clock'
    BY <1>0, <1>3 DEF World, RequestApproval, DecideRequest, Tick
  <2> QED BY <1>0, <2>1, <2>2, ContractsKept
<1>4. CASE ContractAlertTask
  <2>0. UNCHANGED <<versions, evidence, renewal, clock>>
    BY <1>4 DEF ContractAlertTask, worldVars
  <2>1. CASE SelectAlerts
    <3>1. UNCHANGED contract /\ passTime' = clock /\ queue' \subseteq Contracts
      BY <2>1 DEF SelectAlerts, FirstByEnd
    <3> QED BY <1>0, <2>0, <3>1, ContractsKept
  <2>2. CASE SelectExpired
    <3>1. UNCHANGED <<contract, passTime>> /\ queue' \subseteq Contracts
      BY <2>2 DEF SelectExpired, FirstByEnd
    <3> QED BY <1>0, <2>0, <3>1, ContractsKept
  <2>3. CASE PassEnds
    <3>1. UNCHANGED contract /\ passTime' = 0 /\ queue' = {}
      BY <2>3 DEF PassEnds
    <3> QED BY <1>0, <2>0, <3>1, ContractsKept
  <2>4. ASSUME NEW c \in Contracts, ProcessAlert(c) \/ SkipCandidate(c) PROVE ContractsInv'
    <3>1. UNCHANGED <<contract, passTime>> /\ queue' \subseteq Contracts
      BY <1>0, <2>4 DEF ProcessAlert, SkipCandidate
    <3> QED BY <1>0, <2>0, <3>1, ContractsKept
  <2>5. ASSUME NEW c \in Contracts, ProcessExpiry(c) PROVE ContractsInv'
    <3>1. UNCHANGED passTime /\ queue' \subseteq Contracts
      BY <1>0, <2>5 DEF ProcessExpiry
    <3>2. CASE contract[c].state = "ACTIVE" /\ Snapshot(c).to <= clock
      <4>1. contract' = [contract EXCEPT ![c].state = "EXPIRED"]
        BY <2>5, <3>2 DEF ProcessExpiry
      <4>2. /\ contract[c] \in [state : ContractStates, submitted : Nat] /\ contract[c].submitted <= Current(c)
            /\ SignedSoFar(c) /\ Current(c) \in Nat /\ evidence \subseteq Contracts \X (1..MaxContractVersions)
        BY ContractFacts DEF ContractsInv, ContractRowsOK
      <4>3. "EXPIRED" \in ContractStates /\ "EXPIRED" \in SignedStates
        BY DEF ContractStates, SignedStates
      <4>4. PICK row \in [state : ContractStates, submitted : Nat] :
              /\ row = [contract[c] EXCEPT !.state = "EXPIRED"] /\ row.state = "EXPIRED"
              /\ row.submitted = contract[c].submitted
        <5> DEFINE new == [contract[c] EXCEPT !.state = "EXPIRED"]
        <5>1. new \in [state : ContractStates, submitted : Nat] /\ new.state = "EXPIRED" /\ new.submitted = contract[c].submitted
          BY <4>2, <4>3
        <5>2. new = [contract[c] EXCEPT !.state = "EXPIRED"]
          OBVIOUS
        <5> HIDE DEF new
        <5> QED BY <5>1, <5>2
      <4>5. contract' = [contract EXCEPT ![c] = row]
        BY <4>1, <4>4
      <4>6. /\ Current(c) > 0 /\ <<c, row.submitted>> \in evidence /\ row.submitted <= Current(c)
            /\ \A v \in row.submitted + 1..Current(c) : versions[c][v].source = "AMENDMENT"
        BY <3>2, <4>2, <4>4 DEF SignedSoFar, SignedStates
      <4>7. row.state # "PENDING_SIGNATURE" /\ evidence \subseteq evidence' /\ evidence' \subseteq Contracts \X (1..MaxContractVersions)
            /\ <<c, row.submitted>> \in evidence' /\ UNCHANGED <<versions, renewal, clock, passTime>>
        BY <2>0, <3>1, <4>2, <4>4, <4>6
      <4> QED BY ONLY <3>1, <4>5, <4>6, <4>7, ContractsInv, c \in Contracts,
                      row \in [state : ContractStates, submitted : Nat], ContractMoved
    <3>3. CASE ~(contract[c].state = "ACTIVE" /\ Snapshot(c).to <= clock)
      <4>1. UNCHANGED contract
        BY <2>5, <3>3 DEF ProcessExpiry
      <4> QED BY <1>0, <2>0, <3>1, <4>1, ContractsKept
    <3> QED BY <3>2, <3>3
  <2> QED BY <1>4, <2>1, <2>2, <2>3, <2>4, <2>5 DEF ContractAlertTask
<1>5. CASE UNCHANGED contractVars
  BY <1>0, <1>5, ContractsKept DEF contractVars
<1> QED BY <1>1, <1>2, <1>3, <1>4, <1>5 DEF ContractsNext

(* The invariant holds before the first contract.                            *)
LEMMA ContractsStart == ContractsInit => ContractsInv
<1> SUFFICES ASSUME ContractsInit PROVE ContractsInv
  OBVIOUS
<1>1. NoContract \in [state : ContractStates, submitted : Nat] /\ NoContract.state = "NONE" /\ NoContract.submitted = 0
  BY DEF NoContract, ContractStates
<1>2. NoCase.state = "NONE"
  BY DEF NoCase
<1>3. \A c \in Contracts : contract[c] = NoContract /\ versions[c] = <<>> /\ Current(c) = 0
  BY DEF ContractsInit, Current
<1>4. ContractRowsOK
  BY <1>1, <1>3, ContractsAssumption DEF ContractsInit, ContractRowsOK
<1>5. CasesOK
  BY <1>2 DEF ContractsInit, CasesOK
<1>6. \A c \in Contracts : SignedSoFar(c)
  BY <1>1, <1>3 DEF SignedSoFar, SignedStates
<1> QED BY <1>4, <1>5, <1>6 DEF ContractsInv

(* The inductive invariant: what is out for signature is the latest version, *)
(* so the version signed is the one submitted and whatever follows it is an  *)
(* amendment; and no command adds a version to a contract out for signature  *)
(* (contracts.ts SUBMIT_FOR_SIGNATURE to RECORD_EXECUTION).                  *)
THEOREM ContractsInvariant == ContractsSpec => []ContractsInv
  BY ContractsStart, ContractsStep, PTL DEF ContractsSpec

(* VersionInForceIsSigned for any number of contracts, cases and versions    *)
(* and any clock.                                                            *)
THEOREM VersionInForceAlwaysSigned == ContractsSpec => []VersionInForceIsSigned
<1>1. ContractsInv => VersionInForceIsSigned
  <2> SUFFICES ASSUME ContractsInv PROVE VersionInForceIsSigned
    OBVIOUS
  <2>1. ASSUME NEW c \in Contracts
        PROVE  /\ contract[c].state \in {"NONE", "EXPIRED", "TERMINATED", "CANCELLED"} \cup UNION {Allowed[a] : a \in DOMAIN Allowed}
               /\ contract[c].submitted \in 0..Current(c) /\ Current(c) \in 0..MaxContractVersions
    <3>1. contract[c].state \in ContractStates /\ contract[c].submitted \in Nat /\ Current(c) \in Nat
          /\ contract[c].submitted <= Current(c) /\ Current(c) <= MaxContractVersions
      BY ContractFacts DEF ContractsInv, ContractRowsOK
    <3>2. {"DRAFT", "PENDING_SIGNATURE", "EXECUTED", "ACTIVE"} \subseteq UNION {Allowed[a] : a \in DOMAIN Allowed}
      <4>1. Allowed["SUBMIT"] = {"DRAFT"} /\ Allowed["RECALL"] = {"PENDING_SIGNATURE"} /\ Allowed["AMEND"] = {"EXECUTED", "ACTIVE"}
            /\ {"SUBMIT", "RECALL", "AMEND"} \subseteq DOMAIN Allowed
        BY DEF Allowed
      <4> QED BY <4>1
    <3> QED BY <3>1, <3>2, ContractsAssumption DEF ContractStates, SignedStates
  <2>2. ContractsTypeOK
    BY <2>1 DEF ContractsTypeOK, ContractsInv, ContractRowsOK
  <2> QED BY <2>2 DEF VersionInForceIsSigned, ContractsInv, SignedSoFar, SignedStates
<1> QED BY <1>1, ContractsInvariant, PTL

(* NoticesBindTheVersionInForce for any number of contracts, any snapshots   *)
(* and any batch: the scheduler's stale selection never reaches a notice.    *)
THEOREM NoticesAlwaysBind == ContractsSpec => NoticesBindTheVersionInForce
<1>1. ContractsInv /\ [ContractsNext]_contractVars =>
         [\A n \in notices' \ notices :
            /\ InForce(n[1]) /\ n[2] = Current(n[1])
            /\ n[3] = AlertConfiguration(Snapshot(n[1])) /\ n[3] <= clock]_contractVars
  <2> SUFFICES ASSUME ContractsInv, ContractsNext, NEW n \in notices' \ notices
               PROVE  /\ InForce(n[1]) /\ n[2] = Current(n[1])
                      /\ n[3] = AlertConfiguration(Snapshot(n[1])) /\ n[3] <= clock
    BY DEF contractVars
  <2>1. notices' # notices
    OBVIOUS
  <2>2. PICK c \in Contracts : ProcessAlert(c)
    BY <2>1 DEF ContractsNext, ContractCommands, RenewalCommands, World, passVars, ContractAlertTask,
                SelectAlerts, SelectExpired, PassEnds, ProcessExpiry, SkipCandidate
  <2>3. InForce(c) /\ ScheduleFor(c)
    BY <2>1, <2>2 DEF ProcessAlert, AlertCandidate
  <2> DEFINE at == AlertConfiguration(Snapshot(c))
  <2>4. n = <<c, Current(c), at>> /\ at <= passTime
    BY <2>3 DEF ScheduleFor
  <2>5. at \in Int
    <3>1. Current(c) > 0 /\ Current(c) \in Nat
      BY <2>3, ContractFacts DEF ContractsInv, SignedSoFar, InForce
    <3>2. Snapshot(c) \in Snapshots
      BY <3>1, ContractFacts DEF ContractsInv, Snapshot
    <3>3. PICK s \in Snapshots : s = Snapshot(c)
      BY <3>2
    <3>4. /\ s.from \in Nat /\ s.to \in Nat /\ s.date \in Nat \cup {Unset} /\ s.period \in Nat \cup {Unset}
      BY ContractsAssumption
    <3>5. AlertConfiguration(s) \in Int
      BY <3>4 DEF AlertConfiguration, Unset, Invalid
    <3> QED BY <3>3, <3>5
  <2>6. passTime \in Nat /\ clock \in Nat /\ passTime <= clock
    BY DEF ContractsInv, ContractRowsOK
  <2>7. at <= clock
    <3> HIDE DEF at
    <3> QED BY <2>4, <2>5, <2>6
  <2>8. n[1] = c /\ n[2] = Current(c) /\ n[3] = at
    BY <2>4
  <2> QED BY <2>3, <2>7, <2>8
<1> QED BY <1>1, ContractsInvariant, PTL DEF ContractsSpec, NoticesBindTheVersionInForce

-----------------------------------------------------------------------------
(* The cost of received assets                                               *)

AllocationRows == [inv : Invoices, qty : Units]

CostRowsOK ==
    /\ unit \in [Units -> [state : {"PENDING", "REGISTERED", "FAILED"}, attempts : 0..MaxAttempts]]
    /\ outbox \in [LinkerEvents -> [state : {"NONE", "NEW", "PROCESSED", "FAILED"}, attempts : 0..MaxAttempts]]
    /\ \A u \in Units : unit[u].state = "PENDING" => unit[u].attempts < MaxAttempts
    /\ \A e \in LinkerEvents : outbox[e].state \in {"NONE", "NEW"} => outbox[e].attempts < MaxAttempts
    /\ \A e \in LinkerEvents : outbox[e].state = "FAILED" => <<"EVENT", e>> \in workItems
    /\ \A u \in Units : unit[u].state = "FAILED" => <<"UNIT", u>> \in workItems

(* An invoice has one allocation of the line before it is approved, and a    *)
(* note releases of an approved invoice.                                     *)
TablesOK ==
    /\ allocations \in Seq(AllocationRows)
    /\ \A j, k \in DOMAIN allocations : allocations[j].inv = allocations[k].inv => j = k
    /\ approved \subseteq Invoices
    /\ \A i \in approved : \E k \in DOMAIN allocations : allocations[k].inv = i
    /\ releases \in [Notes -> [inv : Invoices \cup {"NONE"}, qty : {0} \cup Units]]
    /\ \A n \in Applied : releases[n].inv \in approved

(* The linker is told of every registration, approval and credit.            *)
EventsOK ==
    /\ \A u \in Units : unit[u].state = "REGISTERED" <=> outbox[<<"ASSET", u>>].state # "NONE"
    /\ \A i \in Invoices : i \in approved <=> outbox[<<"INVOICE", i>>].state # "NONE"
    /\ \A n \in Notes : n \in Applied <=> outbox[<<"NOTE", n>>].state # "NONE"

LedgerOK ==
    /\ \A c \in costs : c.unit \in Units /\ c.source \in EffectiveSources
    /\ Acceptable(costs)

(* No event about an invoice or a note is waiting or parked.                 *)
Quiet == \A e \in LinkerEvents : e[1] # "ASSET" => outbox[e].state \in {"NONE", "PROCESSED"}

(* An asset is settled from the moment its own registration was handled,     *)
(* while the linker is quiet, and not only when everything has been handled. *)
SettledSoFar ==
    Quiet => \A u \in Units : outbox[<<"ASSET", u>>].state = "PROCESSED" =>
                Reconciled(u) \subseteq costs /\ Ambiguities \subseteq workItems

CostInv == CostRowsOK /\ TablesOK /\ EventsOK /\ LedgerOK /\ SettledSoFar

(* The kinds of events and of sources are told apart by their first field.   *)
LEMMA EventKinds ==
    /\ \A u \in Units : <<"ASSET", u>> \in LinkerEvents /\ <<"ASSET", u>>[1] = "ASSET" /\ <<"ASSET", u>>[2] = u
    /\ \A i \in Invoices : <<"INVOICE", i>> \in LinkerEvents /\ <<"INVOICE", i>>[1] = "INVOICE"
    /\ \A n \in Notes : <<"NOTE", n>> \in LinkerEvents /\ <<"NOTE", n>>[1] = "NOTE"
    /\ \A e \in LinkerEvents : \/ \E u \in Units : e = <<"ASSET", u>>
                               \/ \E i \in Invoices : e = <<"INVOICE", i>>
                               \/ \E n \in Notes : e = <<"NOTE", n>>
  BY DEF LinkerEvents

(* The allocation of an approved invoice.                                    *)
LEMMA AllocationFound ==
    ASSUME TablesOK, NEW k \in DOMAIN allocations
    PROVE  AllocationOf(allocations[k].inv) = k
  BY DEF TablesOK, AllocationOf

(* The sources an asset's cost is drawn from: the order, the approved        *)
(* invoices and the applied credit notes.                                    *)
LEMMA EffectiveSource ==
    ASSUME NEW x
    PROVE  x \in EffectiveSources <=>
             \/ x = <<"PO">>
             \/ \E i \in approved : x = <<"INVOICE", i>>
             \/ \E n \in Applied : x = <<"NOTE", n>>
  BY DEF EffectiveSources

(* Every cost the tables give comes from an effective source.                *)
LEMMA ReconciledSources ==
    ASSUME NEW u \in Units, NEW c \in Reconciled(u)
    PROVE  c.unit \in Units /\ c.source \in EffectiveSources
<1>1. CASE c \in CommittedCost(u)
  BY <1>1, EffectiveSource DEF CommittedCost, Cost
<1>2. CASE c \in ActualCosts(u)
  <2>1. PICK k \in ApprovedAllocations : c = Cost(u, <<"INVOICE", allocations[k].inv>>, 1, "LINKER")
    BY <1>2 DEF ActualCosts
  <2>2. c.unit = u /\ c.source = <<"INVOICE", allocations[k].inv>>
    BY <2>1 DEF Cost
  <2> QED BY <2>2, EffectiveSource DEF ApprovedAllocations
<1>3. CASE c \in CreditAdjustments(u)
  <2>1. PICK n \in Applied : \E a : c = Cost(u, <<"NOTE", n>>, a, "LINKER")
    BY <1>3 DEF CreditAdjustments
  <2>2. c.unit = u /\ c.source = <<"NOTE", n>>
    BY <2>1 DEF Cost
  <2> QED BY <2>2, EffectiveSource
<1> QED BY <1>1, <1>2, <1>3 DEF Reconciled

(* What an effective source can give does not change when other invoices are *)
(* matched and other notes applied, so the ledger stays acceptable.          *)
LEMMA LedgerKept ==
    ASSUME LedgerOK, costs' = costs, EffectiveSources \subseteq EffectiveSources',
           \A x \in EffectiveSources : Quantity(x)' = Quantity(x)
    PROVE  LedgerOK'
<1>1. \A c \in costs' : c.unit \in Units /\ c.source \in EffectiveSources'
  BY DEF LedgerOK
<1>2. ASSUME NEW x \in {c.source : c \in costs}
      PROVE  Quantity(x)' = Quantity(x) /\ Amount(x)' = Amount(x)
  BY <1>2 DEF LedgerOK, Amount
<1>3. Acceptable(costs)'
  <2>1. Acceptable(costs)
    BY DEF LedgerOK
  <2>2. \A c, d \in costs' : (c.unit = d.unit /\ c.source = d.source /\ c.role = d.role) => c = d
    BY <2>1 DEF Acceptable
  <2>3. ASSUME NEW x \in {c.source : c \in costs'}
        PROVE  /\ Cardinality(Records(costs, x)') <= Quantity(x)'
               /\ SumFunctionOnSet([c \in costs' |-> c.amount], Records(costs, x)') <= Amount(x)'
    <3>1. x \in {c.source : c \in costs} /\ Records(costs, x)' = Records(costs, x)
      BY DEF Records
    <3>2. /\ Cardinality(Records(costs, x)) <= Quantity(x)
          /\ SumFunctionOnSet([c \in costs |-> c.amount], Records(costs, x)) <= Amount(x)
      BY <2>1, <3>1 DEF Acceptable
    <3> QED BY <1>2, <3>1, <3>2
  <2> QED BY <2>2, <2>3 DEF Acceptable
<1> QED BY <1>1, <1>3 DEF LedgerOK

(* A match appends an allocation of an invoice that is not approved.         *)
LEMMA MatchAppends ==
    ASSUME TablesOK, NEW i \in Invoices, NEW q \in Units, MatchInvoice(i, q)
    PROVE  /\ TablesOK' /\ i \notin approved /\ UNCHANGED <<approved, releases, Applied>>
           /\ Len(allocations) \in Nat /\ DOMAIN allocations = 1..Len(allocations)
           /\ DOMAIN allocations' = 1..Len(allocations) + 1
           /\ \A k \in DOMAIN allocations : allocations'[k] = allocations[k]
           /\ allocations'[Len(allocations) + 1].inv = i
<1> DEFINE x == [inv |-> i, qty |-> q]
<1>1. x \in AllocationRows /\ x.inv = i
  BY DEF AllocationRows
<1>2. allocations' = Append(allocations, x) /\ UNCHANGED <<approved, releases>>
      /\ \A k \in DOMAIN allocations : allocations[k].inv # i
  BY DEF MatchInvoice
<1>3. allocations \in Seq(AllocationRows)
  BY DEF TablesOK
<1> HIDE DEF x
<1>4. /\ allocations' \in Seq(AllocationRows) /\ Len(allocations) \in Nat /\ DOMAIN allocations = 1..Len(allocations)
      /\ DOMAIN allocations' = 1..Len(allocations) + 1
      /\ \A k \in DOMAIN allocations : allocations'[k] = allocations[k]
      /\ allocations'[Len(allocations) + 1] = x
  BY <1>1, <1>2, <1>3, AppendProperties
<1>5. i \notin approved /\ UNCHANGED Applied
  BY <1>2 DEF TablesOK, Applied
<1>6. \A j, k \in DOMAIN allocations' : allocations'[j].inv = allocations'[k].inv => j = k
  <2> SUFFICES ASSUME NEW j \in DOMAIN allocations', NEW k \in DOMAIN allocations', allocations'[j].inv = allocations'[k].inv
               PROVE  j = k
    OBVIOUS
  <2>1. (j \in DOMAIN allocations \/ j = Len(allocations) + 1) /\ (k \in DOMAIN allocations \/ k = Len(allocations) + 1)
    BY <1>4
  <2>2. CASE j \in DOMAIN allocations /\ k \in DOMAIN allocations
    BY <1>4, <2>2 DEF TablesOK
  <2>3. CASE j = Len(allocations) + 1 /\ k = Len(allocations) + 1
    BY <2>3
  <2>4. CASE j \in DOMAIN allocations /\ k = Len(allocations) + 1
    BY <1>1, <1>2, <1>4, <2>4
  <2>5. CASE k \in DOMAIN allocations /\ j = Len(allocations) + 1
    BY <1>1, <1>2, <1>4, <2>5
  <2> QED BY <2>1, <2>2, <2>3, <2>4, <2>5
<1>7. \A j \in approved' : \E k \in DOMAIN allocations' : allocations'[k].inv = j
  BY <1>2, <1>4 DEF TablesOK
<1>8. TablesOK'
  BY <1>2, <1>4, <1>5, <1>6, <1>7 DEF TablesOK
<1> QED BY <1>1, <1>2, <1>4, <1>5, <1>8

(* A match does not change which units the approved allocations have.        *)
LEMMA MatchKeepsUnits ==
    ASSUME TablesOK, NEW i \in Invoices, NEW q \in Units, MatchInvoice(i, q)
    PROVE  /\ ApprovedAllocations' = ApprovedAllocations
           /\ \A k \in ApprovedAllocations : /\ allocations'[k] = allocations[k] /\ Offset(k)' = Offset(k)
                                             /\ UnitsOf(k)' = UnitsOf(k) /\ (AllocationFits(k)' <=> AllocationFits(k))
<1>1. /\ i \notin approved /\ UNCHANGED <<approved, releases>>
      /\ Len(allocations) \in Nat /\ DOMAIN allocations = 1..Len(allocations)
      /\ DOMAIN allocations' = 1..Len(allocations) + 1
      /\ \A k \in DOMAIN allocations : allocations'[k] = allocations[k]
      /\ allocations'[Len(allocations) + 1].inv = i
  BY MatchAppends
<1>2. ApprovedAllocations' = ApprovedAllocations
  <2>1. ApprovedAllocations' = {k \in 1..Len(allocations) + 1 : allocations'[k].inv \in approved}
    BY <1>1 DEF ApprovedAllocations
  <2>2. ApprovedAllocations = {k \in 1..Len(allocations) : allocations[k].inv \in approved}
    BY <1>1 DEF ApprovedAllocations
  <2>3. \A k : k \in 1..Len(allocations) + 1 <=> k \in 1..Len(allocations) \/ k = Len(allocations) + 1
    BY <1>1
  <2> QED BY <1>1, <2>1, <2>2, <2>3
<1>3. ASSUME NEW k \in ApprovedAllocations
      PROVE  /\ allocations'[k] = allocations[k] /\ Offset(k)' = Offset(k)
             /\ UnitsOf(k)' = UnitsOf(k) /\ (AllocationFits(k)' <=> AllocationFits(k))
  <2>1. k \in DOMAIN allocations /\ k \in Nat /\ k <= Len(allocations)
    BY <1>1 DEF ApprovedAllocations
  <2>2. allocations'[k] = allocations[k]
    BY <1>1, <2>1
  <2> DEFINE S == {j \in 1..k - 1 : allocations[j].inv \in approved}
  <2>3. \A j \in 1..k - 1 : j \in DOMAIN allocations /\ j \in DOMAIN allocations' /\ allocations'[j] = allocations[j]
    BY <1>1, <2>1
  <2>4. IsFiniteSet(S)
    <3>1. IsFiniteSet(1..k - 1)
      BY <2>1, FS_Interval
    <3> QED BY <3>1, FS_Subset
  <2>5. {j \in 1..k - 1 : allocations'[j].inv \in approved'} = S
    BY <1>1, <2>3
  <2>6. \A j \in S : Quantities(allocations)'[j] = Quantities(allocations)[j]
    BY <2>3 DEF Quantities
  <2>7. Offset(k)' = SumFunctionOnSet(Quantities(allocations)', S)
    BY <2>5 DEF Offset
  <2>8. Offset(k) = SumFunctionOnSet(Quantities(allocations), S)
    BY DEF Offset
  <2>9. SumFunctionOnSet(Quantities(allocations)', S) = SumFunctionOnSet(Quantities(allocations), S)
    <3> HIDE DEF S
    <3> QED BY <2>4, <2>6, SumCongruence
  <2>10. Offset(k)' = Offset(k)
    BY <2>7, <2>8, <2>9
  <2>11. UnitsOf(k)' = UnitsOf(k)
    BY <2>2, <2>10 DEF UnitsOf
  <2> QED BY <2>2, <2>10, <2>11 DEF AllocationFits
<1> QED BY <1>2, <1>3

(* A match changes neither what an asset costs nor what is ambiguous.        *)
LEMMA MatchKeepsCosts ==
    ASSUME TablesOK, NEW i \in Invoices, NEW q \in Units, MatchInvoice(i, q)
    PROVE  Ambiguities' = Ambiguities /\ \A u \in Units : Reconciled(u)' = Reconciled(u)
<1>0. TablesOK' /\ UNCHANGED <<approved, releases, Applied>>
  BY MatchAppends
<1>1. ApprovedAllocations' = ApprovedAllocations
  BY MatchKeepsUnits
<1>2. ASSUME NEW k \in ApprovedAllocations
      PROVE  /\ allocations'[k] = allocations[k] /\ Offset(k)' = Offset(k)
             /\ UnitsOf(k)' = UnitsOf(k) /\ (AllocationFits(k)' <=> AllocationFits(k))
  BY MatchKeepsUnits
<1>3. ASSUME NEW n \in Applied
      PROVE  UnitsForCredit(n)' = UnitsForCredit(n) /\ (CreditFits(n)' <=> CreditFits(n))
  <2>1. PICK j \in approved : j = releases[n].inv /\ j = releases'[n].inv
    BY <1>0 DEF TablesOK
  <2>2. PICK k \in ApprovedAllocations : allocations[k].inv = j
    BY DEF TablesOK, ApprovedAllocations
  <2>3. k \in DOMAIN allocations /\ k \in DOMAIN allocations' /\ allocations'[k].inv = j
    BY <1>1, <1>2, <2>2 DEF ApprovedAllocations
  <2>4. AllocationOf(j) = k
    BY <2>2, <2>3, AllocationFound
  <2>5. AllocationOf(j)' = k
    BY <1>0, <2>3 DEF TablesOK, AllocationOf
  <2>6. Released(j, {n})' = Released(j, {n})
    BY <1>0 DEF Released
  <2>7. UnitsForCredit(n)' = UnitsForCredit(n)
    BY <1>0, <1>2, <2>1, <2>4, <2>5, <2>6 DEF UnitsForCredit
  <2> QED BY <1>0, <1>2, <2>1, <2>4, <2>5, <2>7 DEF CreditFits
<1>4. Ambiguities' = Ambiguities
  BY <1>0, <1>1, <1>2, <1>3 DEF Ambiguities
<1>5. ASSUME NEW u \in Units PROVE Reconciled(u)' = Reconciled(u)
  <2>1. ActualCosts(u)' = ActualCosts(u)
    BY <1>1, <1>2 DEF ActualCosts
  <2>2. CreditAdjustments(u)' = CreditAdjustments(u)
    BY <1>0, <1>3 DEF CreditAdjustments
  <2> QED BY <2>1, <2>2 DEF Reconciled, CommittedCost
<1> QED BY <1>4, <1>5

(* What depends on the tables only.                                          *)
LEMMA TablesKept ==
    ASSUME UNCHANGED <<allocations, approved, releases>>
    PROVE  /\ TablesOK => TablesOK'
           /\ Ambiguities' = Ambiguities /\ Applied' = Applied /\ EffectiveSources' = EffectiveSources
           /\ \A u \in Units : Reconciled(u)' = Reconciled(u)
           /\ \A x : Quantity(x)' = Quantity(x) /\ Amount(x)' = Amount(x)
<1>1. /\ TablesOK => TablesOK'
      /\ Applied' = Applied /\ EffectiveSources' = EffectiveSources
  BY DEF TablesOK, Applied, EffectiveSources
<1>2. \A x : Quantity(x)' = Quantity(x) /\ Amount(x)' = Amount(x)
  BY DEF Quantity, Amount, AllocationOf
<1>3. /\ ApprovedAllocations' = ApprovedAllocations
      /\ \A k : Offset(k)' = Offset(k) /\ UnitsOf(k)' = UnitsOf(k) /\ (AllocationFits(k)' <=> AllocationFits(k))
  BY DEF ApprovedAllocations, Offset, UnitsOf, AllocationFits, Quantities
<1>4. \A n : UnitsForCredit(n)' = UnitsForCredit(n) /\ (CreditFits(n)' <=> CreditFits(n))
  BY DEF UnitsForCredit, CreditFits, AllocationFits, UnitsOf, Offset, Released, Quantities, AllocationOf
<1>5. Ambiguities' = Ambiguities
  BY <1>1, <1>3, <1>4 DEF Ambiguities
<1>6. \A u \in Units : Reconciled(u)' = Reconciled(u)
  BY <1>1, <1>3, <1>4 DEF Reconciled, CommittedCost, ActualCosts, CreditAdjustments
<1> QED BY <1>1, <1>2, <1>5, <1>6

(* A step of the assetizer on one unit.                                      *)
LEMMA AssetizerKeepsInv == CostInv /\ Assetizer => CostInv'
<1> SUFFICES ASSUME CostInv, Assetizer PROVE CostInv'
  OBVIOUS
<1>0. UNCHANGED <<allocations, approved, releases, costs>>
  BY DEF Assetizer
<1>1. /\ TablesOK' /\ Ambiguities' = Ambiguities /\ Applied' = Applied
      /\ \A u \in Units : Reconciled(u)' = Reconciled(u)
  BY <1>0, TablesKept DEF CostInv
<1>2. LedgerOK'
  BY <1>0, TablesKept, LedgerKept DEF CostInv
<1>3. ASSUME NEW u \in Units, RegisterUnit(u) PROVE CostInv'
  <2> DEFINE e == <<"ASSET", u>>
  <2>1. /\ unit' = [unit EXCEPT ![u].state = "REGISTERED"] /\ outbox' = [outbox EXCEPT ![e].state = "NEW"]
        /\ workItems' = workItems /\ unit[u].state = "PENDING"
    BY <1>3 DEF RegisterUnit, Emitted
  <2>2. e \in LinkerEvents /\ e[1] = "ASSET"
    BY EventKinds
  <2>3. outbox[e].state = "NONE"
    BY <2>1, <2>2 DEF CostInv, EventsOK
  <2>4. \A x : x # e => \A v \in Units : x = <<"ASSET", v>> => v # u
    OBVIOUS
  <2>5. \A v \in Units : <<"ASSET", v>> = e => v = u
    OBVIOUS
  <2>6. (\A i \in Invoices : <<"INVOICE", i>> # e) /\ (\A n \in Notes : <<"NOTE", n>> # e)
    OBVIOUS
  <2> HIDE DEF e
  <2>7. CostRowsOK'
    BY <2>1, <2>2, <2>3 DEF CostInv, CostRowsOK
  <2>8. EventsOK'
    <3>1. \A v \in Units : unit'[v].state = "REGISTERED" <=> outbox'[<<"ASSET", v>>].state # "NONE"
      <4> TAKE v \in Units
      <4>1. CASE v = u
        BY <2>1, <2>2, <4>1 DEF CostInv, CostRowsOK, e
      <4>2. CASE v # u
        <5>1. unit'[v] = unit[v] /\ outbox'[<<"ASSET", v>>] = outbox[<<"ASSET", v>>]
          BY <2>1, <2>5, <4>2, EventKinds DEF CostInv, CostRowsOK
        <5> QED BY <5>1 DEF CostInv, EventsOK
      <4> QED BY <4>1, <4>2
    <3>2. \A i \in Invoices : outbox'[<<"INVOICE", i>>] = outbox[<<"INVOICE", i>>]
      BY <2>1, <2>6, EventKinds DEF CostInv, CostRowsOK
    <3>3. \A n \in Notes : outbox'[<<"NOTE", n>>] = outbox[<<"NOTE", n>>]
      BY <2>1, <2>6, EventKinds DEF CostInv, CostRowsOK
    <3> QED BY <1>0, <1>1, <3>1, <3>2, <3>3 DEF CostInv, EventsOK
  <2>9. SettledSoFar'
    <3>1. Quiet' => Quiet
      BY <2>1, <2>2 DEF Quiet, CostInv, CostRowsOK
    <3>2. \A v \in Units : outbox'[<<"ASSET", v>>].state = "PROCESSED" => outbox[<<"ASSET", v>>].state = "PROCESSED"
      BY <2>1, <2>2, EventKinds DEF CostInv, CostRowsOK
    <3> QED BY <1>0, <1>1, <2>1, <3>1, <3>2 DEF CostInv, SettledSoFar
  <2> QED BY <1>1, <1>2, <2>7, <2>8, <2>9 DEF CostInv
<1>4. ASSUME NEW u \in Units, NEW permanent \in BOOLEAN, RegistrationFails(u, permanent) PROVE CostInv'
  <2> DEFINE exhausted == permanent \/ unit[u].attempts + 1 >= MaxAttempts
             row == [state |-> IF exhausted THEN "FAILED" ELSE "PENDING", attempts |-> unit[u].attempts + 1]
  <2>1. /\ unit[u].state = "PENDING" /\ unit' = [unit EXCEPT ![u] = row] /\ outbox' = outbox
        /\ workItems' = IF exhausted THEN workItems \cup {<<"UNIT", u>>} ELSE workItems
    BY <1>4 DEF RegistrationFails
  <2>2. unit[u].attempts \in 0..MaxAttempts /\ unit[u].attempts < MaxAttempts
    BY <2>1 DEF CostInv, CostRowsOK
  <2>3. /\ row \in [state : {"PENDING", "REGISTERED", "FAILED"}, attempts : 0..MaxAttempts]
        /\ row.state # "REGISTERED"
        /\ row.state = "PENDING" => row.attempts < MaxAttempts
        /\ row.state = "FAILED" => exhausted
    BY <2>2, CostAssumption
  <2>4. workItems \subseteq workItems' /\ (exhausted => <<"UNIT", u>> \in workItems')
    BY <2>1
  <2> HIDE DEF row, exhausted
  <2>5. CostRowsOK'
    BY <2>1, <2>3, <2>4 DEF CostInv, CostRowsOK
  <2>6. \A v \in Units : unit'[v].state = "REGISTERED" <=> unit[v].state = "REGISTERED"
    BY <2>1, <2>3 DEF CostInv, CostRowsOK
  <2>7. EventsOK'
    BY <1>0, <1>1, <2>1, <2>6 DEF CostInv, EventsOK
  <2>8. SettledSoFar'
    BY <1>0, <1>1, <2>1, <2>4 DEF CostInv, SettledSoFar, Quiet
  <2> QED BY <1>1, <1>2, <2>5, <2>7, <2>8 DEF CostInv
<1> QED BY <1>3, <1>4 DEF Assetizer

(* Invoices and notes: the new event says that the costs are not settled.    *)
LEMMA InvoicesKeepInv == CostInv /\ InvoiceMoves => CostInv'
<1> SUFFICES ASSUME CostInv, InvoiceMoves PROVE CostInv'
  OBVIOUS
<1>0. UNCHANGED <<unit, costs, workItems>> /\ TablesOK
  BY DEF InvoiceMoves, CostInv
<1>a. \A k \in DOMAIN allocations : AllocationOf(allocations[k].inv) = k
  BY <1>0, AllocationFound
<1>1. ASSUME NEW i \in Invoices, NEW q \in Units, MatchInvoice(i, q) PROVE CostInv'
  <2>1. TablesOK' /\ UNCHANGED <<approved, releases, Applied>>
    BY <1>0, <1>1, MatchAppends
  <2>2. outbox' = outbox
    BY <1>1 DEF MatchInvoice
  <2>3. CostRowsOK' /\ EventsOK'
    BY <1>0, <2>1, <2>2 DEF CostInv, CostRowsOK, EventsOK
  <2>4. SettledSoFar'
    <3>1. Ambiguities' = Ambiguities /\ \A u \in Units : Reconciled(u)' = Reconciled(u)
      BY <1>0, <1>1, MatchKeepsCosts
    <3> QED BY <1>0, <2>2, <3>1 DEF CostInv, SettledSoFar, Quiet
  <2>5. LedgerOK'
    <3>1. EffectiveSources' = EffectiveSources
      BY <2>1 DEF EffectiveSources
    <3>2. ASSUME NEW x \in EffectiveSources PROVE Quantity(x)' = Quantity(x)
      <4>1. CASE x = <<"PO">>
        BY <4>1 DEF Quantity
      <4>2. ASSUME NEW j \in approved, x = <<"INVOICE", j>> PROVE Quantity(x)' = Quantity(x)
        <5>1. PICK k \in ApprovedAllocations : allocations[k].inv = j
          BY <1>0 DEF TablesOK, ApprovedAllocations
        <5>2. allocations'[k] = allocations[k] /\ k \in ApprovedAllocations'
          BY <1>0, <1>1, MatchKeepsUnits
        <5>3. AllocationOf(j) = k
          BY <1>a, <5>1 DEF ApprovedAllocations
        <5>4. AllocationOf(j)' = k
          BY <2>1, <5>1, <5>2 DEF TablesOK, AllocationOf, ApprovedAllocations
        <5> QED BY <4>2, <5>2, <5>3, <5>4 DEF Quantity
      <4>3. ASSUME NEW n \in Applied, x = <<"NOTE", n>> PROVE Quantity(x)' = Quantity(x)
        BY <2>1, <4>3 DEF Quantity
      <4> QED BY <4>1, <4>2, <4>3, EffectiveSource
    <3> QED BY <1>0, <3>1, <3>2, LedgerKept DEF CostInv
  <2> QED BY <2>1, <2>3, <2>4, <2>5 DEF CostInv
<1>2. ASSUME NEW i \in Invoices, ApproveInvoice(i) PROVE CostInv'
  <2> DEFINE e == <<"INVOICE", i>>
  <2>1. /\ i \notin approved /\ approved' = approved \cup {i} /\ outbox' = [outbox EXCEPT ![e].state = "NEW"]
        /\ UNCHANGED <<allocations, releases>> /\ \E k \in DOMAIN allocations : allocations[k].inv = i
    BY <1>2 DEF ApproveInvoice, Emitted
  <2>2. e \in LinkerEvents /\ e[1] # "ASSET"
    BY EventKinds
  <2>3. outbox[e].state = "NONE"
    BY <2>1 DEF CostInv, EventsOK
  <2>4. Applied' = Applied
    BY <2>1 DEF Applied
  <2>5. TablesOK'
    BY <1>0, <2>1, <2>4 DEF TablesOK
  <2>6. LedgerOK'
    <3>1. EffectiveSources \subseteq EffectiveSources'
      BY <2>1, <2>4 DEF EffectiveSources
    <3>2. \A x \in EffectiveSources : Quantity(x)' = Quantity(x)
      BY <2>1 DEF Quantity, AllocationOf
    <3> QED BY <1>0, <3>1, <3>2, LedgerKept DEF CostInv
  <2>7. EventsOK'
    <3>1. \A u \in Units : <<"ASSET", u>> # e
      OBVIOUS
    <3>2. \A n \in Notes : <<"NOTE", n>> # e
      OBVIOUS
    <3>3. \A j \in Invoices : j # i => <<"INVOICE", j>> # e
      OBVIOUS
    <3>4. \A u \in Units : outbox'[<<"ASSET", u>>] = outbox[<<"ASSET", u>>]
      BY <2>1, <3>1, EventKinds DEF CostInv, CostRowsOK
    <3>5. \A n \in Notes : outbox'[<<"NOTE", n>>] = outbox[<<"NOTE", n>>]
      BY <2>1, <3>2, EventKinds DEF CostInv, CostRowsOK
    <3>6. \A j \in Invoices : j # i => outbox'[<<"INVOICE", j>>] = outbox[<<"INVOICE", j>>]
      BY <2>1, <3>3, EventKinds DEF CostInv, CostRowsOK
    <3>7. outbox'[<<"INVOICE", i>>].state = "NEW"
      BY <2>1, <2>2 DEF CostInv, CostRowsOK
    <3> QED BY <1>0, <2>1, <2>4, <3>4, <3>5, <3>6, <3>7 DEF CostInv, EventsOK
  <2>8. SettledSoFar'
    <3>1. ~ Quiet'
      BY <2>1, <2>2 DEF Quiet, CostInv, CostRowsOK
    <3> QED BY <3>1 DEF SettledSoFar
  <2> HIDE DEF e
  <2>9. CostRowsOK'
    BY <1>0, <2>1, <2>2, <2>3 DEF CostInv, CostRowsOK
  <2> QED BY <2>5, <2>6, <2>7, <2>8, <2>9 DEF CostInv
<1>3. ASSUME NEW i \in Invoices, NEW q \in Units, NEW n \in Notes, ApplyCreditNote(n, i, q) PROVE CostInv'
  <2> DEFINE e == <<"NOTE", n>>
             r == [inv |-> i, qty |-> q]
  <2>1. /\ i \in approved /\ releases[n] = Unreleased /\ releases' = [releases EXCEPT ![n] = r]
        /\ outbox' = [outbox EXCEPT ![e].state = "NEW"] /\ UNCHANGED <<allocations, approved>>
    BY <1>3 DEF ApplyCreditNote, Emitted
  <2>2. e \in LinkerEvents /\ e[1] # "ASSET"
    BY EventKinds
  <2>3. r \in [inv : Invoices \cup {"NONE"}, qty : {0} \cup Units] /\ r.inv = i /\ r # Unreleased
    <3>1. r.qty = q /\ Unreleased.qty = 0 /\ q # 0
      BY DEF Unreleased, Units
    <3> QED BY <3>1
  <2>4. /\ releases' \in [Notes -> [inv : Invoices \cup {"NONE"}, qty : {0} \cup Units]] /\ releases'[n] = r
        /\ \A m \in Notes : m # n => releases'[m] = releases[m]
    <3> HIDE DEF r
    <3> QED BY <1>0, <2>1, <2>3 DEF TablesOK
  <2>5. n \notin Applied /\ Applied' = Applied \cup {n}
    <3> HIDE DEF r
    <3> QED BY <2>1, <2>3, <2>4 DEF Applied
  <2>6. outbox[e].state = "NONE"
    BY <2>5 DEF CostInv, EventsOK
  <2>7. TablesOK'
    <3>1. \A m \in Applied' : releases'[m].inv \in approved'
      <4> HIDE DEF r
      <4> QED BY <1>0, <2>1, <2>3, <2>4, <2>5 DEF TablesOK, Applied
    <3> QED BY <1>0, <2>1, <2>4, <3>1 DEF TablesOK
  <2>8. LedgerOK'
    <3>1. EffectiveSources \subseteq EffectiveSources'
      BY <2>1, <2>5 DEF EffectiveSources
    <3>2. ASSUME NEW x \in EffectiveSources PROVE Quantity(x)' = Quantity(x)
      <4>1. CASE x = <<"PO">>
        BY <4>1 DEF Quantity
      <4>2. ASSUME NEW j \in approved, x = <<"INVOICE", j>> PROVE Quantity(x)' = Quantity(x)
        BY <2>1, <4>2 DEF Quantity, AllocationOf
      <4>3. ASSUME NEW m \in Applied, x = <<"NOTE", m>> PROVE Quantity(x)' = Quantity(x)
        <5>1. releases'[m] = releases[m]
          BY <2>4, <2>5 DEF Applied
        <5> QED BY <4>3, <5>1 DEF Quantity
      <4> QED BY <4>1, <4>2, <4>3, EffectiveSource
    <3> QED BY <1>0, <3>1, <3>2, LedgerKept DEF CostInv
  <2>9. EventsOK'
    <3>1. \A u \in Units : <<"ASSET", u>> # e
      OBVIOUS
    <3>2. \A j \in Invoices : <<"INVOICE", j>> # e
      OBVIOUS
    <3>3. \A m \in Notes : m # n => <<"NOTE", m>> # e
      OBVIOUS
    <3>4. \A u \in Units : outbox'[<<"ASSET", u>>] = outbox[<<"ASSET", u>>]
      BY <2>1, <3>1, EventKinds DEF CostInv, CostRowsOK
    <3>5. \A j \in Invoices : outbox'[<<"INVOICE", j>>] = outbox[<<"INVOICE", j>>]
      BY <2>1, <3>2, EventKinds DEF CostInv, CostRowsOK
    <3>6. \A m \in Notes : m # n => outbox'[<<"NOTE", m>>] = outbox[<<"NOTE", m>>]
      BY <2>1, <3>3, EventKinds DEF CostInv, CostRowsOK
    <3>7. outbox'[<<"NOTE", n>>].state = "NEW"
      BY <2>1, <2>2 DEF CostInv, CostRowsOK
    <3> HIDE DEF e, r
    <3> QED BY <1>0, <2>1, <2>5, <3>4, <3>5, <3>6, <3>7 DEF CostInv, EventsOK
  <2>10. SettledSoFar'
    <3>1. ~ Quiet'
      BY <2>1, <2>2 DEF Quiet, CostInv, CostRowsOK
    <3> QED BY <3>1 DEF SettledSoFar
  <2> HIDE DEF e, r
  <2>11. CostRowsOK'
    BY <1>0, <2>1, <2>2, <2>6 DEF CostInv, CostRowsOK
  <2> QED BY <2>7, <2>8, <2>9, <2>10, <2>11 DEF CostInv
<1> QED BY <1>1, <1>2, <1>3 DEF InvoiceMoves

(* The linker handles one event.                                             *)
LEMMA LinkerKeepsInv == CostInv /\ Linker => CostInv'
<1> SUFFICES ASSUME CostInv, Linker PROVE CostInv'
  OBVIOUS
<1>0. UNCHANGED <<unit, allocations, approved, releases>>
  BY DEF Linker
<1>1. /\ TablesOK' /\ Ambiguities' = Ambiguities /\ Applied' = Applied /\ EffectiveSources' = EffectiveSources
      /\ \A u \in Units : Reconciled(u)' = Reconciled(u)
      /\ \A x : Quantity(x)' = Quantity(x) /\ Amount(x)' = Amount(x)
  BY <1>0, TablesKept DEF CostInv
(* An event that was waiting stays one the linker was told of.               *)
<1>2. ASSUME NEW e \in LinkerEvents, outbox[e].state = "NEW",
             NEW row \in [state : {"NONE", "NEW", "PROCESSED", "FAILED"}, attempts : 0..MaxAttempts],
             outbox' = [outbox EXCEPT ![e] = row], row.state # "NONE"
      PROVE  EventsOK'
  <2>1. \A x \in LinkerEvents : outbox'[x].state # "NONE" <=> outbox[x].state # "NONE"
    BY <1>2 DEF CostInv, CostRowsOK
  <2> QED BY <1>0, <1>1, <2>1, EventKinds DEF CostInv, EventsOK
<1>3. ASSUME NEW e \in LinkerEvents, ProcessEvent(e) PROVE CostInv'
  <2>1. PICK row \in [state : {"NONE", "NEW", "PROCESSED", "FAILED"}, attempts : 0..MaxAttempts] :
           row.state = "PROCESSED" /\ outbox' = [outbox EXCEPT ![e] = row]
    <3>1. outbox' = [outbox EXCEPT ![e] = [state |-> "PROCESSED", attempts |-> 0]]
      BY <1>3 DEF ProcessEvent
    <3>2. [state |-> "PROCESSED", attempts |-> 0] \in [state : {"NONE", "NEW", "PROCESSED", "FAILED"}, attempts : 0..MaxAttempts]
      BY CostAssumption
    <3> QED BY <3>1, <3>2
  <2>2. /\ outbox[e].state = "NEW" /\ Acceptable(Linked(e)) /\ costs' = Linked(e)
        /\ workItems' = IF Targets(e) = {} THEN workItems ELSE workItems \cup Ambiguities
    BY <1>3 DEF ProcessEvent
  <2>3. EventsOK'
    BY <1>2, <2>1, <2>2
  <2>4. costs \subseteq costs' /\ workItems \subseteq workItems'
        /\ \A u \in Targets(e) : Reconciled(u) \subseteq costs' /\ Ambiguities \subseteq workItems'
    BY <2>2 DEF Linked
  <2>5. CostRowsOK'
    BY <1>0, <2>1, <2>4 DEF CostInv, CostRowsOK
  <2>6. LedgerOK'
    <3>1. \A c \in costs' : c.unit \in Units /\ c.source \in EffectiveSources
      BY <2>2, ReconciledSources DEF Linked, Targets, CostInv, LedgerOK
    <3>2. Acceptable(costs)'
      <4>1. \A c, d \in costs' : (c.unit = d.unit /\ c.source = d.source /\ c.role = d.role) => c = d
        BY <2>2 DEF Acceptable
      <4>2. ASSUME NEW x \in {c.source : c \in costs'}
            PROVE  /\ Cardinality(Records(costs, x)') <= Quantity(x)'
                   /\ SumFunctionOnSet([c \in costs' |-> c.amount], Records(costs, x)') <= Amount(x)'
        <5>1. Records(costs, x)' = Records(Linked(e), x) /\ x \in {c.source : c \in Linked(e)}
          BY <2>2 DEF Records
        <5>2. /\ Cardinality(Records(Linked(e), x)) <= Quantity(x)
              /\ SumFunctionOnSet([c \in Linked(e) |-> c.amount], Records(Linked(e), x)) <= Amount(x)
          BY <2>2, <5>1 DEF Acceptable
        <5> QED BY <1>1, <2>2, <5>1, <5>2
      <4> QED BY <4>1, <4>2 DEF Acceptable
    <3> QED BY <1>1, <3>1, <3>2 DEF LedgerOK
  <2>7. SettledSoFar'
    <3> SUFFICES ASSUME Quiet', NEW u \in Units, outbox'[<<"ASSET", u>>].state = "PROCESSED"
                 PROVE  Reconciled(u)' \subseteq costs' /\ Ambiguities' \subseteq workItems'
      BY DEF SettledSoFar
    <3>1. <<"ASSET", u>> \in LinkerEvents
      BY EventKinds
    <3>2. CASE u \in Targets(e)
      BY <1>1, <2>4, <3>2
    <3>3. CASE u \notin Targets(e)
      <4>1. unit[u].state = "REGISTERED"
        BY <1>0, <2>3 DEF EventsOK
      <4>2. e[1] = "ASSET" /\ u # e[2]
        BY <3>3, <4>1 DEF Targets
      <4>3. <<"ASSET", u>> # e
        BY <4>2, EventKinds
      <4>4. outbox[<<"ASSET", u>>].state = "PROCESSED"
        BY <2>1, <3>1, <4>3 DEF CostInv, CostRowsOK
      <4>5. Quiet
        BY <2>1, <4>2 DEF Quiet, CostInv, CostRowsOK
      <4> QED BY <1>1, <2>4, <4>4, <4>5 DEF CostInv, SettledSoFar
    <3> QED BY <3>2, <3>3
  <2> QED BY <1>1, <2>3, <2>5, <2>6, <2>7 DEF CostInv
<1>4. ASSUME NEW e \in LinkerEvents, RetryFailure(e) PROVE CostInv'
  <2> DEFINE parked == outbox[e].attempts + 1 >= MaxAttempts
             new == [state |-> IF parked THEN "FAILED" ELSE "NEW", attempts |-> outbox[e].attempts + 1]
  <2>1. /\ outbox[e].state = "NEW" /\ outbox' = [outbox EXCEPT ![e] = new] /\ costs' = costs
        /\ workItems' = IF parked THEN workItems \cup {<<"EVENT", e>>} ELSE workItems
    BY <1>4 DEF RetryFailure
  <2>2. outbox[e].attempts \in 0..MaxAttempts /\ outbox[e].attempts < MaxAttempts
    BY <2>1 DEF CostInv, CostRowsOK
  <2>3. /\ new \in [state : {"NONE", "NEW", "PROCESSED", "FAILED"}, attempts : 0..MaxAttempts]
        /\ new.state \in {"NEW", "FAILED"}
        /\ new.state = "NEW" => new.attempts < MaxAttempts
        /\ new.state = "FAILED" => parked
    BY <2>2, CostAssumption
  <2>4. workItems \subseteq workItems' /\ (parked => <<"EVENT", e>> \in workItems')
    BY <2>1
  <2> HIDE DEF new, parked
  <2>5. CostRowsOK'
    BY <1>0, <2>1, <2>3, <2>4 DEF CostInv, CostRowsOK
  <2>6. EventsOK'
    BY <1>2, <2>1, <2>3
  <2>7. LedgerOK'
    BY <1>1, <2>1, LedgerKept DEF CostInv
  <2>8. SettledSoFar'
    <3>1. \A x \in LinkerEvents : outbox'[x].state \in {"NONE", "PROCESSED"} => outbox'[x] = outbox[x]
      BY <2>1, <2>3 DEF CostInv, CostRowsOK
    <3>2. Quiet' => Quiet
      BY <3>1 DEF Quiet
    <3>3. \A u \in Units : outbox'[<<"ASSET", u>>].state = "PROCESSED" => outbox[<<"ASSET", u>>].state = "PROCESSED"
      BY <3>1, EventKinds
    <3> QED BY <1>1, <2>1, <2>4, <3>2, <3>3 DEF CostInv, SettledSoFar
  <2> QED BY <1>1, <2>5, <2>6, <2>7, <2>8 DEF CostInv
<1> QED BY <1>3, <1>4 DEF Linker

(* The command adds an acceptable cost and nothing else.                     *)
LEMMA OperatorKeepsInv == CostInv /\ RecordByOperator => CostInv'
<1> SUFFICES ASSUME CostInv, RecordByOperator PROVE CostInv'
  OBVIOUS
<1>0. UNCHANGED <<unit, allocations, approved, releases, outbox, workItems>>
  BY DEF RecordByOperator
<1>1. /\ TablesOK' /\ Ambiguities' = Ambiguities /\ Applied' = Applied /\ EffectiveSources' = EffectiveSources
      /\ \A u \in Units : Reconciled(u)' = Reconciled(u)
      /\ \A x : Quantity(x)' = Quantity(x) /\ Amount(x)' = Amount(x)
  BY <1>0, TablesKept DEF CostInv
<1>2. PICK u \in Units, x \in EffectiveSources : costs' = costs \cup {Cost(u, x, 1, "OPERATOR")} /\ Acceptable(costs')
  BY DEF RecordByOperator
<1>3. CostRowsOK' /\ EventsOK'
  BY <1>0, <1>1 DEF CostInv, CostRowsOK, EventsOK
<1>4. SettledSoFar'
  BY <1>0, <1>1, <1>2 DEF CostInv, SettledSoFar, Quiet
<1>5. LedgerOK'
  <2>1. \A c \in costs' : c.unit \in Units /\ c.source \in EffectiveSources
    BY <1>2 DEF Cost, CostInv, LedgerOK
  <2>2. Acceptable(costs)'
    BY <1>1, <1>2 DEF Acceptable, Records
  <2> QED BY <1>1, <2>1, <2>2 DEF LedgerOK
<1> QED BY <1>1, <1>3, <1>4, <1>5 DEF CostInv

(* The invariant holds before the first allocation.                          *)
LEMMA CostStart == CostInit => CostInv
<1> SUFFICES ASSUME CostInit PROVE CostInv
  OBVIOUS
<1>1. CostRowsOK
  BY CostAssumption DEF CostInit, CostRowsOK
<1>2. Applied = {}
  BY DEF CostInit, Applied
<1>3. TablesOK
  <2>1. Unreleased \in [inv : Invoices \cup {"NONE"}, qty : {0} \cup Units]
    BY DEF Unreleased
  <2>2. allocations \in Seq(AllocationRows) /\ DOMAIN allocations = {}
    BY DEF CostInit
  <2> QED BY <1>2, <2>1, <2>2 DEF CostInit, TablesOK
<1>4. EventsOK
  BY <1>2, EventKinds DEF CostInit, EventsOK
<1>5. LedgerOK
  BY DEF CostInit, LedgerOK, Acceptable
<1>6. SettledSoFar
  BY EventKinds DEF CostInit, SettledSoFar
<1> QED BY <1>1, <1>3, <1>4, <1>5, <1>6 DEF CostInv

(* The inductive invariant: while no event of an invoice or a note waits or  *)
(* is parked, every asset whose registration was handled has its costs, and  *)
(* the tables only ever add to what a source in the ledger can give          *)
(* (cost-provenance.ts processCostProvenanceEvent).                          *)
THEOREM CostInvariant == CostSpec => []CostInv
<1>1. CostInv /\ [CostNext]_costVars => CostInv'
  <2> SUFFICES ASSUME CostInv, [CostNext]_costVars PROVE CostInv'
    OBVIOUS
  <2>1. CASE UNCHANGED costVars
    <3>1. UNCHANGED <<unit, allocations, approved, releases, outbox, costs, workItems>>
      BY <2>1 DEF costVars
    <3>2. /\ TablesOK' /\ Ambiguities' = Ambiguities /\ Applied' = Applied /\ EffectiveSources' = EffectiveSources
          /\ \A u \in Units : Reconciled(u)' = Reconciled(u)
          /\ \A x : Quantity(x)' = Quantity(x) /\ Amount(x)' = Amount(x)
      BY <3>1, TablesKept DEF CostInv
    <3>3. LedgerOK'
      BY <3>1, <3>2, LedgerKept DEF CostInv
    <3>4. CostRowsOK' /\ EventsOK' /\ SettledSoFar'
      BY <3>1, <3>2 DEF CostInv, CostRowsOK, EventsOK, SettledSoFar, Quiet
    <3> QED BY <3>2, <3>3, <3>4 DEF CostInv
  <2> QED BY <2>1, AssetizerKeepsInv, InvoicesKeepInv, LinkerKeepsInv, OperatorKeepsInv DEF CostNext
<1> QED BY <1>1, CostStart, PTL DEF CostSpec

(* CostsSettle for any number of units, invoices, notes and attempts, and    *)
(* any bound on failures: the events may be handled in any order.            *)
THEOREM CostsAlwaysSettle == CostSpec => []CostsSettle
<1>1. CostInv => CostsSettle
  <2> SUFFICES ASSUME CostInv PROVE CostsSettle
    OBVIOUS
  <2>1. CostTypeOK
    BY DEF CostInv, CostRowsOK, LedgerOK, CostTypeOK
  <2>2. ASSUME \A e \in LinkerEvents : outbox[e].state \in {"NONE", "PROCESSED"},
               NEW u \in Units, unit[u].state = "REGISTERED"
        PROVE  Reconciled(u) \subseteq costs /\ Ambiguities \subseteq workItems
    <3>1. Quiet
      BY <2>2 DEF Quiet
    <3>2. outbox[<<"ASSET", u>>].state = "PROCESSED"
      BY <2>2, EventKinds DEF CostInv, EventsOK
    <3> QED BY <3>1, <3>2 DEF CostInv, SettledSoFar
  <2> QED BY <2>1, <2>2 DEF CostsSettle, CostInv, CostRowsOK, LedgerOK
<1> QED BY <1>1, CostInvariant, PTL
=============================================================================
