---------------------------- MODULE PurchaseOrder ----------------------------
(***************************************************************************)
(* A purchase order and its goods receipts                                 *)
(* (modules/procurement/application/purchase-orders.ts, goods-receipts.ts  *)
(* and the approval contract of modules/control-plane).                    *)
(*                                                                         *)
(* Every command is one transaction that locks the order, or the receipt   *)
(* and then the order, and checks the aggregate version the caller read,   *)
(* so a command takes effect at once or not at all; what interleaves is    *)
(* the commands of buyers, receivers and approvers.                        *)
(*                                                                         *)
(* ordered[v] are the terms of commercial version v, ordered[0] the draft. *)
(* Line l of version v is a row of its own: an amendment writes new ones.  *)
(* posted lists the POSTED receipts by posted_at; its length is            *)
(* committed_receipt_count.  An approval request binds the aggregate       *)
(* version it was made for: fresh says that no command has moved it since. *)
(***************************************************************************)
EXTENDS Integers, Sequences, FiniteSets, Functions

CONSTANTS Lines, Receipts,
          MaxQty,      \* bound: the largest quantity of a line
          MaxVersion,  \* bound: commercial versions of the order
          None

ASSUME OrderAssumption == /\ IsFiniteSet(Lines) /\ Lines # {} /\ IsFiniteSet(Receipts)
                          /\ MaxQty \in Nat \ {0}
                          /\ MaxVersion \in Nat \ {0}

VARIABLES po, ordered, gr, posted, approval, eligible

poVars == <<po, ordered, gr, posted, approval, eligible>>

Terms == [Lines -> 1 .. MaxQty]
Accepted == [Lines -> 0 .. MaxQty]
Purposes == {"PO_ISSUE", "PO_AMENDMENT"}
NoRequest == [state |-> "NONE", fresh |-> FALSE, terms |-> None]

POInit ==
    /\ po = [state |-> "NONE", receipt |-> "NOT_RECEIVED", version |-> 0, received |-> [l \in Lines |-> 0]]
    /\ ordered = [v \in 0 .. MaxVersion |-> None]
    /\ gr = [r \in Receipts |-> [state |-> "NONE", version |-> 0, qty |-> [l \in Lines |-> 0], postable |-> FALSE]]
    /\ posted = <<>>
    /\ approval = [p \in Purposes |-> NoRequest]
    /\ eligible = TRUE

-----------------------------------------------------------------------------
(* Purchase order commands.  Each of them moves the aggregate version.       *)

NextVersion == approval' = [p \in Purposes |-> [approval[p] EXCEPT !.fresh = FALSE]]

Unreceived == po.receipt = "NOT_RECEIVED" /\ posted = <<>>

CreatePurchaseOrder(t) ==
    /\ po.state = "NONE"
    /\ po' = [po EXCEPT !.state = "DRAFT"]
    /\ ordered' = [ordered EXCEPT ![0] = t]
    /\ UNCHANGED <<gr, posted, approval, eligible>>

UpdateDraft(t) ==
    /\ po.state = "DRAFT"
    /\ ordered' = [ordered EXCEPT ![0] = t]
    /\ NextVersion
    /\ UNCHANGED <<po, gr, posted, eligible>>

(* A request may be missing; one that is linked has to be approved for the   *)
(* current version and for these very terms.                                 *)
ApprovalAllows(p, t) ==
    \/ approval[p].state = "NONE"
    \/ approval[p].state = "APPROVED" /\ approval[p].fresh /\ approval[p].terms = t

(* Fault: the approval is not compared with the draft. *)
IssueUnchecked ==
    /\ po.state = "DRAFT"
    /\ eligible
    /\ approval["PO_ISSUE"].state \in {"NONE", "APPROVED"}
    /\ po' = [po EXCEPT !.state = "ISSUED", !.version = 1]
    /\ ordered' = [ordered EXCEPT ![1] = ordered[0]]
    /\ NextVersion
    /\ UNCHANGED <<gr, posted, eligible>>

Issue ==
    /\ po.state = "DRAFT"
    /\ eligible
    /\ ApprovalAllows("PO_ISSUE", ordered[0])
    /\ po' = [po EXCEPT !.state = "ISSUED", !.version = 1]
    /\ ordered' = [ordered EXCEPT ![1] = ordered[0]]
    /\ NextVersion
    /\ UNCHANGED <<gr, posted, eligible>>

MoveTo(from, to) ==
    /\ po.state \in from
    /\ po' = [po EXCEPT !.state = to]
    /\ NextVersion
    /\ UNCHANGED <<ordered, gr, posted, eligible>>

Hold == MoveTo({"ISSUED"}, "ON_HOLD")

Resume == MoveTo({"ON_HOLD"}, "ISSUED")

(* Fault: an order with receipts can be cancelled. *)
CancelAnyOrder == MoveTo({"DRAFT", "ISSUED", "ON_HOLD"}, "CANCELLED")

Cancel == Unreceived /\ MoveTo({"DRAFT", "ISSUED", "ON_HOLD"}, "CANCELLED")

Close == po.receipt = "FULLY_RECEIVED" /\ MoveTo({"ISSUED", "ON_HOLD"}, "CLOSED")

CloseRemainder == po.receipt = "PARTIALLY_RECEIVED" /\ MoveTo({"ISSUED", "ON_HOLD"}, "CLOSED")

Amend(t) ==
    /\ po.state \in {"ISSUED", "ON_HOLD"}
    /\ Unreceived
    /\ ApprovalAllows("PO_AMENDMENT", t)
    /\ po.version < MaxVersion
    /\ po' = [po EXCEPT !.version = @ + 1]
    /\ ordered' = [ordered EXCEPT ![po.version + 1] = t]
    /\ NextVersion
    /\ UNCHANGED <<gr, posted, eligible>>

(* The supplier's standing and the RFQ award change; only PO.ISSUE reads them. *)
SupplierOrAwardChanges ==
    /\ po.state = "DRAFT"
    /\ eligible' = ~ eligible
    /\ UNCHANGED <<po, ordered, gr, posted, approval>>

-----------------------------------------------------------------------------
(* Approval requests                                                         *)

LinkPurchaseOrderApproval(p, t) ==
    /\ \/ p = "PO_ISSUE" /\ po.state = "DRAFT" /\ t = ordered[0]
       \/ p = "PO_AMENDMENT" /\ po.state \in {"ISSUED", "ON_HOLD"} /\ Unreceived
    /\ approval' = [approval EXCEPT ![p] = [state |-> "PENDING", fresh |-> TRUE, terms |-> t]]
    /\ UNCHANGED <<po, ordered, gr, posted, eligible>>

DecideApproval(p, decision) ==
    /\ approval[p].state = "PENDING"
    /\ approval' = [approval EXCEPT ![p].state = decision]
    /\ UNCHANGED <<po, ordered, gr, posted, eligible>>

-----------------------------------------------------------------------------
(* Goods receipts.  postable stands for everything about a draft that POST   *)
(* refuses whatever the order says: open blocking exceptions, lines that     *)
(* accept nothing, missing unit identities, location or model.               *)

CreateGoodsReceipt(r, q, ok) ==
    /\ gr[r].state = "NONE"
    /\ po.state = "ISSUED"
    /\ gr' = [gr EXCEPT ![r] = [state |-> "DRAFT", version |-> po.version, qty |-> q, postable |-> ok]]
    /\ UNCHANGED <<po, ordered, posted, approval, eligible>>

UpdateGoodsReceipt(r, q, ok) ==
    /\ gr[r].state = "DRAFT"
    /\ gr' = [gr EXCEPT ![r].qty = q, ![r].postable = ok]
    /\ UNCHANGED <<po, ordered, posted, approval, eligible>>

CancelGoodsReceipt(r) ==
    /\ gr[r].state = "DRAFT"
    /\ gr' = [gr EXCEPT ![r].state = "CANCELLED"]
    /\ UNCHANGED <<po, ordered, posted, approval, eligible>>

ReceiptStateOf(received, terms) ==
    IF \A l \in Lines : received[l] >= terms[l] THEN "FULLY_RECEIVED" ELSE "PARTIALLY_RECEIVED"

(* Fault: earlier receipts are not counted. *)
FitsAlone(r) == \A l \in Lines : gr[r].qty[l] <= ordered[po.version][l]

(* Per line, what the receipt accepts and what was accepted before.          *)
Fits(r) == \A l \in Lines : po.received[l] + gr[r].qty[l] <= ordered[po.version][l]

Post(r) ==
    LET received == [l \in Lines |-> po.received[l] + gr[r].qty[l]] IN
    /\ po' = [po EXCEPT !.received = received, !.receipt = ReceiptStateOf(received, ordered[po.version])]
    /\ gr' = [gr EXCEPT ![r].state = "POSTED"]
    /\ posted' = Append(posted, r)
    /\ NextVersion
    /\ UNCHANGED <<ordered, eligible>>

(* Fault: the receipt may be against an older version. *)
PostAnyVersion(r) ==
    /\ gr[r].state = "DRAFT"
    /\ po.state = "ISSUED"
    /\ gr[r].postable
    /\ Fits(r)
    /\ Post(r)

(* Fault: a posted receipt can be posted again. *)
PostAgain(r) ==
    /\ gr[r].state \in {"DRAFT", "POSTED"}
    /\ po.state = "ISSUED"
    /\ gr[r].version = po.version
    /\ gr[r].postable
    /\ Fits(r)
    /\ Post(r)

PostGoodsReceipt(r) ==
    /\ gr[r].state = "DRAFT"
    /\ po.state = "ISSUED"
    /\ gr[r].version = po.version
    /\ gr[r].postable
    /\ Fits(r)
    /\ Post(r)

-----------------------------------------------------------------------------
PONext ==
    \/ \E t \in Terms : CreatePurchaseOrder(t) \/ UpdateDraft(t) \/ Amend(t)
    \/ Issue \/ Hold \/ Resume \/ Cancel \/ Close \/ CloseRemainder
    \/ SupplierOrAwardChanges
    \/ \E p \in Purposes, t \in Terms : LinkPurchaseOrderApproval(p, t)
    \/ \E p \in Purposes, d \in {"APPROVED", "REJECTED"} : DecideApproval(p, d)
    \/ \E r \in Receipts, q \in Accepted, ok \in BOOLEAN :
            /\ \E l \in Lines : q[l] > 0
            /\ CreateGoodsReceipt(r, q, ok) \/ UpdateGoodsReceipt(r, q, ok)
    \/ \E r \in Receipts : CancelGoodsReceipt(r) \/ PostGoodsReceipt(r)

POSpec == POInit /\ [][PONext]_poVars

-----------------------------------------------------------------------------
Orders == [state : {"NONE", "DRAFT", "ISSUED", "ON_HOLD", "CANCELLED", "CLOSED"},
           receipt : {"NOT_RECEIVED", "PARTIALLY_RECEIVED", "FULLY_RECEIVED"},
           version : 0 .. MaxVersion, received : [Lines -> Nat]]
GoodsReceipts == [state : {"NONE", "DRAFT", "POSTED", "CANCELLED"}, version : 0 .. MaxVersion,
                  qty : Accepted, postable : BOOLEAN]
Requests == [state : {"NONE", "PENDING", "APPROVED", "REJECTED"}, fresh : BOOLEAN, terms : Terms \cup {None}]

POTypeOK ==
    /\ po \in Orders
    /\ ordered \in [0 .. MaxVersion -> Terms \cup {None}]
    /\ gr \in [Receipts -> GoodsReceipts]
    /\ posted \in Seq(Receipts)
    /\ approval \in [Purposes -> Requests]
    /\ eligible \in BOOLEAN

(* Receipt progress is never more than was ordered and never about terms     *)
(* that an amendment replaced: a posted receipt belongs to the current       *)
(* version, its order is not cancelled, and FULLY_RECEIVED, which PO.CLOSE   *)
(* trusts, says that nothing is outstanding.                                 *)
ReceiptProgressIsTrue ==
    /\ \A r \in Receipts : gr[r].state = "POSTED" =>
          gr[r].version = po.version /\ po.state \in {"ISSUED", "ON_HOLD", "CLOSED"}
    /\ po.version > 0 => \A l \in Lines : po.received[l] <= ordered[po.version][l]
    /\ po.receipt = "FULLY_RECEIVED" =>
          po.version > 0 /\ \A l \in Lines : po.received[l] = ordered[po.version][l]
    /\ (po.receipt = "NOT_RECEIVED") <=> (posted = <<>>)

(* The order's received quantities are the posted receipts of its current    *)
(* version, each counted once, whatever drafts were amended or cancelled.    *)
ReceiptsCountOnce ==
    LET Booked == {r \in Receipts : gr[r].state = "POSTED" /\ gr[r].version = po.version} IN
    \A l \in Lines : po.received[l] = SumFunctionOnSet([r \in Receipts |-> gr[r].qty[l]], Booked)

(* If an approval was requested before issue, the terms issued are the very  *)
(* terms that were approved, although drafts change while requests wait.     *)
IssuedTermsWereApproved ==
    po.version > 0 /\ approval["PO_ISSUE"].state # "NONE" =>
        approval["PO_ISSUE"].state = "APPROVED" /\ approval["PO_ISSUE"].terms = ordered[1]

(* The inductive strengthening: the current version has terms, the evidence  *)
(* lists posted receipts only, and a request that is fresh in a draft order  *)
(* was made for the draft as it is.                                          *)
POInv ==
    /\ POTypeOK
    /\ ReceiptProgressIsTrue
    /\ IssuedTermsWereApproved
    /\ po.state \in {"ISSUED", "ON_HOLD", "CLOSED"} => po.version > 0
    /\ po.state \in {"NONE", "DRAFT"} => po.version = 0
    /\ po.state = "NONE" => \A p \in Purposes : approval[p].state = "NONE"
    /\ posted = <<>> => \A l \in Lines : po.received[l] = 0
    /\ po.state # "NONE" => ordered[0] \in Terms
    /\ \A v \in 1 .. po.version : ordered[v] \in Terms
    /\ \A r \in Receipts : gr[r].state = "POSTED" <=> \E k \in 1 .. Len(posted) : posted[k] = r

(* What readers of the order are promised (OrderProgress): drafts, approvals *)
(* and unposted receipts are invisible, and posting appends to the evidence. *)
Progress == INSTANCE OrderProgress WITH
    order <- [state |-> po.state, receipt |-> po.receipt],
    terms <- [v \in 1 .. po.version |-> ordered[v]],
    accepted <- [k \in 1 .. Len(posted) |-> gr[posted[k]].qty],
    received <- po.received

(* The commands of buyers, receivers and approvers together only ever make   *)
(* the steps that invoice matching relies on.                                *)
ImplementsProgress == Progress!OrderSpec
=============================================================================
