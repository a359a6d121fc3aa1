---------------------------- MODULE InvoiceMatch ----------------------------
(***************************************************************************)
(* Invoices, the three-way match and credit notes                          *)
(* (modules/procurement/application/invoices.ts), against one order as     *)
(* OrderProgress describes it.                                             *)
(*                                                                         *)
(* Every command locks the order and the document and checks the aggregate *)
(* version the caller read, so it is one step; a refused command is no     *)
(* step.  The order keeps moving between the commands.                     *)
(*                                                                         *)
(* clean says that prices, taxes, charges, currency and supplier of the    *)
(* invoice agree with its commercial version.  alloc holds the net         *)
(* quantity (allocations less releases) that a line took from the k-th     *)
(* posted receipt, and what an approved exception reserved.  An approval   *)
(* request binds a match evaluation; fresh says it is the current one.     *)
(* work is the open INVOICE_MATCH_EXCEPTION item of the work queue.        *)
(* note holds the open credit notes; an applied one is counted in credited *)
(* and a note that ends makes room for another.                            *)
(* Amounts are left out: they add refusals only.  So is the identity of a  *)
(* supplier's document: the documents here have different numbers.         *)
(***************************************************************************)
EXTENDS OrderProgress, Functions, FiniteSetsExt

CONSTANTS Invoices, Notes,
          MaxLines,     \* bound: lines of an invoice
          MaxVersion,   \* bound: commercial versions of the order
          MaxReceipts,  \* bound: posted receipts
          MaxRequests,  \* bound: approval requests of all invoices
          None

ASSUME InvoiceAssumption == /\ IsFiniteSet(Invoices) /\ None \notin Invoices
                            /\ MaxLines \in Nat \ {0} /\ MaxVersion \in Nat
                            /\ MaxReceipts \in Nat /\ MaxRequests \in Nat

VARIABLES inv, alloc, credited, note, request, work

invoiceVars == <<inv, alloc, credited, note, request, work>>
vars == <<orderVars, invoiceVars>>

Index == 1 .. MaxLines
Slots == 1 .. MaxReceipts
Content == UNION {[1 .. n -> [line : Lines, qty : 1 .. MaxQty]] : n \in Index}
Credits == [Index -> 0 .. MaxQty]
Kinds == {"INVOICE_APPROVAL", "INVOICE_MATCH_EXCEPTION"}
NoNote == [state |-> "NONE", inv |-> None, credit |-> [n \in Index |-> 0]]
NoAllocation == [n \in Index |-> [taken |-> [k \in Slots |-> 0], excepted |-> 0]]

Init ==
    /\ OrderInit
    /\ inv = [i \in Invoices |-> [state |-> "NONE", match |-> "NOT_EVALUATED", version |-> 0,
                                  lines |-> <<>>, clean |-> FALSE]]
    /\ alloc = [i \in Invoices |-> NoAllocation]
    /\ credited = [i \in Invoices |-> [n \in Index |-> 0]]
    /\ note = [c \in Notes |-> NoNote]
    /\ request = [i \in Invoices |-> [p \in Kinds |-> [state |-> "NONE", fresh |-> FALSE]]]
    /\ work = [i \in Invoices |-> FALSE]

-----------------------------------------------------------------------------
(* Quantities                                                                *)

Taken(i, n) == SumFunction(alloc[i][n].taken)

Reserved(i, n) == Taken(i, n) + alloc[i][n].excepted

(* The lines that other invoices bill against the same order line row.       *)
OthersOn(i, l) ==
    {jn \in (Invoices \ {i}) \X Index :
        /\ jn[2] \in DOMAIN inv[jn[1]].lines
        /\ inv[jn[1]].version = inv[i].version
        /\ inv[jn[1]].lines[jn[2]].line = l}

Used(i, l) == SumFunctionOnSet([jn \in Invoices \X Index |-> Reserved(jn[1], jn[2])], OthersOn(i, l))

ReceivedFor(i, l) ==
    IF inv[i].version = Current THEN SumFunction([k \in DOMAIN accepted |-> accepted[k][l]]) ELSE 0

Asked(i, l) ==
    SumFunctionOnSet([n \in DOMAIN inv[i].lines |-> inv[i].lines[n].qty],
                     {n \in DOMAIN inv[i].lines : inv[i].lines[n].line = l})

-----------------------------------------------------------------------------
(* The match                                                                 *)

ExceedsOrdered(i, l) == Used(i, l) + Asked(i, l) > terms[inv[i].version][l]

Blocking(i) ==
    \/ ~ inv[i].clean
    \/ inv[i].version # Current
    \/ order.state \notin {"ISSUED", "CLOSED"}
    \/ \E n \in DOMAIN inv[i].lines : ExceedsOrdered(i, inv[i].lines[n].line)

(* Each line on its own against what is received and not yet invoiced.       *)
Short(i, n) == inv[i].lines[n].qty > ReceivedFor(i, inv[i].lines[n].line) - Used(i, inv[i].lines[n].line)

Curable(i, n) ==
    /\ ~ ExceedsOrdered(i, inv[i].lines[n].line)
    /\ order.state = "ISSUED"
    /\ order.receipt # "FULLY_RECEIVED"

MatchStatus(i) ==
    IF Blocking(i) THEN "MISMATCHED"
    ELSE IF \E n \in DOMAIN inv[i].lines : Short(i, n) /\ Curable(i, n) THEN "PENDING_RECEIPT"
    ELSE "MATCHED"

(* What each line holds of receipt k.                                        *)
TakenOf(k) == [jn \in Invoices \X Index |-> alloc[jn[1]][jn[2]].taken[k]]

(* Fault: what other invoices hold is not subtracted. *)
AvailableWhole(i, l, k) == IF k \in DOMAIN accepted THEN accepted[k][l] ELSE 0

(* What invoice i may take of receipt k: its accepted quantity less what     *)
(* other invoices hold of it.                                                *)
Available(i, l, k) ==
    IF k \in DOMAIN accepted
    THEN Max({0, accepted[k][l] - SumFunctionOnSet(TakenOf(k), OthersOn(i, l))})
    ELSE 0

(* First receipts first.                                                     *)
FirstFit(i, n, k) ==
    LET l == inv[i].lines[n].line
        before == SumFunctionOnSet([e \in Slots |-> Available(i, l, e)], 1 .. k - 1)
    IN  Min({Available(i, l, k), Max({0, inv[i].lines[n].qty - before})})

Allocation(i) ==
    [n \in Index |-> [taken |-> [k \in Slots |-> IF n \in DOMAIN inv[i].lines THEN FirstFit(i, n, k) ELSE 0],
                      excepted |-> 0]]

(* Fault: the capacity is not compared again when it is taken. *)
AnyQuantity(i) == TRUE

(* Otherwise "Receiving capacity changed" is thrown and nothing is written.  *)
EnoughReceived(i) ==
    \A n \in DOMAIN inv[i].lines :
        SumFunction([k \in Slots |-> Available(i, inv[i].lines[n].line, k)]) >= inv[i].lines[n].qty

(* Fault: a match leaves the work item open. *)
WorkOnMismatch(i, status) == work[i] \/ status = "MISMATCHED"

(* The work item is opened by a mismatch and resolved by a match only.       *)
WorkAfter(i, status) ==
    CASE status = "MISMATCHED" -> TRUE
      [] status = "MATCHED" -> FALSE
      [] status = "PENDING_RECEIPT" -> work[i]

Evaluate(i) ==
    LET status == MatchStatus(i) IN
    /\ inv' = [inv EXCEPT ![i].state = "SUBMITTED", ![i].match = status]
    /\ IF status = "MATCHED" /\ alloc[i] = NoAllocation
       THEN EnoughReceived(i) /\ alloc' = [alloc EXCEPT ![i] = Allocation(i)]
       ELSE UNCHANGED alloc
    /\ request' = [request EXCEPT ![i] = [p \in Kinds |-> [request[i][p] EXCEPT !.fresh = FALSE]]]
    /\ work' = [work EXCEPT ![i] = WorkAfter(i, status)]
    /\ UNCHANGED <<credited, note>>

-----------------------------------------------------------------------------
(* Invoice commands                                                          *)

(* Fault: the order may be in any state. *)
WriteDraftUnissued(i, from, lines, clean) ==
    /\ inv[i].state = from
    /\ inv' = [inv EXCEPT ![i] = [inv[i] EXCEPT !.state = "DRAFT", !.version = Current,
                                               !.lines = lines, !.clean = clean]]
    /\ UNCHANGED <<alloc, credited, note, request, work>>

WriteDraft(i, from, lines, clean) ==
    /\ inv[i].state = from
    /\ Current > 0
    /\ inv' = [inv EXCEPT ![i] = [inv[i] EXCEPT !.state = "DRAFT", !.version = Current,
                                               !.lines = lines, !.clean = clean]]
    /\ UNCHANGED <<alloc, credited, note, request, work>>

CreateInvoice(i, lines, clean) == WriteDraft(i, "NONE", lines, clean)

UpdateInvoice(i, lines, clean) == WriteDraft(i, "DRAFT", lines, clean)

SubmitInvoice(i) == inv[i].state = "DRAFT" /\ Evaluate(i)

ReevaluateInvoice(i) == inv[i].state = "SUBMITTED" /\ Evaluate(i)

Allows(r) == r.state = "APPROVED" /\ r.fresh

ApproveMatched(i) ==
    /\ inv[i].state = "SUBMITTED"
    /\ inv[i].match = "MATCHED"
    /\ \/ request[i]["INVOICE_APPROVAL"].state = "NONE"
       \/ Allows(request[i]["INVOICE_APPROVAL"])
    /\ inv' = [inv EXCEPT ![i].state = "APPROVED"]
    /\ UNCHANGED <<alloc, credited, note, request, work>>

AcceptException(i) ==
    /\ inv' = [inv EXCEPT ![i].state = "APPROVED"]
    /\ alloc' = [alloc EXCEPT ![i] =
                   [n \in Index |-> [alloc[i][n] EXCEPT !.excepted = IF n \in DOMAIN inv[i].lines
                                                              THEN inv[i].lines[n].qty ELSE 0]]]
    /\ work' = [work EXCEPT ![i] = FALSE]
    /\ UNCHANGED <<credited, note, request>>

(* Fault: the evidence of the approval is not compared. *)
ApproveOnStaleEvidence(i) ==
    /\ inv[i].state = "SUBMITTED"
    /\ inv[i].match = "MISMATCHED"
    /\ request[i]["INVOICE_MATCH_EXCEPTION"].state = "APPROVED"
    /\ AcceptException(i)

ApproveMismatched(i) ==
    /\ inv[i].state = "SUBMITTED"
    /\ inv[i].match = "MISMATCHED"
    /\ Allows(request[i]["INVOICE_MATCH_EXCEPTION"])
    /\ AcceptException(i)

(* What the match said of an invoice that ends unpaid, no command reads      *)
(* again: it is forgotten.                                                   *)
Ended(i, state) == [inv[i] EXCEPT !.state = state, !.match = "NOT_EVALUATED", !.version = 0, !.clean = FALSE]

(* Fault: a rejected invoice keeps its allocations. *)
RejectKeepingReceipts(i) ==
    /\ inv[i].state = "SUBMITTED"
    /\ inv' = [inv EXCEPT ![i] = Ended(i, "REJECTED")]
    /\ work' = [work EXCEPT ![i] = FALSE]
    /\ UNCHANGED <<alloc, credited, note, request>>

RejectInvoice(i) ==
    /\ inv[i].state = "SUBMITTED"
    /\ inv' = [inv EXCEPT ![i] = Ended(i, "REJECTED")]
    /\ alloc' = [alloc EXCEPT ![i] = NoAllocation]
    /\ work' = [work EXCEPT ![i] = FALSE]
    /\ UNCHANGED <<credited, note, request>>

CancelInvoice(i) ==
    /\ inv[i].state = "DRAFT"
    /\ inv' = [inv EXCEPT ![i] = Ended(i, "CANCELLED")]
    /\ UNCHANGED <<alloc, credited, note, request, work>>

(* The approval contract: one request per invoice and kind, ever, bound to   *)
(* the current evaluation.  A rejected request refuses whatever one that is  *)
(* never decided refuses, so only approval is a step.                        *)
RequestApproval(i) ==
    LET p == IF inv[i].match = "MISMATCHED" THEN "INVOICE_MATCH_EXCEPTION" ELSE "INVOICE_APPROVAL" IN
    /\ inv[i].state = "SUBMITTED"
    /\ request[i][p].state = "NONE"
    /\ Cardinality({jq \in Invoices \X Kinds : request[jq[1]][jq[2]].state # "NONE"}) < MaxRequests
    /\ request' = [request EXCEPT ![i][p] = [state |-> "PENDING", fresh |-> TRUE]]
    /\ UNCHANGED <<inv, alloc, credited, note, work>>

ApproveRequest(i, p) ==
    /\ request[i][p].state = "PENDING"
    /\ request' = [request EXCEPT ![i][p].state = "APPROVED"]
    /\ UNCHANGED <<inv, alloc, credited, note, work>>

-----------------------------------------------------------------------------
(* Credit notes                                                              *)

CreateCreditNote(c, i, credit) ==
    /\ note[c].state = "NONE"
    /\ inv[i].state \in {"SUBMITTED", "APPROVED"}
    /\ \A n \in Index \ DOMAIN inv[i].lines : credit[n] = 0
    /\ note' = [note EXCEPT ![c] = [state |-> "DRAFT", inv |-> i, credit |-> credit]]
    /\ UNCHANGED <<inv, alloc, credited, request, work>>

UpdateCreditNote(c, credit) ==
    /\ note[c].state = "DRAFT"
    /\ \A n \in Index \ DOMAIN inv[note[c].inv].lines : credit[n] = 0
    /\ note' = [note EXCEPT ![c].credit = credit]
    /\ UNCHANGED <<inv, alloc, credited, request, work>>

SubmitCreditNote(c) ==
    /\ note[c].state = "DRAFT"
    /\ note' = [note EXCEPT ![c].state = "SUBMITTED"]
    /\ UNCHANGED <<inv, alloc, credited, request, work>>

EndNote(c, state) ==
    /\ note[c].state = state
    /\ note' = [note EXCEPT ![c] = NoNote]
    /\ UNCHANGED <<inv, alloc, credited, request, work>>

CancelCreditNote(c) == EndNote(c, "DRAFT")

RejectCreditNote(c) == EndNote(c, "SUBMITTED")

(* Fault: earlier credits are not counted. *)
CreditAloneFits(i, credit) == \A n \in DOMAIN inv[i].lines : credit[n] <= inv[i].lines[n].qty

CreditFits(i, credit) ==
    \A n \in DOMAIN inv[i].lines : credited[i][n] + credit[n] <= inv[i].lines[n].qty

(* A credit releases the line's allocations one after the other, those of    *)
(* receipts in no fixed order (random identifiers break the tie of           *)
(* created_at) and the later exception last; only one is released in part.   *)
IsRelease(a, credit, b) ==
    LET back == [k \in Slots |-> a.taken[k] - b.taken[k]]
        total == SumFunction(a.taken)
        freed == SumFunction(back)
    IN  /\ \A k \in Slots : back[k] >= 0
        /\ freed = Min({credit, total})
        /\ Cardinality({k \in Slots : back[k] > 0 /\ b.taken[k] > 0}) <= 1
        /\ b.excepted = a.excepted - Min({a.excepted, credit - freed})

Allocations == [taken : [Slots -> 0 .. MaxQty], excepted : 0 .. MaxQty]

ApplyCreditNote(c) ==
    LET i == note[c].inv IN
    /\ note[c].state = "SUBMITTED"
    /\ inv[i].state = "APPROVED"
    /\ CreditFits(i, note[c].credit)
    /\ note' = [note EXCEPT ![c] = NoNote]
    /\ credited' = [credited EXCEPT ![i] = [n \in Index |-> credited[i][n] + note[c].credit[n]]]
    /\ \E a \in [Index -> Allocations] :
          /\ \A n \in Index : IsRelease(alloc[i][n], note[c].credit[n], a[n])
          /\ alloc' = [alloc EXCEPT ![i] = a]
    /\ UNCHANGED <<inv, request, work>>

-----------------------------------------------------------------------------
OrderMoves ==
    /\ \/ Draft \/ Hold \/ Resume \/ Cancel \/ Close
       \/ Current < MaxVersion /\ \E t \in Terms : SetTerms(t)
       \/ Len(accepted) < MaxReceipts /\ \E q \in Accepted : (\E l \in Lines : q[l] > 0) /\ Receive(q)
    /\ UNCHANGED invoiceVars

InvoiceStep(i) ==
    \/ \E lines \in Content, clean \in BOOLEAN : CreateInvoice(i, lines, clean) \/ UpdateInvoice(i, lines, clean)
    \/ SubmitInvoice(i) \/ ReevaluateInvoice(i)
    \/ ApproveMatched(i) \/ ApproveMismatched(i)
    \/ RejectInvoice(i) \/ CancelInvoice(i)
    \/ RequestApproval(i)
    \/ \E p \in Kinds : ApproveRequest(i, p)

NoteStep(c) ==
    \/ \E credit \in Credits :
          /\ \E n \in Index : credit[n] > 0
          /\ (\E i \in Invoices : CreateCreditNote(c, i, credit)) \/ UpdateCreditNote(c, credit)
    \/ SubmitCreditNote(c) \/ CancelCreditNote(c) \/ RejectCreditNote(c) \/ ApplyCreditNote(c)

Next ==
    \/ OrderMoves
    \/ (\E i \in Invoices : InvoiceStep(i)) /\ UNCHANGED orderVars
    \/ (\E c \in Notes : NoteStep(c)) /\ UNCHANGED orderVars

Spec == Init /\ [][Next]_vars

-----------------------------------------------------------------------------
TypeOK ==
    /\ inv \in [Invoices -> [state : {"NONE", "DRAFT", "SUBMITTED", "APPROVED", "REJECTED", "CANCELLED"},
                             match : {"NOT_EVALUATED", "PENDING_RECEIPT", "MATCHED", "MISMATCHED"},
                             version : 0 .. MaxVersion, lines : Content \cup {<<>>}, clean : BOOLEAN]]
    /\ alloc \in [Invoices -> [Index -> Allocations]]
    /\ credited \in [Invoices -> [Index -> Nat]]
    /\ note \in [Notes -> [state : {"NONE", "DRAFT", "SUBMITTED"},
                           inv : Invoices \cup {None}, credit : Credits]]
    /\ request \in [Invoices -> [Kinds -> [state : {"NONE", "PENDING", "APPROVED"}, fresh : BOOLEAN]]]
    /\ work \in [Invoices -> BOOLEAN]
    /\ \A i \in Invoices : inv[i].state \in {"DRAFT", "SUBMITTED", "APPROVED"} =>
          inv[i].version > 0 /\ inv[i].lines # <<>>

(* No unit that was received is invoiced twice: what all invoices together   *)
(* hold of a receipt line is at most what that line accepted, whatever was   *)
(* re-evaluated, rejected, excepted or credited in between.                  *)
ReceiptsNotInvoicedTwice ==
    \A k \in Slots, l \in Lines :
        SumFunctionOnSet(TakenOf(k), {jn \in Invoices \X Index : /\ jn[2] \in DOMAIN inv[jn[1]].lines
                                                                /\ inv[jn[1]].lines[jn[2]].line = l})
            <= IF k \in DOMAIN accepted THEN accepted[k][l] ELSE 0

(* MATCHED stays true after the evaluation that said so: every unit billed   *)
(* and not credited is held against a posted receipt, although the order is  *)
(* held, closed or received further and other invoices are matched.          *)
MatchedIsBacked ==
    \A i \in Invoices : inv[i].match = "MATCHED" /\ inv[i].state \in {"SUBMITTED", "APPROVED"} =>
        \A n \in DOMAIN inv[i].lines : Taken(i, n) = inv[i].lines[n].qty - credited[i][n]

(* What an approved invoice bills and no credit gave back counts against the *)
(* order for the next invoice; one that will not be paid holds nothing.      *)
InvoicedQuantityStaysReserved ==
    \A i \in Invoices :
        /\ inv[i].state = "APPROVED" =>
              \A n \in DOMAIN inv[i].lines : Reserved(i, n) >= inv[i].lines[n].qty - credited[i][n]
        /\ inv[i].state \in {"DRAFT", "REJECTED", "CANCELLED"} => alloc[i] = NoAllocation

(* Credit notes give back at most what was billed, over all of them.         *)
CreditsWithinInvoice ==
    \A i \in Invoices : \A n \in Index :
        credited[i][n] <= IF n \in DOMAIN inv[i].lines THEN inv[i].lines[n].qty ELSE 0

(* A mismatched invoice was approved on an approval of the very evaluation   *)
(* it was approved with, never of one that a re-evaluation replaced.         *)
ApprovalsBindEvidence ==
    \A i \in Invoices : inv[i].state = "APPROVED" /\ inv[i].match = "MISMATCHED" =>
        Allows(request[i]["INVOICE_MATCH_EXCEPTION"])

(* A blocking mismatch has an open work item until it is matched, accepted   *)
(* or rejected, and nothing else has one.                                    *)
WorkItemsAreAnswered ==
    \A i \in Invoices :
        /\ inv[i].state = "SUBMITTED" /\ inv[i].match = "MISMATCHED" => work[i]
        /\ work[i] => inv[i].state = "SUBMITTED" /\ inv[i].match # "MATCHED"

(* Receipts back invoices: no received unit is billed twice, a match stays   *)
(* backed, and what is billed stays reserved (invoices.ts matchEvaluation,   *)
(* allocateReceiptQuantity, cancelOrRejectInvoice, applyCreditNote).         *)
ReceiptsBackInvoices == TypeOK /\ ReceiptsNotInvoicedTwice /\ MatchedIsBacked /\ InvoicedQuantityStaysReserved

(* People decide on what they were shown: an exception was approved for the  *)
(* evaluation in force, and a mismatch waits as a work item until it is      *)
(* decided (approveInvoice, appendEventEffects of invoice-routes.ts).        *)
DecisionsFollowEvidence == ApprovalsBindEvidence /\ WorkItemsAreAnswered
=============================================================================
