------------------------------ MODULE Sourcing ------------------------------
(***************************************************************************)
(* From a procurement request to an award: suppliers, procurement          *)
(* requests, requests for quotation and the quotations they receive        *)
(* (modules/procurement/application/{suppliers,requests,rfqs}.ts,          *)
(* apps/api/src/{procurement,rfq}-routes.ts).                              *)
(*                                                                         *)
(* Every command is one transaction; the commands of an RFQ and of its     *)
(* quotations lock the RFQ first.  Optimistic versions are left out: a     *)
(* stale command changes nothing.  Profiles, lines, prices and terms are   *)
(* data no guard reads.                                                    *)
(***************************************************************************)
EXTENDS Naturals, FiniteSets

CONSTANTS Suppliers, PRs, Rfqs, Quotes,
          AwardRequests   \* approval requests with source type RFQ_AWARD

ASSUME SourcingAssumption == IsFiniteSet(Quotes) /\ "NONE" \notin Quotes \cup Rfqs

VARIABLES suppliers, prs, rfqs, quotes, awardRequests

sourcingVars == <<suppliers, prs, rfqs, quotes, awardRequests>>

NoRfq == [state |-> "NONE", invited |-> {}, request |-> "NONE", late |-> FALSE, awarded |-> "NONE", approval |-> "NONE"]
NoQuote == [state |-> "NONE", rfq |-> "NONE", supplier |-> "NONE", revision |-> 0, replaces |-> "NONE"]
NoAwardRequest == [state |-> "NONE", rfq |-> "NONE"]

SourcingInit ==
    /\ suppliers = [s \in Suppliers |-> "NONE"] /\ prs = [p \in PRs |-> "NONE"]
    /\ rfqs = [r \in Rfqs |-> NoRfq] /\ quotes = [q \in Quotes |-> NoQuote]
    /\ awardRequests = [a \in AwardRequests |-> NoAwardRequest]

-----------------------------------------------------------------------------
(* Suppliers and procurement requests.                                       *)

CreateSupplier(s) ==
    /\ suppliers[s] = "NONE"
    /\ suppliers' = [suppliers EXCEPT ![s] = "PROSPECT"]

SupplierMoves ==
    {<<"PROSPECT", "APPROVED">>, <<"APPROVED", "PREFERRED">>, <<"PREFERRED", "APPROVED">>,
     <<"SUSPENDED", "APPROVED">>, <<"BLOCKED", "PROSPECT">>, <<"INACTIVE", "PROSPECT">>}
    \cup ({"APPROVED", "PREFERRED"} \X {"SUSPENDED"})
    \cup ({"PROSPECT", "APPROVED", "PREFERRED", "SUSPENDED"} \X {"BLOCKED"})
    \cup ({"PROSPECT", "APPROVED", "PREFERRED", "SUSPENDED", "BLOCKED"} \X {"INACTIVE"})

TransitionSupplier(s) ==
    \E m \in SupplierMoves : suppliers[s] = m[1] /\ suppliers' = [suppliers EXCEPT ![s] = m[2]]

SupplierCommands ==
    /\ \E s \in Suppliers : CreateSupplier(s) \/ TransitionSupplier(s)
    /\ UNCHANGED <<prs, rfqs, quotes, awardRequests>>

CreateProcurementRequest(p) == prs[p] = "NONE" /\ prs' = [prs EXCEPT ![p] = "DRAFT"]
SubmitProcurementRequest(p) == prs[p] = "DRAFT" /\ prs' = [prs EXCEPT ![p] = "SUBMITTED"]

(* No command of the code reviews a request: this is the state an RFQ needs. *)
ReviewRequest(p) == prs[p] = "SUBMITTED" /\ prs' = [prs EXCEPT ![p] = "WAITING_RFQ"]

RequestCommands ==
    /\ \E p \in PRs : CreateProcurementRequest(p) \/ SubmitProcurementRequest(p) \/ ReviewRequest(p)
    /\ UNCHANGED <<suppliers, rfqs, quotes, awardRequests>>

-----------------------------------------------------------------------------
(* Requests for quotation.                                                   *)

ValidateSupplier(s) == suppliers[s] \in {"PROSPECT", "APPROVED", "PREFERRED"}
ValidateAward(s) == suppliers[s] \in {"APPROVED", "PREFERRED"}

CreateRfq(r, S, p) ==
    /\ rfqs[r].state = "NONE" /\ S # {}
    /\ p # "NONE" => prs[p] = "WAITING_RFQ"
    /\ \A s \in S : ValidateSupplier(s)
    /\ rfqs' = [rfqs EXCEPT ![r] = [NoRfq EXCEPT !.state = "DRAFT", !.invited = S, !.request = p]]

(* The new deadline lies in the future.                                      *)
UpdateRfqDraft(r, S) ==
    /\ rfqs[r].state = "DRAFT" /\ S # {}
    /\ \A s \in S : ValidateSupplier(s)
    /\ rfqs' = [rfqs EXCEPT ![r].invited = S, ![r].late = FALSE]

(* Issuing asks the suppliers again, and not the deadline.                   *)
IssueRfq(r) ==
    /\ rfqs[r].state = "DRAFT"
    /\ \A s \in rfqs[r].invited : ValidateSupplier(s)
    /\ rfqs' = [rfqs EXCEPT ![r].state = "OPEN"]

CloseSubmissions(r) == rfqs[r].state = "OPEN" /\ rfqs' = [rfqs EXCEPT ![r].state = "EVALUATING"]

(* What the end of an RFQ makes of one of its quotations.                    *)
(* Fault: draft quotations survive the end of the request. *)
SettledLeavingDrafts(q, command, selected) ==
    CASE quotes[q].state = "SUBMITTED" /\ command = "CANCEL" -> "VOID"
      [] quotes[q].state = "SUBMITTED" /\ command # "CANCEL" -> IF q = selected THEN "ACCEPTED" ELSE "REJECTED"
      [] OTHER -> quotes[q].state
Settled(q, command, selected) ==
    CASE quotes[q].state = "DRAFT" \/ (quotes[q].state = "SUBMITTED" /\ command = "CANCEL") -> "VOID"
      [] quotes[q].state = "SUBMITTED" /\ command # "CANCEL" -> IF q = selected THEN "ACCEPTED" ELSE "REJECTED"
      [] OTHER -> quotes[q].state

SettleQuotes(r, command, selected) ==
    quotes' = [q \in Quotes |-> IF quotes[q].rfq # r THEN quotes[q]
                                ELSE [quotes[q] EXCEPT !.state = Settled(q, command, selected)]]

CancelRfq(r) ==
    /\ rfqs[r].state \in {"DRAFT", "OPEN", "EVALUATING"}
    /\ rfqs' = [rfqs EXCEPT ![r].state = "CANCELLED"]
    /\ SettleQuotes(r, "CANCEL", "NONE")

CloseNoAward(r) ==
    /\ rfqs[r].state = "EVALUATING"
    /\ rfqs' = [rfqs EXCEPT ![r].state = "CLOSED_NO_AWARD"]
    /\ SettleQuotes(r, "CLOSE_NO_AWARD", "NONE")

(* Every approval request of the award must be approved; none is no gate.    *)
AwardApprovals(r) == {a \in AwardRequests : awardRequests[a].rfq = r}
AwardApproved(r, a) ==
    IF AwardApprovals(r) = {} THEN a = "NONE"
    ELSE a \in AwardApprovals(r) /\ \A b \in AwardApprovals(r) : awardRequests[b].state = "APPROVED"

AwardRfq(r, q, a) ==
    /\ rfqs[r].state = "EVALUATING" /\ AwardApproved(r, a)
    /\ quotes[q].rfq = r /\ quotes[q].state = "SUBMITTED" /\ ValidateAward(quotes[q].supplier)
    /\ rfqs' = [rfqs EXCEPT ![r].state = "AWARDED", ![r].awarded = q, ![r].approval = a]
    /\ SettleQuotes(r, "AWARD", q)

DeadlinePasses(r) ==
    /\ rfqs[r].state \in {"DRAFT", "OPEN"} /\ ~rfqs[r].late
    /\ rfqs' = [rfqs EXCEPT ![r].late = TRUE]

RfqCommands ==
    /\ \E r \in Rfqs :
         \/ /\ \/ \E S \in SUBSET Suppliers, p \in PRs \cup {"NONE"} : CreateRfq(r, S, p)
               \/ \E S \in SUBSET Suppliers : UpdateRfqDraft(r, S)
               \/ IssueRfq(r) \/ CloseSubmissions(r) \/ DeadlinePasses(r)
            /\ UNCHANGED quotes
         \/ CancelRfq(r) \/ CloseNoAward(r)
         \/ \E q \in Quotes, a \in AwardRequests \cup {"NONE"} : AwardRfq(r, q, a)
    /\ UNCHANGED <<suppliers, prs, awardRequests>>

-----------------------------------------------------------------------------
(* Quotations.                                                               *)

OffersOf(r, s) == {q \in Quotes : quotes[q].rfq = r /\ quotes[q].supplier = s}
Revisions(r, s) == {quotes[q].revision : q \in OffersOf(r, s)}
(* Fault: the current offer of the supplier is not looked for. *)
IgnoreCurrentOffer(r, s) == FALSE
HasCurrentOffer(r, s) == \E q \in OffersOf(r, s) : quotes[q].state = "SUBMITTED"

(* A revision replaces a withdrawn quotation and gets the next number; a     *)
(* quotation that replaces none is number 1, and numbers are unique.         *)
CreateQuotation(q, r, s, previous) ==
    /\ quotes[q].state = "NONE" /\ rfqs[r].state = "OPEN"
    /\ s \in rfqs[r].invited /\ ValidateSupplier(s)
    /\ IF previous = "NONE" THEN 1 \notin Revisions(r, s)
       ELSE previous \in OffersOf(r, s) /\ quotes[previous].state = "WITHDRAWN"
    /\ quotes' = [quotes EXCEPT ![q] =
         [state |-> "DRAFT", rfq |-> r, supplier |-> s, replaces |-> previous,
          revision |-> IF previous = "NONE" THEN 1 ELSE Cardinality(Revisions(r, s)) + 1]]

SubmitQuotation(q) ==
    /\ quotes[q].state = "DRAFT"
    /\ LET r == quotes[q].rfq
           s == quotes[q].supplier IN
         /\ rfqs[r].state = "OPEN" /\ ~rfqs[r].late
         /\ s \in rfqs[r].invited /\ ValidateSupplier(s)
         /\ ~HasCurrentOffer(r, s)
    /\ quotes' = [quotes EXCEPT ![q].state = "SUBMITTED"]

WithdrawQuotation(q) ==
    /\ quotes[q].state \in {"DRAFT", "SUBMITTED"} /\ rfqs[quotes[q].rfq].state \in {"OPEN", "EVALUATING"}
    /\ quotes' = [quotes EXCEPT ![q].state = "WITHDRAWN"]

DisqualifyQuotation(q) ==
    /\ quotes[q].state = "SUBMITTED" /\ rfqs[quotes[q].rfq].state = "EVALUATING"
    /\ quotes' = [quotes EXCEPT ![q].state = "DISQUALIFIED"]

QuotationCommands ==
    /\ \E q \in Quotes :
         \/ \E r \in Rfqs, s \in Suppliers, p \in Quotes \cup {"NONE"} : CreateQuotation(q, r, s, p)
         \/ SubmitQuotation(q) \/ WithdrawQuotation(q) \/ DisqualifyQuotation(q)
    /\ UNCHANGED <<suppliers, prs, rfqs, awardRequests>>

(* The approval engine: a request for the award of an RFQ, and its decision. *)
AwardApprovalMoves ==
    /\ \E a \in AwardRequests :
         \/ /\ awardRequests[a].state = "NONE"
            /\ \E r \in Rfqs : rfqs[r].state # "NONE" /\ awardRequests' = [awardRequests EXCEPT ![a] = [state |-> "PENDING", rfq |-> r]]
         \/ /\ awardRequests[a].state = "PENDING"
            /\ \E d \in {"APPROVED", "REJECTED"} : awardRequests' = [awardRequests EXCEPT ![a].state = d]
    /\ UNCHANGED <<suppliers, prs, rfqs, quotes>>

SourcingNext == SupplierCommands \/ RequestCommands \/ RfqCommands \/ QuotationCommands \/ AwardApprovalMoves
SourcingSpec == SourcingInit /\ [][SourcingNext]_sourcingVars

-----------------------------------------------------------------------------
(* Properties.                                                               *)

SourcingTypeOK ==
    /\ \A s \in Suppliers : suppliers[s] = "NONE" \/ \E m \in SupplierMoves : suppliers[s] = m[1]
    /\ \A r \in Rfqs : rfqs[r].invited \subseteq Suppliers
    /\ \A q \in Quotes : quotes[q].revision \in 0..Cardinality(Quotes)

(* When an RFQ ends no quotation is left open; exactly the awarded one is    *)
(* ACCEPTED, and a rejection belongs to an RFQ that was decided, whatever    *)
(* order submissions, withdrawals and decisions come in (rfqs.ts RFQ.AWARD,  *)
(* RFQ.CLOSE_NO_AWARD, RFQ.CANCEL).                                          *)
AwardsAreFinal ==
    /\ SourcingTypeOK
    /\ \A q \in Quotes : quotes[q].state # "NONE" =>
         LET r == rfqs[quotes[q].rfq] IN
         /\ r.state \in {"AWARDED", "CLOSED_NO_AWARD", "CANCELLED"} => quotes[q].state \notin {"DRAFT", "SUBMITTED"}
         /\ quotes[q].state = "ACCEPTED" <=> (r.state = "AWARDED" /\ r.awarded = q)
         /\ quotes[q].state = "REJECTED" => r.state \in {"AWARDED", "CLOSED_NO_AWARD"}
    /\ \A r \in Rfqs : rfqs[r].state = "AWARDED" => rfqs[r].awarded # "NONE" /\ quotes[rfqs[r].awarded].supplier \in rfqs[r].invited

(* A supplier has at most one offer in the running for an RFQ, its revisions *)
(* are numbered without a gap, and a revision replaces an earlier offer that *)
(* was withdrawn (rfqs.ts QUOTATION.CREATE, QUOTATION.SUBMIT).               *)
OneOfferPerSupplier ==
    \A r \in Rfqs, s \in Suppliers :
        /\ Cardinality({q \in OffersOf(r, s) : quotes[q].state \in {"SUBMITTED", "ACCEPTED"}}) <= 1
        /\ Revisions(r, s) = 1..Cardinality(OffersOf(r, s))
        /\ \A q \in OffersOf(r, s) : quotes[q].replaces # "NONE" =>
             quotes[quotes[q].replaces].revision < quotes[q].revision /\ quotes[quotes[q].replaces].state = "WITHDRAWN"
=============================================================================
