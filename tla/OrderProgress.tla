---------------------------- MODULE OrderProgress ----------------------------
(***************************************************************************)
(* What the purchase order component promises to those who read it: the    *)
(* lifecycle and receipt state of an order, the terms of its commercial    *)
(* versions and the accepted quantities of its posted receipts, in posting *)
(* order.  Drafts, approvals and unposted receipts are hidden.             *)
(*                                                                         *)
(* PurchaseOrder implements this specification; InvoiceMatch builds on it. *)
(***************************************************************************)
EXTENDS Integers, Sequences, FiniteSets

CONSTANTS Lines,
          MaxQty   \* bound: the largest quantity of a line

ASSUME ProgressAssumption == IsFiniteSet(Lines) /\ Lines # {} /\ MaxQty \in Nat \ {0}

VARIABLES order, terms, accepted, received

orderVars == <<order, terms, accepted, received>>

Terms == [Lines -> 1 .. MaxQty]
Accepted == [Lines -> 0 .. MaxQty]
Current == Len(terms)

OrderInit ==
    /\ order = [state |-> "NONE", receipt |-> "NOT_RECEIVED"]
    /\ terms = <<>>
    /\ accepted = <<>>
    /\ received = [l \in Lines |-> 0]

Move(from, to) ==
    /\ order.state \in from
    /\ order' = [order EXCEPT !.state = to]
    /\ UNCHANGED <<terms, accepted, received>>

Draft == Move({"NONE"}, "DRAFT")

(* Issuing and amending write the next commercial version.                   *)
SetTerms(t) ==
    /\ \/ order.state = "DRAFT" /\ order' = [order EXCEPT !.state = "ISSUED"]
       \/ order.state \in {"ISSUED", "ON_HOLD"} /\ accepted = <<>> /\ order' = order
    /\ terms' = Append(terms, t)
    /\ UNCHANGED <<accepted, received>>

Hold == Move({"ISSUED"}, "ON_HOLD")

Resume == Move({"ON_HOLD"}, "ISSUED")

Cancel == accepted = <<>> /\ Move({"DRAFT", "ISSUED", "ON_HOLD"}, "CANCELLED")

Close == accepted # <<>> /\ Move({"ISSUED", "ON_HOLD"}, "CLOSED")

Receive(q) ==
    /\ order.state = "ISSUED"
    /\ \A l \in Lines : received[l] + q[l] <= terms[Current][l]
    /\ received' = [l \in Lines |-> received[l] + q[l]]
    /\ order' = [order EXCEPT !.receipt = IF \A l \in Lines : received'[l] >= terms[Current][l]
                                          THEN "FULLY_RECEIVED" ELSE "PARTIALLY_RECEIVED"]
    /\ accepted' = Append(accepted, q)
    /\ UNCHANGED terms

OrderNext ==
    \/ Draft \/ Hold \/ Resume \/ Cancel \/ Close
    \/ \E t \in Terms : SetTerms(t)
    \/ \E q \in Accepted : Receive(q)

OrderSpec == OrderInit /\ [][OrderNext]_orderVars
=============================================================================
