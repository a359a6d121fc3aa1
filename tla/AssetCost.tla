----------------------------- MODULE AssetCost -----------------------------
(***************************************************************************)
(* From a received unit to an asset and its cost: the goods-receipt        *)
(* assetizer, the cost-provenance linker and the command that records a    *)
(* cost (apps/worker/src/{goods-receipt-assetizer,cost-provenance}.ts,     *)
(* modules/procurement/application/cost-provenance.ts).                    *)
(*                                                                         *)
(* The model has one posted receipt line; its units are numbered in the    *)
(* order of their identifiers.  Invoices are matched to quantities of the  *)
(* line, approved, and credited: that is InvoiceMatch, here the three      *)
(* steps the linker reads.  The linker handles its events in any order:    *)
(* a failed attempt puts an event behind later ones.  An event is one      *)
(* transaction over all the assets it concerns.                            *)
(***************************************************************************)
EXTENDS Naturals, Sequences, FiniteSets, Functions

CONSTANTS UnitCount,     \* accepted units of the receipt line
          Invoices, Notes,
          CreditAmount,  \* credited amount of a note, in minor units
          MaxAttempts,   \* attempts of a unit or an event (5 in the code)
          MaxTroubled,   \* bound: units and events that have failed without a conflict in the ledger
          MaxByOperator  \* bound: costs recorded by the command

ASSUME CostAssumption == MaxAttempts \in Nat \ {0}

VARIABLES unit,         \* assetization state of the received units
          allocations,  \* match allocations of the line, oldest first
          approved,     \* approved invoices
          releases,     \* what an applied credit note releases of an allocation
          outbox,       \* events of the linker, with their retry row
          costs,        \* the cost provenance ledger
          workItems

costVars == <<unit, allocations, approved, releases, outbox, costs, workItems>>

Units == 1..UnitCount
LinkerEvents == ({"ASSET"} \X Units) \cup ({"INVOICE"} \X Invoices) \cup ({"NOTE"} \X Notes)
Unreleased == [inv |-> "NONE", qty |-> 0]

CostInit ==
    /\ unit = [u \in Units |-> [state |-> "PENDING", attempts |-> 0]]
    /\ allocations = <<>> /\ approved = {} /\ releases = [n \in Notes |-> Unreleased]
    /\ outbox = [e \in LinkerEvents |-> [state |-> "NONE", attempts |-> 0]]
    /\ costs = {} /\ workItems = {}

-----------------------------------------------------------------------------
(* The assetizer.                                                            *)

Emitted(e) == [outbox EXCEPT ![e].state = "NEW"]
Troubled == {<<"UNIT", u>> : u \in {u \in Units : unit[u].attempts > 0}}
            \cup {e \in LinkerEvents : outbox[e].attempts > 0}
MayFail(e) == Cardinality(Troubled \ {e}) < MaxTroubled

RegisterUnit(u) ==
    /\ unit[u].state = "PENDING"
    /\ unit' = [unit EXCEPT ![u].state = "REGISTERED"]
    /\ outbox' = Emitted(<<"ASSET", u>>)
    /\ UNCHANGED workItems

(* A duplicate or an unknown model fails for good; any other failure is      *)
(* tried again.                                                              *)
RegistrationFails(u, permanent) ==
    /\ unit[u].state = "PENDING" /\ MayFail(<<"UNIT", u>>)
    /\ LET exhausted == permanent \/ unit[u].attempts + 1 >= MaxAttempts IN
         /\ unit' = [unit EXCEPT ![u] = [state |-> IF exhausted THEN "FAILED" ELSE "PENDING", attempts |-> @.attempts + 1]]
         /\ workItems' = IF exhausted THEN workItems \cup {<<"UNIT", u>>} ELSE workItems
    /\ UNCHANGED outbox

Assetizer ==
    /\ \E u \in Units : RegisterUnit(u) \/ \E permanent \in BOOLEAN : RegistrationFails(u, permanent)
    /\ UNCHANGED <<allocations, approved, releases, costs>>

-----------------------------------------------------------------------------
(* What the linker reads of the invoices.                                    *)

AllocationOf(i) == CHOOSE k \in DOMAIN allocations : allocations[k].inv = i
Quantities(rows) == [x \in DOMAIN rows |-> rows[x].qty]
Released(i, besides) == SumFunctionOnSet(Quantities(releases), {n \in Notes \ besides : releases[n].inv = i})
Matched == SumFunction(Quantities(allocations))
ReleasedInAll == SumFunction(Quantities(releases))

MatchInvoice(i, q) ==
    /\ \A k \in DOMAIN allocations : allocations[k].inv # i
    /\ Matched + q <= UnitCount + ReleasedInAll
    /\ allocations' = Append(allocations, [inv |-> i, qty |-> q])
    /\ UNCHANGED <<approved, releases, outbox>>

ApproveInvoice(i) ==
    /\ i \notin approved /\ \E k \in DOMAIN allocations : allocations[k].inv = i
    /\ approved' = approved \cup {i} /\ outbox' = Emitted(<<"INVOICE", i>>)
    /\ UNCHANGED <<allocations, releases>>

ApplyCreditNote(n, i, q) ==
    /\ i \in approved /\ releases[n] = Unreleased
    /\ q + Released(i, {}) <= allocations[AllocationOf(i)].qty
    /\ releases' = [releases EXCEPT ![n] = [inv |-> i, qty |-> q]]
    /\ outbox' = Emitted(<<"NOTE", n>>)
    /\ UNCHANGED <<allocations, approved>>

InvoiceMoves ==
    /\ \E i \in Invoices : \/ ApproveInvoice(i)
                           \/ \E q \in Units : MatchInvoice(i, q) \/ \E n \in Notes : ApplyCreditNote(n, i, q)
    /\ UNCHANGED <<unit, costs, workItems>>

-----------------------------------------------------------------------------
(* The linker: which costs the tables give a unit now.                       *)

(* The units of an allocation follow those of the approved allocations made  *)
(* before it.                                                                *)
Offset(k) == SumFunctionOnSet(Quantities(allocations), {j \in 1..k - 1 : allocations[j].inv \in approved})
Slice(from, to) == {u \in Units : from < u /\ u <= to}
UnitsOf(k) == Slice(Offset(k), Offset(k) + allocations[k].qty)
ApprovedAllocations == {k \in DOMAIN allocations : allocations[k].inv \in approved}
AllocationFits(k) == Cardinality(UnitsOf(k)) = allocations[k].qty

Cost(u, source, amount, role) == [unit |-> u, source |-> source, amount |-> amount, role |-> role]

CommittedCost(u) == {Cost(u, <<"PO">>, 1, "LINKER")}

ActualCosts(u) ==
    {Cost(u, <<"INVOICE", allocations[k].inv>>, 1, "LINKER") : k \in {k \in ApprovedAllocations : AllocationFits(k) /\ u \in UnitsOf(k)}}

(* The units a credit note releases: the first of its allocation after those *)
(* the other applied notes release.                                          *)
UnitsForCredit(n) ==
    LET k == AllocationOf(releases[n].inv)
        after == Offset(k) + Released(releases[n].inv, {n}) IN
    Slice(after, after + releases[n].qty)

Applied == {n \in Notes : releases[n] # Unreleased}
CreditFits(n) == AllocationFits(AllocationOf(releases[n].inv)) /\ Cardinality(UnitsForCredit(n)) = releases[n].qty

(* splitMinorUnits: the first units get the remainder.                       *)
SplitMinorUnits(count, index) == (CreditAmount \div count) + IF index <= CreditAmount % count THEN 1 ELSE 0

CreditAdjustments(u) ==
    {Cost(u, <<"NOTE", n>>, SplitMinorUnits(releases[n].qty, Cardinality({v \in UnitsForCredit(n) : v <= u})), "LINKER") :
        n \in {n \in Applied : CreditFits(n) /\ u \in UnitsForCredit(n)}}

(* An allocation without its units is left to an operator.                   *)
Ambiguities ==
    {<<"INVOICE", allocations[k].inv>> : k \in {k \in ApprovedAllocations : ~AllocationFits(k)}}
    \cup {<<"NOTE", n>> : n \in {n \in Applied : ~CreditFits(n)}}

Reconciled(u) == CommittedCost(u) \cup ActualCosts(u) \cup CreditAdjustments(u)

(* What a source line can give in all.                                       *)
Quantity(source) ==
    CASE source[1] = "PO" -> UnitCount + MaxByOperator
      [] source[1] = "INVOICE" -> allocations[AllocationOf(source[2])].qty
      [] source[1] = "NOTE" -> releases[source[2]].qty
Amount(source) == IF source[1] = "NOTE" THEN CreditAmount ELSE Quantity(source)

(* recordCostProvenance accepts a ledger: one amount per identity, and no    *)
(* source line given away beyond its quantity or its amount.                 *)
Records(L, source) == {c \in L : c.source = source}
Acceptable(L) ==
    /\ \A c, d \in L : (c.unit = d.unit /\ c.source = d.source /\ c.role = d.role) => c = d
    /\ \A source \in {c.source : c \in L} :
         /\ Cardinality(Records(L, source)) <= Quantity(source)
         /\ SumFunctionOnSet([c \in L |-> c.amount], Records(L, source)) <= Amount(source)

(* The assets an event is about: its own, or all of the receipt line.        *)
Targets(e) == {u \in Units : unit[u].state = "REGISTERED" /\ (e[1] = "ASSET" => u = e[2])}

(* Fault: a registration is linked to its order only. *)
LinkedWithoutHistory(e) ==
    costs \cup UNION {IF e[1] = "ASSET" THEN CommittedCost(u) ELSE Reconciled(u) : u \in Targets(e)}
Linked(e) == costs \cup UNION {Reconciled(u) : u \in Targets(e)}

ProcessEvent(e) ==
    /\ outbox[e].state = "NEW" /\ Acceptable(Linked(e))
    /\ costs' = Linked(e)
    /\ workItems' = IF Targets(e) = {} THEN workItems ELSE workItems \cup Ambiguities
    /\ outbox' = [outbox EXCEPT ![e] = [state |-> "PROCESSED", attempts |-> 0]]

(* A conflict in the ledger, or a failure of the transaction.                *)
RetryFailure(e) ==
    /\ outbox[e].state = "NEW" /\ (MayFail(e) \/ ~Acceptable(Linked(e)))
    /\ LET parked == outbox[e].attempts + 1 >= MaxAttempts IN
         /\ outbox' = [outbox EXCEPT ![e] = [state |-> IF parked THEN "FAILED" ELSE "NEW", attempts |-> @.attempts + 1]]
         /\ workItems' = IF parked THEN workItems \cup {<<"EVENT", e>>} ELSE workItems
    /\ UNCHANGED costs

Linker ==
    /\ \E e \in LinkerEvents : ProcessEvent(e) \/ RetryFailure(e)
    /\ UNCHANGED <<unit, allocations, approved, releases>>

(* The command records a cost of an effective source under a role of its own.*)
EffectiveSources == {<<"PO">>} \cup ({"INVOICE"} \X approved) \cup ({"NOTE"} \X Applied)
RecordByOperator ==
    /\ Cardinality({c \in costs : c.role = "OPERATOR"}) < MaxByOperator
    /\ \E u \in Units, source \in EffectiveSources :
         /\ unit[u].state = "REGISTERED"
         /\ costs' = costs \cup {Cost(u, source, 1, "OPERATOR")} /\ Acceptable(costs')
    /\ UNCHANGED <<unit, allocations, approved, releases, outbox, workItems>>

CostNext == Assetizer \/ InvoiceMoves \/ Linker \/ RecordByOperator
CostSpec == CostInit /\ [][CostNext]_costVars

-----------------------------------------------------------------------------
(* Properties.                                                               *)

CostTypeOK ==
    /\ \A u \in Units : unit[u].state \in {"PENDING", "REGISTERED", "FAILED"} /\ unit[u].attempts \in 0..MaxAttempts
    /\ \A e \in LinkerEvents : outbox[e].state \in {"NONE", "NEW", "PROCESSED", "FAILED"} /\ outbox[e].attempts \in 0..MaxAttempts
    /\ \A c \in costs : c.unit \in Units

(* When the linker has handled every event and parked none, every asset has  *)
(* the costs its order, the approved invoices and the applied credit notes   *)
(* give it, or an operator has been asked, whatever order registrations,     *)
(* approvals and credits came in; a parked event or a failed unit has a work *)
(* item, and no source line is given away twice (cost-provenance.ts          *)
(* processCostProvenanceEvent, goods-receipt-assetizer.ts).                  *)
CostsSettle ==
    /\ CostTypeOK /\ Acceptable(costs)
    /\ \A e \in LinkerEvents : outbox[e].state = "FAILED" => <<"EVENT", e>> \in workItems
    /\ \A u \in Units : unit[u].state = "FAILED" => <<"UNIT", u>> \in workItems
    /\ (\A e \in LinkerEvents : outbox[e].state \in {"NONE", "PROCESSED"}) =>
         \A u \in Units : unit[u].state = "REGISTERED" => Reconciled(u) \subseteq costs /\ Ambiguities \subseteq workItems

(* The linker charges an asset to one invoice: each unit of the receipt line *)
(* belongs to one allocation (TASK-076, "Multi-Asset allocation is           *)
(* deterministic").  The code does not keep this: an invoice approved out of *)
(* match order moves the units of one already recorded.                      *)
ChargedOnce ==
    \A c, d \in costs : (c.role = "LINKER" /\ d.role = "LINKER" /\ c.unit = d.unit
                         /\ c.source[1] = "INVOICE" /\ d.source[1] = "INVOICE") => c = d
=============================================================================
