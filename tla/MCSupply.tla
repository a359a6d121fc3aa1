------------------------------ MODULE MCSupply ------------------------------
(***************************************************************************)
(* Sourcing, purchase orders with their receipts, and commercial           *)
(* documents, for TLC.  The three share no variable, so a behaviour of all *)
(* of them together violates an invariant of one only if a behaviour of    *)
(* that one alone does.  SupplyNext therefore follows one component at a   *)
(* time: it has the sum of their state spaces instead of the product.      *)
(***************************************************************************)
EXTENDS PurchaseOrder, Sourcing, CommercialDocuments, TLC

SupplyInit == POInit /\ SourcingInit /\ DocumentsInit

SupplyNext ==
    \/ SourcingInit /\ DocumentsInit /\ PONext /\ UNCHANGED <<sourcingVars, documentVars>>
    \/ POInit /\ DocumentsInit /\ SourcingNext /\ UNCHANGED <<poVars, documentVars>>
    \/ POInit /\ SourcingInit /\ DocumentsNext /\ UNCHANGED <<poVars, sourcingVars>>

SupplySpec == SupplyInit /\ [][SupplyNext]_<<poVars, sourcingVars, documentVars>>

Symmetry == Permutations(Receipts) \cup Permutations(Suppliers) \cup Permutations(Quotes)
=============================================================================
