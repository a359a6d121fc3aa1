--------------------------- MODULE MCObligations ---------------------------
(***************************************************************************)
(* Contracts and the cost of received assets, for TLC.  They share no      *)
(* variable, and ObligationsNext follows one of them at a time (see        *)
(* MCSupply).                                                              *)
(***************************************************************************)
EXTENDS Contracts, AssetCost, TLC

Terms(f, t, d, p) == [from |-> f, to |-> t, date |-> d, period |-> p]
ContractTerms == {Terms(0, 1, Unset, 0), Terms(1, 2, 0, Unset)}

ObligationsInit == ContractsInit /\ CostInit

ObligationsNext ==
    \/ CostInit /\ ContractsNext /\ UNCHANGED costVars
    \/ ContractsInit /\ CostNext /\ UNCHANGED contractVars

ObligationsSpec == ObligationsInit /\ [][ObligationsNext]_<<contractVars, costVars>>

Symmetry == Permutations(Contracts) \cup Permutations(Invoices)
=============================================================================
