---------------------------- MODULE MCOperations ----------------------------
(***************************************************************************)
(* The agent fleet and the automation rules, for TLC.  They share no       *)
(* variable, and OperationsNext follows one of them at a time (see         *)
(* MCSupply).  Two registrations of one asset are interchangeable, and so  *)
(* are two rules.                                                          *)
(***************************************************************************)
EXTENDS AgentFleet, AutomationRules, TLC

B(a, s) == [act |-> a, safety |-> s, need |-> FALSE]
RuleBodies == {B("restart", "SAFE"), B("restart", "HIGH_RISK"), B("stop", "SAFE")}

OperationsInit == FleetInit /\ RulesInit

OperationsNext ==
    \/ RulesInit /\ FleetNext /\ UNCHANGED ruleVars
    \/ FleetInit /\ RulesNext /\ UNCHANGED fleetVars

OperationsSpec == OperationsInit /\ [][OperationsNext]_<<fleetVars, ruleVars>>

Symmetry == Permutations(Agents) \cup Permutations(Rules)
=============================================================================
