---------------------------- MODULE MCAgentFleet ----------------------------
(* AgentFleet for TLC: two registrations of one asset are interchangeable.   *)
EXTENDS AgentFleet, TLC

Symmetry == Permutations(Agents)
=============================================================================
