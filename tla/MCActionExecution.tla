------------------------- MODULE MCActionExecution -------------------------
(* One intent with a manual retry, claimed through one or two gateway        *)
(* sessions of its agent.                                                    *)
EXTENDS ActionExecution
CONSTANTS i1, s1, s2
=============================================================================
