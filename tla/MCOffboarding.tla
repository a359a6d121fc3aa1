---------------------------- MODULE MCOffboarding ----------------------------
(***************************************************************************)
(* One user who leaves, one colleague, one asset and one licence.          *)
(***************************************************************************)
EXTENDS Offboarding
=============================================================================
