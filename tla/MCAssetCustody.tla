--------------------------- MODULE MCAssetCustody ---------------------------
(***************************************************************************)
(* Two assets and two users.  The first asset is serviced, replaced by the *)
(* second, retired, wiped and disposed of.                                 *)
(***************************************************************************)
EXTENDS AssetCustody, TLC

UserSymmetry == Permutations(Users)
=============================================================================
