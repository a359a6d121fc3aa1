------------------------ MODULE MCSoftwareDeployment ------------------------
EXTENDS SoftwareDeployment, TLC

CONSTANTS t1, t2, a1, a2, c1, k1, k2, k3

(* One campaign over two assets; the first asset's agent calls twice at once. *)
MCCampaignOf == t1 :> c1 @@ t2 :> c1
MCAssetOf == t1 :> a1 @@ t2 :> a2
MCOrder == t1 :> 1 @@ t2 :> 2
MCCallerOf == [k \in Calls |-> IF k = k3 THEN a2 ELSE a1]
=============================================================================
