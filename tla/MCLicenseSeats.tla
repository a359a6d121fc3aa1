--------------------------- MODULE MCLicenseSeats ---------------------------
EXTENDS LicenseSeats, TLC

CONSTANTS t1, t2, a1, a2

MCTargets == {t1, t2}
MCAssets == {a1, a2}
MCAssetOf == t1 :> a1 @@ t2 :> a2

MCSymmetry == Permutations(Assignments) \cup Permutations(Sessions)
=============================================================================
