--------------------------- MODULE MCIdempotency ---------------------------
(* Three attempts on one key, one of them with another body, and one on a    *)
(* second key whose hash falls into the same advisory-lock slot.             *)
EXTENDS IdempotencyRefinement, TLC

CONSTANTS r1, r2, r3, r4, k1, k2, b1, b2, s1

MCKeyOf == (r1 :> k1) @@ (r2 :> k1) @@ (r3 :> k1) @@ (r4 :> k2)
MCBodyOf == (r1 :> b1) @@ (r2 :> b1) @@ (r3 :> b2) @@ (r4 :> b1)
MCSlotOf == (k1 :> s1) @@ (k2 :> s1)
=============================================================================
