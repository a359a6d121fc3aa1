----------------------------- MODULE SeatLedger -----------------------------
(***************************************************************************)
(* What the License module promises about the seats of an entitlement: a   *)
(* seat is taken only while one is free, and the purchased quantity never  *)
(* drops below the seats that are taken.                                   *)
(***************************************************************************)
EXTENDS Naturals

CONSTANTS Entitlements, Quantities

VARIABLES quantity, used

vars == <<quantity, used>>

Init ==
    /\ quantity \in [Entitlements -> Quantities]
    /\ used = [e \in Entitlements |-> 0]

Take(e) ==
    /\ used[e] < quantity[e]
    /\ used' = [used EXCEPT ![e] = @ + 1]
    /\ UNCHANGED quantity

Give(e) ==
    /\ used[e] > 0
    /\ used' = [used EXCEPT ![e] = @ - 1]
    /\ UNCHANGED quantity

Resize(e) ==
    /\ \E q \in Quantities :
            /\ used[e] <= q
            /\ quantity' = [quantity EXCEPT ![e] = q]
    /\ UNCHANGED used

Next == \E e \in Entitlements : Take(e) \/ Give(e) \/ Resize(e)

Spec == Init /\ [][Next]_vars
=============================================================================
