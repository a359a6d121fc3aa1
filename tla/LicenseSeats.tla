---------------------------- MODULE LicenseSeats ----------------------------
(***************************************************************************)
(* License seats of one software product                                   *)
(* (modules/license/application/assignments.ts and entitlements.ts).       *)
(*                                                                         *)
(* A seat of an entitlement is held by a live assignment or by a deployment *)
(* target's reservation.  The commands that take seats or resize an        *)
(* entitlement (reserve, assign, update) are READ COMMITTED transactions:  *)
(* they lock entitlement rows FOR UPDATE, then count, then write and       *)
(* commit, and others run between those steps.  Activation, release and    *)
(* the assignment commands lock only their own row and are one step; they  *)
(* do not take the entitlement lock.                                       *)
(*                                                                         *)
(* usable says that the current term covers now and the pool is active;    *)
(* kind is the principal type the license type has a seat rule for, OTHER  *)
(* when it has none.  expected_version is left out: a caller is taken to   *)
(* know the current version, stale ones are refused without effect.        *)
(***************************************************************************)
EXTENDS Naturals, FiniteSets

CONSTANTS Entitlements, Targets, Assignments, Sessions,
          Assets, Users,
          AssetOf,      \* the asset of a deployment target
          MaxQuantity,  \* bound on the purchased quantity
          None

ASSUME FiniteAssumption == /\ IsFiniteSet(Targets)
                           /\ IsFiniteSet(Assignments)
ASSUME DisjointAssumption == /\ Targets \cap Assignments = {}
                             /\ Assets \cap Users = {}
ASSUME AssetOfAssumption == AssetOf \in [Targets -> Assets]
ASSUME QuantityAssumption == MaxQuantity \in Nat \ {0}
ASSUME NoneAssumption == /\ None \notin Targets
                         /\ None \notin Entitlements
                         /\ None \notin Assets \cup Users

VARIABLES quantity, kind, usable,  \* license_entitlements, its term and pool
          resv,                    \* deployment_reservations by target
          asg,                     \* assignments by id
          txn                      \* the open transaction of each session

vars == <<quantity, kind, usable, resv, asg, txn>>

Principals == Assets \cup Users
Quantities == 1 .. MaxQuantity
Kinds == {"ASSET", "USER", "OTHER"}
KindOf(p) == IF p \in Assets THEN "ASSET" ELSE "USER"
LiveStates == {"ASSIGNED", "ACTIVE", "SUSPENDED", "RECLAIM_PENDING"}

NoReservation == [state |-> "NONE", ent |-> None]
NoAssignment == [state |-> "NONE", ent |-> None, who |-> None, by |-> None]
Idle == [op |-> "none", step |-> "idle", t |-> None, row |-> FALSE, who |-> None,
         ent |-> None, locks |-> {}, q |-> 1, k |-> "OTHER"]

TypeOK ==
    /\ quantity \in [Entitlements -> Quantities]
    /\ kind \in [Entitlements -> Kinds]
    /\ usable \in [Entitlements -> BOOLEAN]
    /\ resv \in [Targets -> [state : {"NONE", "RESERVED", "RELEASED", "ASSIGNED"},
                             ent : Entitlements \cup {None}]]
    /\ asg \in [Assignments -> [state : LiveStates \cup {"NONE", "RECLAIMED", "CANCELLED"},
                                ent : Entitlements \cup {None},
                                who : Principals \cup {None},
                                by : Targets \cup {None}]]
    /\ txn \in [Sessions -> [op : {"none", "reserve", "assign", "update"},
                             step : {"idle", "lock", "count", "write"},
                             t : Targets \cup {None},
                             row : BOOLEAN,
                             who : Principals \cup {None},
                             ent : Entitlements \cup {None},
                             locks : SUBSET Entitlements,
                             q : Quantities, k : Kinds]]

Init ==
    /\ quantity \in [Entitlements -> Quantities]
    /\ kind \in [Entitlements -> Kinds]
    /\ usable \in [Entitlements -> BOOLEAN]
    /\ resv = [t \in Targets |-> NoReservation]
    /\ asg = [x \in Assignments |-> NoAssignment]
    /\ txn = [s \in Sessions |-> Idle]

-----------------------------------------------------------------------------
Live(x) == asg[x].state \in LiveStates

(* The allocated seats: live assignments and reservations. *)
AssignedSeats(e) == {x \in Assignments : Live(x) /\ asg[x].ent = e}
ReservedSeats(e) == {t \in Targets : resv[t].state = "RESERVED" /\ resv[t].ent = e}
Holders(e) == AssignedSeats(e) \cup ReservedSeats(e)

HasSeat(p, e) == \E x \in AssignedSeats(e) : asg[x].who = p

Unlocked(s, E) == \A o \in Sessions \ {s} : txn[o].locks \cap E = {}

(* No open transaction found, and so locked, the reservation row of t. *)
RowFree(t) == \A o \in Sessions : txn[o].t = t => ~ txn[o].row

Step(s, changes) == txn' = [txn EXCEPT ![s] = changes]
Entitlement == <<quantity, kind, usable>>

-----------------------------------------------------------------------------
(* reserveLicenseForDeployment up to the seat search.  A reservation that is *)
(* not RELEASED, or a live assignment of the asset, answers the call.        *)
ReserveBegin(s, t) ==
    /\ txn[s] = Idle
    /\ RowFree(t)
    /\ resv[t].state \in {"NONE", "RELEASED"}
    /\ ~ \E e \in Entitlements : usable[e] /\ HasSeat(AssetOf[t], e)
    /\ Step(s, [Idle EXCEPT !.op = "reserve", !.step = "lock",
                            !.t = t, !.row = (resv[t].state = "RELEASED"),
                            !.who = AssetOf[t]])
    /\ UNCHANGED <<Entitlement, resv, asg>>

(* Fault: the entitlements are read without FOR UPDATE. *)
ReserveReadOnly(s) ==
    /\ txn[s].op = "reserve" /\ txn[s].step = "lock"
    /\ Step(s, [txn[s] EXCEPT !.step = "count",
                  !.locks = {e \in Entitlements : usable[e] /\ kind[e] = "ASSET"}])
    /\ UNCHANGED <<Entitlement, resv, asg>>

(* reserveAvailableSeat locks every entitlement that could serve the asset. *)
ReserveLock(s) ==
    LET E == {e \in Entitlements : usable[e] /\ kind[e] = "ASSET"} IN
    /\ txn[s].op = "reserve" /\ txn[s].step = "lock"
    /\ Unlocked(s, E)
    /\ Step(s, [txn[s] EXCEPT !.step = "count", !.locks = E])
    /\ UNCHANGED <<Entitlement, resv, asg>>

(* Fault: one seat too many. *)
ReserveCountOffByOne(s) ==
    LET r == txn[s] IN
    /\ r.op = "reserve" /\ r.step = "count"
    /\ \E e \in r.locks :
          /\ ~ HasSeat(r.who, e)
          /\ Cardinality(Holders(e) \ {r.t}) <= quantity[e]
          /\ Step(s, [r EXCEPT !.step = "write", !.ent = e])
    /\ UNCHANGED <<Entitlement, resv, asg>>

(* The search: the first entitlement with a seat free is taken; the asset's  *)
(* own seat found on the way, or no seat at all, ends the transaction.       *)
ReserveCount(s) ==
    LET r == txn[s]
        Free(e) == Cardinality(Holders(e) \ {r.t}) < quantity[e]
    IN
    /\ r.op = "reserve" /\ r.step = "count"
    /\ \/ \E e \in r.locks :
             /\ ~ HasSeat(r.who, e)
             /\ Free(e)
             /\ Step(s, [r EXCEPT !.step = "write", !.ent = e])
       \/ /\ \/ \E e \in r.locks : HasSeat(r.who, e)
             \/ \A e \in r.locks : ~ Free(e)
          /\ Step(s, Idle)
    /\ UNCHANGED <<Entitlement, resv, asg>>

(* The row found is updated; else one is inserted, which is refused when    *)
(* the target got a row meanwhile.                                          *)
ReserveWrite(s) ==
    LET r == txn[s] IN
    /\ r.op = "reserve" /\ r.step = "write"
    /\ Step(s, Idle)
    /\ \/ /\ r.row \/ resv[r.t].state = "NONE"
          /\ resv' = [resv EXCEPT ![r.t] = [state |-> "RESERVED", ent |-> r.ent]]
       \/ /\ ~ r.row /\ resv[r.t].state # "NONE"
          /\ UNCHANGED resv
    /\ UNCHANGED <<Entitlement, asg>>

(* createLicenseAssignment: lock the entitlement and look at its row. *)
AssignLock(s, e, p) ==
    /\ txn[s] = Idle
    /\ Unlocked(s, {e})
    /\ kind[e] = KindOf(p)
    /\ usable[e]
    /\ Step(s, [Idle EXCEPT !.op = "assign", !.step = "count",
                            !.who = p, !.ent = e, !.locks = {e}])
    /\ UNCHANGED <<Entitlement, resv, asg>>

(* Fault: only live assignments are counted. *)
AssignCountAssigned(s) ==
    LET r == txn[s] IN
    /\ r.op = "assign" /\ r.step = "count"
    /\ Step(s, IF HasSeat(r.who, r.ent) \/ Cardinality(AssignedSeats(r.ent)) >= quantity[r.ent]
               THEN Idle
               ELSE [r EXCEPT !.step = "write"])
    /\ UNCHANGED <<Entitlement, resv, asg>>

AssignCount(s) ==
    LET r == txn[s] IN
    /\ r.op = "assign" /\ r.step = "count"
    /\ Step(s, IF HasSeat(r.who, r.ent) \/ Cardinality(Holders(r.ent)) >= quantity[r.ent]
               THEN Idle
               ELSE [r EXCEPT !.step = "write"])
    /\ UNCHANGED <<Entitlement, resv, asg>>

(* The insert fails on the one-live-principal index when the principal got  *)
(* a seat since it was looked for.                                          *)
AssignWrite(s) ==
    LET r == txn[s] IN
    /\ r.op = "assign" /\ r.step = "write"
    /\ Step(s, Idle)
    /\ \/ /\ ~ HasSeat(r.who, r.ent)
          /\ \E x \in Assignments :
                /\ asg[x].state = "NONE"
                /\ asg' = [asg EXCEPT ![x] = [state |-> "ASSIGNED", ent |-> r.ent,
                                              who |-> r.who, by |-> None]]
       \/ /\ HasSeat(r.who, r.ent)
          /\ UNCHANGED asg
    /\ UNCHANGED <<Entitlement, resv>>

(* updateLicenseEntitlement with a new quantity q and license type k. *)
UpdateLock(s, e, q, k) ==
    /\ txn[s] = Idle
    /\ Unlocked(s, {e})
    /\ Step(s, [Idle EXCEPT !.op = "update", !.step = "count",
                            !.ent = e, !.locks = {e}, !.q = q, !.k = k])
    /\ UNCHANGED <<Entitlement, resv, asg>>

(* Fault: a type change looks at the assignments only. *)
UpdateCountAssigned(s) ==
    LET r == txn[s] IN
    /\ r.op = "update" /\ r.step = "count"
    /\ Step(s, IF \/ Cardinality(Holders(r.ent)) > r.q
                  \/ AssignedSeats(r.ent) # {} /\ r.k # kind[r.ent]
               THEN Idle
               ELSE [r EXCEPT !.step = "write"])
    /\ UNCHANGED <<Entitlement, resv, asg>>

UpdateCount(s) ==
    LET r == txn[s] IN
    /\ r.op = "update" /\ r.step = "count"
    /\ Step(s, IF \/ Cardinality(Holders(r.ent)) > r.q
                  \/ Holders(r.ent) # {} /\ r.k # kind[r.ent]
               THEN Idle
               ELSE [r EXCEPT !.step = "write"])
    /\ UNCHANGED <<Entitlement, resv, asg>>

UpdateWrite(s) ==
    LET r == txn[s] IN
    /\ r.op = "update" /\ r.step = "write"
    /\ Step(s, Idle)
    /\ quantity' = [quantity EXCEPT ![r.ent] = r.q]
    /\ kind' = [kind EXCEPT ![r.ent] = r.k]
    /\ UNCHANGED <<usable, resv, asg>>

-----------------------------------------------------------------------------
(* Fault: the reservation stays RESERVED next to its assignment. *)
ActivateKeepingReservation(t) ==
    LET e == resv[t].ent IN
    /\ resv[t].state = "RESERVED"
    /\ ~ HasSeat(AssetOf[t], e)
    /\ \E x \in Assignments :
          /\ asg[x].state = "NONE"
          /\ asg' = [asg EXCEPT ![x] = [state |-> "ACTIVE", ent |-> e,
                                        who |-> AssetOf[t], by |-> t]]
    /\ UNCHANGED <<Entitlement, resv, txn>>

(* activateDeploymentReservation of a RESERVED row; the one-live-principal   *)
(* index refuses the assignment when the asset already has a seat there.     *)
Activate(t) ==
    LET e == resv[t].ent IN
    /\ resv[t].state = "RESERVED"
    /\ ~ HasSeat(AssetOf[t], e)
    /\ \E x \in Assignments :
          /\ asg[x].state = "NONE"
          /\ asg' = [asg EXCEPT ![x] = [state |-> "ACTIVE", ent |-> e,
                                        who |-> AssetOf[t], by |-> t]]
    /\ resv' = [resv EXCEPT ![t].state = "ASSIGNED"]
    /\ UNCHANGED <<Entitlement, txn>>

(* releaseDeploymentReservation *)
Release(t) ==
    /\ resv[t].state = "RESERVED"
    /\ resv' = [resv EXCEPT ![t].state = "RELEASED"]
    /\ UNCHANGED <<Entitlement, asg, txn>>

(* transitionLicenseAssignment: from, command and to, as in its table. *)
Transitions ==
    {<<"ASSIGNED", "ACTIVATE", "ACTIVE">>,
     <<"ASSIGNED", "CANCEL", "CANCELLED">>,
     <<"ACTIVE", "SUSPEND", "SUSPENDED">>,
     <<"SUSPENDED", "ACTIVATE", "ACTIVE">>,
     <<"ACTIVE", "RECLAIM", "RECLAIM_PENDING">>,
     <<"SUSPENDED", "RECLAIM", "RECLAIM_PENDING">>,
     <<"RECLAIM_PENDING", "COMPLETE_RECLAIM", "RECLAIMED">>}

Transition(x, m) ==
    /\ asg[x].state = m[1]
    /\ m[2] = "ACTIVATE" => usable[asg[x].ent]
    /\ asg' = [asg EXCEPT ![x].state = m[3]]
    /\ UNCHANGED <<Entitlement, resv, txn>>

(* renewLicenseEntitlement replaces the current term; the other causes of a  *)
(* change, the clock and updateLicensePool, take no entitlement lock.        *)
RenewLicenseEntitlement(e) ==
    /\ \A o \in Sessions : e \notin txn[o].locks
    /\ usable' = [usable EXCEPT ![e] = TRUE]
    /\ UNCHANGED <<quantity, kind, resv, asg, txn>>

LoseTermOrPool(e) ==
    /\ usable' = [usable EXCEPT ![e] = FALSE]
    /\ UNCHANGED <<quantity, kind, resv, asg, txn>>

Next ==
    \/ \E s \in Sessions :
          \/ \E t \in Targets : ReserveBegin(s, t)
          \/ ReserveLock(s) \/ ReserveCount(s) \/ ReserveWrite(s)
          \/ \E e \in Entitlements, p \in Principals : AssignLock(s, e, p)
          \/ AssignCount(s) \/ AssignWrite(s)
          \/ \E e \in Entitlements, q \in Quantities, k \in Kinds :
                UpdateLock(s, e, q, k)
          \/ UpdateCount(s) \/ UpdateWrite(s)
    \/ \E t \in Targets : Activate(t) \/ Release(t)
    \/ \E x \in Assignments, m \in Transitions : Transition(x, m)
    \/ \E e \in Entitlements : RenewLicenseEntitlement(e) \/ LoseTermOrPool(e)

Spec == Init /\ [][Next]_vars

-----------------------------------------------------------------------------
(* Concurrent reserve, assign, activate and update commands never allocate   *)
(* more seats than were purchased (TASK-058: "two concurrent requests cannot *)
(* allocate beyond supported quantity"), nor shrink the purchase below them. *)
SeatsWithinQuantity ==
    \A e \in Entitlements : Cardinality(Holders(e)) <= quantity[e]

(* No license type change slips under a seat being taken: a held seat always *)
(* suits its principal, so "License type and pool cannot change while seats  *)
(* are assigned or reserved" also holds while transactions overlap.          *)
SeatsFitTheirPrincipal ==
    \A e \in Entitlements :
        /\ ReservedSeats(e) # {} => kind[e] = "ASSET"
        /\ \A x \in AssignedSeats(e) : kind[e] = KindOf(asg[x].who)

(* A reservation turns into exactly one assignment, and only an ASSIGNED one *)
(* has it: no interleaving of activation, release and a new reservation      *)
(* counts one deployment's seat twice.                                       *)
ReservationBecomesOneAssignment ==
    \A t \in Targets :
        /\ resv[t].state = "ASSIGNED" <=> \E x \in Assignments : asg[x].by = t
        /\ \A x, y \in Assignments : asg[x].by = t /\ asg[y].by = t => x = y

(* No two transactions hold the same entitlement or reservation row. *)
Apart(r, q) == /\ r.locks \cap q.locks = {}
               /\ r.row /\ q.row => r.t # q.t
LocksExclusive == \A s, o \in Sessions : s # o => Apart(txn[s], txn[o])

(* What transaction r has established and may rely on until it commits,      *)
(* although others, activations among them, have committed since.            *)
Sound(r) ==
    /\ r.row => r.op = "reserve"
    /\ r.op = "reserve" => /\ r.t \in Targets /\ r.who = AssetOf[r.t]
                           /\ r.row => resv[r.t].state = "RELEASED"
                           /\ \A e \in r.locks : kind[e] = "ASSET"
                           /\ r.step = "write" => r.ent \in r.locks
    /\ r.op = "assign" => /\ r.who \in Principals /\ r.ent \in r.locks
                          /\ kind[r.ent] = KindOf(r.who)
    /\ r.op = "update" => r.ent \in r.locks
    /\ r.op \in {"reserve", "assign"} /\ r.step = "write" =>
          \/ r.op = "reserve" /\ ~ r.row /\ resv[r.t].state # "NONE"
          \/ Cardinality(Holders(r.ent)) < quantity[r.ent]
    /\ r.op = "update" /\ r.step = "write" =>
          /\ Cardinality(Holders(r.ent)) <= r.q
          /\ Holders(r.ent) # {} => r.k = kind[r.ent]

RowsWellFormed ==
    /\ \A x \in Assignments :
          IF asg[x].state = "NONE"
          THEN asg[x] = NoAssignment
          ELSE asg[x].ent \in Entitlements /\ asg[x].who \in Principals
    /\ \A t \in Targets : resv[t].state # "NONE" => resv[t].ent \in Entitlements

(* The inductive invariant: the seat properties, with the locks and what     *)
(* every open transaction counted on behind them.                            *)
IInv ==
    /\ TypeOK
    /\ RowsWellFormed
    /\ LocksExclusive
    /\ \A s \in Sessions : Sound(txn[s])
    /\ SeatsWithinQuantity
    /\ SeatsFitTheirPrincipal
    /\ ReservationBecomesOneAssignment

(* The seat accounting as its users see it. *)
Ledger == INSTANCE SeatLedger WITH used <- [e \in Entitlements |-> Cardinality(Holders(e))]
ImplementsLedger == Ledger!Spec
=============================================================================
