------------------------- MODULE LicenseSeatsProofs -------------------------
(***************************************************************************)
(* Proofs about LicenseSeats for any number of entitlements, targets,      *)
(* assignments and concurrent sessions.                                    *)
(***************************************************************************)
EXTENDS LicenseSeats, FiniteSetTheorems, TLAPS

Txns == [op : {"none", "reserve", "assign", "update"},
         step : {"idle", "lock", "count", "write"},
         t : Targets \cup {None}, row : BOOLEAN,
         who : Principals \cup {None}, ent : Entitlements \cup {None},
         locks : SUBSET Entitlements, q : Quantities, k : Kinds]

(* The seats of an entitlement are finitely many. *)
LEMMA HoldersFinite ==
    ASSUME NEW e
    PROVE  /\ IsFiniteSet(Holders(e)) /\ Cardinality(Holders(e)) \in Nat
           /\ IsFiniteSet(Holders(e)') /\ Cardinality(Holders(e)') \in Nat
<1>1. IsFiniteSet(Assignments \cup Targets)
  BY FS_Union, FiniteAssumption
<1>2. /\ Holders(e) \subseteq Assignments \cup Targets
      /\ Holders(e)' \subseteq Assignments \cup Targets
  BY DEF Holders, AssignedSeats, ReservedSeats
<1> QED BY <1>1, <1>2, FS_Subset, FS_CardinalityType

(* The idle transaction claims nothing. *)
LEMMA IdleSound == /\ Idle \in Txns /\ Sound(Idle)
                   /\ \A r : Apart(r, Idle) /\ Apart(Idle, r)
  BY QuantityAssumption DEF Idle, Txns, Sound, Quantities, Kinds, Apart

(* An open transaction keeps what it established across another's step that *)
(* leaves the locked rows alone and adds no seat to them.                   *)
LEMMA KeepsSound ==
    ASSUME NEW r \in Txns, Sound(r), quantity \in [Entitlements -> Quantities],
           \A e \in r.locks :
              /\ quantity'[e] = quantity[e]
              /\ kind'[e] = kind[e]
              /\ Cardinality(Holders(e)') <= Cardinality(Holders(e))
              /\ Cardinality(Holders(e)') \in Nat
              /\ Cardinality(Holders(e)) \in Nat
              /\ Holders(e) = {} => Holders(e)' = {},
           r.op = "reserve" =>
              /\ r.row => resv'[r.t].state = resv[r.t].state
              /\ resv[r.t].state # "NONE" => resv'[r.t].state # "NONE"
    PROVE  Sound(r)'
<1>1. r.locks \subseteq Entitlements /\ r.q \in Nat /\ \A e \in Entitlements : quantity[e] \in Nat
  BY DEF Txns, Quantities
<1>2. CASE r.op = "reserve"
  BY <1>1, <1>2 DEF Sound
<1>3. CASE r.op = "assign"
  BY <1>1, <1>3 DEF Sound
<1>4. CASE r.op = "update"
  BY <1>1, <1>4 DEF Sound
<1>5. CASE r.op = "none"
  BY <1>5 DEF Sound
<1> QED  BY <1>2, <1>3, <1>4, <1>5 DEF Txns

(* The type of the open transactions.                                        *)
LEMMA TypeTxns == TypeOK => txn \in [Sessions -> Txns]
  BY DEF TypeOK, Txns

(* The inductive invariant holds of a license module nobody uses.            *)
LEMMA InitIInv == Init => IInv
<1> SUFFICES ASSUME Init PROVE IInv
  OBVIOUS
<1>1. \A e \in Entitlements : AssignedSeats(e) = {} /\ ReservedSeats(e) = {} /\ Holders(e) = {}
  BY DEF Init, AssignedSeats, ReservedSeats, Holders, Live, LiveStates, NoReservation, NoAssignment
<1>2. TypeOK
  BY IdleSound DEF Init, TypeOK, NoReservation, NoAssignment, Txns
<1>3. SeatsWithinQuantity
  <2>1. Cardinality({}) = 0
    BY FS_EmptySet
  <2>2. \A e \in Entitlements : quantity[e] \in Nat
    BY DEF Init, Quantities
  <2> QED  BY <1>1, <2>1, <2>2 DEF SeatsWithinQuantity
<1>4. SeatsFitTheirPrincipal
  BY <1>1 DEF SeatsFitTheirPrincipal
<1>5. ReservationBecomesOneAssignment
  BY NoneAssumption DEF ReservationBecomesOneAssignment, Init, NoReservation, NoAssignment
<1>6. LocksExclusive /\ \A s \in Sessions : Sound(txn[s])
  BY IdleSound DEF LocksExclusive, Init
<1>7. RowsWellFormed
  BY DEF RowsWellFormed, Init, NoReservation, NoAssignment
<1> QED  BY <1>2, <1>3, <1>4, <1>5, <1>6, <1>7 DEF IInv

(* A step that only moves one transaction keeps the invariant when what that *)
(* transaction now relies on holds and its locks are its own.                *)
LEMMA TxnOnly ==
    ASSUME IInv, NEW s \in Sessions, NEW r \in Txns,
           txn' = [txn EXCEPT ![s] = r],
           UNCHANGED <<quantity, kind, usable, resv, asg>>,
           Sound(r),
           \A o \in Sessions \ {s} : Apart(txn[o], r)
    PROVE  IInv'
<1>1. \A q : Sound(q)' <=> Sound(q)
  BY DEF Sound, Holders, AssignedSeats, ReservedSeats, Live
<1>2. txn \in [Sessions -> Txns] /\ txn' \in [Sessions -> Txns]
  BY TypeTxns DEF IInv
<1>3. TypeOK'
  BY <1>2 DEF IInv, TypeOK, Txns
<1>4. LocksExclusive'
  BY <1>2 DEF IInv, LocksExclusive, Apart
<1>5. (\A o \in Sessions : Sound(txn[o]))'
  BY <1>1, <1>2 DEF IInv
<1>6. RowsWellFormed'
  BY DEF IInv, RowsWellFormed
<1>7. SeatsWithinQuantity' /\ SeatsFitTheirPrincipal'
  BY DEF IInv, SeatsWithinQuantity, SeatsFitTheirPrincipal, Holders, AssignedSeats, ReservedSeats, Live
<1>8. ReservationBecomesOneAssignment'
  BY DEF IInv, ReservationBecomesOneAssignment
<1> QED  BY <1>3, <1>4, <1>5, <1>6, <1>7, <1>8 DEF IInv

(* The steps that lock and count. *)
LEMMA ReserveBeginStep ==
    ASSUME IInv, NEW s \in Sessions, NEW t \in Targets, ReserveBegin(s, t)
    PROVE  IInv'
<1> DEFINE r == [Idle EXCEPT !.op = "reserve", !.step = "lock", !.t = t,
                             !.row = (resv[t].state = "RELEASED"),
                             !.who = AssetOf[t]]
<1>1. r \in Txns /\ r.locks = {}
  <2>1. (resv[t].state = "RELEASED") \in BOOLEAN
    OBVIOUS
  <2>2. AssetOf[t] \in Principals
    BY AssetOfAssumption DEF Principals
  <2>3. Idle.locks = {}
    BY DEF Idle
  <2> QED  BY <2>1, <2>2, <2>3, IdleSound DEF Txns
<1>2. Sound(r)
  BY DEF Sound, Idle
<1>3. txn' = [txn EXCEPT ![s] = r] /\ UNCHANGED <<quantity, kind, usable, resv, asg>>
  BY DEF ReserveBegin, Step, Entitlement
<1>4. \A o \in Sessions \ {s} : Apart(txn[o], r)
  BY <1>1 DEF ReserveBegin, RowFree, Apart
<1> HIDE DEF r
<1> QED  BY <1>1, <1>2, <1>3, <1>4, TxnOnly

(* Taking the entitlement's lock to reserve preserves the invariant.         *)
LEMMA ReserveLockStep ==
    ASSUME IInv, NEW s \in Sessions, ReserveLock(s)
    PROVE  IInv'
<1> DEFINE E == {e \in Entitlements : usable[e] /\ kind[e] = "ASSET"}
           r == [txn[s] EXCEPT !.step = "count", !.locks = E]
<1>0. txn[s] \in Txns /\ Sound(txn[s])
  BY TypeTxns DEF IInv
<1>1. r \in Txns /\ r.locks = E /\ r.op = "reserve" /\ r.step = "count"
        /\ r.t = txn[s].t /\ r.who = txn[s].who /\ r.row = txn[s].row
  BY <1>0 DEF Txns, ReserveLock
<1>2. Sound(r)
  BY <1>0, <1>1 DEF Sound, ReserveLock
<1>3. txn' = [txn EXCEPT ![s] = r] /\ UNCHANGED <<quantity, kind, usable, resv, asg>>
  BY DEF ReserveLock, Step, Entitlement
<1>4. \A o \in Sessions \ {s} : Apart(txn[o], r)
  BY <1>1 DEF ReserveLock, Unlocked, Apart, IInv, LocksExclusive
<1> HIDE DEF r
<1> QED  BY <1>1, <1>2, <1>3, <1>4, TxnOnly

(* Ending a transaction without effect. *)
LEMMA AbortStep ==
    ASSUME IInv, NEW s \in Sessions, txn' = [txn EXCEPT ![s] = Idle],
           UNCHANGED <<quantity, kind, usable, resv, asg>>
    PROVE  IInv'
  BY TxnOnly, IdleSound

(* Counting under the lock preserves it: the count becomes a promise that no *)
(* other step may break before the transaction ends.                         *)
LEMMA ReserveCountStep ==
    ASSUME IInv, NEW s \in Sessions, ReserveCount(s)
    PROVE  IInv'
<1> USE DEF Step, Entitlement
<1>0. txn[s] \in Txns /\ Sound(txn[s])
  BY TypeTxns DEF IInv
<1>1. CASE txn' = [txn EXCEPT ![s] = Idle]
  BY <1>1, AbortStep DEF ReserveCount
<1>2. ASSUME NEW e \in txn[s].locks,
             Cardinality(Holders(e) \ {txn[s].t}) < quantity[e],
             txn' = [txn EXCEPT ![s] = [txn[s] EXCEPT !.step = "write", !.ent = e]]
      PROVE  IInv'
  <2> DEFINE r == [txn[s] EXCEPT !.step = "write", !.ent = e]
  <2>1. r \in Txns /\ r.locks = txn[s].locks /\ r.op = "reserve" /\ r.step = "write"
          /\ r.t = txn[s].t /\ r.who = txn[s].who /\ r.row = txn[s].row /\ r.ent = e
    BY <1>0 DEF Txns, ReserveCount
  <2>2. r.row \/ resv[r.t].state = "NONE" => Cardinality(Holders(e)) < quantity[e]
    <3> SUFFICES ASSUME r.row \/ resv[r.t].state = "NONE"
                 PROVE  Cardinality(Holders(e)) < quantity[e]
      OBVIOUS
    <3>1. r.t \in Targets /\ resv[r.t].state # "RESERVED"
      BY <1>0, <2>1 DEF Sound
    <3>2. r.t \notin Holders(e)
      BY <3>1, DisjointAssumption DEF Holders, AssignedSeats, ReservedSeats
    <3>3. Holders(e) \ {txn[s].t} = Holders(e)
      BY <2>1, <3>2
    <3> QED  BY <1>2, <3>3
  <2>3. Sound(r)
    BY <1>0, <1>2, <2>1, <2>2 DEF Sound
  <2>4. \A o \in Sessions \ {s} : Apart(txn[o], r)
    BY <2>1 DEF IInv, LocksExclusive, Apart
  <2>5. txn' = [txn EXCEPT ![s] = r] /\ UNCHANGED <<quantity, kind, usable, resv, asg>>
    BY <1>2 DEF ReserveCount
  <2> HIDE DEF r
  <2> QED  BY <2>1, <2>3, <2>4, <2>5, TxnOnly
<1> QED  BY <1>1, <1>2 DEF ReserveCount

(* Taking the lock to assign preserves the invariant.                        *)
LEMMA AssignLockStep ==
    ASSUME IInv, NEW s \in Sessions, NEW e \in Entitlements, NEW p \in Principals,
           AssignLock(s, e, p)
    PROVE  IInv'
<1> DEFINE r == [Idle EXCEPT !.op = "assign", !.step = "count",
                             !.who = p, !.ent = e, !.locks = {e}]
<1>1. r \in Txns /\ r.locks = {e} /\ ~ r.row
  BY IdleSound DEF Txns, Idle
<1>2. Sound(r)
  BY DEF Sound, Idle, AssignLock
<1>3. txn' = [txn EXCEPT ![s] = r] /\ UNCHANGED <<quantity, kind, usable, resv, asg>>
  BY DEF AssignLock, Step, Entitlement
<1>4. \A o \in Sessions \ {s} : Apart(txn[o], r)
  BY <1>1 DEF AssignLock, Unlocked, Apart
<1> HIDE DEF r
<1> QED  BY <1>1, <1>2, <1>3, <1>4, TxnOnly

(* Taking the lock to change quantity or type preserves the invariant.       *)
LEMMA UpdateLockStep ==
    ASSUME IInv, NEW s \in Sessions, NEW e \in Entitlements, NEW q \in Quantities,
           NEW k \in Kinds, UpdateLock(s, e, q, k)
    PROVE  IInv'
<1> DEFINE r == [Idle EXCEPT !.op = "update", !.step = "count",
                             !.ent = e, !.locks = {e}, !.q = q, !.k = k]
<1>1. r \in Txns /\ r.locks = {e} /\ ~ r.row
  BY DEF Idle, Txns
<1>2. Sound(r)
  BY DEF Sound, Idle
<1>3. txn' = [txn EXCEPT ![s] = r] /\ UNCHANGED <<quantity, kind, usable, resv, asg>>
  BY DEF UpdateLock, Step, Entitlement
<1>4. \A o \in Sessions \ {s} : Apart(txn[o], r)
  BY <1>1 DEF UpdateLock, Unlocked, Apart
<1> HIDE DEF r
<1> QED  BY <1>1, <1>2, <1>3, <1>4, TxnOnly

(* The counts of createLicenseAssignment and updateLicenseEntitlement. *)
LEMMA CountStep ==
    ASSUME IInv, NEW s \in Sessions, AssignCount(s) \/ UpdateCount(s)
    PROVE  IInv'
<1> USE DEF Step, Entitlement
<1>0. txn[s] \in Txns /\ Sound(txn[s])
  BY TypeTxns DEF IInv
<1>1. CASE txn' = [txn EXCEPT ![s] = Idle]
  BY <1>1, AbortStep DEF AssignCount, UpdateCount
<1>2. CASE txn' = [txn EXCEPT ![s] = [txn[s] EXCEPT !.step = "write"]] /\ txn' # [txn EXCEPT ![s] = Idle]
  <2> DEFINE r == [txn[s] EXCEPT !.step = "write"]
  <2>1. r \in Txns /\ r.locks = txn[s].locks /\ r.op = txn[s].op /\ r.step = "write"
          /\ r.t = txn[s].t /\ r.who = txn[s].who /\ r.ent = txn[s].ent /\ r.row = txn[s].row
          /\ r.q = txn[s].q /\ r.k = txn[s].k
    BY <1>0 DEF Txns
  <2>2. Sound(r)
    <3>1. CASE AssignCount(s)
      <4>1. r.op = "assign" /\ ~ Cardinality(Holders(r.ent)) >= quantity[r.ent]
        BY <1>2, <2>1, <3>1 DEF AssignCount
      <4>2. Cardinality(Holders(r.ent)) \in Nat /\ quantity[r.ent] \in Nat
        BY <1>0, <2>1, <4>1, HoldersFinite DEF Sound, IInv, TypeOK, Quantities, Txns
      <4> QED  BY <1>0, <2>1, <4>1, <4>2 DEF Sound
    <3>2. CASE UpdateCount(s)
      <4>1. /\ r.op = "update" /\ ~ Cardinality(Holders(r.ent)) > r.q
            /\ Holders(r.ent) # {} => r.k = kind[r.ent]
        BY <1>2, <2>1, <3>2 DEF UpdateCount
      <4>2. Cardinality(Holders(r.ent)) \in Nat /\ r.q \in Nat
        BY <2>1, HoldersFinite DEF Quantities, Txns
      <4> QED  BY <1>0, <2>1, <4>1, <4>2 DEF Sound
    <3> QED  BY <3>1, <3>2
  <2>4. \A o \in Sessions \ {s} : Apart(txn[o], r)
    BY <2>1 DEF IInv, LocksExclusive, Apart
  <2>5. txn' = [txn EXCEPT ![s] = r] /\ UNCHANGED <<quantity, kind, usable, resv, asg>>
    BY <1>2 DEF AssignCount, UpdateCount
  <2> HIDE DEF r
  <2> QED  BY <2>1, <2>2, <2>4, <2>5, TxnOnly
<1> QED  BY <1>1, <1>2 DEF AssignCount, UpdateCount

(* The write of updateLicenseEntitlement. *)
LEMMA UpdateWriteStep ==
    ASSUME IInv, NEW s \in Sessions, UpdateWrite(s)
    PROVE  IInv'
<1> DEFINE r == txn[s]
<1>0. txn \in [Sessions -> Txns] /\ r \in Txns /\ Sound(r)
  BY TypeTxns DEF IInv
<1>1. /\ r.op = "update" /\ r.step = "write" /\ r.ent \in r.locks /\ r.ent \in Entitlements
      /\ Cardinality(Holders(r.ent)) <= r.q
      /\ Holders(r.ent) # {} => r.k = kind[r.ent]
      /\ r.q \in Quantities /\ r.k \in Kinds
  BY <1>0 DEF UpdateWrite, Sound, Txns
<1>2. /\ txn' = [txn EXCEPT ![s] = Idle]
      /\ quantity' = [quantity EXCEPT ![r.ent] = r.q]
      /\ kind' = [kind EXCEPT ![r.ent] = r.k]
      /\ UNCHANGED <<usable, resv, asg>>
  BY DEF UpdateWrite, Step
<1>3. \A e : Holders(e)' = Holders(e) /\ ReservedSeats(e)' = ReservedSeats(e)
            /\ AssignedSeats(e)' = AssignedSeats(e)
  BY <1>2 DEF Holders, AssignedSeats, ReservedSeats, Live
<1> HIDE DEF r
<1>4. txn' \in [Sessions -> Txns]
  BY <1>0, <1>2, IdleSound
<1>5. TypeOK'
  BY <1>1, <1>2, <1>4 DEF IInv, TypeOK, Txns
<1>6. RowsWellFormed'
  BY <1>2 DEF IInv, RowsWellFormed
<1>7. LocksExclusive'
  BY <1>0, <1>2, IdleSound DEF IInv, LocksExclusive
<1>8. (\A o \in Sessions : Sound(txn[o]))'
  <2> SUFFICES ASSUME NEW o \in Sessions PROVE Sound(txn[o])'
    OBVIOUS
  <2>1. CASE o = s
    BY <1>0, <1>2, <2>1 DEF Sound, Idle
  <2>2. CASE o # s
    <3>1. txn'[o] = txn[o] /\ txn[o] \in Txns /\ Sound(txn[o])
      BY <1>0, <1>2, <2>2 DEF IInv
    <3>2. r.ent \notin txn[o].locks
      BY <1>1, <2>2 DEF IInv, LocksExclusive, Apart, r
    <3>3. \A e \in txn[o].locks : quantity'[e] = quantity[e] /\ kind'[e] = kind[e]
      BY <1>2, <3>1, <3>2 DEF IInv, TypeOK, Txns
    <3>4. \A e : /\ Cardinality(Holders(e)) \in Nat
                 /\ Cardinality(Holders(e)') = Cardinality(Holders(e))
      BY <1>3, HoldersFinite
    <3>5. resv' = resv
      BY <1>2
    <3>6. \A e \in txn[o].locks :
              /\ quantity'[e] = quantity[e]
              /\ kind'[e] = kind[e]
              /\ Cardinality(Holders(e)') <= Cardinality(Holders(e))
              /\ Cardinality(Holders(e)') \in Nat
              /\ Cardinality(Holders(e)) \in Nat
              /\ Holders(e) = {} => Holders(e)' = {}
      BY <1>3, <3>3, <3>4
    <3>7. quantity \in [Entitlements -> Quantities]
      BY DEF IInv, TypeOK
    <3> QED  BY <3>1, <3>5, <3>6, <3>7, KeepsSound
  <2> QED  BY <2>1, <2>2
<1>9. SeatsWithinQuantity'
  BY <1>1, <1>2, <1>3 DEF IInv, TypeOK, SeatsWithinQuantity
<1>10. SeatsFitTheirPrincipal'
  BY <1>1, <1>2, <1>3 DEF IInv, TypeOK, SeatsFitTheirPrincipal, Holders
<1>11. ReservationBecomesOneAssignment'
  BY <1>2 DEF IInv, ReservationBecomesOneAssignment
<1> QED  BY <1>5, <1>6, <1>7, <1>8, <1>9, <1>10, <1>11 DEF IInv

(* A step that adds no seat to any entitlement: release, the assignment      *)
(* commands and the conversion of a reservation into its assignment.         *)
LEMMA NoMoreSeats ==
    ASSUME IInv, UNCHANGED <<quantity, kind, txn>>,
           usable' \in [Entitlements -> BOOLEAN],
           TypeOK',
           RowsWellFormed',
           \A e : /\ Cardinality(Holders(e)') <= Cardinality(Holders(e))
                  /\ Holders(e) = {} => Holders(e)' = {},
           \A t \in Targets : /\ resv[t].state = "RELEASED" => resv'[t] = resv[t]
                              /\ resv[t].state # "NONE" => resv'[t].state # "NONE",
           SeatsFitTheirPrincipal',
           ReservationBecomesOneAssignment'
    PROVE  IInv'
<1>0. txn \in [Sessions -> Txns]
  BY TypeTxns DEF IInv
<1>1. \A e : Cardinality(Holders(e)) \in Nat /\ Cardinality(Holders(e)') \in Nat
  BY HoldersFinite
<1>2. (\A o \in Sessions : Sound(txn[o]))'
  <2> SUFFICES ASSUME NEW o \in Sessions PROVE Sound(txn[o])'
    OBVIOUS
  <2>1. txn'[o] = txn[o] /\ txn[o] \in Txns /\ Sound(txn[o])
    BY <1>0 DEF IInv
  <2>2. txn[o].op = "reserve" =>
              /\ txn[o].row => resv'[txn[o].t].state = resv[txn[o].t].state
              /\ resv[txn[o].t].state # "NONE" => resv'[txn[o].t].state # "NONE"
    BY <2>1 DEF Sound
  <2> QED  BY <1>1, <2>1, <2>2, KeepsSound DEF IInv, TypeOK
<1>3. SeatsWithinQuantity'
  BY <1>1 DEF IInv, TypeOK, SeatsWithinQuantity, Quantities
<1>4. LocksExclusive'
  BY DEF IInv, LocksExclusive
<1> QED  BY <1>2, <1>3, <1>4 DEF IInv

(* A seat released or given up leaves a subset of the seats. *)
LEMMA FewerSeats ==
    ASSUME NEW e, Holders(e)' \subseteq Holders(e)
    PROVE  /\ Cardinality(Holders(e)') <= Cardinality(Holders(e))
           /\ Holders(e) = {} => Holders(e)' = {}
  BY HoldersFinite, FS_Subset

(* Releasing a reservation frees a seat without the lock, which only makes a *)
(* count under way too large.                                                *)
LEMMA ReleaseStep ==
    ASSUME IInv, NEW t \in Targets, Release(t)
    PROVE  IInv'
<1>1. /\ resv[t].state = "RESERVED" /\ resv' = [resv EXCEPT ![t].state = "RELEASED"]
      /\ UNCHANGED <<quantity, kind, usable, asg, txn>>
  BY DEF Release, Entitlement
<1>2. TypeOK'
  BY <1>1 DEF IInv, TypeOK
<1>3. \A e : /\ ReservedSeats(e)' \subseteq ReservedSeats(e)
             /\ AssignedSeats(e)' = AssignedSeats(e)
             /\ Holders(e)' \subseteq Holders(e)
  BY <1>1 DEF IInv, TypeOK, Holders, AssignedSeats, ReservedSeats, Live
<1>4. RowsWellFormed'
  BY <1>1 DEF IInv, TypeOK, RowsWellFormed
<1>5. SeatsFitTheirPrincipal'
  BY <1>1, <1>3 DEF IInv, SeatsFitTheirPrincipal
<1>6. ReservationBecomesOneAssignment'
  BY <1>1 DEF IInv, TypeOK, ReservationBecomesOneAssignment
<1>7. \A u \in Targets : /\ resv[u].state = "RELEASED" => resv'[u] = resv[u]
                        /\ resv[u].state # "NONE" => resv'[u].state # "NONE"
  BY <1>1 DEF IInv, TypeOK
<1>8. usable' \in [Entitlements -> BOOLEAN]
  BY <1>2 DEF TypeOK
<1> QED  BY <1>1, <1>2, <1>3, <1>4, <1>5, <1>6, <1>7, <1>8, FewerSeats, NoMoreSeats

(* Revoking or reclaiming an assignment frees a seat without the lock, as a  *)
(* release does.                                                             *)
LEMMA TransitionStep ==
    ASSUME IInv, NEW x \in Assignments, NEW m \in Transitions, Transition(x, m)
    PROVE  IInv'
<1>1. /\ asg[x].state = m[1] /\ asg' = [asg EXCEPT ![x].state = m[3]]
      /\ UNCHANGED <<quantity, kind, usable, resv, txn>>
  BY DEF Transition, Entitlement
<1>2. /\ m[1] \in LiveStates
      /\ m[3] \in LiveStates \cup {"RECLAIMED", "CANCELLED"}
  BY DEF Transitions, LiveStates
<1>3. TypeOK'
  BY <1>1, <1>2 DEF IInv, TypeOK
<1>4. \A e : /\ ReservedSeats(e)' = ReservedSeats(e)
             /\ AssignedSeats(e)' \subseteq AssignedSeats(e)
  BY <1>1, <1>2 DEF IInv, TypeOK, AssignedSeats, ReservedSeats, Live
<1>5. \A e : Holders(e)' \subseteq Holders(e)
  BY <1>4 DEF Holders
<1>6. \A y \in Assignments : asg'[y].who = asg[y].who /\ asg'[y].by = asg[y].by
                             /\ asg'[y].ent = asg[y].ent
  BY <1>1 DEF IInv, TypeOK
<1>7. RowsWellFormed'
  <2>1. \A y \in Assignments \ {x} : asg'[y] = asg[y]
    BY <1>1 DEF IInv, TypeOK
  <2>2. asg[x].state # "NONE" /\ asg'[x].state = m[3] /\ m[3] # "NONE"
    BY <1>1, <1>2 DEF LiveStates, IInv, TypeOK
  <2> QED  BY <1>1, <1>6, <2>1, <2>2 DEF IInv, RowsWellFormed
<1>8. SeatsFitTheirPrincipal'
  BY <1>1, <1>4, <1>6 DEF IInv, SeatsFitTheirPrincipal, AssignedSeats
<1>9. ReservationBecomesOneAssignment'
  BY <1>1, <1>6 DEF IInv, ReservationBecomesOneAssignment
<1>10. usable' \in [Entitlements -> BOOLEAN]
  BY <1>3 DEF TypeOK
<1> QED  BY <1>1, <1>3, <1>5, <1>7, <1>8, <1>9, <1>10, FewerSeats, NoMoreSeats

(* Renewals and terms or pools that end preserve the invariant.              *)
LEMMA UsableStep ==
    ASSUME IInv, NEW e \in Entitlements,
           RenewLicenseEntitlement(e) \/ LoseTermOrPool(e)
    PROVE  IInv'
<1>1. /\ usable' \in [Entitlements -> BOOLEAN]
      /\ UNCHANGED <<quantity, kind, resv, asg, txn>>
  BY DEF RenewLicenseEntitlement, LoseTermOrPool, IInv, TypeOK
<1>2. \A d : Holders(d)' = Holders(d) /\ ReservedSeats(d)' = ReservedSeats(d)
            /\ AssignedSeats(d)' = AssignedSeats(d)
  BY <1>1 DEF Holders, AssignedSeats, ReservedSeats, Live
<1>3. TypeOK'
  BY <1>1 DEF IInv, TypeOK
<1>4. RowsWellFormed' /\ ReservationBecomesOneAssignment'
  BY <1>1 DEF IInv, RowsWellFormed, ReservationBecomesOneAssignment
<1>5. SeatsFitTheirPrincipal'
  BY <1>1, <1>2 DEF IInv, SeatsFitTheirPrincipal
<1> QED  BY <1>1, <1>2, <1>3, <1>4, <1>5, FewerSeats, NoMoreSeats

(* The reservation's seat becomes the assignment's. *)
LEMMA ActivateStep ==
    ASSUME IInv, NEW t \in Targets, Activate(t)
    PROVE  IInv'
<1>3. PICK e \in Entitlements : e = resv[t].ent
  BY DEF IInv, RowsWellFormed, Activate
<1>1. PICK x \in Assignments :
        /\ asg[x].state = "NONE"
        /\ asg' = [asg EXCEPT ![x] = [state |-> "ACTIVE", ent |-> e,
                                      who |-> AssetOf[t], by |-> t]]
  BY <1>3 DEF Activate
<1>2. /\ resv[t].state = "RESERVED" /\ resv' = [resv EXCEPT ![t].state = "ASSIGNED"]
      /\ UNCHANGED <<quantity, kind, usable, txn>>
  BY DEF Activate, Entitlement
<1>a. AssetOf[t] \in Principals /\ AssetOf[t] \in Assets
  BY AssetOfAssumption DEF Principals
<1>4. TypeOK'
  BY <1>1, <1>2, <1>a DEF IInv, TypeOK, LiveStates
<1>5. /\ \A d : d # e => ReservedSeats(d)' = ReservedSeats(d)
      /\ t \in ReservedSeats(e) /\ ReservedSeats(e)' = ReservedSeats(e) \ {t}
  BY <1>2, <1>3 DEF IInv, TypeOK, ReservedSeats
<1>6. /\ \A d : d # e => AssignedSeats(d)' = AssignedSeats(d)
      /\ x \notin AssignedSeats(e) /\ AssignedSeats(e)' = AssignedSeats(e) \cup {x}
  <2>1. \A y \in Assignments : y # x => asg'[y] = asg[y]
    BY <1>1 DEF IInv, TypeOK
  <2>2. asg'[x].state = "ACTIVE" /\ asg'[x].ent = e
    BY <1>1 DEF IInv, TypeOK
  <2> QED  BY <1>1, <2>1, <2>2 DEF AssignedSeats, Live, LiveStates
<1>7. /\ \A d : d # e => Holders(d)' = Holders(d)
      /\ t \in Holders(e) /\ x \notin Holders(e)
      /\ Holders(e)' = (Holders(e) \ {t}) \cup {x}
  <2>1. x \notin Targets /\ t \notin Assignments
    BY DisjointAssumption
  <2>2. ReservedSeats(e) \subseteq Targets /\ AssignedSeats(e) \subseteq Assignments
    BY DEF ReservedSeats, AssignedSeats
  <2> QED  BY <1>5, <1>6, <2>1, <2>2 DEF Holders
<1>8. Cardinality(Holders(e)') = Cardinality(Holders(e))
  <2>1. IsFiniteSet(Holders(e)) /\ Cardinality(Holders(e)) \in Nat
    BY HoldersFinite
  <2>2. IsFiniteSet(Holders(e) \ {t}) /\ Cardinality(Holders(e) \ {t}) = Cardinality(Holders(e)) - 1
    BY <1>7, <2>1, FS_RemoveElement
  <2>3. Cardinality((Holders(e) \ {t}) \cup {x}) = Cardinality(Holders(e) \ {t}) + 1
    BY <1>7, <2>2, FS_AddElement
  <2> QED  BY <1>7, <2>1, <2>2, <2>3
<1>9. \A d : /\ Cardinality(Holders(d)') <= Cardinality(Holders(d))
             /\ Holders(d) = {} => Holders(d)' = {}
  <2> TAKE d
  <2>1. CASE d = e
    BY <1>7, <1>8, <2>1, HoldersFinite
  <2>2. CASE d # e
    BY <1>7, <2>2, FewerSeats
  <2> QED  BY <2>1, <2>2
<1>10. RowsWellFormed'
  BY <1>1, <1>2, <1>3, <1>a DEF IInv, TypeOK, RowsWellFormed
<1>11. SeatsFitTheirPrincipal'
  <2>1. kind[e] = "ASSET"
    BY <1>3, <1>5 DEF IInv, SeatsFitTheirPrincipal
  <2>2. \A y \in Assignments : y # x => asg'[y] = asg[y]
    BY <1>1 DEF IInv, TypeOK
  <2>3. asg'[x].who = AssetOf[t]
    BY <1>1 DEF IInv, TypeOK
  <2>4. \A d \in Entitlements : ReservedSeats(d)' # {} => kind'[d] = "ASSET"
    BY <1>2, <1>5 DEF IInv, SeatsFitTheirPrincipal
  <2>5. \A d \in Entitlements : \A y \in AssignedSeats(d)' : kind'[d] = KindOf(asg'[y].who)
    <3> SUFFICES ASSUME NEW d \in Entitlements, NEW y \in AssignedSeats(d)'
                 PROVE  kind[d] = KindOf(asg'[y].who)
      BY <1>2
    <3>1. CASE y = x /\ d = e
      BY <1>a, <2>1, <2>3, <3>1 DEF KindOf
    <3>2. CASE y # x
      <4>1. y \in AssignedSeats(d) /\ asg'[y] = asg[y]
        BY <2>2, <3>2 DEF AssignedSeats, Live
      <4> QED  BY <4>1 DEF IInv, SeatsFitTheirPrincipal
    <3>3. x \notin AssignedSeats(d) /\ (d # e => x \notin AssignedSeats(d)')
      BY <1>1, <1>6 DEF AssignedSeats, Live, LiveStates
    <3> QED  BY <3>1, <3>2, <3>3
  <2> QED  BY <2>4, <2>5 DEF SeatsFitTheirPrincipal, KindOf
<1>12. ReservationBecomesOneAssignment'
  <2>1. \A y \in Assignments : asg[y].by # t
    BY <1>2 DEF IInv, ReservationBecomesOneAssignment
  <2>2. asg[x].by = None
    BY <1>1 DEF IInv, RowsWellFormed, NoAssignment
  <2>3. \A y \in Assignments : asg'[y].by = IF y = x THEN t ELSE asg[y].by
    BY <1>1 DEF IInv, TypeOK
  <2>4. \A u \in Targets : resv'[u].state = IF u = t THEN "ASSIGNED" ELSE resv[u].state
    BY <1>2 DEF IInv, TypeOK
  <2> QED  BY <2>1, <2>2, <2>3, <2>4, NoneAssumption
           DEF IInv, ReservationBecomesOneAssignment
<1>13. \A u \in Targets : /\ resv[u].state = "RELEASED" => resv'[u] = resv[u]
                         /\ resv[u].state # "NONE" => resv'[u].state # "NONE"
  BY <1>2 DEF IInv, TypeOK
<1>14. usable' \in [Entitlements -> BOOLEAN]
  BY <1>4 DEF TypeOK
<1> QED  BY <1>2, <1>4, <1>9, <1>10, <1>11, <1>12, <1>13, <1>14, NoMoreSeats

(* A write that adds one seat to the entitlement its transaction has locked. *)
LEMMA OneMoreSeat ==
    ASSUME IInv, NEW s \in Sessions, NEW e \in txn[s].locks, NEW h,
           txn' = [txn EXCEPT ![s] = Idle],
           UNCHANGED <<quantity, kind, usable>>,
           Cardinality(Holders(e)) < quantity[e],
           h \notin Holders(e), Holders(e)' = Holders(e) \cup {h},
           \A d : d # e => Holders(d)' = Holders(d),
           \A t \in Targets : resv[t].state # "NONE" => resv'[t].state # "NONE",
           \A o \in Sessions \ {s} :
              txn[o].row /\ txn[o].t \in Targets => resv'[txn[o].t].state = resv[txn[o].t].state
    PROVE  /\ txn' \in [Sessions -> Txns] /\ LocksExclusive'
           /\ (\A o \in Sessions : Sound(txn[o]))'
           /\ SeatsWithinQuantity'
<1>0. txn \in [Sessions -> Txns]
  BY TypeTxns DEF IInv
<1>1. txn' \in [Sessions -> Txns] /\ LocksExclusive'
  BY <1>0, IdleSound DEF IInv, LocksExclusive
<1>2. (\A o \in Sessions : Sound(txn[o]))'
  <2> SUFFICES ASSUME NEW o \in Sessions PROVE Sound(txn[o])'
    OBVIOUS
  <2>1. CASE o = s
    BY <1>0, <2>1 DEF Sound, Idle
  <2>2. CASE o # s
    <3>1. txn'[o] = txn[o] /\ txn[o] \in Txns /\ Sound(txn[o])
      BY <1>0, <2>2 DEF IInv
    <3>2. e \notin txn[o].locks
      BY <2>2 DEF IInv, LocksExclusive, Apart
    <3>3. \A d \in txn[o].locks :
              /\ quantity'[d] = quantity[d]
              /\ kind'[d] = kind[d]
              /\ Cardinality(Holders(d)') <= Cardinality(Holders(d))
              /\ Cardinality(Holders(d)') \in Nat
              /\ Cardinality(Holders(d)) \in Nat
              /\ Holders(d) = {} => Holders(d)' = {}
      BY <3>2, HoldersFinite, FewerSeats
    <3>4. txn[o].op = "reserve" =>
              /\ txn[o].row => resv'[txn[o].t].state = resv[txn[o].t].state
              /\ resv[txn[o].t].state # "NONE" => resv'[txn[o].t].state # "NONE"
      BY <2>2, <3>1 DEF Sound
    <3>5. quantity \in [Entitlements -> Quantities]
      BY DEF IInv, TypeOK
    <3> QED  BY <3>1, <3>3, <3>4, <3>5, KeepsSound
  <2> QED  BY <2>1, <2>2
<1>3. SeatsWithinQuantity'
  <2>1. Cardinality(Holders(e)') = Cardinality(Holders(e)) + 1
    BY HoldersFinite, FS_AddElement
  <2>2. e \in Entitlements /\ quantity[e] \in Nat /\ Cardinality(Holders(e)) \in Nat
    BY <1>0, HoldersFinite DEF Txns, IInv, TypeOK, Quantities
  <2>3. \A d \in Entitlements : d # e => Cardinality(Holders(d)') <= quantity'[d]
    <3> TAKE d \in Entitlements
    <3> HAVE d # e
    <3>1. Cardinality(Holders(d)) <= quantity[d]
      BY DEF IInv, SeatsWithinQuantity
    <3>2. Holders(d)' = Holders(d) /\ quantity' = quantity
      OBVIOUS
    <3> QED  BY <3>1, <3>2
  <2>4. Cardinality(Holders(e)') <= quantity'[e]
    BY <2>1, <2>2
  <2>5. \A d \in Entitlements : Cardinality(Holders(d)') <= quantity'[d]
    BY <2>3, <2>4
  <2> QED  BY <2>5 DEF SeatsWithinQuantity
<1> QED  BY <1>1, <1>2, <1>3

(* Writing the reservation that was counted for preserves the invariant.     *)
LEMMA ReserveWriteStep ==
    ASSUME IInv, NEW s \in Sessions, ReserveWrite(s)
    PROVE  IInv'
<1>r. PICK r \in Txns : r = txn[s]
  BY TypeTxns DEF IInv
<1>0. Sound(r) /\ r.op = "reserve" /\ r.step = "write"
  BY <1>r DEF IInv, ReserveWrite
<1> DEFINE e == r.ent
           t == r.t
<1>1. t \in Targets /\ e \in r.locks /\ e \in Entitlements /\ kind[e] = "ASSET"
  BY <1>0 DEF Sound, Txns
<1>2. CASE UNCHANGED resv
  BY <1>2, AbortStep DEF ReserveWrite, Step, Entitlement
<1>3. CASE /\ r.row \/ resv[t].state = "NONE"
           /\ resv' = [resv EXCEPT ![t] = [state |-> "RESERVED", ent |-> e]]
  <2>1. txn' = [txn EXCEPT ![s] = Idle] /\ UNCHANGED <<quantity, kind, usable, asg>>
    BY DEF ReserveWrite, Step, Entitlement
  <2>2. resv[t].state \in {"NONE", "RELEASED"} /\ Cardinality(Holders(e)) < quantity[e]
    BY <1>0, <1>3 DEF Sound
  <2>3. \A u \in Targets : u # t => resv'[u] = resv[u]
    BY <1>3 DEF IInv, TypeOK
  <2>4. resv'[t] = [state |-> "RESERVED", ent |-> e]
    BY <1>1, <1>3 DEF IInv, TypeOK
  <2> HIDE DEF e, t
  <2>5. \A d : AssignedSeats(d)' = AssignedSeats(d)
    BY <2>1 DEF AssignedSeats, Live
  <2>6. /\ \A d : d # e => ReservedSeats(d)' = ReservedSeats(d)
        /\ ReservedSeats(e)' = ReservedSeats(e) \cup {t} /\ t \notin ReservedSeats(e)
    BY <1>1, <2>2, <2>3, <2>4 DEF ReservedSeats
  <2>7. t \notin Holders(e)
    BY <1>1, <2>6, DisjointAssumption DEF Holders, AssignedSeats
  <2>8. Holders(e)' = Holders(e) \cup {t} /\ \A d : d # e => Holders(d)' = Holders(d)
    BY <2>5, <2>6 DEF Holders
  <2>9. \A u \in Targets : resv[u].state # "NONE" => resv'[u].state # "NONE"
    BY <2>3, <2>4
  <2>10. \A o \in Sessions \ {s} :
            txn[o].row /\ txn[o].t \in Targets => resv'[txn[o].t].state = resv[txn[o].t].state
    <3> SUFFICES ASSUME NEW o \in Sessions \ {s}, txn[o].row, txn[o].t = t
                 PROVE  FALSE
      BY <2>3
    <3>1. CASE r.row
      BY <1>r, <3>1 DEF IInv, LocksExclusive, Apart, t
    <3>2. CASE resv[t].state = "NONE"
      BY <3>2 DEF IInv, Sound
    <3> QED  BY <1>3, <3>1, <3>2
  <2>11. /\ txn' \in [Sessions -> Txns] /\ LocksExclusive'
         /\ (\A o \in Sessions : Sound(txn[o]))' /\ SeatsWithinQuantity'
    BY <1>1, <2>1, <2>2, <2>7, <2>8, <2>9, <2>10, <1>r, OneMoreSeat
  <2>12. TypeOK'
    BY <1>1, <1>3, <2>1, <2>11 DEF IInv, TypeOK, Txns
  <2>13. RowsWellFormed'
    BY <1>1, <2>1, <2>3, <2>4 DEF IInv, RowsWellFormed
  <2>14. SeatsFitTheirPrincipal'
    BY <1>1, <2>1, <2>5, <2>6 DEF IInv, SeatsFitTheirPrincipal
  <2>15. ReservationBecomesOneAssignment'
    BY <2>1, <2>2, <2>3, <2>4 DEF IInv, ReservationBecomesOneAssignment
  <2> QED  BY <2>11, <2>12, <2>13, <2>14, <2>15 DEF IInv
<1> QED  BY <1>r, <1>2, <1>3 DEF ReserveWrite

(* Writing the assignment that was counted for preserves the invariant.      *)
LEMMA AssignWriteStep ==
    ASSUME IInv, NEW s \in Sessions, AssignWrite(s)
    PROVE  IInv'
<1>r. PICK r \in Txns : r = txn[s]
  BY TypeTxns DEF IInv
<1>0. Sound(r) /\ r.op = "assign" /\ r.step = "write"
  BY <1>r DEF IInv, AssignWrite
<1> DEFINE e == r.ent
           p == r.who
<1>1. p \in Principals /\ e \in r.locks /\ e \in Entitlements /\ kind[e] = KindOf(p)
        /\ Cardinality(Holders(e)) < quantity[e]
  BY <1>0 DEF Sound, Txns
<1>2. CASE UNCHANGED asg
  BY <1>2, AbortStep DEF AssignWrite, Step, Entitlement
<1>3. ASSUME NEW x \in Assignments, asg[x].state = "NONE",
             asg' = [asg EXCEPT ![x] = [state |-> "ASSIGNED", ent |-> e,
                                        who |-> p, by |-> None]]
      PROVE  IInv'
  <2>1. txn' = [txn EXCEPT ![s] = Idle] /\ UNCHANGED <<quantity, kind, usable, resv>>
    BY DEF AssignWrite, Step, Entitlement
  <2>2. asg[x] = NoAssignment
    BY <1>3 DEF IInv, RowsWellFormed
  <2>3. \A y \in Assignments : y # x => asg'[y] = asg[y]
    BY <1>3 DEF IInv, TypeOK
  <2>4. asg'[x] = [state |-> "ASSIGNED", ent |-> e, who |-> p, by |-> None]
    BY <1>3 DEF IInv, TypeOK
  <2> HIDE DEF e, p
  <2>5. \A d : ReservedSeats(d)' = ReservedSeats(d)
    BY <2>1 DEF ReservedSeats
  <2>6. /\ \A d : d # e => AssignedSeats(d)' = AssignedSeats(d)
        /\ AssignedSeats(e)' = AssignedSeats(e) \cup {x} /\ x \notin AssignedSeats(e)
    BY <1>3, <2>3, <2>4 DEF AssignedSeats, Live, LiveStates
  <2>7. x \notin Holders(e)
    BY <2>6, DisjointAssumption DEF Holders, ReservedSeats
  <2>8. Holders(e)' = Holders(e) \cup {x} /\ \A d : d # e => Holders(d)' = Holders(d)
    BY <2>5, <2>6 DEF Holders
  <2>11. /\ txn' \in [Sessions -> Txns] /\ LocksExclusive'
         /\ (\A o \in Sessions : Sound(txn[o]))' /\ SeatsWithinQuantity'
    BY <1>r, <1>1, <2>1, <2>7, <2>8, OneMoreSeat
  <2>12. TypeOK'
    BY <1>1, <1>3, <2>1, <2>11 DEF IInv, TypeOK, Txns, LiveStates
  <2>13. RowsWellFormed'
    BY <1>1, <2>1, <2>3, <2>4 DEF IInv, RowsWellFormed
  <2>14. SeatsFitTheirPrincipal'
    <3>1. \A d \in Entitlements : ReservedSeats(d)' # {} => kind'[d] = "ASSET"
      BY <2>1, <2>5 DEF IInv, SeatsFitTheirPrincipal
    <3>2. \A d \in Entitlements : \A y \in AssignedSeats(d)' : kind'[d] = KindOf(asg'[y].who)
      <4> SUFFICES ASSUME NEW d \in Entitlements, NEW y \in AssignedSeats(d)'
                   PROVE  kind[d] = KindOf(asg'[y].who)
        BY <2>1
      <4>1. CASE y = x
        <5>1. d = e
          BY <1>3, <2>6, <4>1 DEF AssignedSeats, Live, LiveStates
        <5> QED  BY <1>1, <2>4, <4>1, <5>1
      <4>2. CASE y # x
        <5>1. y \in AssignedSeats(d) /\ asg'[y] = asg[y]
          BY <2>3, <4>2 DEF AssignedSeats, Live
        <5> QED  BY <5>1 DEF IInv, SeatsFitTheirPrincipal
      <4> QED  BY <4>1, <4>2
    <3> QED  BY <3>1, <3>2 DEF SeatsFitTheirPrincipal, KindOf
  <2>15. ReservationBecomesOneAssignment'
    <3>1. \A y \in Assignments : asg'[y].by = asg[y].by
      BY <2>2, <2>3, <2>4 DEF NoAssignment
    <3> QED  BY <2>1, <3>1 DEF IInv, ReservationBecomesOneAssignment
  <2> QED  BY <2>11, <2>12, <2>13, <2>14, <2>15 DEF IInv
<1> QED  BY <1>r, <1>2, <1>3 DEF AssignWrite

(* Every step of every session, activation and clock keeps the invariant. *)
LEMMA NextIInv == IInv /\ [Next]_vars => IInv'
<1> SUFFICES ASSUME IInv, [Next]_vars PROVE IInv'
  OBVIOUS
<1>1. CASE UNCHANGED vars
  <2>1. \A q : Sound(q)' <=> Sound(q)
    BY <1>1 DEF vars, Sound, Holders, AssignedSeats, ReservedSeats, Live
  <2>2. SeatsWithinQuantity' /\ SeatsFitTheirPrincipal'
    BY <1>1 DEF vars, IInv, SeatsWithinQuantity, SeatsFitTheirPrincipal, Holders,
                AssignedSeats, ReservedSeats, Live
  <2>3. (\A s \in Sessions : Sound(txn[s]))'
    BY <1>1, <2>1 DEF vars, IInv
  <2> QED  BY <1>1, <2>2, <2>3 DEF vars, IInv, TypeOK, RowsWellFormed, LocksExclusive,
                                   ReservationBecomesOneAssignment
<1>2. ASSUME NEW s \in Sessions,
             \/ \E t \in Targets : ReserveBegin(s, t)
             \/ ReserveLock(s) \/ ReserveCount(s) \/ ReserveWrite(s)
             \/ \E e \in Entitlements, p \in Principals : AssignLock(s, e, p)
             \/ AssignCount(s) \/ AssignWrite(s)
             \/ \E e \in Entitlements, q \in Quantities, k \in Kinds : UpdateLock(s, e, q, k)
             \/ UpdateCount(s) \/ UpdateWrite(s)
      PROVE  IInv'
  BY <1>2, ReserveBeginStep, ReserveLockStep, ReserveCountStep, ReserveWriteStep,
     AssignLockStep, AssignWriteStep, UpdateLockStep, UpdateWriteStep, CountStep
<1>3. ASSUME NEW t \in Targets, Activate(t) \/ Release(t) PROVE IInv'
  BY <1>3, ActivateStep, ReleaseStep
<1>4. ASSUME NEW x \in Assignments, NEW m \in Transitions, Transition(x, m) PROVE IInv'
  BY <1>4, TransitionStep
<1>5. ASSUME NEW e \in Entitlements, RenewLicenseEntitlement(e) \/ LoseTermOrPool(e) PROVE IInv'
  BY <1>5, UsableStep
<1> QED  BY <1>1, <1>2, <1>3, <1>4, <1>5 DEF Next

(* The inductive invariant of the seat transactions. *)
THEOREM Invariance == Spec => []IInv
<1>1. Init => IInv
  BY InitIInv
<1>2. IInv /\ [Next]_vars => IInv'
  BY NextIInv
<1> QED  BY <1>1, <1>2, PTL DEF Spec

(* However many reserve, assign, update, activate and release transactions   *)
(* overlap, an entitlement never has more seats taken than were purchased.   *)
THEOREM NoOverAllocation == Spec => []SeatsWithinQuantity
<1>1. IInv => SeatsWithinQuantity
  BY DEF IInv
<1> QED  BY <1>1, Invariance, PTL

(* A license type change never takes effect under a seat that is assigned or *)
(* reserved, nor a seat under a type change.                                 *)
THEOREM TypeStaysFit == Spec => []SeatsFitTheirPrincipal
<1>1. IInv => SeatsFitTheirPrincipal
  BY DEF IInv
<1> QED  BY <1>1, Invariance, PTL

(* Activation turns a reservation into exactly one assignment.               *)
THEOREM OneAssignmentPerReservation == Spec => []ReservationBecomesOneAssignment
<1>1. IInv => ReservationBecomesOneAssignment
  BY DEF IInv
<1> QED  BY <1>1, Invariance, PTL

-----------------------------------------------------------------------------
(* The seat transactions implement the seat ledger.                          *)

(* What a step must show of the seats for the ledger: none changes, one is   *)
(* taken while one is free, one is given back, or the purchase changes.      *)
LedgerStep == [Ledger!Next]_(Ledger!vars)

(* A step that keeps every quantity and every number of holders is not seen  *)
(* by the ledger.                                                            *)
LEMMA LedgerStutters ==
    ASSUME quantity' = quantity, \A e \in Entitlements : Cardinality(Holders(e)') = Cardinality(Holders(e))
    PROVE  LedgerStep
  BY DEF LedgerStep, Ledger!vars

(* One new holder of an entitlement with a free seat is a take of the        *)
(* ledger.                                                                   *)
LEMMA LedgerTakes ==
    ASSUME quantity' = quantity, NEW e \in Entitlements, NEW h, h \notin Holders(e),
           Holders(e)' = Holders(e) \cup {h}, Cardinality(Holders(e)) < quantity[e],
           \A d \in Entitlements : d # e => Holders(d)' = Holders(d)
    PROVE  LedgerStep
<1>1. Cardinality(Holders(e)') = Cardinality(Holders(e)) + 1
  BY HoldersFinite, FS_AddElement
<1>2. \A d \in Entitlements : Cardinality(Holders(d)') = IF d = e THEN Cardinality(Holders(e)) + 1 ELSE Cardinality(Holders(d))
  BY <1>1
<1>3. Ledger!Take(e)
  BY <1>2 DEF Ledger!Take
<1> QED BY <1>3 DEF LedgerStep, Ledger!Next

(* One holder less is a give of the ledger.                                  *)
LEMMA LedgerGives ==
    ASSUME quantity' = quantity, NEW e \in Entitlements, NEW h \in Holders(e),
           Holders(e)' = Holders(e) \ {h},
           \A d \in Entitlements : d # e => Holders(d)' = Holders(d)
    PROVE  LedgerStep
<1>1. Cardinality(Holders(e)') = Cardinality(Holders(e)) - 1
  BY HoldersFinite, FS_RemoveElement
<1>2. Cardinality(Holders(e)) > 0
  BY <1>1, HoldersFinite
<1>3. \A d \in Entitlements : Cardinality(Holders(d)') = IF d = e THEN Cardinality(Holders(e)) - 1 ELSE Cardinality(Holders(d))
  BY <1>1
<1>4. Ledger!Give(e)
  BY <1>2, <1>3 DEF Ledger!Give
<1> QED BY <1>4 DEF LedgerStep, Ledger!Next

(* Steps that leave reservations, assignments and quantities alone.          *)
LEMMA QuietForLedger ==
    ASSUME UNCHANGED <<quantity, resv, asg>>
    PROVE  LedgerStep
<1>1. \A e \in Entitlements : Holders(e)' = Holders(e)
  BY DEF Holders, AssignedSeats, ReservedSeats, Live
<1> QED BY <1>1, LedgerStutters

(* Nothing is taken at first.                                                *)
LEMMA LedgerStarts == Init => Ledger!Init
<1> SUFFICES ASSUME Init PROVE Ledger!Init
  OBVIOUS
<1>1. \A e \in Entitlements : Holders(e) = {}
  BY DEF Init, AssignedSeats, ReservedSeats, Holders, Live, LiveStates, NoReservation, NoAssignment
<1>2. \A e \in Entitlements : Cardinality(Holders(e)) = 0
  BY <1>1, FS_EmptySet
<1> QED BY <1>2 DEF Ledger!Init, Init

(* A reservation is written while a seat is free.                            *)
LEMMA ReserveForLedger ==
    ASSUME IInv, NEW s \in Sessions, ReserveWrite(s)
    PROVE  LedgerStep
<1>1. PICK r \in Txns : r = txn[s]
  BY TypeTxns DEF IInv
<1>2. Sound(r) /\ r.op = "reserve" /\ r.step = "write"
  BY <1>1 DEF IInv, ReserveWrite
<1>3. PICK e \in Entitlements, t \in Targets : e = r.ent /\ t = r.t
  BY <1>2 DEF Sound, Txns
<1>4. UNCHANGED <<quantity, asg>>
  BY DEF ReserveWrite, Entitlement
<1>5. CASE UNCHANGED resv
  BY <1>4, <1>5, QuietForLedger
<1>6. CASE /\ r.row \/ resv[t].state = "NONE"
           /\ resv' = [resv EXCEPT ![t] = [state |-> "RESERVED", ent |-> e]]
  <2>1. resv[t].state \in {"NONE", "RELEASED"} /\ Cardinality(Holders(e)) < quantity[e]
    BY <1>2, <1>3, <1>6 DEF Sound
  <2>2. /\ \A u \in Targets : u # t => resv'[u] = resv[u]
        /\ resv'[t] = [state |-> "RESERVED", ent |-> e]
    BY <1>6 DEF IInv, TypeOK
  <2>3. \A d : AssignedSeats(d)' = AssignedSeats(d)
    BY <1>4 DEF AssignedSeats, Live
  <2>4. /\ \A d : d # e => ReservedSeats(d)' = ReservedSeats(d)
        /\ ReservedSeats(e)' = ReservedSeats(e) \cup {t} /\ t \notin ReservedSeats(e)
    BY <2>1, <2>2 DEF ReservedSeats
  <2>5. t \notin Holders(e)
    BY <2>4, DisjointAssumption DEF Holders, AssignedSeats
  <2>6. Holders(e)' = Holders(e) \cup {t} /\ \A d \in Entitlements : d # e => Holders(d)' = Holders(d)
    BY <2>3, <2>4 DEF Holders
  <2> QED BY <1>4, <2>1, <2>5, <2>6, LedgerTakes
<1> QED BY <1>1, <1>3, <1>5, <1>6 DEF ReserveWrite

(* An assignment is inserted while a seat is free.                           *)
LEMMA AssignForLedger ==
    ASSUME IInv, NEW s \in Sessions, AssignWrite(s)
    PROVE  LedgerStep
<1>1. PICK r \in Txns : r = txn[s]
  BY TypeTxns DEF IInv
<1>2. Sound(r) /\ r.op = "assign" /\ r.step = "write"
  BY <1>1 DEF IInv, AssignWrite
<1>3. PICK e \in Entitlements : e = r.ent /\ Cardinality(Holders(e)) < quantity[e]
  BY <1>2 DEF Sound, Txns
<1>4. UNCHANGED <<quantity, resv>>
  BY DEF AssignWrite, Entitlement
<1>5. CASE UNCHANGED asg
  BY <1>4, <1>5, QuietForLedger
<1>6. ASSUME NEW x \in Assignments, asg[x].state = "NONE",
             asg' = [asg EXCEPT ![x] = [state |-> "ASSIGNED", ent |-> e, who |-> r.who, by |-> None]]
      PROVE  LedgerStep
  <2>1. /\ \A y \in Assignments : y # x => asg'[y] = asg[y]
        /\ asg'[x] = [state |-> "ASSIGNED", ent |-> e, who |-> r.who, by |-> None]
    BY <1>6 DEF IInv, TypeOK
  <2>2. \A d : ReservedSeats(d)' = ReservedSeats(d)
    BY <1>4 DEF ReservedSeats
  <2>3. /\ \A d : d # e => AssignedSeats(d)' = AssignedSeats(d)
        /\ AssignedSeats(e)' = AssignedSeats(e) \cup {x} /\ x \notin AssignedSeats(e)
    BY <1>6, <2>1 DEF AssignedSeats, Live, LiveStates
  <2>4. x \notin Holders(e)
    BY <2>3, DisjointAssumption DEF Holders, ReservedSeats
  <2>5. Holders(e)' = Holders(e) \cup {x} /\ \A d \in Entitlements : d # e => Holders(d)' = Holders(d)
    BY <2>2, <2>3 DEF Holders
  <2> QED BY <1>3, <1>4, <2>4, <2>5, LedgerTakes
<1> QED BY <1>1, <1>3, <1>5, <1>6 DEF AssignWrite

(* The purchase changes above the seats that are taken.                      *)
LEMMA UpdateForLedger ==
    ASSUME IInv, NEW s \in Sessions, UpdateWrite(s)
    PROVE  LedgerStep
<1>1. PICK r \in Txns : r = txn[s]
  BY TypeTxns DEF IInv
<1>2. Sound(r) /\ r.op = "update" /\ r.step = "write"
  BY <1>1 DEF IInv, UpdateWrite
<1>3. PICK e \in Entitlements, q \in Quantities : e = r.ent /\ q = r.q /\ Cardinality(Holders(e)) <= q
  BY <1>2 DEF Sound, Txns
<1>4. quantity' = [quantity EXCEPT ![e] = q] /\ UNCHANGED <<resv, asg>>
  BY <1>1, <1>3 DEF UpdateWrite
<1>5. \A d \in Entitlements : Cardinality(Holders(d)') = Cardinality(Holders(d))
  BY <1>4 DEF Holders, AssignedSeats, ReservedSeats, Live
<1>6. Ledger!Resize(e)
  BY <1>3, <1>4, <1>5 DEF Ledger!Resize
<1> QED BY <1>6 DEF LedgerStep, Ledger!Next

(* A released reservation gives its seat back.                               *)
LEMMA ReleaseForLedger ==
    ASSUME IInv, NEW t \in Targets, Release(t)
    PROVE  LedgerStep
<1>1. /\ resv[t].state = "RESERVED" /\ resv' = [resv EXCEPT ![t].state = "RELEASED"]
      /\ UNCHANGED <<quantity, asg>>
  BY DEF Release, Entitlement
<1>2. PICK e \in Entitlements : e = resv[t].ent
  BY <1>1 DEF IInv, RowsWellFormed
<1>3. \A d : AssignedSeats(d)' = AssignedSeats(d)
  BY <1>1 DEF AssignedSeats, Live
<1>4. /\ \A d : d # e => ReservedSeats(d)' = ReservedSeats(d)
      /\ t \in ReservedSeats(e) /\ ReservedSeats(e)' = ReservedSeats(e) \ {t}
  BY <1>1, <1>2 DEF IInv, TypeOK, ReservedSeats
<1>5. /\ t \in Holders(e) /\ Holders(e)' = Holders(e) \ {t}
      /\ \A d \in Entitlements : d # e => Holders(d)' = Holders(d)
  <2>1. t \notin AssignedSeats(e)
    BY DisjointAssumption DEF AssignedSeats
  <2> QED BY <1>3, <1>4, <2>1 DEF Holders
<1> QED BY <1>1, <1>5, LedgerGives

(* Activation hands the seat from the reservation to its assignment.         *)
LEMMA ActivateForLedger ==
    ASSUME IInv, NEW t \in Targets, Activate(t)
    PROVE  LedgerStep
<1>1. PICK e \in Entitlements : e = resv[t].ent
  BY DEF IInv, RowsWellFormed, Activate
<1>2. PICK x \in Assignments :
         /\ asg[x].state = "NONE"
         /\ asg' = [asg EXCEPT ![x] = [state |-> "ACTIVE", ent |-> e, who |-> AssetOf[t], by |-> t]]
  BY <1>1 DEF Activate
<1>3. resv[t].state = "RESERVED" /\ resv' = [resv EXCEPT ![t].state = "ASSIGNED"] /\ quantity' = quantity
  BY DEF Activate, Entitlement
<1>4. /\ \A d : d # e => ReservedSeats(d)' = ReservedSeats(d)
      /\ t \in ReservedSeats(e) /\ ReservedSeats(e)' = ReservedSeats(e) \ {t}
  BY <1>1, <1>3 DEF IInv, TypeOK, ReservedSeats
<1>5. /\ \A d : d # e => AssignedSeats(d)' = AssignedSeats(d)
      /\ x \notin AssignedSeats(e) /\ AssignedSeats(e)' = AssignedSeats(e) \cup {x}
  <2>1. \A y \in Assignments : y # x => asg'[y] = asg[y]
    BY <1>2 DEF IInv, TypeOK
  <2>2. asg'[x].state = "ACTIVE" /\ asg'[x].ent = e
    BY <1>2 DEF IInv, TypeOK
  <2> QED BY <1>2, <2>1, <2>2 DEF AssignedSeats, Live, LiveStates
<1>6. /\ \A d : d # e => Holders(d)' = Holders(d)
      /\ t \in Holders(e) /\ x \notin Holders(e)
      /\ Holders(e)' = (Holders(e) \ {t}) \cup {x}
  <2>1. x \notin Targets /\ t \notin Assignments
    BY DisjointAssumption
  <2>2. ReservedSeats(e) \subseteq Targets /\ AssignedSeats(e) \subseteq Assignments
    BY DEF ReservedSeats, AssignedSeats
  <2> QED BY <1>4, <1>5, <2>1, <2>2 DEF Holders
<1>7. Cardinality(Holders(e)') = Cardinality(Holders(e))
  <2>1. IsFiniteSet(Holders(e)) /\ Cardinality(Holders(e)) \in Nat
    BY HoldersFinite
  <2>2. IsFiniteSet(Holders(e) \ {t}) /\ Cardinality(Holders(e) \ {t}) = Cardinality(Holders(e)) - 1
    BY <1>6, <2>1, FS_RemoveElement
  <2>3. Cardinality((Holders(e) \ {t}) \cup {x}) = Cardinality(Holders(e) \ {t}) + 1
    BY <1>6, <2>2, FS_AddElement
  <2> QED BY <1>6, <2>1, <2>2, <2>3
<1> QED BY <1>3, <1>6, <1>7, LedgerStutters

(* An assignment gives its seat back when it ends, and keeps it until then.  *)
LEMMA TransitionForLedger ==
    ASSUME IInv, NEW x \in Assignments, NEW m \in Transitions, Transition(x, m)
    PROVE  LedgerStep
<1>1. /\ asg[x].state = m[1] /\ asg' = [asg EXCEPT ![x].state = m[3]]
      /\ UNCHANGED <<quantity, resv>>
  BY DEF Transition, Entitlement
<1>2. m[1] \in LiveStates /\ m[3] \in LiveStates \cup {"RECLAIMED", "CANCELLED"}
  BY DEF Transitions, LiveStates
<1>3. PICK e \in Entitlements : e = asg[x].ent
  BY <1>1, <1>2 DEF IInv, RowsWellFormed, LiveStates
<1>4. /\ \A y \in Assignments : y # x => asg'[y] = asg[y]
      /\ asg'[x].state = m[3] /\ asg'[x].ent = e
  BY <1>1, <1>3 DEF IInv, TypeOK
<1>5. \A d : ReservedSeats(d)' = ReservedSeats(d)
  BY <1>1 DEF ReservedSeats
<1>6. CASE m[3] \in LiveStates
  <2>1. \A d : AssignedSeats(d)' = AssignedSeats(d)
    BY <1>1, <1>2, <1>3, <1>4, <1>6 DEF AssignedSeats, Live
  <2>2. \A d : Holders(d)' = Holders(d)
    BY <1>5, <2>1 DEF Holders
  <2> QED BY <1>1, <2>2, LedgerStutters
<1>7. CASE m[3] \notin LiveStates
  <2>1. /\ \A d : d # e => AssignedSeats(d)' = AssignedSeats(d)
        /\ x \in AssignedSeats(e) /\ AssignedSeats(e)' = AssignedSeats(e) \ {x}
    BY <1>1, <1>2, <1>3, <1>4, <1>7 DEF AssignedSeats, Live
  <2>2. x \notin ReservedSeats(e)
    BY DisjointAssumption DEF ReservedSeats
  <2>3. /\ x \in Holders(e) /\ Holders(e)' = Holders(e) \ {x}
        /\ \A d \in Entitlements : d # e => Holders(d)' = Holders(d)
    BY <1>5, <2>1, <2>2 DEF Holders
  <2> QED BY <1>1, <2>3, LedgerGives
<1> QED BY <1>6, <1>7

(* Every step is a step of the ledger or none.                               *)
LEMMA LedgerFollows == IInv /\ [Next]_vars => LedgerStep
<1> SUFFICES ASSUME IInv, [Next]_vars PROVE LedgerStep
  OBVIOUS
<1>1. CASE UNCHANGED vars
  BY <1>1, QuietForLedger DEF vars
<1>2. ASSUME NEW s \in Sessions,
             \/ \E t \in Targets : ReserveBegin(s, t)
             \/ ReserveLock(s) \/ ReserveCount(s)
             \/ \E e \in Entitlements, p \in Principals : AssignLock(s, e, p)
             \/ AssignCount(s)
             \/ \E e \in Entitlements, q \in Quantities, k \in Kinds : UpdateLock(s, e, q, k)
             \/ UpdateCount(s)
      PROVE  LedgerStep
  <2>1. UNCHANGED <<quantity, resv, asg>>
    BY <1>2 DEF ReserveBegin, ReserveLock, ReserveCount, AssignLock, AssignCount, UpdateLock, UpdateCount, Entitlement
  <2> QED BY <2>1, QuietForLedger
<1>3. ASSUME NEW s \in Sessions, ReserveWrite(s) \/ AssignWrite(s) \/ UpdateWrite(s) PROVE LedgerStep
  BY <1>3, ReserveForLedger, AssignForLedger, UpdateForLedger
<1>4. ASSUME NEW t \in Targets, Activate(t) \/ Release(t) PROVE LedgerStep
  BY <1>4, ActivateForLedger, ReleaseForLedger
<1>5. ASSUME NEW x \in Assignments, NEW m \in Transitions, Transition(x, m) PROVE LedgerStep
  BY <1>5, TransitionForLedger
<1>6. ASSUME NEW e \in Entitlements, RenewLicenseEntitlement(e) \/ LoseTermOrPool(e) PROVE LedgerStep
  BY <1>6, QuietForLedger DEF RenewLicenseEntitlement, LoseTermOrPool
<1> QED BY <1>1, <1>2, <1>3, <1>4, <1>5, <1>6 DEF Next

(* The interleaved reserve, assign, update, activate and release             *)
(* transactions implement the seat ledger: a seat is taken only while one is *)
(* free, and a purchase never drops below the seats taken.                   *)
THEOREM LedgerImplemented == Spec => ImplementsLedger
<1>1. QED
  BY LedgerStarts, LedgerFollows, Invariance, PTL DEF Spec, ImplementsLedger, Ledger!Spec, LedgerStep

=============================================================================
