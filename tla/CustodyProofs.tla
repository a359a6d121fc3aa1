---------------------------- MODULE CustodyProofs ----------------------------
(***************************************************************************)
(* What holds of every asset, for any assets, users and methods: custody   *)
(* on its own (CustodySpec), and under the offboarding of a user           *)
(* (OffSpec).                                                              *)
(***************************************************************************)
EXTENDS Offboarding, TLAPS

-----------------------------------------------------------------------------
(* One asset row                                                             *)

Row == [life : DOMAIN Transitions, custody : {"UNASSIGNED", "RESERVED"} \cup Held,
        holder : Users \cup {NoUser}, reserved : BOOLEAN,
        request : {"NONE", "PENDING", "CANCELLED", "FULFILLED"}]

(* The four columns of a row tell one story.                                 *)
OneStory(x) ==
    /\ x.holder # NoUser <=> x.custody \in Held
    /\ x.custody \in Held <=> x.life = "ASSIGNED"
    /\ x.custody = "RESERVED" <=> x.life = "RESERVED"
    /\ x.request = "PENDING" <=> x.custody = "PENDING_RETURN"

Sound(x) == x \in Row /\ OneStory(x)

Wipes == [state : {"NONE", "QUEUED", "CLAIMED", "FAILED", "COMPLETED"},
          result : {"NONE", "PASS", "FAIL", "NOT_APPLICABLE", "PHYSICAL_DESTRUCTION_REQUIRED"},
          method : WipeMethods \cup {"NONE"}, gen : Nat]

Plans == [state : {"NONE", "UNDER_REVIEW", "APPROVED", "CANCELLED", "PROCUREMENT", "PLANNED",
                   "NEW_ASSET_READY", "MIGRATING", "REPLACED"},
          new : Assets \cup {NoAsset}, user : Users \cup {NoUser}]

RestTypeOK ==
    /\ seat \in [Assets -> BOOLEAN] /\ reuse \in [Assets -> BOOLEAN] /\ dirty \in [Assets -> BOOLEAN]
    /\ wipe \in [Assets -> Wipes]
    /\ plan \in [Assets -> Plans]
    /\ DOMAIN told = Assets
    /\ disposal \in [Assets -> {"NONE", "SELL", "DESTROY", "REUSE_INTERNAL"}]

(* Until an asset is taken back into service its wipe is of this retirement, *)
(* and what it says of the device is true.                                   *)
WipeIsOfThisRetirement ==
    \A a \in Assets : ~ reuse[a] =>
        /\ wipe[a].state # "NONE" => asset[a].life \in Gone
        /\ wipe[a].state = "COMPLETED" /\ wipe[a].result = "PASS" => ~ dirty[a]

CustodyInv ==
    /\ CustodyAgrees /\ RestTypeOK
    /\ TrailTellsCustody
    /\ RetiredAssetIsClear
    /\ WipeIsOfThisRetirement /\ FirstDisposalIsWiped

-----------------------------------------------------------------------------
(* What the lifecycle tables allow.                                          *)
LEMMA LifecycleTable ==
    /\ \A s \in DOMAIN Transitions : /\ "RESERVED" \in Transitions[s] <=> s = "AVAILABLE"
                                     /\ "ASSIGNED" \in Transitions[s] <=> s = "RESERVED"
    /\ {"NONE", "PLANNED", "RECEIVED", "AVAILABLE", "RESERVED", "ASSIGNED", "RETURNED", "RETIRED",
        "DISPOSED"} \subseteq DOMAIN Transitions
  BY DEF Transitions

(* A closed maintenance order stays closed.                                  *)
LEMMA OrderTable ==
    /\ {"NONE", "DRAFT"} \cup OrderDone \subseteq DOMAIN OrderTransitions
    /\ \A s \in DOMAIN OrderTransitions :
          /\ OrderTransitions[s] \subseteq DOMAIN OrderTransitions
          /\ s \in OrderDone \cup {"NONE"} => OrderTransitions[s] = {}
<1>1. {"NONE", "DRAFT"} \cup OrderDone \subseteq DOMAIN OrderTransitions
  BY DEF OrderTransitions, OrderDone
<1>2. ASSUME NEW s \in DOMAIN OrderTransitions PROVE OrderTransitions[s] \subseteq DOMAIN OrderTransitions
  BY DEF OrderTransitions, OrderDone
<1>3. ASSUME NEW s \in OrderDone \cup {"NONE"} PROVE OrderTransitions[s] = {}
  BY DEF OrderTransitions, OrderDone
<1> QED
  BY <1>1, <1>2, <1>3

(* The row of an asset nobody has touched.                                   *)
LEMMA NewRow ==
    ASSUME NEW l \in {"NONE", "AVAILABLE"}
    PROVE  Sound([life |-> l, custody |-> "UNASSIGNED", holder |-> NoUser, reserved |-> FALSE,
                  request |-> "NONE"])
  BY LifecycleTable, CustodyAssumption DEF Sound, Row, OneStory, Held

AtLife(x, l) == [x EXCEPT !.life = l]

(* A row that is in nobody's hands changes its lifecycle state.              *)
LEMMA FreeRowMoves ==
    ASSUME NEW x, Sound(x), x.custody = "UNASSIGNED",
           NEW l \in {"PLANNED", "RECEIVED", "AVAILABLE", "RETURNED", "RETIRED", "DISPOSED"}
    PROVE  /\ Sound(AtLife(x, l)) /\ AtLife(x, l).life = l /\ AtLife(x, l).custody = "UNASSIGNED"
           /\ AtLife(x, l).holder = x.holder /\ AtLife(x, l).request = x.request
<1> USE DEF AtLife
<1> DEFINE y == [x EXCEPT !.life = l]
<1>1. y \in Row /\ y.life = l /\ y.custody = x.custody /\ y.holder = x.holder /\ y.request = x.request
  BY LifecycleTable DEF Sound, Row
<1> QED
  BY <1>1 DEF Sound, OneStory, Held

(* A lifecycle state that excludes every custody but UNASSIGNED.             *)
LEMMA FreeStates ==
    ASSUME NEW x, Sound(x), x.life \notin {"RESERVED", "ASSIGNED"}
    PROVE  x.custody = "UNASSIGNED" /\ x.holder = NoUser /\ x.request # "PENDING"
  BY DEF Sound, Row, OneStory, Held

(* Reserving an asset keeps its row sound: only an AVAILABLE asset is        *)
(* reserved, and a reserved one can be assigned.                             *)
LEMMA ReserveRow ==
    ASSUME NEW x, Sound(x), CanReserve(x)
    PROVE  /\ Sound(ReserveAsset(x)) /\ x.life = "AVAILABLE"
           /\ ReserveAsset(x).life = "RESERVED" /\ ReserveAsset(x).request = x.request
           /\ CanAssign(ReserveAsset(x))
<1>1. x \in Row /\ x.life = "AVAILABLE" /\ x.holder = NoUser /\ x.request # "PENDING"
  BY LifecycleTable, FreeStates DEF CanReserve, Sound, Row
<1> DEFINE y == ReserveAsset(x)
<1>2. /\ y \in Row /\ y.life = "RESERVED" /\ y.custody = "RESERVED" /\ y.holder = x.holder
      /\ y.request = x.request
  BY <1>1, LifecycleTable DEF ReserveAsset, TransitionLifecycle, Row
<1> QED
  BY <1>1, <1>2, LifecycleTable DEF Sound, OneStory, Held, CanAssign

(* Assigning keeps the row sound, and closes whatever return request the row *)
(* still names.                                                              *)
LEMMA AssignRow ==
    ASSUME NEW x, Sound(x), CanAssign(x), NEW u \in Users
    PROVE  /\ Sound(AssignAsset(x, u)) /\ x.life = "RESERVED"
           /\ AssignAsset(x, u).life = "ASSIGNED" /\ AssignAsset(x, u).request = "NONE"
<1>1. x \in Row /\ x.life = "RESERVED"
  BY LifecycleTable DEF CanAssign, Sound, Row
<1> DEFINE y == AssignAsset(x, u)
<1>2. /\ y \in Row /\ y.life = "ASSIGNED" /\ y.custody = "ASSIGNED" /\ y.holder = u
      /\ y.request = "NONE"
  BY <1>1, LifecycleTable DEF AssignAsset, TransitionLifecycle, Row, Held
<1> QED
  BY <1>1, <1>2, CustodyAssumption DEF Sound, OneStory, Held

(* A transfer keeps the row sound: the asset stays ASSIGNED, to another      *)
(* holder.                                                                   *)
LEMMA TransferRow ==
    ASSUME NEW x, Sound(x), InUse(x), NEW u \in Users
    PROVE  /\ Sound(TransferAsset(x, u)) /\ x.life = "ASSIGNED"
           /\ TransferAsset(x, u).life = "ASSIGNED" /\ TransferAsset(x, u).request \in {"NONE", x.request}
<1>1. x \in Row /\ x.life = "ASSIGNED" /\ x.custody = "ASSIGNED" /\ x.request # "PENDING"
  BY DEF InUse, Sound, Row, OneStory, Held
<1> DEFINE y == TransferAsset(x, u)
<1>2. /\ y \in Row /\ y.life = x.life /\ y.custody = x.custody /\ y.holder = u
      /\ y.request \in {"NONE", x.request}
  BY <1>1 DEF TransferAsset, Row
<1> QED
  BY <1>1, <1>2, CustodyAssumption DEF Sound, OneStory, Held

(* A return request keeps the row sound and its holder; only the custody     *)
(* becomes PENDING_RETURN.                                                   *)
LEMMA RequestRow ==
    ASSUME NEW x, Sound(x), InUse(x)
    PROVE  /\ Sound(RequestReturn(x)) /\ x.life = "ASSIGNED" /\ x.custody = "ASSIGNED"
           /\ RequestReturn(x).life = "ASSIGNED" /\ RequestReturn(x).custody = "PENDING_RETURN"
           /\ RequestReturn(x).request = "PENDING" /\ RequestReturn(x).holder = x.holder
<1>1. x \in Row /\ x.life = "ASSIGNED" /\ x.custody = "ASSIGNED" /\ x.holder # NoUser
  BY DEF InUse, Sound, Row, OneStory, Held
<1> DEFINE y == RequestReturn(x)
<1>2. /\ y \in Row /\ y.life = x.life /\ y.custody = "PENDING_RETURN" /\ y.holder = x.holder
      /\ y.request = "PENDING"
  BY <1>1 DEF RequestReturn, Row, Held
<1> QED
  BY <1>1, <1>2 DEF Sound, OneStory, Held

(* Receiving a requested return keeps the row sound.                         *)
LEMMA ReceiveRow ==
    ASSUME NEW x, Sound(x), CanReceive(x)
    PROVE  Sound(ReceiveReturn(x)) /\ x.life = "ASSIGNED" /\ ReceiveReturn(x).life = "RETURNED"
<1>1. x \in Row /\ x.life = "ASSIGNED"
  BY DEF CanReceive, Sound, Row, OneStory, Held
<1> DEFINE y == ReceiveReturn(x)
<1>2. /\ y \in Row /\ y.life = "RETURNED" /\ y.custody = "UNASSIGNED" /\ y.holder = NoUser
      /\ y.request = "FULFILLED"
  BY <1>1, LifecycleTable DEF ReceiveReturn, Row
<1> QED
  BY <1>1, <1>2 DEF Sound, OneStory, Held

(* Cancelling a return request keeps the row sound and gives the custody     *)
(* back to the holder.                                                       *)
LEMMA CancelRow ==
    ASSUME NEW x, Sound(x), CanCancelReturn(x)
    PROVE  /\ Sound(CancelReturnRequest(x)) /\ x.life = "ASSIGNED"
           /\ CancelReturnRequest(x).life = "ASSIGNED" /\ CancelReturnRequest(x).request = "CANCELLED"
<1>1. x \in Row /\ x.life = "ASSIGNED" /\ x.holder # NoUser
  BY DEF CanCancelReturn, Sound, Row, OneStory, Held
<1> DEFINE y == CancelReturnRequest(x)
<1>2. /\ y \in Row /\ y.life = x.life /\ y.custody = "ASSIGNED" /\ y.holder = x.holder
      /\ y.request = "CANCELLED"
  BY <1>1 DEF CancelReturnRequest, Row, Held
<1> QED
  BY <1>1, <1>2 DEF Sound, OneStory, Held

-----------------------------------------------------------------------------
(* The table of assets                                                       *)

(* CustodyAgrees says that every single row is sound, so that an action can  *)
(* be checked on the row it writes.                                          *)
LEMMA CustodyIsSound == CustodyAgrees <=> CustodyTypeOK /\ \A a \in Assets : Sound(asset[a])
<1>1. CustodyTypeOK => asset \in [Assets -> Row]
  BY DEF CustodyTypeOK, Row
<1> QED
  BY <1>1 DEF CustodyAgrees, Sound, OneStory

(* A step changes one row, into a sound one, or none.                        *)
LEMMA RowWritten ==
    ASSUME CustodyAgrees, NEW a \in Assets, NEW y, Sound(y), asset' = [asset EXCEPT ![a] = y],
           active' \subseteq Users, checked' \subseteq Assets \X Users,
           order' \in [Assets -> DOMAIN OrderTransitions],
           record' \in [Assets -> {"NONE", "CANDIDATE", "BLOCKED", "RETIRED"}]
    PROVE  CustodyAgrees' /\ asset'[a] = y /\ \A b \in Assets : b # a => asset'[b] = asset[b]
<1>1. asset \in [Assets -> Row] /\ \A b \in Assets : OneStory(asset[b])
  BY CustodyIsSound DEF CustodyTypeOK, Sound, Row
<1>2. /\ asset' \in [Assets -> Row] /\ asset'[a] = y
      /\ \A b \in Assets : b # a => asset'[b] = asset[b]
  BY <1>1 DEF Sound
<1>3. CustodyTypeOK'
  BY <1>2 DEF CustodyTypeOK, Row
<1>4. \A b \in Assets : OneStory(asset'[b])
  BY <1>1, <1>2 DEF Sound
<1> QED
  BY <1>2, <1>3, <1>4 DEF CustodyAgrees, OneStory

(* Steps that write no asset row keep CustodyAgrees.                         *)
LEMMA NoRowWritten ==
    ASSUME CustodyAgrees, UNCHANGED asset,
           active' \subseteq Users, checked' \subseteq Assets \X Users,
           order' \in [Assets -> DOMAIN OrderTransitions],
           record' \in [Assets -> {"NONE", "CANDIDATE", "BLOCKED", "RETIRED"}]
    PROVE  CustodyAgrees'
  BY DEF CustodyAgrees, CustodyTypeOK

(* Row a becomes y on its way through the hands of users: it does not come   *)
(* back after a return, and leaves none of the states of the end of life.    *)
MovesRow(a, y) ==
    /\ Sound(y) /\ Commit(a, y)
    /\ asset[a].life \notin Gone \cup {"RETURNED"} /\ y.life \notin Gone
    /\ y.request = "FULFILLED" => y.life = "RETURNED" \/ asset[a].request = "FULFILLED"
    /\ dirty' \in {dirty, [dirty EXCEPT ![a] = TRUE]}

(* What a movement does, route by route.                                     *)
LEMMA MovementStep ==
    ASSUME CustodyAgrees, MovementNext
    PROVE  /\ UNCHANGED <<active, seat, order, recordVars, plan>>
           /\ checked' \subseteq Assets \X Users
           /\ \/ UNCHANGED <<asset, told, dirty>>
              \/ \E a \in Assets : \E y : MovesRow(a, y)
<1>0. CustodyTypeOK /\ \A a \in Assets : Sound(asset[a])
  BY CustodyIsSound
<1> USE DEF recordVars
<1>1. ASSUME NEW a \in Assets, CreateAsset(a) \/ RegisterReceivedAsset(a) \/ PutInStock(a)
      PROVE  /\ UNCHANGED <<active, seat, order, recordVars, plan, checked, dirty>>
             /\ \E y : MovesRow(a, y)
  <2>1. asset[a].life \in {"NONE", "PLANNED", "RECEIVED"}
    BY <1>1 DEF CreateAsset, RegisterReceivedAsset, PutInStock
  <2>2. asset[a].custody = "UNASSIGNED" /\ Sound(asset[a])
    BY <1>0, <2>1, FreeStates
  <2>3. PICK l \in {"PLANNED", "RECEIVED", "AVAILABLE"} : Commit(a, AtLife(asset[a], l))
    BY <1>1 DEF CreateAsset, RegisterReceivedAsset, PutInStock, AtLife
  <2>4. UNCHANGED <<active, seat, order, recordVars, plan, checked, dirty>>
    BY <1>1 DEF CreateAsset, RegisterReceivedAsset, PutInStock
  <2>5. MovesRow(a, AtLife(asset[a], l))
    BY <2>1, <2>2, <2>3, <2>4, FreeRowMoves DEF MovesRow, Gone
  <2> QED BY <2>4, <2>5
<1>2. ASSUME NEW a \in Assets, Reserve(a)
      PROVE  /\ UNCHANGED <<active, seat, order, recordVars, plan, checked, dirty>>
             /\ \E y : MovesRow(a, y)
  <2>1. MovesRow(a, ReserveAsset(asset[a]))
    BY <1>0, <1>2, ReserveRow DEF Reserve, MovesRow, Gone
  <2> QED BY <1>2, <2>1 DEF Reserve
<1>3. ASSUME NEW a \in Assets, RequestReturnRoute(a)
      PROVE  /\ UNCHANGED <<active, seat, order, recordVars, plan, checked, dirty>>
             /\ \E y : MovesRow(a, y)
  <2>1. MovesRow(a, RequestReturn(asset[a]))
    BY <1>0, <1>3, RequestRow DEF RequestReturnRoute, MovesRow, Gone
  <2> QED BY <1>3, <2>1 DEF RequestReturnRoute
<1>4. ASSUME NEW a \in Assets, ReceiveReturnRoute(a)
      PROVE  /\ UNCHANGED <<active, seat, order, recordVars, plan, checked, dirty>>
             /\ \E y : MovesRow(a, y)
  <2>1. MovesRow(a, ReceiveReturn(asset[a]))
    BY <1>0, <1>4, ReceiveRow DEF ReceiveReturnRoute, MovesRow, Gone
  <2> QED BY <1>4, <2>1 DEF ReceiveReturnRoute
<1>5. ASSUME NEW a \in Assets, NEW u \in Users, CheckUser(a, u)
      PROVE  /\ UNCHANGED <<active, seat, order, recordVars, plan, asset, told, dirty>>
             /\ checked' \subseteq Assets \X Users
  BY <1>5 DEF CheckUser
<1>6. ASSUME NEW a \in Assets, NEW u \in Users, Assign(a, u)
      PROVE  /\ UNCHANGED <<active, seat, order, recordVars, plan>> /\ checked' = {}
             /\ \E y : MovesRow(a, y)
  <2>1. MovesRow(a, AssignAsset(asset[a], u))
    BY <1>0, <1>6, AssignRow DEF Assign, MovesRow, Gone
  <2> QED BY <1>6, <2>1 DEF Assign
<1>7. ASSUME NEW a \in Assets, NEW u \in Users, Transfer(a, u)
      PROVE  /\ UNCHANGED <<active, seat, order, recordVars, plan, dirty>> /\ checked' = {}
             /\ \E y : MovesRow(a, y)
  <2>1. MovesRow(a, TransferAsset(asset[a], u))
    BY <1>0, <1>7, TransferRow DEF Transfer, MovesRow, Gone
  <2> QED BY <1>7, <2>1 DEF Transfer
<1>8. ASSUME CheckedCommandFails
      PROVE  UNCHANGED <<active, seat, order, recordVars, plan, asset, told, dirty>> /\ checked' = {}
  BY <1>8 DEF CheckedCommandFails
<1>9. checked \subseteq Assets \X Users
  BY <1>0 DEF CustodyTypeOK
<1> QED
  BY <1>1, <1>2, <1>3, <1>4, <1>5, <1>6, <1>7, <1>8, <1>9 DEF MovementNext

-----------------------------------------------------------------------------
(* The custody specification                                                 *)

(* The inductive invariant holds of a registry nothing has happened to.      *)
LEMMA CustodyInitInv == CustodyInit => CustodyInv
<1> SUFFICES ASSUME CustodyInit PROVE CustodyInv
  OBVIOUS
<1> USE DEF CustodyInit
<1>1. \A a \in Assets : Sound(asset[a])
  BY NewRow
<1>2. CustodyTypeOK
  <2>1. asset \in [Assets -> Row]
    BY <1>1 DEF Sound
  <2> QED BY <2>1, OrderTable DEF CustodyTypeOK, Row
<1>3. CustodyAgrees
  BY <1>1, <1>2, CustodyIsSound
<1>4. RestTypeOK
  BY DEF RestTypeOK, Wipes, Plans, NoWipe, NoPlan
<1>5. TrailTellsCustody
  BY DEF TrailTellsCustody
<1>6. \A a \in Assets : asset[a].life \notin Gone
  BY DEF Gone
<1>7. RetiredAssetIsClear /\ FirstDisposalIsWiped
  BY <1>6 DEF RetiredAssetIsClear, FirstDisposalIsWiped
<1>8. WipeIsOfThisRetirement
  BY DEF WipeIsOfThisRetirement, NoWipe
<1> QED
  BY <1>3, <1>4, <1>5, <1>7, <1>8 DEF CustodyInv

(* A route that commits row a: custody and trail, whatever else it does.     *)
LEMMA CommitStep ==
    ASSUME CustodyInv, NEW a \in Assets, NEW y, Sound(y), Commit(a, y),
           active' \subseteq Users, checked' \subseteq Assets \X Users,
           UNCHANGED order, record' \in [Assets -> {"NONE", "CANDIDATE", "BLOCKED", "RETIRED"}]
    PROVE  /\ CustodyAgrees' /\ TrailTellsCustody' /\ DOMAIN told' = Assets
           /\ asset'[a] = y /\ \A b \in Assets : b # a => asset'[b] = asset[b]
<1>1. CustodyAgrees /\ order \in [Assets -> DOMAIN OrderTransitions]
  BY DEF CustodyInv, CustodyAgrees, CustodyTypeOK
<1>2. CustodyAgrees' /\ asset'[a] = y /\ \A b \in Assets : b # a => asset'[b] = asset[b]
  BY <1>1, RowWritten DEF Commit
<1>3. DOMAIN told = Assets
  BY DEF CustodyInv, RestTypeOK
<1>4. DOMAIN told' = Assets /\ told'[a] = View(y) /\ \A b \in Assets : b # a => told'[b] = told[b]
  BY <1>3 DEF Commit
<1>5. TrailTellsCustody'
  BY <1>2, <1>4 DEF TrailTellsCustody, CustodyInv, View
<1> QED
  BY <1>2, <1>4, <1>5

(* What a step must say of the rest when it touches neither rows nor trail.  *)
LEMMA NoCommit ==
    ASSUME CustodyInv, UNCHANGED <<asset, told>>,
           active' \subseteq Users, checked' \subseteq Assets \X Users,
           order' \in [Assets -> DOMAIN OrderTransitions],
           record' \in [Assets -> {"NONE", "CANDIDATE", "BLOCKED", "RETIRED"}]
    PROVE  CustodyAgrees' /\ TrailTellsCustody' /\ DOMAIN told' = Assets
<1>1. CustodyAgrees'
  BY NoRowWritten DEF CustodyInv
<1> QED
  BY <1>1 DEF CustodyInv, TrailTellsCustody, RestTypeOK, View

(* An asset goes through the hands of users.                                 *)
LEMMA RowMovePreserves ==
    ASSUME CustodyInv, NEW a \in Assets, NEW y, MovesRow(a, y), UNCHANGED <<seat, order, recordVars>>,
           active' \subseteq Users, checked' \subseteq Assets \X Users, plan' \in [Assets -> Plans]
    PROVE  CustodyInv'
<1> USE DEF CustodyInv
<1>1. /\ CustodyAgrees' /\ TrailTellsCustody' /\ DOMAIN told' = Assets
      /\ asset'[a] = y /\ \A b \in Assets : b # a => asset'[b] = asset[b]
  BY CommitStep DEF MovesRow, recordVars, CustodyAgrees, CustodyTypeOK
<1>2. asset[a].life \notin Gone /\ asset'[a].life \notin Gone
  BY <1>1 DEF MovesRow
<1>3. dirty' \in [Assets -> BOOLEAN] /\ \A b \in Assets : b # a => dirty'[b] = dirty[b]
  BY DEF MovesRow, RestTypeOK
<1>4. RestTypeOK'
  BY <1>1, <1>3 DEF RestTypeOK, recordVars
<1>5. RetiredAssetIsClear'
  BY <1>1, <1>2 DEF RetiredAssetIsClear, OpenOrder
<1>6. WipeIsOfThisRetirement'
  BY <1>1, <1>2, <1>3 DEF WipeIsOfThisRetirement, recordVars
<1>7. FirstDisposalIsWiped'
  BY <1>1, <1>2, <1>3 DEF FirstDisposalIsWiped, recordVars, Gone
<1> QED
  BY <1>1, <1>4, <1>5, <1>6, <1>7

(* A step that leaves rows, trail, licences, orders and records alone.       *)
LEMMA BystanderPreserves ==
    ASSUME CustodyInv, UNCHANGED <<asset, told, dirty, seat, order, recordVars>>,
           active' \subseteq Users, checked' \subseteq Assets \X Users, plan' \in [Assets -> Plans]
    PROVE  CustodyInv'
<1>1. CustodyAgrees' /\ TrailTellsCustody'
  BY NoCommit DEF CustodyInv, CustodyAgrees, CustodyTypeOK, recordVars
<1> QED
  BY <1>1 DEF CustodyInv, RestTypeOK, RetiredAssetIsClear, WipeIsOfThisRetirement,
     FirstDisposalIsWiped, OpenOrder, recordVars

(* Reservations, assignments, transfers and returns preserve the invariant.  *)
LEMMA MovementPreserves == CustodyInv /\ MovementNext => CustodyInv'
<1> SUFFICES ASSUME CustodyInv, MovementNext PROVE CustodyInv'
  OBVIOUS
<1>1. /\ UNCHANGED <<active, seat, order, recordVars, plan>>
      /\ checked' \subseteq Assets \X Users
      /\ \/ UNCHANGED <<asset, told, dirty>>
         \/ \E a \in Assets : \E y : MovesRow(a, y)
  BY MovementStep DEF CustodyInv
<1>2. active' \subseteq Users /\ plan' \in [Assets -> Plans]
  BY <1>1 DEF CustodyInv, CustodyAgrees, CustodyTypeOK, RestTypeOK
<1> QED
  BY <1>1, <1>2, RowMovePreserves, BystanderPreserves

(* Steps on seats and maintenance work orders preserve the invariant.        *)
LEMMA ServicePreserves == CustodyInv /\ (SeatNext \/ MaintenanceNext) => CustodyInv'
<1> SUFFICES ASSUME CustodyInv, SeatNext \/ MaintenanceNext PROVE CustodyInv'
  OBVIOUS
<1> USE DEF CustodyInv
<1>0. PICK a \in Assets : \/ AssignSeat(a) \/ ReclaimSeat(a) \/ CreateMaintenance(a)
                          \/ \E t \in OrderTargets : TransitionMaintenance(a, t)
  BY CustodyAssumption DEF SeatNext, MaintenanceNext
<1>1. UNCHANGED <<asset, active, checked, recordVars, plan, told, dirty>>
  BY <1>0 DEF AssignSeat, ReclaimSeat, CreateMaintenance, TransitionMaintenance
<1>2. CASE AssignSeat(a) \/ ReclaimSeat(a)
  <2>1. UNCHANGED order
    BY <1>2 DEF AssignSeat, ReclaimSeat
  <2>2. /\ seat' \in [Assets -> BOOLEAN]
        /\ \A b \in Assets : seat'[b] => seat[b] \/ asset[b].life \notin Gone
    BY <1>2 DEF AssignSeat, ReclaimSeat, RestTypeOK, AssetEligible
  <2>3. CustodyAgrees' /\ TrailTellsCustody'
    BY <1>1, <2>1, NoCommit DEF CustodyAgrees, CustodyTypeOK, recordVars
  <2> QED
    BY <1>1, <2>1, <2>2, <2>3 DEF RestTypeOK, RetiredAssetIsClear, WipeIsOfThisRetirement,
       FirstDisposalIsWiped, OpenOrder, recordVars
<1>3. CASE CreateMaintenance(a) \/ \E t \in OrderTargets : TransitionMaintenance(a, t)
  <2>0. order \in [Assets -> DOMAIN OrderTransitions]
    BY DEF CustodyAgrees, CustodyTypeOK
  <2>1. UNCHANGED seat
    BY <1>3 DEF CreateMaintenance, TransitionMaintenance
  <2>2. PICK t \in DOMAIN OrderTransitions :
           /\ order' = [order EXCEPT ![a] = t]
           /\ OpenOrder(a) \/ asset[a].life \notin Gone
    BY <1>3, <2>0, OrderTable DEF CreateMaintenance, TransitionMaintenance, OpenOrder, AssetEligible
  <2>3. order' \in [Assets -> DOMAIN OrderTransitions]
    BY <2>0, <2>2
  <2>4. CustodyAgrees' /\ TrailTellsCustody'
    BY <1>1, <2>3, NoCommit DEF CustodyAgrees, CustodyTypeOK, recordVars
  <2>5. RetiredAssetIsClear'
    BY <1>1, <2>0, <2>1, <2>2 DEF RetiredAssetIsClear, OpenOrder
  <2> QED
    BY <1>1, <2>1, <2>4, <2>5 DEF RestTypeOK, WipeIsOfThisRetirement, FirstDisposalIsWiped, recordVars
<1> QED
  BY <1>0, <1>2, <1>3

(* Replacement plans, from review to completed migration, preserve the       *)
(* invariant.                                                                *)
LEMMA ReplacementPreserves == CustodyInv /\ ReplacementNext => CustodyInv'
<1> SUFFICES ASSUME CustodyInv, ReplacementNext PROVE CustodyInv'
  OBVIOUS
<1>0. /\ plan \in [Assets -> Plans] /\ Replaced \subseteq Assets
      /\ active \subseteq Users /\ checked \subseteq Assets \X Users
  BY CustodyAssumption DEF CustodyInv, RestTypeOK, CustodyAgrees, CustodyTypeOK
<1>1. ASSUME NEW a \in Replaced, NEW u \in Users, CreateReplacementPlan(a, u) PROVE CustodyInv'
  <2>1. plan' \in [Assets -> Plans]
    BY <1>0, <1>1 DEF CreateReplacementPlan, Plans
  <2> QED BY <1>0, <1>1, <2>1, BystanderPreserves DEF CreateReplacementPlan
<1>2. ASSUME NEW a \in Replaced, NEW d, ReviewReplacement(a, d) PROVE CustodyInv'
  <2>1. plan' \in [Assets -> Plans]
    BY <1>0, <1>2 DEF ReviewReplacement, Plans
  <2> QED BY <1>0, <1>2, <2>1, BystanderPreserves DEF ReviewReplacement
<1>3. ASSUME NEW a \in Replaced, NEW p, PlanReplacement(a, p) PROVE CustodyInv'
  <2>1. plan' \in [Assets -> Plans]
    BY <1>0, <1>3 DEF PlanReplacement, Plans
  <2> QED BY <1>0, <1>3, <2>1, BystanderPreserves DEF PlanReplacement
<1>4. ASSUME NEW a \in Replaced, NEW n \in Assets, MarkNewAssetReady(a, n) PROVE CustodyInv'
  <2>1. plan' \in [Assets -> Plans]
    BY <1>0, <1>4 DEF MarkNewAssetReady, Plans
  <2> QED BY <1>0, <1>4, <2>1, BystanderPreserves DEF MarkNewAssetReady
<1>5. ASSUME NEW a \in Replaced, StartMigration(a) PROVE CustodyInv'
  <2>1. plan' \in [Assets -> Plans]
    BY <1>0, <1>5 DEF StartMigration, Plans
  <2> QED BY <1>0, <1>5, <2>1, BystanderPreserves DEF StartMigration
<1>6. ASSUME NEW a \in Replaced, CompleteMigration(a) PROVE CustodyInv'
  <2> DEFINE n == plan[a].new
             u == plan[a].user
             y == AssignAsset(ReserveAsset(asset[n]), u)
  <2>1. n \in Assets /\ u \in Users
    BY <1>0, <1>6 DEF CompleteMigration
  <2>2. Sound(asset[n])
    BY <2>1, CustodyIsSound DEF CustodyInv
  <2>3. CanReserve(asset[n]) /\ Commit(n, y) /\ dirty' = [dirty EXCEPT ![n] = TRUE]
    BY <1>6 DEF CompleteMigration
  <2>4. Sound(ReserveAsset(asset[n])) /\ CanAssign(ReserveAsset(asset[n])) /\ asset[n].life = "AVAILABLE"
    BY <2>2, <2>3, ReserveRow
  <2>5. Sound(y) /\ y.life = "ASSIGNED" /\ y.request = "NONE"
    BY <2>1, <2>4, AssignRow
  <2>6. MovesRow(n, y)
    BY <2>3, <2>4, <2>5 DEF MovesRow, Gone
  <2>7. plan' \in [Assets -> Plans]
    BY <1>0, <1>6 DEF CompleteMigration, Plans
  <2>8. UNCHANGED <<active, seat, order, recordVars>> /\ checked' = {}
    BY <1>6 DEF CompleteMigration
  <2> HIDE DEF n, u, y
  <2> QED BY <1>0, <2>1, <2>6, <2>7, <2>8, RowMovePreserves
<1> QED
  BY <1>1, <1>2, <1>3, <1>4, <1>5, <1>6 DEF ReplacementNext

(* Retirement requires custody, licence and orders to be out of the way.     *)
LEMMA RetirePreserves ==
    ASSUME CustodyInv, NEW a \in Assets, NEW c, CreateRetirementCandidate(a) \/ Retire(a, c)
    PROVE  CustodyInv'
<1> USE DEF CustodyInv
<1>0. UNCHANGED <<active, checked, seat, order, wipe, reuse, disposal, plan, dirty>>
  BY DEF CreateRetirementCandidate, Retire
<1>1. /\ active' \subseteq Users /\ checked' \subseteq Assets \X Users
      /\ order' \in [Assets -> DOMAIN OrderTransitions]
      /\ record' \in [Assets -> {"NONE", "CANDIDATE", "BLOCKED", "RETIRED"}]
  BY <1>0 DEF CreateRetirementCandidate, Retire, CustodyAgrees, CustodyTypeOK
<1>2. CASE UNCHANGED <<asset, told>>
  <2>1. CustodyAgrees' /\ TrailTellsCustody'
    BY <1>1, <1>2, NoCommit
  <2> QED
    BY <1>0, <1>2, <2>1 DEF RestTypeOK, RetiredAssetIsClear, WipeIsOfThisRetirement,
       FirstDisposalIsWiped, OpenOrder
<1>3. CASE /\ ~ Blocked(a, c) /\ Commit(a, [asset[a] EXCEPT !.life = "RETIRED"])
           /\ asset[a].life \in {"AVAILABLE", "RETURNED", "REPAIR"}
  <2> DEFINE y == AtLife(asset[a], "RETIRED")
  <2>1. Sound(asset[a]) /\ asset[a].custody = "UNASSIGNED" /\ ~ seat[a] /\ ~ OpenOrder(a)
    BY <1>3, CustodyIsSound DEF Blocked
  <2>2. asset[a].holder = NoUser
    BY <1>3, <2>1, FreeStates
  <2>3. Sound(y) /\ y.life = "RETIRED" /\ y.holder = NoUser
    BY <2>1, <2>2, FreeRowMoves
  <2>4. Commit(a, y)
    BY <1>3 DEF AtLife
  <2> HIDE DEF y
  <2>5. /\ CustodyAgrees' /\ TrailTellsCustody' /\ DOMAIN told' = Assets
        /\ asset'[a] = y /\ \A b \in Assets : b # a => asset'[b] = asset[b]
    BY <1>0, <1>1, <2>3, <2>4, CommitStep
  <2>6. RetiredAssetIsClear'
    BY <1>0, <2>1, <2>3, <2>5 DEF RetiredAssetIsClear, OpenOrder
  <2>7. WipeIsOfThisRetirement' /\ FirstDisposalIsWiped'
    BY <1>0, <2>3, <2>5 DEF WipeIsOfThisRetirement, FirstDisposalIsWiped, Gone
  <2> QED
    BY <1>0, <2>5, <2>6, <2>7 DEF RestTypeOK
<1> QED
  BY <1>2, <1>3 DEF CreateRetirementCandidate, Retire

(* A wipe that starts is of the current retirement, and a passed one has     *)
(* cleaned the device.                                                       *)
LEMMA WipePreserves ==
    ASSUME CustodyInv, NEW a \in Assets, NEW m,
           NEW r \in {"PASS", "FAIL", "NOT_APPLICABLE", "PHYSICAL_DESTRUCTION_REQUIRED"},
           (m \in WipeMethods /\ StartWipe(a, m)) \/ ClaimWipe(a) \/ ReportWipe(a, r)
    PROVE  CustodyInv'
<1> USE DEF CustodyInv
<1>0. UNCHANGED <<asset, active, checked, seat, order, record, reuse, disposal, plan, told>>
  BY DEF StartWipe, ClaimWipe, ReportWipe
<1>1. CustodyAgrees' /\ TrailTellsCustody'
  BY <1>0, NoCommit DEF CustodyAgrees, CustodyTypeOK
<1>2. /\ wipe \in [Assets -> Wipes] /\ dirty \in [Assets -> BOOLEAN]
  BY DEF RestTypeOK
<1>3. /\ wipe' \in [Assets -> Wipes] /\ dirty' \in [Assets -> BOOLEAN]
      /\ \A b \in Assets : b # a => wipe'[b] = wipe[b] /\ dirty'[b] = dirty[b]
      /\ dirty'[a] => dirty[a]
      /\ wipe[a].state = "NONE" => asset[a].life \in Gone
      /\ wipe'[a].state = "COMPLETED" /\ wipe'[a].result = "PASS" => ~ dirty'[a]
  <2>1. CASE m \in WipeMethods /\ StartWipe(a, m)
    BY <1>2, <2>1 DEF StartWipe, Wipes, Gone
  <2>2. CASE ClaimWipe(a)
    BY <1>2, <2>2 DEF ClaimWipe, Wipes
  <2>3. CASE ReportWipe(a, r)
    <3>1. /\ wipe' \in [Assets -> Wipes] /\ \A b \in Assets : b # a => wipe'[b] = wipe[b]
          /\ wipe[a].state # "NONE" /\ wipe'[a].result = r
      <4> DEFINE s == IF r = "FAIL" THEN "FAILED" ELSE "COMPLETED"
                 w == [wipe EXCEPT ![a].state = s]
      <4>1. s \in {"FAILED", "COMPLETED"}
        OBVIOUS
      <4>2. wipe' = [w EXCEPT ![a].result = r] /\ wipe[a].state = "CLAIMED"
        BY <2>3, <1>2 DEF ReportWipe
      <4> HIDE DEF s
      <4>3. w \in [Assets -> Wipes] /\ \A b \in Assets : b # a => w[b] = wipe[b]
        BY <1>2, <4>1 DEF Wipes
      <4> HIDE DEF w
      <4> QED BY <4>2, <4>3 DEF Wipes
    <3>2. \A b \in Assets : b # a => dirty'[b] = dirty[b]
      BY <1>2, <2>3 DEF ReportWipe
    <3>3. dirty'[a] = (dirty[a] /\ r # "PASS")
      BY <1>2, <2>3 DEF ReportWipe
    <3>4. dirty' \in [Assets -> BOOLEAN]
      BY <1>2, <2>3, Zenon DEF ReportWipe
    <3> QED BY <3>1, <3>2, <3>3, <3>4
  <2> QED BY <2>1, <2>2, <2>3
<1>4. RestTypeOK'
  BY <1>0, <1>3 DEF RestTypeOK
<1>5. RetiredAssetIsClear'
  BY <1>0 DEF RetiredAssetIsClear, OpenOrder
<1>6. WipeIsOfThisRetirement'
  BY <1>0, <1>3 DEF WipeIsOfThisRetirement
<1>7. FirstDisposalIsWiped'
  BY <1>0, <1>2, <1>3 DEF FirstDisposalIsWiped
<1> QED
  BY <1>1, <1>4, <1>5, <1>6, <1>7

(* Disposal and reactivation end the retirement the wipe was of.             *)
LEMMA DisposalPreserves ==
    ASSUME CustodyInv, NEW a \in Assets, NEW m \in {"SELL", "DESTROY", "REUSE_INTERNAL"},
           Dispose(a, m) \/ Reactivate(a)
    PROVE  CustodyInv'
<1> USE DEF CustodyInv
<1>0. UNCHANGED <<active, checked, seat, order, record, wipe, plan, dirty>>
  BY DEF Dispose, Reactivate, recordVars
<1>1. /\ active' \subseteq Users /\ checked' \subseteq Assets \X Users
      /\ order' \in [Assets -> DOMAIN OrderTransitions]
      /\ record' \in [Assets -> {"NONE", "CANDIDATE", "BLOCKED", "RETIRED"}]
  BY <1>0 DEF CustodyAgrees, CustodyTypeOK
<1>2. /\ reuse \in [Assets -> BOOLEAN] /\ Sound(asset[a])
      /\ disposal \in [Assets -> {"NONE", "SELL", "DESTROY", "REUSE_INTERNAL"}]
  BY CustodyIsSound DEF RestTypeOK
<1>3. asset[a].life = "RETIRED"
  BY DEF Dispose, Reactivate
<1>4. asset[a].custody = "UNASSIGNED" /\ asset[a].holder = NoUser
  BY <1>2, <1>3, FreeStates
<1>5. CASE Dispose(a, m) /\ m = "REUSE_INTERNAL"
  <2>1. /\ UNCHANGED <<asset, told>>
        /\ reuse' = [reuse EXCEPT ![a] = TRUE] /\ disposal' = [disposal EXCEPT ![a] = m]
    BY <1>5 DEF Dispose
  <2>2. CustodyAgrees' /\ TrailTellsCustody'
    BY <1>1, <2>1, NoCommit
  <2>3. RestTypeOK'
    BY <1>0, <1>2, <2>1 DEF RestTypeOK
  <2>4. RetiredAssetIsClear' /\ WipeIsOfThisRetirement' /\ FirstDisposalIsWiped'
    BY <1>0, <1>2, <1>3, <2>1 DEF RetiredAssetIsClear, WipeIsOfThisRetirement, FirstDisposalIsWiped, OpenOrder
  <2> QED BY <2>2, <2>3, <2>4
<1>6. CASE Dispose(a, m) /\ m # "REUSE_INTERNAL"
  <2> DEFINE y == AtLife(asset[a], "DISPOSED")
  <2>1. /\ Commit(a, y) /\ UNCHANGED reuse /\ disposal' = [disposal EXCEPT ![a] = m]
        /\ m # "DESTROY" => wipe[a].state = "COMPLETED" /\ wipe[a].result = "PASS"
    BY <1>6 DEF Dispose, AtLife
  <2>2. Sound(y) /\ y.life = "DISPOSED" /\ y.holder = NoUser
    BY <1>2, <1>4, FreeRowMoves
  <2> HIDE DEF y
  <2>3. /\ CustodyAgrees' /\ TrailTellsCustody' /\ DOMAIN told' = Assets
        /\ asset'[a] = y /\ \A b \in Assets : b # a => asset'[b] = asset[b]
    BY <1>0, <1>1, <2>1, <2>2, CommitStep
  <2>4. RestTypeOK'
    BY <1>0, <1>2, <2>1, <2>3 DEF RestTypeOK
  <2>5. RetiredAssetIsClear' /\ WipeIsOfThisRetirement'
    BY <1>0, <1>3, <2>1, <2>2, <2>3 DEF RetiredAssetIsClear, WipeIsOfThisRetirement, OpenOrder, Gone
  <2>6. FirstDisposalIsWiped'
    BY <1>0, <1>2, <2>1, <2>3 DEF FirstDisposalIsWiped, WipeIsOfThisRetirement
  <2> QED BY <2>3, <2>4, <2>5, <2>6
<1>7. CASE Reactivate(a)
  <2> DEFINE y == AtLife(asset[a], "AVAILABLE")
  <2>1. [asset[a] EXCEPT !.life = "AVAILABLE", !.custody = "UNASSIGNED"] = y
    BY <1>2, <1>4 DEF AtLife, Sound, Row
  <2>2. Commit(a, y) /\ UNCHANGED <<reuse, disposal>> /\ reuse[a]
    BY <1>7, <2>1 DEF Reactivate, recordVars
  <2>3. Sound(y) /\ y.life = "AVAILABLE"
    BY <1>2, <1>4, FreeRowMoves
  <2> HIDE DEF y
  <2>4. /\ CustodyAgrees' /\ TrailTellsCustody' /\ DOMAIN told' = Assets
        /\ asset'[a] = y /\ \A b \in Assets : b # a => asset'[b] = asset[b]
    BY <1>0, <1>1, <2>2, <2>3, CommitStep
  <2>5. RestTypeOK'
    BY <1>0, <2>2, <2>4 DEF RestTypeOK
  <2>6. RetiredAssetIsClear' /\ WipeIsOfThisRetirement' /\ FirstDisposalIsWiped'
    BY <1>0, <2>2, <2>3, <2>4 DEF RetiredAssetIsClear, WipeIsOfThisRetirement, FirstDisposalIsWiped, OpenOrder, Gone
  <2> QED BY <2>4, <2>5, <2>6
<1> QED
  BY <1>5, <1>6, <1>7

(* Every step of the registry preserves the invariant.                       *)
LEMMA CustodyStep == CustodyInv /\ [CustodyNext]_custodyVars => CustodyInv'
<1> SUFFICES ASSUME CustodyInv, [CustodyNext]_custodyVars PROVE CustodyInv'
  OBVIOUS
<1>0. /\ active \subseteq Users /\ checked \subseteq Assets \X Users /\ plan \in [Assets -> Plans]
      /\ Retirable \subseteq Assets
  BY CustodyAssumption DEF CustodyInv, CustodyAgrees, CustodyTypeOK, RestTypeOK
<1>1. CASE MovementNext \/ SeatNext \/ MaintenanceNext \/ ReplacementNext
  BY <1>1, MovementPreserves, ServicePreserves, ReplacementPreserves
<1>2. CASE RetirementNext
  <2>1. ASSUME NEW a \in Retirable, NEW c \in BOOLEAN, CreateRetirementCandidate(a) \/ Retire(a, c)
        PROVE  CustodyInv'
    BY <1>0, <2>1, RetirePreserves
  <2>2. ASSUME NEW a \in Retirable, NEW m \in WipeMethods, StartWipe(a, m) PROVE CustodyInv'
    BY <1>0, <2>2, WipePreserves
  <2>3. ASSUME NEW a \in Retirable, ClaimWipe(a) PROVE CustodyInv'
    BY <1>0, <2>3, WipePreserves
  <2>4. ASSUME NEW a \in Retirable, Reactivate(a) PROVE CustodyInv'
    BY <1>0, <2>4, DisposalPreserves
  <2>5. ASSUME NEW a \in Retirable,
               NEW r \in {"PASS", "FAIL", "NOT_APPLICABLE", "PHYSICAL_DESTRUCTION_REQUIRED"}, ReportWipe(a, r)
        PROVE  CustodyInv'
    BY <1>0, <2>5, WipePreserves
  <2>6. ASSUME NEW a \in Retirable, NEW m \in {"SELL", "DESTROY", "REUSE_INTERNAL"}, Dispose(a, m)
        PROVE  CustodyInv'
    BY <1>0, <2>6, DisposalPreserves
  <2> QED BY <1>2, <2>1, <2>2, <2>3, <2>4, <2>5, <2>6 DEF RetirementNext
<1>3. ASSUME NEW u \in Users, UserLeaves(u) PROVE CustodyInv'
  <2>1. UNCHANGED <<asset, told, dirty, seat, order, recordVars, checked, plan>> /\ active' \subseteq Users
    BY <1>0, <1>3 DEF UserLeaves
  <2> QED BY <1>0, <2>1, BystanderPreserves
<1>4. CASE UNCHANGED custodyVars
  <2>1. UNCHANGED <<asset, told, dirty, seat, order, recordVars, checked, plan, active>>
    BY <1>4 DEF custodyVars
  <2> QED BY <1>0, <2>1, BystanderPreserves
<1> QED
  BY <1>1, <1>2, <1>3, <1>4 DEF CustodyNext

(* The inductive invariant of the custody commands: beside the properties    *)
(* below it says which retirement a wipe belongs to.                         *)
THEOREM CustodyInvariant == CustodySpec => []CustodyInv
<1>1. CustodyInit => CustodyInv
  BY CustodyInitInv
<1>2. CustodyInv /\ [CustodyNext]_custodyVars => CustodyInv'
  BY CustodyStep
<1> QED
  BY <1>1, <1>2, PTL DEF CustodySpec

(* For any assets and users, the four columns of three tables that describe  *)
(* the custody of an asset (lifecycle.ts, asset-lifecycle-routes.ts) tell    *)
(* one story after any sequence of commands.                                 *)
THEOREM CustodyAlwaysAgrees == CustodySpec => []CustodyAgrees
<1>1. CustodyInv => CustodyAgrees
  BY DEF CustodyInv
<1> QED
  BY <1>1, CustodyInvariant, PTL

(* The outbox tells where every asset is (the events of the asset routes).   *)
THEOREM TrailAlwaysTellsCustody == CustodySpec => []TrailTellsCustody
<1>1. CustodyInv => TrailTellsCustody
  BY DEF CustodyInv
<1> QED
  BY <1>1, CustodyInvariant, PTL

(* An asset that has left has no holder, no licence, no open order and, when *)
(* it leaves for the first time other than by destruction, no data (retire   *)
(* and dispose of asset-lifecycle-routes.ts).                                *)
THEOREM GoneAssetsAreClean == CustodySpec => []GoneAssetIsClean
<1>1. CustodyInv => GoneAssetIsClean
  BY DEF CustodyInv, GoneAssetIsClean
<1> QED
  BY <1>1, CustodyInvariant, PTL

-----------------------------------------------------------------------------
(* Offboarding: the custody of the assets and the process that clears them   *)

Clearances == [state : {"NONE", "PENDING", "BLOCKED"} \cup Resolved, ref : BOOLEAN,
               rec : {"NONE", "PENDING_RETURN", "RETURNED", "UNRETURNED", "MISSING"}]

Processes == [at : {"idle", "verify", "assets", "noted", "cancelled", "reclaiming", "finish", "end"},
              snap : {<<>>} \cup [Assets -> Clearances], stale : SUBSET Assets, todo : SUBSET Assets,
              list : {<<>>} \cup [Assets -> Row], cur : Assets \cup {NoAsset}]

ProcessTypeOK ==
    /\ pr \in Processes
    /\ ~ At("idle") => pr.snap \in [Assets -> Clearances]
    /\ At("noted") => pr.cur \in Assets
    /\ DOMAIN told = Assets

(* What is taken for a return, in the row, in a clearance or in what a       *)
(* reconciliation has read of one, is one: the asset is RETURNED.            *)
Returned(a) == asset[a].life = "RETURNED"

ReturnsAreReal ==
    \A a \in Assets :
        /\ asset[a].request = "FULFILLED" => Returned(a)
        /\ clr[a].state = "SUCCEEDED" \/ clr[a].rec = "RETURNED" => Returned(a)
        /\ ~ At("idle") /\ pr.snap[a].rec = "RETURNED" => Returned(a)

OffInv ==
    /\ CustodyAgrees /\ OffTypeOK /\ ProcessTypeOK
    /\ TrailLagsByReturnRequest
    /\ ReturnsAreReal
    /\ ReconcilesOpenCases

(* What the rest needs of the transition table of offboarding cases: each of *)
(* these commands has one target, whatever state it is given in.             *)
LEMMA CaseTable ==
    /\ {"NONE", "INITIATED", "IN_PROGRESS", "BLOCKED", "CANCELLATION_PENDING", "CANCELLED"} \subseteq DOMAIN CaseTransitions
    /\ \A s \in DOMAIN CaseTransitions :
          /\ "RESUME" \in DOMAIN CaseTransitions[s] => CaseTransitions[s]["RESUME"] = "IN_PROGRESS"
          /\ "MARK_READY" \in DOMAIN CaseTransitions[s] => CaseTransitions[s]["MARK_READY"] = "READY_TO_CLOSE"
          /\ "COMPLETE" \in DOMAIN CaseTransitions[s] => CaseTransitions[s]["COMPLETE"] = "COMPLETED"
          /\ "CANCEL" \in DOMAIN CaseTransitions[s] => CaseTransitions[s]["CANCEL"] = "CANCELLED"
    /\ {"READY_TO_CLOSE", "COMPLETED"} \subseteq DOMAIN CaseTransitions
  BY DEF CaseTransitions

(* The inductive invariant holds before a case is opened.                    *)
LEMMA OffInitInv == OffInit => OffInv
<1> SUFFICES ASSUME OffInit PROVE OffInv
  OBVIOUS
<1>1. CustodyInv
  BY CustodyInitInv DEF OffInit
<1> USE DEF OffInit
<1>2. OffTypeOK
  <2>1. oc \in [state : DOMAIN CaseTransitions, user : {"ACTIVE", "TERMINATING", "TERMINATED"}]
    BY CaseTable
  <2>2. NoClearance \in Clearances
    BY DEF NoClearance, Clearances
  <2>3. clr \in [Assets -> Clearances]
    BY <2>2
  <2>4. lease \in BOOLEAN
    OBVIOUS
  <2>5. crashes \in 0 .. MaxCrashes
    BY LeaverAssumption
  <2> QED BY <2>1, <2>3, <2>4, <2>5 DEF OffTypeOK, Clearances
<1>3. ProcessTypeOK
  BY <1>1 DEF ProcessTypeOK, Processes, Idle, At, CustodyInv, RestTypeOK
<1>4. TrailLagsByReturnRequest
  BY <1>1 DEF CustodyInv, TrailTellsCustody, TrailLagsByReturnRequest
<1>5. ReturnsAreReal
  BY DEF CustodyInit, ReturnsAreReal, NoClearance, At, Idle
<1>6. ReconcilesOpenCases
  BY DEF ReconcilesOpenCases, At, Idle
<1> QED
  BY <1>1, <1>2, <1>3, <1>4, <1>5, <1>6 DEF OffInv, CustodyInv

(* A step that leaves the assets and their trail alone.                      *)
LEMMA AssetsStay ==
    ASSUME OffInv, UNCHANGED <<asset, checked, told, otherCustody>>, active' \subseteq Users,
           OffTypeOK', ProcessTypeOK', ReconcilesOpenCases',
           \A a \in Assets :
              /\ clr'[a].state = "SUCCEEDED" \/ clr'[a].rec = "RETURNED" => Returned(a)
              /\ pr'.at # "idle" /\ pr'.snap[a].rec = "RETURNED" => Returned(a)
    PROVE  OffInv'
<1> USE DEF OffInv
<1>1. CustodyAgrees'
  BY DEF CustodyAgrees, CustodyTypeOK, otherCustody, recordVars
<1>2. TrailLagsByReturnRequest'
  BY DEF TrailLagsByReturnRequest, View
<1>3. ReturnsAreReal'
  BY DEF ReturnsAreReal, Returned, At
<1> QED
  BY <1>1, <1>2, <1>3

(* Commands on the case and on its recoveries, which leave clearances and    *)
(* the reconciliation alone.                                                 *)
LEMMA CaseMoves ==
    ASSUME OffInv, UNCHANGED <<asset, checked, told, otherCustody, clr, pr>>, active' \subseteq Users,
           oc' \in [state : DOMAIN CaseTransitions, user : {"ACTIVE", "TERMINATING", "TERMINATED"}],
           UNCHANGED lease \/ (lease' = FALSE /\ At("idle")), UNCHANGED crashes,
           oc'.state = oc.state \/ At("idle")
    PROVE  OffInv'
<1> USE DEF OffInv
<1>1. OffTypeOK'
  BY DEF OffTypeOK
<1>2. ProcessTypeOK'
  BY DEF ProcessTypeOK, At
<1>3. ReconcilesOpenCases'
  BY DEF ReconcilesOpenCases, At
<1>4. \A a \in Assets :
         /\ clr'[a].state = "SUCCEEDED" \/ clr'[a].rec = "RETURNED" => Returned(a)
         /\ pr'.at # "idle" /\ pr'.snap[a].rec = "RETURNED" => Returned(a)
  BY DEF ReturnsAreReal, At
<1> QED
  BY <1>1, <1>2, <1>3, <1>4, AssetsStay

(* The commands on the case, its license clearance and its recovery actions  *)
(* preserve the invariant.                                                   *)
LEMMA CaseCommandsPreserve ==
    ASSUME OffInv, \/ CaseOpens \/ CaseCommands \/ LeaseExpires \/ LicenseMoves \/ ResolveLicenseClearance
                   \/ \E r \in Recoveries, d \in {"SUCCEEDED", "WAIVED"} : ResolveRecoveryAction(r, d)
    PROVE  OffInv'
<1> USE DEF OffInv
<1> DEFINE Cases == [state : DOMAIN CaseTransitions, user : {"ACTIVE", "TERMINATING", "TERMINATED"}]
<1>0. /\ active \subseteq Users /\ Leaver \in Users /\ oc \in Cases
      /\ ~ At("idle") => lease /\ oc.state \in {"IN_PROGRESS", "BLOCKED"}
  BY LeaverAssumption DEF CustodyAgrees, CustodyTypeOK, OffTypeOK, ReconcilesOpenCases
<1> USE DEF custodyVars, otherCustody
<1>1. CASE CaseOpens
  <2>1. oc' \in Cases /\ active' \subseteq Users /\ oc.state \in {"NONE", "INITIATED"}
    BY <1>0, <1>1, CaseTable DEF CaseOpens, CreateOffboardingCase, StartExistingOffboarding, Move
  <2>2. UNCHANGED <<asset, checked, told, otherCustody, clr, pr, lease, crashes>>
    BY <1>1 DEF CaseOpens, CreateOffboardingCase, StartExistingOffboarding
  <2> QED BY <1>0, <2>1, <2>2, CaseMoves
<1>2. ASSUME NEW c \in {"RESUME", "MARK_READY", "COMPLETE", "CANCEL"}, TransitionOffboardingCase(c)
      PROVE  OffInv'
  <2>1. ~ lease /\ c \in DOMAIN CaseTransitions[oc.state]
    BY <1>2 DEF TransitionOffboardingCase, MayTransition
  <2>2. CaseTransitions[oc.state][c] \in DOMAIN CaseTransitions
    BY <1>0, <2>1, CaseTable
  <2>3. oc' \in Cases
    BY <1>0, <1>2, <2>2 DEF TransitionOffboardingCase
  <2>4. UNCHANGED <<asset, checked, told, active, otherCustody, clr, pr, lease, crashes>>
    BY <1>2 DEF TransitionOffboardingCase
  <2> QED BY <1>0, <2>1, <2>3, <2>4, CaseMoves
<1>3. CASE ReadBeforeCancel
  <2>1. UNCHANGED <<asset, checked, told, active, otherCustody, clr, pr, oc, lease, crashes>>
    BY <1>3 DEF ReadBeforeCancel
  <2> QED BY <1>0, <2>1, CaseMoves
<1>4. CASE RequestCancel
  <2>1. ~ lease /\ oc' \in Cases
    BY <1>0, <1>4, CaseTable DEF RequestCancel, MayTransition, Move
  <2>2. UNCHANGED <<asset, checked, told, active, otherCustody, clr, pr, lease, crashes>>
    BY <1>4 DEF RequestCancel
  <2> QED BY <1>0, <2>1, <2>2, CaseMoves
<1>5. CASE CompleteCancellation
  <2>1. ~ lease /\ oc' \in Cases /\ active' \subseteq Users
    BY <1>0, <1>5, CaseTable DEF CompleteCancellation, MayTransition
  <2>2. UNCHANGED <<asset, checked, told, otherCustody, clr, pr, lease, crashes>>
    BY <1>5 DEF CompleteCancellation
  <2> QED BY <1>0, <2>1, <2>2, CaseMoves
<1>6. CASE LeaseExpires
  <2>1. UNCHANGED <<asset, checked, told, active, otherCustody, clr, pr, oc, crashes>> /\ lease' = FALSE /\ At("idle")
    BY <1>6 DEF LeaseExpires
  <2> QED BY <1>0, <2>1, CaseMoves
<1>7. CASE \/ LicenseMoves \/ ResolveLicenseClearance
           \/ \E r \in Recoveries, d \in {"SUCCEEDED", "WAIVED"} : ResolveRecoveryAction(r, d)
  <2>1. UNCHANGED <<asset, checked, told, active, otherCustody, clr, pr, oc, lease, crashes>>
    BY <1>7 DEF LicenseMoves, ResolveLicenseClearance, ResolveRecoveryAction
  <2> QED BY <1>0, <2>1, CaseMoves
<1> QED
  BY <1>1, <1>2, <1>3, <1>4, <1>5, <1>6, <1>7 DEF CaseCommands

(* People set a clearance: never to SUCCEEDED, nor to RETURNED.              *)
LEMMA ClearanceSet ==
    ASSUME OffInv, NEW a \in Assets, NEW c \in Clearances, SetClearance(a, c),
           c.state # "SUCCEEDED", c.rec = "RETURNED" => clr[a].rec = "RETURNED",
           UNCHANGED <<custodyVars, oc, lease, crashes>>
    PROVE  OffInv'
<1> USE DEF OffInv
<1>0. clr \in [Assets -> Clearances] /\ pr \in Processes
  BY DEF OffTypeOK, Clearances, ProcessTypeOK
<1>1. /\ clr' \in [Assets -> Clearances] /\ clr'[a] = c /\ \A b \in Assets : b # a => clr'[b] = clr[b]
  BY <1>0 DEF SetClearance
<1>2. /\ pr' \in Processes /\ pr'.at = pr.at /\ pr'.snap = pr.snap /\ pr'.cur = pr.cur
  <2>1. (IF pr.at = "idle" THEN pr.stale ELSE pr.stale \cup {a}) \in SUBSET Assets
    BY <1>0 DEF Processes
  <2> QED BY <1>0, <2>1 DEF SetClearance, Processes
<1>3. OffTypeOK'
  BY <1>1 DEF OffTypeOK, Clearances
<1>4. ProcessTypeOK'
  BY <1>2 DEF ProcessTypeOK, At, custodyVars
<1>5. ReconcilesOpenCases'
  BY <1>2 DEF ReconcilesOpenCases, At
<1>6. \A b \in Assets :
         /\ clr'[b].state = "SUCCEEDED" \/ clr'[b].rec = "RETURNED" => Returned(b)
         /\ pr'.at # "idle" /\ pr'.snap[b].rec = "RETURNED" => Returned(b)
  BY <1>1, <1>2 DEF ReturnsAreReal, At
<1> QED
  BY <1>3, <1>4, <1>5, <1>6, AssetsStay DEF custodyVars, otherCustody, CustodyAgrees, CustodyTypeOK

(* An operator's decisions on an asset clearance preserve the invariant.     *)
LEMMA ClearanceCommandsPreserve ==
    ASSUME OffInv, NEW a \in Assets,
           \/ ResolveOffboardingClearance(a)
           \/ \E rec \in {"PENDING_RETURN", "UNRETURNED", "MISSING"} : SetAssetRecovery(a, rec)
    PROVE  OffInv'
<1>0. clr[a] \in Clearances
  BY DEF OffInv, OffTypeOK, Clearances
<1>1. CASE ResolveOffboardingClearance(a)
  <2> DEFINE c == [clr[a] EXCEPT !.state = "WAIVED", !.ref = FALSE]
  <2>1. c \in Clearances /\ c.state = "WAIVED" /\ c.rec = clr[a].rec
    BY <1>0 DEF Clearances, Resolved
  <2>2. SetClearance(a, c) /\ UNCHANGED <<custodyVars, oc, lease, crashes>>
    BY <1>1 DEF ResolveOffboardingClearance
  <2> HIDE DEF c
  <2> QED BY <2>1, <2>2, ClearanceSet
<1>2. ASSUME NEW rec \in {"PENDING_RETURN", "UNRETURNED", "MISSING"}, SetAssetRecovery(a, rec) PROVE OffInv'
  <2>1. PICK s \in {"BLOCKED", "PENDING"} : SetClearance(a, [state |-> s, rec |-> rec, ref |-> FALSE])
    BY <1>2 DEF SetAssetRecovery
  <2> DEFINE c == [state |-> s, rec |-> rec, ref |-> FALSE]
  <2>2. c \in Clearances /\ c.state # "SUCCEEDED" /\ c.rec # "RETURNED"
    BY DEF Clearances
  <2>3. UNCHANGED <<custodyVars, oc, lease, crashes>> /\ SetClearance(a, c)
    BY <1>2, <2>1 DEF SetAssetRecovery
  <2> HIDE DEF c
  <2> QED BY <2>2, <2>3, ClearanceSet
<1> QED
  BY <1>1, <1>2

(* A step of the reconciliation that writes one clearance or none and does   *)
(* not move an asset.  What it takes for a return is one.                    *)
LEMMA ProcessStep ==
    ASSUME OffInv, UNCHANGED <<custodyVars, crashes>>,
           pr' \in Processes, clr' \in [Assets -> Clearances], lease' \in BOOLEAN,
           oc' \in [state : DOMAIN CaseTransitions, user : {"ACTIVE", "TERMINATING", "TERMINATED"}],
           pr'.at # "idle" => /\ lease' /\ oc'.state \in {"IN_PROGRESS", "BLOCKED"}
                              /\ pr'.snap \in [Assets -> Clearances] /\ pr'.at # "noted"
                              /\ (pr'.snap = pr.snap /\ pr.at # "idle") \/ pr'.snap = clr,
           \A a \in Assets : clr'[a].state = "SUCCEEDED" \/ clr'[a].rec = "RETURNED" => Returned(a)
    PROVE  OffInv'
<1> USE DEF OffInv
<1>1. OffTypeOK'
  BY DEF OffTypeOK, Clearances
<1>2. ProcessTypeOK'
  BY DEF ProcessTypeOK, At, custodyVars
<1>3. ReconcilesOpenCases'
  BY DEF ReconcilesOpenCases, At
<1>4. \A a \in Assets : pr'.at # "idle" /\ pr'.snap[a].rec = "RETURNED" => Returned(a)
  BY DEF ReturnsAreReal, At
<1> QED
  BY <1>1, <1>2, <1>3, <1>4, AssetsStay DEF custodyVars, otherCustody, CustodyAgrees, CustodyTypeOK

(* What the steps of a running reconciliation start from.                    *)
LEMMA Running ==
    ASSUME OffInv
    PROVE  /\ pr \in Processes /\ clr \in [Assets -> Clearances] /\ lease \in BOOLEAN
           /\ oc \in [state : DOMAIN CaseTransitions, user : {"ACTIVE", "TERMINATING", "TERMINATED"}]
           /\ pr.at # "idle" => /\ lease /\ oc.state \in {"IN_PROGRESS", "BLOCKED"}
                                /\ pr.snap \in [Assets -> Clearances]
           /\ \A a \in Assets : /\ clr[a].state = "SUCCEEDED" \/ clr[a].rec = "RETURNED" => Returned(a)
                                /\ asset[a].request = "FULFILLED" => Returned(a)
                                /\ pr.at # "idle" /\ pr.snap[a].rec = "RETURNED" => Returned(a)
  BY DEF OffInv, OffTypeOK, Clearances, ProcessTypeOK, ReconcilesOpenCases, ReturnsAreReal, At

(* Recording a failed clearance as BLOCKED clears nothing.                   *)
LEMMA BlockedClearance ==
    ASSUME OffInv, NEW a \in Assets
    PROVE  /\ RecordBlocked(a) \in [Assets -> Clearances]
           /\ \A b \in Assets : /\ RecordBlocked(a)[b].state = "SUCCEEDED" => clr[b].state = "SUCCEEDED"
                                /\ RecordBlocked(a)[b].rec = clr[b].rec
<1>1. clr \in [Assets -> Clearances]
  BY Running
<1> DEFINE c == [clr EXCEPT ![a].state = "BLOCKED"]
<1>2. /\ c \in [Assets -> Clearances] /\ c[a].state = "BLOCKED" /\ c[a].rec = clr[a].rec
      /\ \A b \in Assets : b # a => c[b] = clr[b]
  BY <1>1 DEF Clearances
<1>3. RecordBlocked(a) = [c EXCEPT ![a].ref = FALSE]
  BY <1>1 DEF RecordBlocked
<1> HIDE DEF c
<1>4. /\ RecordBlocked(a) \in [Assets -> Clearances] /\ RecordBlocked(a)[a].state = "BLOCKED"
      /\ RecordBlocked(a)[a].rec = c[a].rec /\ \A b \in Assets : b # a => RecordBlocked(a)[b] = c[b]
  BY <1>2, <1>3 DEF Clearances
<1> QED
  BY <1>2, <1>4

(* A clearance written outright.                                             *)
LEMMA ClearanceWritten ==
    ASSUME OffInv, NEW a \in Assets, NEW s \in {"PENDING", "SUCCEEDED"},
           NEW rec \in {"PENDING_RETURN", "RETURNED"}, NEW f \in BOOLEAN,
           s = "SUCCEEDED" \/ rec = "RETURNED" => Returned(a),
           clr' = [clr EXCEPT ![a] = [state |-> s, rec |-> rec, ref |-> f]]
    PROVE  /\ clr' \in [Assets -> Clearances]
           /\ \A b \in Assets : clr'[b].state = "SUCCEEDED" \/ clr'[b].rec = "RETURNED" => Returned(b)
<1>1. [state |-> s, rec |-> rec, ref |-> f] \in Clearances
  BY DEF Clearances, Resolved
<1> QED
  BY <1>1, Running

(* The steps of a reconciliation that touch no asset preserve the invariant. *)
LEMMA ReconciliationPreserves ==
    ASSUME OffInv, \/ BeginOffboardingReconciliation \/ ListUserAssets \/ BlockOrResume
                   \/ EndOffboardingReconciliation \/ CrashReconciliation
                   \/ ClearLicense \/ NoteLicense
    PROVE  OffInv'
<1> USE Running DEF At
<1>0. Idle \in Processes /\ Idle.at = "idle"
  BY DEF Idle, Processes
<1>1. CASE BeginOffboardingReconciliation
  <2> DEFINE T == {a \in Assets : clr[a].state = "PENDING" /\ clr[a].ref}
  <2>1. T \in SUBSET Assets
    OBVIOUS
  <2>2. /\ pr' = [Idle EXCEPT !.at = "verify", !.snap = clr, !.todo = T]
        /\ lease' = TRUE /\ UNCHANGED <<custodyVars, oc, clr, crashes>> /\ oc.state \in {"IN_PROGRESS", "BLOCKED"}
    BY <1>1 DEF BeginOffboardingReconciliation
  <2> HIDE DEF T
  <2>3. pr' \in Processes /\ pr'.at = "verify" /\ pr'.snap = clr
    BY <1>0, <2>1, <2>2 DEF Processes
  <2> QED BY <2>2, <2>3, ProcessStep
<1>2. CASE ListUserAssets
  <2> DEFINE T == {a \in Assets : asset[a].holder = Leaver}
  <2>1. T \in SUBSET Assets
    OBVIOUS
  <2>2. /\ pr' = [pr EXCEPT !.at = "assets", !.list = asset, !.todo = T] /\ pr.at = "verify"
        /\ UNCHANGED <<custodyVars, oc, clr, lease, crashes>>
    BY <1>2 DEF ListUserAssets
  <2> HIDE DEF T
  <2>3. asset \in [Assets -> Row]
    BY CustodyIsSound DEF OffInv, CustodyTypeOK, Row
  <2>4. pr' \in Processes /\ pr'.at = "assets" /\ pr'.snap = pr.snap
    BY <2>1, <2>2, <2>3 DEF Processes
  <2> QED BY <2>2, <2>4, ProcessStep
<1>3. CASE BlockOrResume
  <2>1. /\ pr' = [pr EXCEPT !.at = "end"] /\ pr.at = "finish"
        /\ UNCHANGED <<custodyVars, clr, lease, crashes>>
    BY <1>3 DEF BlockOrResume, Goto
  <2>2. pr' \in Processes /\ pr'.at = "end" /\ pr'.snap = pr.snap
    BY <2>1 DEF Processes
  <2>3. \E s \in {"IN_PROGRESS", "BLOCKED"} : oc' = [oc EXCEPT !.state = s]
    BY <1>3, <2>1 DEF BlockOrResume
  <2>4. /\ oc' \in [state : DOMAIN CaseTransitions, user : {"ACTIVE", "TERMINATING", "TERMINATED"}]
        /\ oc'.state \in {"IN_PROGRESS", "BLOCKED"}
    BY <2>3, CaseTable
  <2> QED BY <2>1, <2>2, <2>4, ProcessStep
<1>4. CASE EndOffboardingReconciliation
  <2>1. pr' = Idle /\ lease' = FALSE /\ UNCHANGED <<custodyVars, oc, clr, crashes>>
    BY <1>4 DEF EndOffboardingReconciliation
  <2> QED BY <1>0, <2>1, ProcessStep
<1>5. CASE CrashReconciliation
  <2>1. pr' = Idle /\ crashes < MaxCrashes /\ crashes' = crashes + 1 /\ UNCHANGED <<custodyVars, oc, clr, lease>>
    BY <1>5 DEF CrashReconciliation
  <2>2. crashes' \in 0 .. MaxCrashes
    BY <2>1, LeaverAssumption DEF OffInv, OffTypeOK
  <2>3. OffTypeOK'
    BY <2>1, <2>2 DEF OffTypeOK, Clearances
  <2>4. ProcessTypeOK' /\ ReconcilesOpenCases'
    BY <1>0, <2>1 DEF ProcessTypeOK, ReconcilesOpenCases, custodyVars, OffInv
  <2>5. \A a \in Assets :
           /\ clr'[a].state = "SUCCEEDED" \/ clr'[a].rec = "RETURNED" => Returned(a)
           /\ pr'.at # "idle" /\ pr'.snap[a].rec = "RETURNED" => Returned(a)
    BY <1>0, <2>1
  <2> QED
    BY <2>1, <2>3, <2>4, <2>5, AssetsStay DEF custodyVars, otherCustody, OffInv, CustodyAgrees, CustodyTypeOK
<1>6. CASE ClearLicense \/ NoteLicense
  <2>1. PICK s \in {"finish", "cancelled", "reclaiming"} : pr' = [pr EXCEPT !.at = s]
    BY <1>6 DEF ClearLicense, NoteLicense, Goto
  <2>2. pr.at \in {"assets", "cancelled", "reclaiming"} /\ UNCHANGED <<custodyVars, oc, clr, lease, crashes>>
    BY <1>6 DEF ClearLicense, NoteLicense
  <2>3. pr' \in Processes /\ pr'.at = s /\ pr'.snap = pr.snap
    BY <2>1 DEF Processes
  <2> QED BY <2>2, <2>3, ProcessStep
<1> QED
  BY <1>1, <1>2, <1>3, <1>4, <1>5, <1>6

(* The steps that decide a clearance from what was read before.              *)
LEMMA ClearingPreserves ==
    ASSUME OffInv, NEW a \in Assets, VerifyReturn(a) \/ ClearKnownAsset(a)
    PROVE  OffInv'
<1> USE Running
<1>0. pr' = [pr EXCEPT !.todo = @ \ {a}] /\ pr.at \in {"verify", "assets"}
  BY DEF VerifyReturn, ClearKnownAsset, At
<1>1. pr' \in Processes /\ pr'.at = pr.at /\ pr'.snap = pr.snap
  BY <1>0 DEF Processes
<1>2. UNCHANGED <<custodyVars, oc, lease, crashes>>
  BY DEF VerifyReturn, ClearKnownAsset
<1>3. /\ clr' \in [Assets -> Clearances]
      /\ \A b \in Assets : clr'[b].state = "SUCCEEDED" \/ clr'[b].rec = "RETURNED" => Returned(b)
  <2>1. CASE clr' = clr
    BY <2>1
  <2>2. CASE clr' = RecordBlocked(a)
    BY <2>2, BlockedClearance
  <2>3. CASE VerifyReturn(a) /\ clr' # clr
    <3>1. /\ asset[a].request = "FULFILLED"
          /\ clr' = [clr EXCEPT ![a] = [state |-> "SUCCEEDED", rec |-> "RETURNED", ref |-> FALSE]]
      BY <2>3 DEF VerifyReturn
    <3> QED BY <3>1, ClearanceWritten
  <2>4. CASE ClearKnownAsset(a) /\ clr' # clr /\ clr' # RecordBlocked(a)
    <3>1. CASE /\ pr.snap[a].rec = "RETURNED"
               /\ clr' = [clr EXCEPT ![a].state = "SUCCEEDED", ![a].ref = FALSE]
      <4> DEFINE c == [clr EXCEPT ![a].state = "SUCCEEDED"]
      <4>1. Returned(a)
        BY <1>0, <3>1
      <4>2. /\ c \in [Assets -> Clearances] /\ c[a].rec = clr[a].rec /\ \A b \in Assets : b # a => c[b] = clr[b]
        BY DEF Clearances, Resolved
      <4>3. clr' = [c EXCEPT ![a].ref = FALSE]
        BY <3>1
      <4> HIDE DEF c
      <4>4. /\ clr' \in [Assets -> Clearances] /\ \A b \in Assets : b # a => clr'[b] = c[b]
        BY <4>2, <4>3 DEF Clearances
      <4> QED BY <4>1, <4>2, <4>4
    <3>2. CASE clr' = [clr EXCEPT ![a] = [state |-> "PENDING", rec |-> "PENDING_RETURN", ref |-> TRUE]]
      BY <3>2, ClearanceWritten
    <3> QED BY <2>4, <3>1, <3>2 DEF ClearKnownAsset
  <2> QED BY <2>1, <2>2, <2>3, <2>4
<1> QED
  BY <1>0, <1>1, <1>2, <1>3, ProcessStep

(* The transaction that notes a return request tells it, if it is still one. *)
LEMMA NotePreserves == ASSUME OffInv, NoteReturnRequest PROVE OffInv'
<1> USE Running
<1> DEFINE a == pr.cur
<1>0. a \in Assets /\ pr.at = "noted"
  BY DEF OffInv, ProcessTypeOK, NoteReturnRequest, At
<1>1. pr' \in Processes /\ pr'.at = "assets" /\ pr'.snap = pr.snap
  BY DEF NoteReturnRequest, Processes
<1>2. UNCHANGED <<asset, active, checked, otherCustody, oc, lease, crashes>>
  BY DEF NoteReturnRequest
<1>3. /\ clr' \in [Assets -> Clearances]
      /\ \A b \in Assets : clr'[b].state = "SUCCEEDED" \/ clr'[b].rec = "RETURNED" => Returned(b)
  <2>1. CASE clr' = clr
    BY <2>1
  <2>2. CASE clr' = RecordBlocked(a)
    BY <1>0, <2>2, BlockedClearance
  <2>3. CASE clr' = [clr EXCEPT ![a] = [state |-> "PENDING", rec |-> "PENDING_RETURN", ref |-> TRUE]]
    BY <1>0, <2>3, ClearanceWritten
  <2> QED BY <2>1, <2>2, <2>3 DEF NoteReturnRequest
<1>4. DOMAIN told = Assets
  BY DEF OffInv, ProcessTypeOK
<1>5. /\ DOMAIN told' = Assets /\ \A b \in Assets : told'[b] = told[b] \/ told'[b] = View(asset[b])
  BY <1>0, <1>4 DEF NoteReturnRequest
<1>6. CustodyAgrees'
  BY <1>2 DEF OffInv, CustodyAgrees, CustodyTypeOK, otherCustody, recordVars
<1>7. OffTypeOK'
  BY <1>2, <1>3 DEF OffInv, OffTypeOK, Clearances
<1>8. ProcessTypeOK' /\ ReconcilesOpenCases'
  BY <1>0, <1>1, <1>2, <1>5 DEF ProcessTypeOK, ReconcilesOpenCases, At
<1>9. TrailLagsByReturnRequest'
  BY <1>2, <1>5 DEF OffInv, TrailLagsByReturnRequest, View
<1>10. ReturnsAreReal'
  BY <1>0, <1>1, <1>2, <1>3 DEF ReturnsAreReal, Returned, At
<1> QED
  BY <1>6, <1>7, <1>8, <1>9, <1>10 DEF OffInv

(* One row is rewritten under the case, and it is no returned one.           *)
LEMMA RowMovesUnderCase ==
    ASSUME OffInv, NEW a \in Assets, NEW y, Sound(y), asset' = [asset EXCEPT ![a] = y],
           asset[a].life # "RETURNED", y.request = "FULFILLED" => y.life = "RETURNED",
           UNCHANGED <<active, order, recordVars, oc, lease, crashes>>, checked' \subseteq Assets \X Users,
           pr' \in Processes, pr'.snap = pr.snap, pr'.at # "idle" => pr.at # "idle",
           pr'.at = "noted" => pr'.cur \in Assets, UNCHANGED clr,
           DOMAIN told' = Assets, \A b \in Assets : b # a => told'[b] = told[b],
           \/ told'[a] = View(y)
           \/ told'[a] = <<y.life, "ASSIGNED", y.holder>> /\ y.custody = "PENDING_RETURN"
    PROVE  OffInv'
<1> USE Running DEF OffInv
<1>1. CustodyAgrees' /\ asset'[a] = y /\ \A b \in Assets : b # a => asset'[b] = asset[b]
  BY RowWritten DEF CustodyAgrees, CustodyTypeOK, recordVars
<1>2. OffTypeOK'
  BY DEF OffTypeOK
<1>3. ProcessTypeOK' /\ ReconcilesOpenCases'
  BY DEF ProcessTypeOK, ReconcilesOpenCases, At
<1>4. TrailLagsByReturnRequest'
  BY <1>1 DEF TrailLagsByReturnRequest, View
<1>5. ReturnsAreReal'
  BY <1>1 DEF ReturnsAreReal, Returned, At
<1> QED
  BY <1>1, <1>2, <1>3, <1>4, <1>5

(* The return request that a reconciliation makes in the asset module        *)
(* preserves the invariant.                                                  *)
LEMMA RequestForCasePreserves == ASSUME OffInv, NEW a \in Assets, RequestReturnForCase(a) PROVE OffInv'
<1> USE Running
<1>0. pr.at = "assets" /\ UNCHANGED <<active, checked, told, otherCustody, oc, lease, crashes>>
  BY DEF RequestReturnForCase, At
<1>1. CASE /\ InUse(asset[a]) /\ asset' = [asset EXCEPT ![a] = RequestReturn(asset[a])] /\ UNCHANGED clr
           /\ pr' = [pr EXCEPT !.at = "noted", !.todo = @ \ {a}, !.cur = a]
  <2>1. Sound(asset[a])
    BY CustodyIsSound DEF OffInv
  <2> DEFINE y == RequestReturn(asset[a])
  <2>2. /\ Sound(y) /\ y.life = "ASSIGNED" /\ y.custody = "PENDING_RETURN" /\ y.request = "PENDING"
        /\ y.holder = asset[a].holder /\ asset[a].life = "ASSIGNED" /\ asset[a].custody = "ASSIGNED"
    BY <1>1, <2>1, RequestRow
  <2>3. told[a] = View(asset[a]) /\ DOMAIN told = Assets /\ checked \subseteq Assets \X Users
    BY <2>2 DEF OffInv, TrailLagsByReturnRequest, ProcessTypeOK, CustodyAgrees, CustodyTypeOK
  <2>4. told[a] = <<y.life, "ASSIGNED", y.holder>>
    BY <2>2, <2>3 DEF View
  <2>5. pr' \in Processes /\ pr'.at = "noted" /\ pr'.snap = pr.snap /\ pr'.cur = a
    BY <1>1 DEF Processes
  <2>6. asset' = [asset EXCEPT ![a] = y]
    BY <1>1
  <2> HIDE DEF y
  <2> QED
    BY <1>0, <1>1, <2>2, <2>3, <2>4, <2>5, <2>6, RowMovesUnderCase DEF otherCustody
<1>2. CASE clr' = RecordBlocked(a) /\ pr' = [pr EXCEPT !.todo = @ \ {a}] /\ UNCHANGED asset
  <2>1. pr' \in Processes /\ pr'.at = "assets" /\ pr'.snap = pr.snap
    BY <1>0, <1>2 DEF Processes
  <2> QED
    BY <1>0, <1>2, <2>1, BlockedClearance, ProcessStep DEF custodyVars, otherCustody
<1> QED
  BY <1>1, <1>2 DEF RequestReturnForCase

(* Recovering a return request after a lost answer preserves the invariant.  *)
LEMMA RecoveryPreserves == ASSUME OffInv, NEW a \in Assets, RecoverAssetReturn(a) PROVE OffInv'
<1> DEFINE y == CancelReturnRequest(asset[a])
<1>1. /\ Commit(a, y) /\ CanCancelReturn(asset[a]) /\ UNCHANGED <<active, checked, otherCustody, caseVars>>
  BY DEF RecoverAssetReturn
<1>2. Sound(asset[a]) /\ DOMAIN told = Assets /\ checked \subseteq Assets \X Users /\ pr \in Processes
  BY CustodyIsSound DEF OffInv, ProcessTypeOK, CustodyTypeOK
<1>3. Sound(y) /\ asset[a].life = "ASSIGNED" /\ y.request = "CANCELLED"
  BY <1>1, <1>2, CancelRow
<1> HIDE DEF y
<1>4. DOMAIN told' = Assets /\ told'[a] = View(y) /\ \A b \in Assets : b # a => told'[b] = told[b]
  BY <1>1, <1>2 DEF Commit
<1>5. pr.at = "noted" => pr.cur \in Assets
  BY DEF OffInv, ProcessTypeOK, At
<1> QED
  BY <1>1, <1>2, <1>3, <1>4, <1>5, RowMovesUnderCase DEF Commit, otherCustody, caseVars

(* What happens to the assets outside the case preserves the invariant: a    *)
(* listed asset that moves on is caught by the checks of the later steps.    *)
LEMMA AssetsMovePreserves == ASSUME OffInv, AssetsMove PROVE OffInv'
<1>0. UNCHANGED caseVars /\ pr \in Processes /\ DOMAIN told = Assets /\ (pr.at = "noted" => pr.cur \in Assets)
  BY DEF AssetsMove, OffInv, ProcessTypeOK, At
<1>1. /\ UNCHANGED <<active, seat, order, recordVars, plan>>
      /\ checked' \subseteq Assets \X Users
      /\ \/ UNCHANGED <<asset, told, dirty>>
         \/ \E a \in Assets : \E y : MovesRow(a, y)
  BY MovementStep DEF AssetsMove, OffInv
<1>2. CASE UNCHANGED <<asset, told>>
  <2>1. CustodyAgrees'
    BY <1>1, <1>2 DEF OffInv, CustodyAgrees, CustodyTypeOK, recordVars
  <2> QED
    BY <1>0, <1>2, <2>1 DEF OffInv, OffTypeOK, ProcessTypeOK, TrailLagsByReturnRequest, ReturnsAreReal, Returned,
       ReconcilesOpenCases, At, View, caseVars
<1>3. ASSUME NEW a \in Assets, NEW y, MovesRow(a, y) PROVE OffInv'
  <2>1. Sound(y) /\ Commit(a, y) /\ asset[a].life # "RETURNED"
    BY <1>3 DEF MovesRow
  <2>2. asset[a].request # "FULFILLED"
    BY <2>1, Running DEF Returned
  <2>3. y.request = "FULFILLED" => y.life = "RETURNED"
    BY <1>3, <2>2 DEF MovesRow
  <2>4. DOMAIN told' = Assets /\ told'[a] = View(y) /\ \A b \in Assets : b # a => told'[b] = told[b]
    BY <1>0, <2>1 DEF Commit
  <2> QED
    BY <1>0, <1>1, <2>1, <2>3, <2>4, RowMovesUnderCase DEF Commit, caseVars
<1> QED
  BY <1>1, <1>2, <1>3

(* Every step of offboarding and of the registry under it preserves the      *)
(* invariant.                                                                *)
LEMMA OffStep == OffInv /\ [OffNext]_offVars => OffInv'
<1> SUFFICES ASSUME OffInv, [OffNext]_offVars PROVE OffInv'
  OBVIOUS
<1>1. CASE CaseOpens \/ CaseCommands \/ LeaseExpires \/ LicenseMoves
  BY <1>1, CaseCommandsPreserve
<1>2. CASE Reconcile \/ CrashReconciliation
  BY <1>2, ReconciliationPreserves, ClearingPreserves, NotePreserves, RequestForCasePreserves DEF Reconcile
<1>3. CASE ClearanceCommands
  BY <1>3, CaseCommandsPreserve, ClearanceCommandsPreserve DEF ClearanceCommands
<1>4. CASE RecoveryCommands
  BY <1>4, CaseCommandsPreserve, RecoveryPreserves DEF RecoveryCommands
<1>5. CASE AssetsMove
  BY <1>5, AssetsMovePreserves
<1>6. CASE UNCHANGED offVars
  BY <1>6 DEF offVars, custodyVars, caseVars, recordVars, OffInv, CustodyAgrees, CustodyTypeOK, OffTypeOK, ProcessTypeOK,
     TrailLagsByReturnRequest, ReturnsAreReal, Returned, ReconcilesOpenCases, At, View
<1> QED
  BY <1>1, <1>2, <1>3, <1>4, <1>5, <1>6 DEF OffNext

(* The inductive invariant of offboarding: what is taken for a return, in a  *)
(* row, a clearance or a reading of one, is one.                             *)
THEOREM OffboardingInvariant == OffSpec => []OffInv
<1>1. OffInit => OffInv
  BY OffInitInv
<1>2. OffInv /\ [OffNext]_offVars => OffInv'
  BY OffStep
<1> QED
  BY <1>1, <1>2, PTL DEF OffSpec

(* For any number of assets and any interleaving of reconciliations,         *)
(* commands and crashes, processClearances succeeds a clearance only for an  *)
(* asset the leaver does not hold, and writes only to open cases.            *)
THEOREM ReconciliationAlwaysSafe == OffSpec => []ReconciliationIsSafe
<1>1. OffInv => ReconciliationIsSafe
  <2> SUFFICES ASSUME OffInv PROVE ReconciliationIsSafe
    OBVIOUS
  <2>1. ASSUME NEW a \in Assets, clr[a].state = "SUCCEEDED" PROVE asset[a].holder # Leaver
    <3>1. asset[a].life = "RETURNED" /\ Sound(asset[a])
      BY <2>1, Running, CustodyIsSound DEF Returned, OffInv
    <3>2. asset[a].holder = NoUser
      BY <3>1, FreeStates
    <3> QED BY <3>2, CustodyAssumption, LeaverAssumption
  <2> QED BY <2>1 DEF OffInv, ReconciliationIsSafe, SucceededMeansReturned
<1> QED
  BY <1>1, OffboardingInvariant, PTL

(* A crash leaves the trail behind by a return request at most               *)
(* (requestReturn and the transaction after it in offboarding-routes.ts).    *)
THEOREM TrailAlwaysLagsByReturnRequest == OffSpec => []TrailLagsByReturnRequest
<1>1. OffInv => TrailLagsByReturnRequest
  BY DEF OffInv
<1> QED
  BY <1>1, OffboardingInvariant, PTL
=============================================================================
