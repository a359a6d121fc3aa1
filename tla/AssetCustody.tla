---------------------------- MODULE AssetCustody ----------------------------
(***************************************************************************)
(* The custody and the end of life of an asset: reservation, assignment,   *)
(* transfer and return (modules/asset/application/lifecycle.ts and the     *)
(* asset routes of apps/api/src/server.ts), replacement, retirement, wipe, *)
(* disposal and reactivation (apps/api/src/asset-lifecycle-routes.ts), the *)
(* agent's side of a wipe (apps/agent-gateway/src/asset-wipe-routes.ts)    *)
(* and maintenance orders (modules/maintenance/application).               *)
(*                                                                         *)
(* A command is one transaction that locks the asset row and checks the    *)
(* version its caller read, so it acts at once or not at all.  The one     *)
(* thing read without a lock is the employment of the user an asset goes   *)
(* to: CheckUser is that read, and the command that uses it comes later.   *)
(* Approvals are requests bound to the record and the inputs of a command; *)
(* an operator can always obtain one, so they are no guards here.          *)
(*                                                                         *)
(* told[a] is the custody of a as the outbox tells it.  dirty[a] is not in *)
(* the program: somebody held the device and no wipe of it has passed      *)
(* since.                                                                  *)
(***************************************************************************)
EXTENDS Naturals, FiniteSets

CONSTANTS Assets, Users,
          Incoming,                      \* the assets not registered yet; the others are in stock
          Replaced, Retirable, Serviced, \* the assets that get a plan, a retirement, orders
          OrderTargets,                  \* target states asked of maintenance orders
          WipeMethods,
          MaxWipes,                      \* bound: wipe generations of an asset
          AdmitsRetired,                 \* does the gateway serve agents of retired assets?
          NoUser, NoAsset

ASSUME CustodyAssumption ==
    /\ Incoming \cup Replaced \cup Retirable \cup Serviced \subseteq Assets
    /\ NoUser \notin Users

VARIABLES asset, active, checked, seat, order, record, wipe, reuse, plan, told, dirty, disposal

recordVars == <<record, wipe, reuse, disposal>>
custodyVars == <<asset, active, checked, seat, order, recordVars, plan, told, dirty>>

Gone == {"RETIRED", "DISPOSED"}
Held == {"ASSIGNED", "PENDING_RETURN"}
NoWipe == [state |-> "NONE", result |-> "NONE", method |-> "NONE", gen |-> 0]
NoPlan == [state |-> "NONE", new |-> NoAsset, user |-> NoUser]
View(x) == <<x.life, x.custody, x.holder>>

CustodyInit ==
    /\ asset = [a \in Assets |->
            [life |-> IF a \in Incoming THEN "NONE" ELSE "AVAILABLE", custody |-> "UNASSIGNED",
             holder |-> NoUser, reserved |-> FALSE, request |-> "NONE"]]
    /\ active = Users
    /\ checked = {}
    /\ seat = [a \in Assets |-> FALSE]
    /\ order = [a \in Assets |-> "NONE"]
    /\ record = [a \in Assets |-> "NONE"]
    /\ wipe = [a \in Assets |-> NoWipe]
    /\ reuse = [a \in Assets |-> FALSE]
    /\ plan = [a \in Assets |-> NoPlan]
    /\ told = [a \in Assets |-> View(asset[a])]
    /\ dirty = [a \in Assets |-> FALSE]
    /\ disposal = [a \in Assets |-> "NONE"]

-----------------------------------------------------------------------------
(* The lifecycle table and the commands of modules/asset.  An operator here  *)
(* says what becomes of the asset row; the routes below add the event.       *)

Transitions == [s \in {"NONE", "PLANNED", "PURCHASED", "RECEIVED", "AVAILABLE", "RESERVED", "ASSIGNED",
                       "IN_USE", "REPAIR", "RETURNED", "RETIRED", "DISPOSED"} |->
    CASE s = "PLANNED" -> {"PURCHASED"}       [] s = "PURCHASED" -> {"RECEIVED"}
      [] s = "RECEIVED" -> {"AVAILABLE"}      [] s = "AVAILABLE" -> {"RESERVED", "RETIRED"}
      [] s = "RESERVED" -> {"ASSIGNED"}       [] s = "ASSIGNED" -> {"IN_USE"}
      [] s = "IN_USE" -> {"REPAIR", "RETURNED"} [] s = "REPAIR" -> {"IN_USE", "AVAILABLE"}
      [] s = "RETURNED" -> {"REPAIR", "AVAILABLE", "RETIRED"}
      [] s = "RETIRED" -> {"DISPOSED"}        [] OTHER -> {}]

TransitionLifecycle(x, target) ==
    [x EXCEPT !.life = target,
              !.custody = CASE target = "RESERVED" -> "RESERVED"
                            [] target = "AVAILABLE" -> "UNASSIGNED"
                            [] OTHER -> @]

(* Nothing ever ends a reservation, and one ACTIVE row per asset is allowed. *)
CanReserve(x) == "RESERVED" \in Transitions[x.life] /\ ~ x.reserved
ReserveAsset(x) == [TransitionLifecycle(x, "RESERVED") EXCEPT !.reserved = TRUE]

CanAssign(x) == "ASSIGNED" \in Transitions[x.life] /\ x.holder = NoUser
AssignAsset(x, u) ==
    [TransitionLifecycle(x, "ASSIGNED") EXCEPT !.custody = "ASSIGNED", !.holder = u, !.request = "NONE"]

InUse(x) == x.life \in {"ASSIGNED", "IN_USE"} /\ x.custody = "ASSIGNED" /\ x.holder # NoUser
TransferAsset(x, u) == [x EXCEPT !.holder = u, !.request = IF u = x.holder THEN @ ELSE "NONE"]

RequestReturn(x) == [x EXCEPT !.custody = "PENDING_RETURN", !.request = "PENDING"]

CanReceive(x) == x.custody = "PENDING_RETURN" /\ x.request = "PENDING"
ReceiveReturn(x) ==
    [x EXCEPT !.life = "RETURNED", !.custody = "UNASSIGNED", !.holder = NoUser, !.request = "FULFILLED"]

(* Asked again for a request that is already cancelled, it changes nothing.  *)
CanCancelReturn(x) == x.request = "PENDING" /\ x.custody = "PENDING_RETURN"
CancelReturnRequest(x) == [x EXCEPT !.custody = "ASSIGNED", !.request = "CANCELLED"]

AssetEligible(a) == asset[a].life \notin Gone \cup {"NONE"}

-----------------------------------------------------------------------------
(* The routes.  Each commits the row, its event and the audit entry at once. *)

Commit(a, x) ==
    /\ asset' = [asset EXCEPT ![a] = x]
    /\ told' = [told EXCEPT ![a] = View(x)]

CreateAsset(a) ==
    /\ asset[a].life = "NONE"
    /\ Commit(a, [asset[a] EXCEPT !.life = "PLANNED"])
    /\ UNCHANGED <<active, checked, seat, order, recordVars, plan, dirty>>

RegisterReceivedAsset(a) ==
    /\ asset[a].life = "NONE"
    /\ Commit(a, [asset[a] EXCEPT !.life = "RECEIVED"])
    /\ UNCHANGED <<active, checked, seat, order, recordVars, plan, dirty>>

(* No command of the program makes a new asset AVAILABLE.                    *)
PutInStock(a) ==
    /\ asset[a].life \in {"PLANNED", "RECEIVED"}
    /\ Commit(a, [asset[a] EXCEPT !.life = "AVAILABLE"])
    /\ UNCHANGED <<active, checked, seat, order, recordVars, plan, dirty>>

(* The caller read the asset before (the command carries its version), so it *)
(* was fit for the command then.                                             *)
CheckUser(a, u) ==
    /\ u \in active
    /\ checked = {}
    /\ \/ CanAssign(asset[a]) \/ InUse(asset[a])
       \/ \E b \in Assets : plan[b].state = "MIGRATING" /\ plan[b].new = a /\ plan[b].user = u
    /\ checked' = {<<a, u>>}
    /\ UNCHANGED <<asset, active, seat, order, recordVars, plan, told, dirty>>

UserLeaves(u) ==
    /\ active' = active \ {u}
    /\ UNCHANGED <<asset, checked, seat, order, recordVars, plan, told, dirty>>

Reserve(a) ==
    /\ CanReserve(asset[a])
    /\ Commit(a, ReserveAsset(asset[a]))
    /\ UNCHANGED <<active, checked, seat, order, recordVars, plan, dirty>>

Assign(a, u) ==
    /\ <<a, u>> \in checked
    /\ CanAssign(asset[a])
    /\ Commit(a, AssignAsset(asset[a], u))
    /\ checked' = {}
    /\ dirty' = [dirty EXCEPT ![a] = TRUE]
    /\ UNCHANGED <<active, seat, order, recordVars, plan>>

(* The transaction fails at a guard: the read is forgotten with it.          *)
CheckedCommandFails ==
    /\ checked # {}
    /\ checked' = {}
    /\ UNCHANGED <<asset, active, seat, order, recordVars, plan, told, dirty>>

Transfer(a, u) ==
    /\ <<a, u>> \in checked
    /\ InUse(asset[a])
    /\ Commit(a, TransferAsset(asset[a], u))
    /\ checked' = {}
    /\ UNCHANGED <<active, seat, order, recordVars, plan, dirty>>

RequestReturnRoute(a) ==
    /\ InUse(asset[a])
    /\ Commit(a, RequestReturn(asset[a]))
    /\ UNCHANGED <<active, checked, seat, order, recordVars, plan, dirty>>

(* Fault: the holder is not cleared. *)
ReceiveReturnKeepingHolder(a) ==
    /\ CanReceive(asset[a])
    /\ Commit(a, [asset[a] EXCEPT !.life = "RETURNED", !.custody = "UNASSIGNED", !.request = "FULFILLED"])
    /\ UNCHANGED <<active, checked, seat, order, recordVars, plan, dirty>>

ReceiveReturnRoute(a) ==
    /\ CanReceive(asset[a])
    /\ Commit(a, ReceiveReturn(asset[a]))
    /\ UNCHANGED <<active, checked, seat, order, recordVars, plan, dirty>>

(* A license for the asset: the row is locked and must not be retired.       *)
(* Fault: the state of the asset is not looked at. *)
AssignSeatUnchecked(a) ==
    /\ ~ seat[a]
    /\ seat' = [seat EXCEPT ![a] = TRUE]
    /\ UNCHANGED <<asset, active, checked, order, recordVars, plan, told, dirty>>

AssignSeat(a) ==
    /\ AssetEligible(a)
    /\ ~ seat[a]
    /\ seat' = [seat EXCEPT ![a] = TRUE]
    /\ UNCHANGED <<asset, active, checked, order, recordVars, plan, told, dirty>>

ReclaimSeat(a) ==
    /\ seat[a]
    /\ seat' = [seat EXCEPT ![a] = FALSE]
    /\ UNCHANGED <<asset, active, checked, order, recordVars, plan, told, dirty>>

-----------------------------------------------------------------------------
(* Maintenance orders                                                        *)

OrderDone == {"COMPLETED", "CANCELLED", "FAILED"}

OrderTransitions == [s \in {"NONE", "DRAFT", "OPEN", "DIAGNOSING", "WAITING_APPROVAL", "WAITING_PART",
                            "WAITING_VENDOR", "IN_REPAIR", "VERIFYING"} \cup OrderDone |->
    CASE s = "DRAFT" -> {"OPEN", "CANCELLED"}
      [] s = "OPEN" -> {"DIAGNOSING", "CANCELLED"}
      [] s = "DIAGNOSING" -> {"WAITING_APPROVAL", "WAITING_PART", "WAITING_VENDOR", "IN_REPAIR"}
      [] s \in {"WAITING_APPROVAL", "WAITING_PART", "WAITING_VENDOR"} -> {"IN_REPAIR", "CANCELLED"}
      [] s = "IN_REPAIR" -> {"VERIFYING", "FAILED"}
      [] s = "VERIFYING" -> {"COMPLETED", "FAILED"}
      [] OTHER -> {}]

OpenOrder(a) == order[a] \notin OrderDone \cup {"NONE"}

(* bound: an asset has one order at a time                                   *)
CreateMaintenance(a) ==
    /\ AssetEligible(a)
    /\ ~ OpenOrder(a)
    /\ order' = [order EXCEPT ![a] = "DRAFT"]
    /\ UNCHANGED <<asset, active, checked, seat, recordVars, plan, told, dirty>>

(* Classification corrections move only the version, which is not modelled.  *)
TransitionMaintenance(a, target) ==
    /\ target \in OrderTransitions[order[a]]
    /\ order' = [order EXCEPT ![a] = target]
    /\ UNCHANGED <<asset, active, checked, seat, recordVars, plan, told, dirty>>

-----------------------------------------------------------------------------
(* Replacement plans.  bound: one plan for an asset.                         *)

CreateReplacementPlan(a, u) ==
    /\ plan[a].state = "NONE"
    /\ AssetEligible(a)
    /\ plan' = [plan EXCEPT ![a] = [state |-> "UNDER_REVIEW", new |-> NoAsset, user |-> u]]
    /\ UNCHANGED <<asset, active, checked, seat, order, recordVars, told, dirty>>

(* A review looks at no state: a plan that is MIGRATING or REPLACED can be   *)
(* deferred, cancelled or approved again.                                    *)
ReviewReplacement(a, decision) ==
    /\ plan[a].state # "NONE"
    /\ plan' = [plan EXCEPT ![a].state =
            CASE decision = "DEFER" -> "UNDER_REVIEW"
              [] decision = "APPROVE_REPLACEMENT" -> "APPROVED"
              [] OTHER -> "CANCELLED"]
    /\ UNCHANGED <<asset, active, checked, seat, order, recordVars, told, dirty>>

(* procure: the plan needs procurement first; nothing moves it on from there. *)
PlanReplacement(a, procure) ==
    /\ plan[a].state = "APPROVED"
    /\ plan' = [plan EXCEPT ![a].state = IF procure THEN "PROCUREMENT" ELSE "PLANNED"]
    /\ UNCHANGED <<asset, active, checked, seat, order, recordVars, told, dirty>>

MarkNewAssetReady(a, n) ==
    /\ plan[a].state = "PLANNED"
    /\ asset[n].life = "AVAILABLE"
    /\ plan' = [plan EXCEPT ![a].state = "NEW_ASSET_READY", ![a].new = n]
    /\ UNCHANGED <<asset, active, checked, seat, order, recordVars, told, dirty>>

StartMigration(a) ==
    /\ plan[a].state = "NEW_ASSET_READY"
    /\ plan' = [plan EXCEPT ![a].state = "MIGRATING"]
    /\ UNCHANGED <<asset, active, checked, seat, order, recordVars, told, dirty>>

(* Fault: the migration publishes nothing about its asset. *)
CompleteMigrationUntold(a) ==
    LET n == plan[a].new  u == plan[a].user
    IN  /\ plan[a].state = "MIGRATING"
        /\ asset[n].life = "AVAILABLE" /\ CanReserve(asset[n])
        /\ <<n, u>> \in checked
        /\ asset' = [asset EXCEPT ![n] = AssignAsset(ReserveAsset(asset[n]), u)]
        /\ plan' = [plan EXCEPT ![a].state = "REPLACED"]
        /\ checked' = {}
        /\ dirty' = [dirty EXCEPT ![n] = TRUE]
        /\ UNCHANGED <<active, seat, order, recordVars, told>>

(* The new asset is reserved and assigned in the transaction that ends the   *)
(* plan; the old one stays with whoever holds it.                            *)
CompleteMigration(a) ==
    LET n == plan[a].new  u == plan[a].user
    IN  /\ plan[a].state = "MIGRATING"
        /\ asset[n].life = "AVAILABLE" /\ CanReserve(asset[n])
        /\ <<n, u>> \in checked
        /\ Commit(n, AssignAsset(ReserveAsset(asset[n]), u))
        /\ plan' = [plan EXCEPT ![a].state = "REPLACED"]
        /\ checked' = {}
        /\ dirty' = [dirty EXCEPT ![n] = TRUE]
        /\ UNCHANGED <<active, seat, order, recordVars>>

-----------------------------------------------------------------------------
(* Retirement, wipe, disposal, reactivation                                  *)

CreateRetirementCandidate(a) ==
    /\ record[a] \notin {"CANDIDATE", "BLOCKED"}
    /\ asset[a].life \in {"AVAILABLE", "RETURNED", "REPAIR", "ASSIGNED", "IN_USE"}
    /\ record' = [record EXCEPT ![a] =
            IF asset[a].custody # "UNASSIGNED" \/ asset[a].life \in {"ASSIGNED", "IN_USE"}
            THEN "BLOCKED" ELSE "CANDIDATE"]
    /\ UNCHANGED <<asset, active, checked, seat, order, wipe, reuse, disposal, plan, told, dirty>>

(* cleared: the clearances of the request and the asset's incident relations *)
Blocked(a, cleared) ==
    \/ asset[a].custody # "UNASSIGNED"
    \/ seat[a]
    \/ OpenOrder(a)
    \/ ~ cleared

(* A blocked retirement is answered with a conflict and is still committed.  *)
Retire(a, cleared) ==
    /\ record[a] \in {"CANDIDATE", "BLOCKED"}
    /\ \/ /\ Blocked(a, cleared)
          /\ record' = [record EXCEPT ![a] = "BLOCKED"]
          /\ UNCHANGED <<asset, told>>
       \/ /\ ~ Blocked(a, cleared)
          /\ asset[a].life \in {"AVAILABLE", "RETURNED", "REPAIR"}
          /\ record' = [record EXCEPT ![a] = "RETIRED"]
          /\ Commit(a, [asset[a] EXCEPT !.life = "RETIRED"])
    /\ UNCHANGED <<active, checked, seat, order, wipe, reuse, disposal, plan, dirty>>

StartWipe(a, m) ==
    /\ asset[a].life = "RETIRED" /\ record[a] = "RETIRED"
    /\ wipe[a].state \in {"NONE", "FAILED"} /\ wipe[a].method # m
    /\ wipe[a].gen < MaxWipes
    /\ wipe' = [wipe EXCEPT ![a] = [state |-> "QUEUED", result |-> "NONE", method |-> m, gen |-> @.gen + 1]]
    /\ UNCHANGED <<asset, active, checked, seat, order, record, reuse, disposal, plan, told, dirty>>

(* Production authentication turns away the agent of a retired asset.        *)
AgentAdmitted(a) == asset[a].life \in Gone => AdmitsRetired

ClaimWipe(a) ==
    /\ AgentAdmitted(a)
    /\ wipe[a].state = "QUEUED"
    /\ wipe' = [wipe EXCEPT ![a].state = "CLAIMED"]
    /\ UNCHANGED <<asset, active, checked, seat, order, record, reuse, disposal, plan, told, dirty>>

(* A result other than FAIL comes with evidence whose checksum was verified. *)
ReportWipe(a, result) ==
    /\ AgentAdmitted(a)
    /\ wipe[a].state = "CLAIMED"
    /\ wipe' = [wipe EXCEPT ![a].state = IF result = "FAIL" THEN "FAILED" ELSE "COMPLETED",
                            ![a].result = result]
    /\ dirty' = [dirty EXCEPT ![a] = @ /\ result # "PASS"]
    /\ UNCHANGED <<asset, active, checked, seat, order, record, reuse, disposal, plan, told>>

(* Fault: a wipe that ended unsuccessfully will do. *)
DisposeOfAnyResult(a, method) ==
    /\ asset[a].life = "RETIRED" /\ record[a] = "RETIRED"
    /\ method # "DESTROY" => wipe[a].state = "COMPLETED"
    /\ ~ seat[a]
    /\ disposal' = [disposal EXCEPT ![a] = method]
    /\ Commit(a, [asset[a] EXCEPT !.life = "DISPOSED"])
    /\ UNCHANGED <<active, checked, seat, order, record, wipe, reuse, plan, dirty>>

(* SELL stands for every method that is neither internal reuse nor DESTROY.  *)
Dispose(a, method) ==
    /\ asset[a].life = "RETIRED" /\ record[a] = "RETIRED"
    /\ method # "DESTROY" => wipe[a].state = "COMPLETED" /\ wipe[a].result = "PASS"
    /\ ~ seat[a]
    /\ disposal' = [disposal EXCEPT ![a] = method]
    /\ \/ /\ method = "REUSE_INTERNAL"
          /\ reuse' = [reuse EXCEPT ![a] = TRUE]
          /\ UNCHANGED <<asset, told>>
       \/ /\ method # "REUSE_INTERNAL"
          /\ Commit(a, [asset[a] EXCEPT !.life = "DISPOSED"])
          /\ UNCHANGED reuse
    /\ UNCHANGED <<active, checked, seat, order, record, wipe, plan, dirty>>

(* Any internal reuse decision ever taken for the asset will do.             *)
Reactivate(a) ==
    /\ asset[a].life = "RETIRED"
    /\ reuse[a]
    /\ Commit(a, [asset[a] EXCEPT !.life = "AVAILABLE", !.custody = "UNASSIGNED"])
    /\ UNCHANGED <<active, checked, seat, order, recordVars, plan, dirty>>

-----------------------------------------------------------------------------
MovementNext ==
    \/ \E a \in Assets : CreateAsset(a) \/ RegisterReceivedAsset(a) \/ PutInStock(a)
    \/ \E a \in Assets : Reserve(a) \/ RequestReturnRoute(a) \/ ReceiveReturnRoute(a)
    \/ \E a \in Assets, u \in Users : CheckUser(a, u) \/ Assign(a, u) \/ Transfer(a, u)
    \/ CheckedCommandFails

SeatNext == \E a \in Serviced : AssignSeat(a) \/ ReclaimSeat(a)

MaintenanceNext ==
    \E a \in Serviced : CreateMaintenance(a) \/ \E t \in OrderTargets : TransitionMaintenance(a, t)

ReplacementNext ==
    \/ \E a \in Replaced, u \in Users : CreateReplacementPlan(a, u)
    \/ \E a \in Replaced, d \in {"APPROVE_REPLACEMENT", "CONTINUE_USE", "DEFER"} : ReviewReplacement(a, d)
    \/ \E a \in Replaced, p \in BOOLEAN : PlanReplacement(a, p)
    \/ \E a \in Replaced, n \in Assets : MarkNewAssetReady(a, n)
    \/ \E a \in Replaced : StartMigration(a) \/ CompleteMigration(a)

RetirementNext ==
    \/ \E a \in Retirable, c \in BOOLEAN : CreateRetirementCandidate(a) \/ Retire(a, c)
    \/ \E a \in Retirable, m \in WipeMethods : StartWipe(a, m)
    \/ \E a \in Retirable : ClaimWipe(a) \/ Reactivate(a)
    \/ \E a \in Retirable, r \in {"PASS", "FAIL", "NOT_APPLICABLE", "PHYSICAL_DESTRUCTION_REQUIRED"} :
           ReportWipe(a, r)
    \/ \E a \in Retirable, m \in {"SELL", "DESTROY", "REUSE_INTERNAL"} : Dispose(a, m)

CustodyNext ==
    \/ MovementNext \/ SeatNext \/ MaintenanceNext \/ ReplacementNext \/ RetirementNext
    \/ \E u \in Users : UserLeaves(u)

CustodySpec == CustodyInit /\ [][CustodyNext]_custodyVars

-----------------------------------------------------------------------------
(* The shape of the state.                                                   *)
CustodyTypeOK ==
    /\ asset \in [Assets -> [life : DOMAIN Transitions, custody : {"UNASSIGNED", "RESERVED"} \cup Held,
                             holder : Users \cup {NoUser}, reserved : BOOLEAN,
                             request : {"NONE", "PENDING", "CANCELLED", "FULFILLED"}]]
    /\ active \subseteq Users
    /\ checked \subseteq Assets \X Users
    /\ order \in [Assets -> DOMAIN OrderTransitions]
    /\ record \in [Assets -> {"NONE", "CANDIDATE", "BLOCKED", "RETIRED"}]

(* assignment_state, lifecycle_state, the ACTIVE assignment and the PENDING  *)
(* return request are four columns of three tables written by seven          *)
(* commands; after any sequence of them they still tell one story.           *)
CustodyAgrees ==
    /\ CustodyTypeOK
    /\ \A a \in Assets : LET x == asset[a] IN
          /\ x.holder # NoUser <=> x.custody \in Held
          /\ x.custody \in Held <=> x.life = "ASSIGNED"
          /\ x.custody = "RESERVED" <=> x.life = "RESERVED"
          /\ x.request = "PENDING" <=> x.custody = "PENDING_RETURN"

(* Whatever order licences, maintenance orders, custody and retirement are   *)
(* worked on, an asset that has left service has no holder, no licence and   *)
(* no open maintenance order (the eligibility checks of licensing and        *)
(* maintenance against the blockers of retire).                              *)
RetiredAssetIsClear ==
    \A a \in Assets : asset[a].life \in Gone =>
        asset[a].holder = NoUser /\ ~ seat[a] /\ ~ OpenOrder(a)

(* The event trail tells where every asset is: no command moves an asset     *)
(* without saying so, a replacement's cutover included.                      *)
TrailTellsCustody == \A a \in Assets : told[a] = View(asset[a])

(* An asset that was never taken back into service and leaves other than by  *)
(* destruction carries no data of a holder.                                  *)
FirstDisposalIsWiped ==
    \A a \in Assets :
        asset[a].life = "DISPOSED" /\ disposal[a] # "DESTROY" /\ ~ reuse[a] => ~ dirty[a]

(* An asset that has left is clean: of holder, licences and maintenance      *)
(* orders and, the first time, of data (retire, wipe and disposal of         *)
(* asset-lifecycle-routes.ts).                                               *)
GoneAssetIsClean == RetiredAssetIsClear /\ FirstDisposalIsWiped

(* TASK-059: a device leaves only after its wipe was verified.  The code     *)
(* does not keep this: a wipe of an earlier retirement satisfies it.         *)
DisposalIsWiped ==
    \A a \in Assets : asset[a].life = "DISPOSED" /\ disposal[a] # "DESTROY" => ~ dirty[a]
=============================================================================
