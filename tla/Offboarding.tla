----------------------------- MODULE Offboarding -----------------------------
(***************************************************************************)
(* The offboarding case of a user (modules/identity/application/           *)
(* offboarding.ts, apps/api/src/offboarding-routes.ts), on top of the      *)
(* custody of the assets the user holds.                                   *)
(*                                                                         *)
(* Case commands are transactions.  The reconciliation of clearances is    *)
(* not: processClearances takes a lease on the case, reads the clearances  *)
(* once and then works through returns, assets and licences in a           *)
(* transaction each, so that others act between two of its steps and the   *)
(* process can die after any of them.  pr is that process: where it is,    *)
(* the clearances it read (snap), the ones changed by somebody else since  *)
(* (stale: their version moved) and the assets it listed.                  *)
(*                                                                         *)
(* clr[a] is the ASSET_RETURN clearance: state, recovery state, and        *)
(* whether its detail still names the return request (ref).  WAIVED stands *)
(* for ACCEPTED_EXCEPTION too.  recov is the disposition of the recovery   *)
(* actions a cancellation asks for.                                        *)
(***************************************************************************)
EXTENDS AssetCustody

CONSTANTS Leaver,      \* the user who leaves
          MaxCrashes   \* bound: deaths of a reconciliation

ASSUME LeaverAssumption == Leaver \in Users /\ MaxCrashes \in Nat

VARIABLES oc, clr, lic, lclr, recov, before, lease, pr, crashes

caseVars == <<oc, clr, lic, lclr, recov, before, lease, pr, crashes>>
otherCustody == <<seat, order, recordVars, plan, dirty>>
offVars == <<custodyVars, caseVars>>

NoClearance == [state |-> "NONE", rec |-> "NONE", ref |-> FALSE]
Resolved == {"SUCCEEDED", "WAIVED"}
Recoveries == Assets \cup {"ACCESS", "LICENSE"}
Idle == [at |-> "idle", snap |-> <<>>, stale |-> {}, todo |-> {}, list |-> <<>>, cur |-> NoAsset]

OffInit ==
    /\ CustodyInit
    /\ oc = [state |-> "NONE", user |-> "ACTIVE"]
    /\ clr = [a \in Assets |-> NoClearance]
    /\ lic = "NONE" /\ lclr = "NONE"
    /\ recov = [r \in Recoveries |-> "NONE"]
    /\ before = {} /\ lease = FALSE /\ pr = Idle /\ crashes = 0

-----------------------------------------------------------------------------
(* Case commands                                                             *)

Move(to) == oc' = [oc EXCEPT !.state = to]

CreateOffboardingCase ==
    /\ oc.state = "NONE" /\ oc.user = "ACTIVE"
    /\ Move("INITIATED")
    /\ UNCHANGED <<custodyVars, clr, lic, lclr, recov, before, lease, pr, crashes>>

(* The user is TERMINATING, sessions and grants are revoked, the access      *)
(* clearance is SUCCEEDED; the reconciliation follows in the same request.   *)
StartExistingOffboarding ==
    /\ oc.state = "INITIATED"
    /\ oc' = [state |-> "IN_PROGRESS", user |-> "TERMINATING"]
    /\ active' = active \ {Leaver}
    /\ UNCHANGED <<asset, checked, told, otherCustody, clr, lic, lclr, recov, before, lease, pr, crashes>>

(* Only clearances that exist are looked at.                                 *)
AllClear == lclr \in Resolved \cup {"NONE"} /\ \A a \in Assets : clr[a].state \in Resolved \cup {"NONE"}

CaseTransitions == [s \in {"NONE", "INITIATED", "IN_PROGRESS", "BLOCKED", "READY_TO_CLOSE",
                           "CANCELLATION_PENDING", "COMPLETED", "CANCELLED"} |->
    CASE s = "IN_PROGRESS" -> [BLOCK |-> "BLOCKED", MARK_READY |-> "READY_TO_CLOSE",
                               REQUEST_CANCEL |-> "CANCELLATION_PENDING"]
      [] s = "BLOCKED" -> [RESUME |-> "IN_PROGRESS", REQUEST_CANCEL |-> "CANCELLATION_PENDING"]
      [] s = "READY_TO_CLOSE" -> [COMPLETE |-> "COMPLETED", REQUEST_CANCEL |-> "CANCELLATION_PENDING"]
      [] s = "INITIATED" -> [CANCEL |-> "CANCELLED"]
      [] s = "CANCELLATION_PENDING" -> [COMPLETE_CANCELLATION |-> "CANCELLED"]
      [] OTHER -> <<>>]

(* Fault: the lease is not looked at. *)
MayTransitionUnleased(command) == command \in DOMAIN CaseTransitions[oc.state]

MayTransition(command) == command \in DOMAIN CaseTransitions[oc.state] /\ ~ lease

TransitionOffboardingCase(command) ==
    /\ MayTransition(command)
    /\ command \in {"RESUME", "MARK_READY", "COMPLETE", "CANCEL"}
    /\ command \in {"MARK_READY", "COMPLETE"} => AllClear
    /\ oc' = [state |-> CaseTransitions[oc.state][command],
              user |-> IF command = "COMPLETE" THEN "TERMINATED" ELSE oc.user]
    /\ UNCHANGED <<custodyVars, clr, lic, lclr, recov, before, lease, pr, crashes>>

(* The route reads the clearances before the transaction that cancels.       *)
ReadBeforeCancel ==
    /\ oc.state \in {"IN_PROGRESS", "BLOCKED", "READY_TO_CLOSE"}
    /\ before' = {"ACCESS"} \cup {a \in Assets : clr[a].state \notin {"NONE", "SUCCEEDED"}}
                           \cup (IF lclr \in {"NONE", "SUCCEEDED"} THEN {} ELSE {"LICENSE"})
    /\ UNCHANGED <<custodyVars, oc, clr, lic, lclr, recov, lease, pr, crashes>>

RequestCancel ==
    /\ MayTransition("REQUEST_CANCEL")
    /\ before # {}
    /\ Move("CANCELLATION_PENDING")
    /\ recov' = [r \in Recoveries |-> IF r \in before THEN "PENDING" ELSE recov[r]]
    /\ before' = {}
    /\ UNCHANGED <<custodyVars, clr, lic, lclr, lease, pr, crashes>>

(* Fault: the cancelled request publishes nothing. *)
RecoverAssetReturnUntold(a) ==
    /\ recov[a] = "PENDING" /\ clr[a].ref
    /\ CanCancelReturn(asset[a])
    /\ asset' = [asset EXCEPT ![a] = CancelReturnRequest(asset[a])]
    /\ UNCHANGED <<active, checked, told, otherCustody, caseVars>>

(* A return is recovered by cancelling its request, then marking the action. *)
RecoverAssetReturn(a) ==
    /\ recov[a] = "PENDING" /\ clr[a].ref
    /\ CanCancelReturn(asset[a])
    /\ Commit(a, CancelReturnRequest(asset[a]))
    /\ UNCHANGED <<active, checked, otherCustody, caseVars>>

ResolveRecoveryAction(r, disposition) ==
    /\ recov[r] = "PENDING"
    /\ disposition = "SUCCEEDED" /\ r \in Assets => clr[r].ref /\ asset[r].request = "CANCELLED"
    /\ recov' = [recov EXCEPT ![r] = disposition]
    /\ UNCHANGED <<custodyVars, oc, clr, lic, lclr, before, lease, pr, crashes>>

CompleteCancellation ==
    /\ MayTransition("COMPLETE_CANCELLATION")
    /\ \A r \in Recoveries : recov[r] # "PENDING"
    /\ oc' = [state |-> "CANCELLED", user |-> "ACTIVE"]
    /\ active' = active \cup {Leaver}
    /\ UNCHANGED <<asset, checked, told, otherCustody, clr, lic, lclr, recov, before, lease, pr, crashes>>

-----------------------------------------------------------------------------
(* Clearances set by people, in any state of the case                        *)

SetClearance(a, c) ==
    /\ clr' = [clr EXCEPT ![a] = c]
    /\ pr' = [pr EXCEPT !.stale = IF pr.at = "idle" THEN @ ELSE @ \cup {a}]

ResolveOffboardingClearance(a) ==
    /\ clr[a].state \in {"PENDING", "BLOCKED"}
    /\ SetClearance(a, [clr[a] EXCEPT !.state = "WAIVED", !.ref = FALSE])
    /\ UNCHANGED <<custodyVars, oc, lic, lclr, recov, before, lease, crashes>>

ResolveLicenseClearance ==
    /\ lclr \in {"PENDING", "BLOCKED"}
    /\ lclr' = "WAIVED"
    /\ UNCHANGED <<custodyVars, oc, clr, lic, recov, before, lease, pr, crashes>>

SetAssetRecovery(a, rec) ==
    /\ oc.state \notin {"NONE", "INITIATED"}
    /\ clr[a].rec # rec
    /\ \/ /\ rec \in {"UNRETURNED", "MISSING"}
          /\ clr[a].rec \in {"PENDING_RETURN", "UNRETURNED"}
          /\ SetClearance(a, [state |-> "BLOCKED", rec |-> rec, ref |-> FALSE])
       \/ /\ rec = "PENDING_RETURN"
          /\ asset[a].holder = Leaver /\ asset[a].request = "PENDING"
          /\ SetClearance(a, [state |-> "PENDING", rec |-> rec, ref |-> FALSE])
    /\ UNCHANGED <<custodyVars, oc, lic, lclr, recov, before, lease, crashes>>

-----------------------------------------------------------------------------
(* processClearances, a transaction at a time                                *)

At(s) == pr.at = s
Goto(s) == pr' = [pr EXCEPT !.at = s]

BeginOffboardingReconciliation ==
    /\ At("idle")
    /\ oc.state \in {"IN_PROGRESS", "BLOCKED"}
    /\ ~ lease
    /\ lease' = TRUE
    /\ pr' = [Idle EXCEPT !.at = "verify", !.snap = clr,
                          !.todo = {a \in Assets : clr[a].state = "PENDING" /\ clr[a].ref}]
    /\ UNCHANGED <<custodyVars, oc, clr, lic, lclr, recov, before, crashes>>

(* Fault: the request is not asked whether it is fulfilled. *)
VerifyUnconditionally(a) ==
    /\ At("verify") /\ a \in pr.todo
    /\ pr' = [pr EXCEPT !.todo = @ \ {a}]
    /\ clr' = IF a \in pr.stale THEN clr
              ELSE [clr EXCEPT ![a] = [state |-> "SUCCEEDED", rec |-> "RETURNED", ref |-> FALSE]]
    /\ UNCHANGED <<custodyVars, oc, lic, lclr, recov, before, lease, crashes>>

VerifyReturn(a) ==
    /\ At("verify") /\ a \in pr.todo
    /\ pr' = [pr EXCEPT !.todo = @ \ {a}]
    /\ clr' = IF asset[a].request # "FULFILLED" \/ a \in pr.stale THEN clr
              ELSE [clr EXCEPT ![a] = [state |-> "SUCCEEDED", rec |-> "RETURNED", ref |-> FALSE]]
    /\ UNCHANGED <<custodyVars, oc, lic, lclr, recov, before, lease, crashes>>

ListUserAssets ==
    /\ At("verify") /\ pr.todo = {}
    /\ pr' = [pr EXCEPT !.at = "assets", !.list = asset, !.todo = {a \in Assets : asset[a].holder = Leaver}]
    /\ UNCHANGED <<custodyVars, oc, clr, lic, lclr, recov, before, lease, crashes>>

RecordBlocked(a) == [clr EXCEPT ![a].state = "BLOCKED", ![a].ref = FALSE]

(* Fault: an asset with a return request needs no clearance. *)
SkipRequestedAsset(a) ==
    /\ At("assets") /\ a \in pr.todo
    /\ pr.snap[a].rec # "NONE" \/ pr.list[a].request = "PENDING"
    /\ pr' = [pr EXCEPT !.todo = @ \ {a}]
    /\ UNCHANGED <<custodyVars, oc, clr, lic, lclr, recov, before, lease, crashes>>

(* An asset whose recovery state is known, or that has a return request.     *)
ClearKnownAsset(a) ==
    LET rec == pr.snap[a].rec
    IN  /\ At("assets") /\ a \in pr.todo
        /\ pr' = [pr EXCEPT !.todo = @ \ {a}]
        /\ \/ rec \in {"MISSING", "UNRETURNED"} /\ clr' = RecordBlocked(a)
           \/ rec = "RETURNED" /\ clr' = [clr EXCEPT ![a].state = "SUCCEEDED", ![a].ref = FALSE]
           \/ /\ rec \in {"NONE", "PENDING_RETURN"} /\ pr.list[a].request = "PENDING"
              /\ clr' = CASE a \in pr.stale -> RecordBlocked(a)
                          [] rec = "PENDING_RETURN" -> clr
                          [] OTHER -> [clr EXCEPT ![a] = [state |-> "PENDING", rec |-> "PENDING_RETURN", ref |-> TRUE]]
        /\ UNCHANGED <<custodyVars, oc, lic, lclr, recov, before, lease, crashes>>

(* No return request yet: one is made, and noted by the next transaction.    *)
RequestReturnForCase(a) ==
    /\ At("assets") /\ a \in pr.todo
    /\ pr.snap[a].rec \in {"NONE", "PENDING_RETURN"} /\ pr.list[a].request # "PENDING"
    /\ \/ /\ asset[a] = pr.list[a] /\ InUse(asset[a])
          /\ asset' = [asset EXCEPT ![a] = RequestReturn(asset[a])]
          /\ pr' = [pr EXCEPT !.at = "noted", !.todo = @ \ {a}, !.cur = a]
          /\ UNCHANGED clr
       \/ /\ asset[a] # pr.list[a] \/ ~ InUse(asset[a])
          /\ clr' = RecordBlocked(a)
          /\ pr' = [pr EXCEPT !.todo = @ \ {a}]
          /\ UNCHANGED asset
    /\ UNCHANGED <<active, checked, told, otherCustody, oc, lic, lclr, recov, before, lease, crashes>>

(* A version conflict rolls this back, the event with it; the clearance is   *)
(* then recorded BLOCKED.                                                    *)
NoteReturnRequest ==
    LET a == pr.cur
    IN  /\ At("noted")
        /\ pr' = [pr EXCEPT !.at = "assets", !.cur = NoAsset]
        /\ IF a \in pr.stale
           THEN clr' = RecordBlocked(a) /\ UNCHANGED told
           ELSE /\ clr' = IF clr[a].rec = "PENDING_RETURN" THEN clr
                          ELSE [clr EXCEPT ![a] = [state |-> "PENDING", rec |-> "PENDING_RETURN", ref |-> TRUE]]
                /\ told' = [told EXCEPT ![a] =
                        IF asset[a].custody = "PENDING_RETURN" THEN View(asset[a]) ELSE @]
        /\ UNCHANGED <<asset, active, checked, otherCustody, oc, lic, lclr, recov, before, lease, crashes>>

(* The licence is cancelled or its reclaim started, then noted.              *)
ClearLicense ==
    /\ At("assets") /\ pr.todo = {}
    /\ \/ lic \in {"NONE"} /\ Goto("finish") /\ UNCHANGED <<lic, lclr>>
       \/ lic \in {"CANCELLED", "RECLAIMED"} /\ lclr' = "SUCCEEDED" /\ Goto("finish") /\ UNCHANGED lic
       \/ lic = "RECLAIM_PENDING" /\ lclr' = "PENDING" /\ Goto("finish") /\ UNCHANGED lic
       \/ lic = "ASSIGNED" /\ lic' = "CANCELLED" /\ Goto("cancelled") /\ UNCHANGED lclr
       \/ lic = "ACTIVE" /\ lic' = "RECLAIM_PENDING" /\ Goto("reclaiming") /\ UNCHANGED lclr
    /\ UNCHANGED <<custodyVars, oc, clr, recov, before, lease, crashes>>

NoteLicense ==
    /\ At("cancelled") \/ At("reclaiming")
    /\ lclr' = IF At("cancelled") THEN "SUCCEEDED" ELSE "PENDING"
    /\ Goto("finish")
    /\ UNCHANGED <<custodyVars, oc, clr, lic, recov, before, lease, crashes>>

AnyBlocked == lclr = "BLOCKED" \/ \E a \in Assets : clr[a].state = "BLOCKED"

BlockOrResume ==
    /\ At("finish")
    /\ Goto("end")
    /\ oc' = [oc EXCEPT !.state = CASE @ = "IN_PROGRESS" /\ AnyBlocked -> "BLOCKED"
                                    [] @ = "BLOCKED" /\ ~ AnyBlocked -> "IN_PROGRESS"
                                    [] OTHER -> @]
    /\ UNCHANGED <<custodyVars, clr, lic, lclr, recov, before, lease, crashes>>

EndOffboardingReconciliation ==
    /\ At("end")
    /\ pr' = Idle
    /\ lease' = FALSE
    /\ UNCHANGED <<custodyVars, oc, clr, lic, lclr, recov, before, crashes>>

(* The process dies; its lease stays until five minutes have passed, longer  *)
(* than a reconciliation that lives takes.                                   *)
CrashReconciliation ==
    /\ ~ At("idle")
    /\ crashes < MaxCrashes
    /\ crashes' = crashes + 1
    /\ pr' = Idle
    /\ UNCHANGED <<custodyVars, oc, clr, lic, lclr, recov, before, lease>>

LeaseExpires ==
    /\ lease /\ At("idle")
    /\ lease' = FALSE
    /\ UNCHANGED <<custodyVars, oc, clr, lic, lclr, recov, before, pr, crashes>>

-----------------------------------------------------------------------------
(* Around the case: assets and licences go on moving.                        *)

LicenseMoves ==
    /\ \/ lic = "NONE" /\ Leaver \in active /\ lic' = "ASSIGNED"
       \/ lic = "ASSIGNED" /\ lic' = "ACTIVE"
       \/ lic = "RECLAIM_PENDING" /\ lic' = "RECLAIMED"
    /\ UNCHANGED <<custodyVars, oc, clr, lclr, recov, before, lease, pr, crashes>>

AssetsMove ==
    /\ MovementNext
    /\ UNCHANGED caseVars

Reconcile ==
    \/ BeginOffboardingReconciliation \/ ListUserAssets \/ NoteReturnRequest
    \/ ClearLicense \/ NoteLicense \/ BlockOrResume \/ EndOffboardingReconciliation
    \/ \E a \in Assets : VerifyReturn(a) \/ ClearKnownAsset(a) \/ RequestReturnForCase(a)

CaseOpens == CreateOffboardingCase \/ StartExistingOffboarding

RecoveryCommands ==
    \/ \E a \in Assets : RecoverAssetReturn(a)
    \/ \E r \in Recoveries, d \in {"SUCCEEDED", "WAIVED"} : ResolveRecoveryAction(r, d)

ClearanceCommands ==
    \/ ResolveLicenseClearance
    \/ \E a \in Assets : ResolveOffboardingClearance(a)
    \/ \E a \in Assets, s \in {"PENDING_RETURN", "UNRETURNED", "MISSING"} : SetAssetRecovery(a, s)

CaseCommands ==
    \/ \E c \in {"RESUME", "MARK_READY", "COMPLETE", "CANCEL"} : TransitionOffboardingCase(c)
    \/ ReadBeforeCancel \/ RequestCancel \/ CompleteCancellation

OffNext ==
    \/ CaseOpens \/ Reconcile \/ CaseCommands \/ ClearanceCommands \/ RecoveryCommands
    \/ CrashReconciliation \/ LeaseExpires \/ LicenseMoves \/ AssetsMove

(* A running reconciliation goes on, a lease runs out, and operators         *)
(* reconcile an open case again and again.                                   *)
OffFairness ==
    /\ WF_offVars(Reconcile /\ ~ At("idle"))
    /\ WF_offVars(LeaseExpires)
    /\ SF_offVars(BeginOffboardingReconciliation)

OffSpec == OffInit /\ [][OffNext]_offVars /\ OffFairness

-----------------------------------------------------------------------------
(* The shape of the state.                                                   *)
OffTypeOK ==
    /\ oc \in [state : DOMAIN CaseTransitions, user : {"ACTIVE", "TERMINATING", "TERMINATED"}]
    /\ clr \in [Assets -> [state : {"NONE", "PENDING", "BLOCKED"} \cup Resolved, ref : BOOLEAN,
                           rec : {"NONE", "PENDING_RETURN", "RETURNED", "UNRETURNED", "MISSING"}]]
    /\ lease \in BOOLEAN /\ crashes \in 0 .. MaxCrashes

(* A return clearance is SUCCEEDED only for an asset the user no longer      *)
(* holds, although the reconciliation decides on clearances it read before   *)
(* and on a list of assets that others keep changing.                        *)
SucceededMeansReturned ==
    /\ OffTypeOK
    /\ \A a \in Assets : clr[a].state = "SUCCEEDED" => asset[a].holder # Leaver

(* A crash between the return request and the transaction that publishes it  *)
(* leaves the trail behind, by that request alone: for every other change of *)
(* an asset the outbox has told what the row says.                           *)
TrailLagsByReturnRequest ==
    \A a \in Assets : told[a] # View(asset[a]) =>
        /\ asset[a].custody = "PENDING_RETURN"
        /\ told[a] = <<asset[a].life, "ASSIGNED", asset[a].holder>>

(* While a reconciliation runs, its lease keeps the case where the           *)
(* reconciliation may write clearances: it never adds one to a closed case.  *)
ReconcilesOpenCases == ~ At("idle") => lease /\ oc.state \in {"IN_PROGRESS", "BLOCKED"}

(* The reconciliation writes only what is true of an open case               *)
(* (processClearances under the lease of beginOffboardingReconciliation).    *)
ReconciliationIsSafe == SucceededMeansReturned /\ ReconcilesOpenCases

(* A return request whose clearance a crash lost is found again by a later   *)
(* reconciliation, unless the case is closed or cancelled before.            *)
LostRequestIsFound ==
    \A a \in Assets :
        (asset[a].holder = Leaver /\ asset[a].custody = "PENDING_RETURN" /\ oc.state = "IN_PROGRESS")
            ~> (clr[a].state # "NONE" \/ oc.state \notin {"IN_PROGRESS", "BLOCKED"}
                                      \/ asset[a].holder # Leaver)

(* IDENTITY_SSO_RBAC_USER_LIFECYCLE_OFFBOARDING_WORKFLOW.md: an offboarding  *)
(* is not closed while an asset of the user is not returned, except by an    *)
(* explicit exception.  The code does not keep this: a case without          *)
(* clearances can be completed.                                              *)
ClosedCaseReturnedEverything ==
    [][oc'.state = "COMPLETED" /\ oc.state # "COMPLETED" =>
           \A a \in Assets : asset[a].holder = Leaver => clr[a].state = "WAIVED"]_offVars
=============================================================================
