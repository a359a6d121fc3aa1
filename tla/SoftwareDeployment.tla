------------------------- MODULE SoftwareDeployment -------------------------
(***************************************************************************)
(* Staged software deployment campaigns and the license seats they use     *)
(* (modules/software/application/deployments.ts, the agent routes of       *)
(* apps/agent-gateway/src/software-deployment-routes.ts and the deployment *)
(* contract of modules/license/application/assignments.ts).                *)
(*                                                                         *)
(* An operator drives the campaign, the agent of each asset claims and     *)
(* reports jobs, and license administrators assign and reclaim seats.  A   *)
(* claim is two transactions: one reads a candidate, the next reserves a   *)
(* seat and leases the target if the version read is still current.  A     *)
(* report is one transaction: target, campaign and license change together *)
(* or not at all.  seen is the candidate as it was read; since attempts    *)
(* only grow it identifies the row version.  A call belongs to the agent   *)
(* of an asset, and an agent may have several under way.  The product has  *)
(* one entitlement of Quantity seats, whose atomic use is LicenseSeats'    *)
(* claim.                                                                  *)
(***************************************************************************)
EXTENDS Integers, FiniteSets

CONSTANTS Campaigns, Targets, Assets, Calls,
          CampaignOf, AssetOf, Order, CallerOf,
          InitialStage, MaxAttempts, Threshold, StopOnSecurityFailure,
          Quantity, None

ASSUME ShapeAssumption == /\ CampaignOf \in [Targets -> Campaigns]
                          /\ AssetOf \in [Targets -> Assets]
                          /\ Order \in [Targets -> Nat \ {0}]
                          /\ CallerOf \in [Calls -> Assets]
                          /\ IsFiniteSet(Targets) /\ None \notin Targets
(* A campaign of n targets numbers them from 1 to n.                         *)
ASSUME CohortAssumption ==
    \A t \in Targets : Order[t] <= Cardinality({u \in Targets : CampaignOf[u] = CampaignOf[t]})
ASSUME PolicyAssumption == /\ InitialStage \in {1, 10, 25, 50, 100}
                           /\ MaxAttempts \in 1 .. 3
                           /\ Threshold \in 1 .. 100
                           /\ StopOnSecurityFailure \in BOOLEAN
                           /\ Quantity \in Nat

VARIABLES camp, tgt, cand, deployable, resv, seated

vars == <<camp, tgt, cand, deployable, resv, seated>>
licenseVars == <<resv, seated>>

Stages == {1, 10, 25, 50, 100}
ActiveTargetStates == {"QUEUED", "CLAIMED", "WAITING_REBOOT"}

(* What the agent reported, as the server classifies it: INTEGRITY is any    *)
(* outcome but the first two with a failed checksum or signature,            *)
(* VERIFICATION_FAILED a post-check with another product or version.         *)
SafeFailures == {"PRECHECK_FAILED", "ARTIFACT_REJECTED"}
SecurityFailures == {"ARTIFACT_REJECTED", "INTEGRITY"}
Failures == SafeFailures \cup SecurityFailures \cup {"INSTALL_FAILED", "VERIFICATION_FAILED"}
Outcomes == Failures \cup {"WAITING_REBOOT", "SUCCESS"}

TargetRecords ==
    [state : {"HELD", "QUEUED", "CLAIMED", "WAITING_REBOOT", "SUCCESS", "FAILED", "CANCELLED"},
     attempts : 0 .. MaxAttempts, leased : BOOLEAN, outcome : Outcomes \cup {None}]

TypeOK ==
    /\ camp \in [Campaigns -> [state : {"DRAFT", "ACTIVE", "PAUSED", "STOPPED", "COMPLETED"},
                               stage : Stages]]
    /\ tgt \in [Targets -> TargetRecords]
    /\ cand \in [Calls -> [t : Targets, seen : TargetRecords] \cup {None}]
    /\ deployable \in BOOLEAN
    /\ resv \in [Targets -> {"NONE", "RESERVED", "RELEASED", "ASSIGNED"}]
    /\ seated \subseteq Assets

(* createDeploymentCampaign has run; licenses may already be assigned. *)
Init ==
    /\ camp = [c \in Campaigns |-> [state |-> "DRAFT", stage |-> InitialStage]]
    /\ tgt = [t \in Targets |-> [state |-> "HELD", attempts |-> 0,
                                 leased |-> FALSE, outcome |-> None]]
    /\ cand = [k \in Calls |-> None]
    /\ deployable = TRUE
    /\ resv = [t \in Targets |-> "NONE"]
    /\ seated = {}

-----------------------------------------------------------------------------
TargetsOf(c) == {t \in Targets : CampaignOf[t] = c}

(* cutoff: the last cohort position of a stage, rounded up, at least one. *)
Ceiling(n) == (n + 99) \div 100
Cutoff(total, percent) == LET k == Ceiling(total * percent) IN IF k < 1 THEN 1 ELSE k
Cohort(c, percent) == {t \in TargetsOf(c) : Order[t] <= Cutoff(Cardinality(TargetsOf(c)), percent)}

NextStage(percent) == CHOOSE n \in Stages : n > percent /\ \A m \in Stages : m > percent => n <= m

QueueCohort(c, percent) ==
    [t \in Targets |-> IF t \in Cohort(c, percent) /\ tgt[t].state = "HELD"
                       THEN [tgt[t] EXCEPT !.state = "QUEUED"] ELSE tgt[t]]

CancelPending(c, T) ==
    [t \in Targets |-> IF CampaignOf[t] = c /\ T[t].state \in {"HELD", "QUEUED"}
                       THEN [T[t] EXCEPT !.state = "CANCELLED"] ELSE T[t]]

SetCampaign(c, state, percent) == camp' = [camp EXCEPT ![c] = [state |-> state, stage |-> percent]]

-----------------------------------------------------------------------------
(* transitionDeploymentCampaign, one action per command. *)
Start(c) ==
    /\ camp[c].state = "DRAFT" /\ deployable
    /\ SetCampaign(c, "ACTIVE", camp[c].stage)
    /\ tgt' = QueueCohort(c, camp[c].stage)
    /\ UNCHANGED <<cand, deployable, licenseVars>>

Pause(c) ==
    /\ camp[c].state = "ACTIVE"
    /\ SetCampaign(c, "PAUSED", camp[c].stage)
    /\ UNCHANGED <<tgt, cand, deployable, licenseVars>>

Resume(c) ==
    /\ camp[c].state = "PAUSED"
    /\ SetCampaign(c, "ACTIVE", camp[c].stage)
    /\ UNCHANGED <<tgt, cand, deployable, licenseVars>>

(* Fault: the new stage opens from any state the campaign is in. *)
AdvanceAnyState(c) ==
    /\ camp[c].state \notin {"DRAFT", "STOPPED"} /\ camp[c].stage # 100
    /\ SetCampaign(c, camp[c].state, NextStage(camp[c].stage))
    /\ tgt' = QueueCohort(c, 100)
    /\ UNCHANGED <<cand, deployable, licenseVars>>

Advance(c) ==
    /\ camp[c].state = "ACTIVE" /\ camp[c].stage # 100
    /\ \A t \in Cohort(c, camp[c].stage) : tgt[t].state \notin ActiveTargetStates
    /\ SetCampaign(c, "ACTIVE", NextStage(camp[c].stage))
    /\ tgt' = QueueCohort(c, NextStage(camp[c].stage))
    /\ UNCHANGED <<cand, deployable, licenseVars>>

Stop(c) ==
    /\ camp[c].state \notin {"STOPPED", "COMPLETED"}
    /\ SetCampaign(c, "STOPPED", camp[c].stage)
    /\ tgt' = CancelPending(c, tgt)
    /\ UNCHANGED <<cand, deployable, licenseVars>>

(* retryDeploymentTarget *)
RetryDeploymentTarget(t) ==
    /\ tgt[t].state = "FAILED" /\ camp[CampaignOf[t]].state = "ACTIVE"
    /\ tgt[t].outcome \notin SecurityFailures
    /\ tgt[t].attempts < MaxAttempts /\ deployable
    /\ tgt' = [tgt EXCEPT ![t].state = "QUEUED"]
    /\ UNCHANGED <<camp, cand, deployable, licenseVars>>

-----------------------------------------------------------------------------
(* nextDeploymentCandidate: the first open target of the agent's asset. *)
Open(a) == {t \in Targets : /\ AssetOf[t] = a /\ camp[CampaignOf[t]].state = "ACTIVE"
                            /\ tgt[t].state \in {"QUEUED", "WAITING_REBOOT"}}

(* Fault: a target that was tried before is passed over. *)
FirstTries(k) ==
    LET a == CallerOf[k] IN
    /\ cand[k] = None /\ deployable
    /\ \E t \in Open(a) :
          /\ \A u \in Open(a) : Order[t] <= Order[u]
          /\ tgt[t].attempts = 0
          /\ cand' = [cand EXCEPT ![k] = [t |-> t, seen |-> tgt[t]]]
    /\ UNCHANGED <<camp, tgt, deployable, licenseVars>>

NextDeploymentCandidate(k) ==
    LET a == CallerOf[k] IN
    /\ cand[k] = None /\ deployable
    /\ \E t \in Open(a) :
          /\ \A u \in Open(a) : Order[t] <= Order[u]
          /\ cand' = [cand EXCEPT ![k] = [t |-> t, seen |-> tgt[t]]]
    /\ UNCHANGED <<camp, tgt, deployable, licenseVars>>

(* reserveLicenseForDeployment: the target's reservation, the asset's own    *)
(* seat, or a free one.                                                      *)
SeatsTaken == Cardinality(seated) + Cardinality({t \in Targets : resv[t] = "RESERVED"})
SeatFor(t) == resv[t] \in {"RESERVED", "ASSIGNED"} \/ AssetOf[t] \in seated \/ SeatsTaken < Quantity

Reserve(t) ==
    /\ SeatFor(t)
    /\ resv' = IF resv[t] \in {"RESERVED", "ASSIGNED"} \/ AssetOf[t] \in seated
               THEN resv ELSE [resv EXCEPT ![t] = "RESERVED"]
    /\ UNCHANGED seated

Claimable(k) ==
    LET t == cand[k].t IN
    /\ deployable /\ tgt[t] = cand[k].seen
    /\ camp[CampaignOf[t]].state = "ACTIVE"
    /\ tgt[t].attempts < MaxAttempts

(* Fault: the lease trusts the candidate that was read. *)
ClaimUnchecked(k) ==
    /\ cand[k] # None
    /\ tgt[cand[k].t].attempts < MaxAttempts
    /\ Reserve(cand[k].t)
    /\ tgt' = [tgt EXCEPT ![cand[k].t] = [tgt[cand[k].t] EXCEPT !.state = "CLAIMED", !.leased = TRUE,
                                                            !.attempts = @ + 1]]
    /\ cand' = [cand EXCEPT ![k] = None]
    /\ UNCHANGED <<camp, deployable>>

(* Fault: the attempt limit is forgotten. *)
ClaimWithoutLimit(k) ==
    LET t == cand[k].t IN
    /\ cand[k] # None
    /\ deployable /\ tgt[t] = cand[k].seen /\ camp[CampaignOf[t]].state = "ACTIVE"
    /\ Reserve(t)
    /\ tgt' = [tgt EXCEPT ![t] = [tgt[t] EXCEPT !.state = "CLAIMED", !.leased = TRUE,
                                                !.attempts = @ + 1]]
    /\ cand' = [cand EXCEPT ![k] = None]
    /\ UNCHANGED <<camp, deployable>>

(* The claim: a seat first, then claimDeploymentTarget; any refusal rolls    *)
(* the reservation back with the rest.                                       *)
ClaimDeploymentTarget(k) ==
    LET t == cand[k].t IN
    /\ cand[k] # None
    /\ Claimable(k)
    /\ Reserve(t)
    /\ tgt' = [tgt EXCEPT ![t] = [tgt[t] EXCEPT !.state = "CLAIMED", !.leased = TRUE,
                                                !.attempts = @ + 1]]
    /\ cand' = [cand EXCEPT ![k] = None]
    /\ UNCHANGED <<camp, deployable>>

ClaimRefused(k) ==
    /\ cand[k] # None
    /\ ~ (Claimable(k) /\ SeatFor(cand[k].t))
    /\ cand' = [cand EXCEPT ![k] = None]
    /\ UNCHANGED <<camp, tgt, deployable, licenseVars>>

LeaseExpires(t) ==
    /\ tgt[t].leased
    /\ tgt' = [tgt EXCEPT ![t].leased = FALSE]
    /\ UNCHANGED <<camp, cand, deployable, licenseVars>>

-----------------------------------------------------------------------------
(* activateDeploymentReservation: what lets a verified success commit. *)
CanActivate(t) ==
    CASE resv[t] = "NONE"     -> AssetOf[t] \in seated
      [] resv[t] = "ASSIGNED" -> TRUE
      [] resv[t] = "RELEASED" -> FALSE
      [] resv[t] = "RESERVED" -> AssetOf[t] \notin seated

Activate(t) ==
    /\ CanActivate(t)
    /\ resv' = IF resv[t] = "RESERVED" THEN [resv EXCEPT ![t] = "ASSIGNED"] ELSE resv
    /\ seated' = IF resv[t] = "RESERVED" THEN seated \cup {AssetOf[t]} ELSE seated

(* Fault: nothing is released. *)
KeepReservation(t) ==
    /\ resv[t] # "ASSIGNED"
    /\ UNCHANGED licenseVars

(* releaseDeploymentReservation *)
Release(t) ==
    /\ resv[t] # "ASSIGNED"
    /\ resv' = IF resv[t] = "RESERVED" THEN [resv EXCEPT ![t] = "RELEASED"] ELSE resv
    /\ UNCHANGED seated

LicenseEffect(t, outcome) ==
    CASE outcome = "SUCCESS"        -> Activate(t)
      [] outcome \in SafeFailures   -> Release(t)
      [] OTHER                      -> UNCHANGED licenseVars

(* The campaign's stop condition after a report: a security failure, or a    *)
(* final failure that brings the cohort's failure rate to the threshold.     *)
StopTripped(c, T, t) ==
    LET done   == {u \in Cohort(c, camp[c].stage) : T[u].state \in {"SUCCESS", "FAILED"}}
        failed == {u \in done : T[u].state = "FAILED"}
    IN
    /\ camp[c].state = "ACTIVE"
    /\ T[t].state = "FAILED"
    /\ \/ T[t].outcome \in SecurityFailures /\ StopOnSecurityFailure
       \/ Cardinality(done) > 0 /\ Cardinality(failed) * 100 >= Threshold * Cardinality(done)

(* Fault: targets waiting for a reboot are forgotten. *)
FinishedIgnoringReboots(c, T) ==
    /\ camp[c].state = "ACTIVE" /\ camp[c].stage = 100
    /\ \A t \in TargetsOf(c) : T[t].state \notin {"QUEUED", "CLAIMED"}

Finished(c, T) ==
    /\ camp[c].state = "ACTIVE" /\ camp[c].stage = 100
    /\ \A t \in TargetsOf(c) : T[t].state \notin ActiveTargetStates

(* reportDeploymentResult and the license effect, in one transaction, by the *)
(* agent that holds the lease.  retry is the agent's retryable flag.         *)
ReportDeploymentResult(t, outcome, retry) ==
    LET c == CampaignOf[t]
        requeued == /\ retry /\ tgt[t].attempts < MaxAttempts
                    /\ outcome \in {"PRECHECK_FAILED", "INSTALL_FAILED"}
        state == IF requeued THEN "QUEUED"
                 ELSE IF outcome \in Failures THEN "FAILED" ELSE outcome
        T == [tgt EXCEPT ![t] = [@ EXCEPT !.state = state, !.leased = FALSE,
                                          !.outcome = outcome]]
        stopped == StopTripped(c, T, t)
    IN
    /\ tgt[t].state = "CLAIMED" /\ tgt[t].leased
    /\ LicenseEffect(t, outcome)
    /\ tgt' = IF stopped THEN CancelPending(c, T) ELSE T
    /\ camp' = [camp EXCEPT ![c].state = IF stopped THEN "STOPPED"
                                         ELSE IF Finished(c, T) THEN "COMPLETED" ELSE @]
    /\ UNCHANGED <<cand, deployable>>

-----------------------------------------------------------------------------
(* License administrators: createLicenseAssignment for an asset, and the     *)
(* assignment commands up to the seat being reclaimed.                       *)
AssignSeat(a) ==
    /\ a \notin seated /\ SeatsTaken < Quantity
    /\ seated' = seated \cup {a}
    /\ UNCHANGED <<camp, tgt, cand, deployable, resv>>

ReclaimSeat(a) ==
    /\ a \in seated
    /\ seated' = seated \ {a}
    /\ UNCHANGED <<camp, tgt, cand, deployable, resv>>

(* The artifact or version is revoked or restricted. *)
Revoke ==
    /\ deployable
    /\ deployable' = FALSE
    /\ UNCHANGED <<camp, tgt, cand, licenseVars>>

CampaignCommands ==
    \/ \E c \in Campaigns : Start(c) \/ Pause(c) \/ Resume(c) \/ Advance(c) \/ Stop(c)
    \/ \E t \in Targets : RetryDeploymentTarget(t)

Next ==
    \/ CampaignCommands
    \/ \E k \in Calls : \/ NextDeploymentCandidate(k)
                        \/ ClaimDeploymentTarget(k) \/ ClaimRefused(k)
    \/ \E t \in Targets : \/ LeaseExpires(t)
                          \/ \E outcome \in Outcomes, retry \in BOOLEAN :
                                ReportDeploymentResult(t, outcome, retry)
    \/ \E a \in Assets : AssignSeat(a) \/ ReclaimSeat(a)
    \/ Revoke

Spec == Init /\ [][Next]_vars

(* Agents poll for jobs: every asset's agent keeps claiming what it can. *)
FairSpec ==
    /\ Spec
    /\ \A k \in Calls : /\ WF_vars(NextDeploymentCandidate(k))
                        /\ WF_vars(ClaimDeploymentTarget(k) \/ ClaimRefused(k))

-----------------------------------------------------------------------------
(* Staged rollout: whatever order operators advance, stop and retry in, a    *)
(* target beyond the stage reached is never dispatched.                      *)
StagesContainTheRollout ==
    \A c \in Campaigns : \A t \in TargetsOf(c) :
        camp[c].state = "DRAFT" \/ t \notin Cohort(c, camp[c].stage) =>
            tgt[t].state \in {"HELD", "CANCELLED"} /\ tgt[t].attempts = 0

(* "All deployment targets reached a terminal result." is true of a          *)
(* COMPLETED campaign, and stays true: no late report or retry reopens it.   *)
CompletedMeansTerminal ==
    \A c \in Campaigns : camp[c].state = "COMPLETED" =>
        \A t \in TargetsOf(c) : tgt[t].state \in {"SUCCESS", "FAILED", "CANCELLED"}

(* A pause, stop or revocation that commits after an agent read its          *)
(* candidate still keeps the job from being leased; a target is leased to    *)
(* one claim at a time, with a reservation or a seat of its asset; and a     *)
(* recorded success leaves the asset with a seat, although seats are         *)
(* assigned and reclaimed between claim and report.                          *)
DispatchIsStillAllowed ==
    [][\A t \in Targets :
          /\ tgt'[t].attempts > tgt[t].attempts =>
                /\ camp[CampaignOf[t]].state = "ACTIVE" /\ deployable
                /\ tgt[t].state # "CLAIMED"
                /\ resv'[t] = "RESERVED" \/ AssetOf[t] \in seated'
          /\ tgt[t].state # "SUCCESS" /\ tgt'[t].state = "SUCCESS" =>
                AssetOf[t] \in seated']_vars

(* A failure reported before anything was executed leaves no seat reserved,  *)
(* also when the target is requeued, retried, cancelled or refused later.    *)
SafeFailureHoldsNoSeat ==
    \A t \in Targets :
        tgt[t].state # "CLAIMED" /\ tgt[t].outcome \in SafeFailures => resv[t] # "RESERVED"

(* What every reachable state of a campaign keeps: the rollout stays within  *)
(* the stage reached, COMPLETED is final, and a safe failure gives its seat  *)
(* back (deployments.ts, software-deployment-routes.ts of the gateway).      *)
DeploymentInv == TypeOK /\ StagesContainTheRollout /\ CompletedMeansTerminal /\ SafeFailureHoldsNoSeat

(* A queued target of an active campaign is not starved by stale candidates: *)
(* it is claimed unless the campaign, the artifact or the seats forbid it.   *)
QueuedTargetsAreClaimed ==
    \A t \in Targets :
        tgt[t].state = "QUEUED" /\ camp[CampaignOf[t]].state = "ACTIVE" ~>
            \/ tgt[t].state # "QUEUED" \/ camp[CampaignOf[t]].state # "ACTIVE"
            \/ ~ deployable \/ ~ SeatFor(t)

(* "Campaign stages and stop thresholds prevent further dispatch when        *)
(* tripped": an active campaign has no security failure behind it.  The code *)
(* does not keep this: a failure reported under a pause is not looked at.    *)
SecurityFailureStopsCampaign ==
    \A t \in Targets :
        StopOnSecurityFailure /\ tgt[t].state = "FAILED" /\ tgt[t].outcome \in SecurityFailures =>
            camp[CampaignOf[t]].state # "ACTIVE"

(* "verified post-check activates it": the report of a verified install by   *)
(* the lease holder can commit.  The code does not keep this: a released     *)
(* reservation stays in the way of the asset's own seat.                     *)
VerifiedInstallIsRecorded ==
    \A t \in Targets :
        tgt[t].state = "CLAIMED" /\ tgt[t].leased /\ AssetOf[t] \in seated => CanActivate(t)
=============================================================================
