-------------------------- MODULE DeploymentProofs --------------------------
(***************************************************************************)
(* What holds of every deployment campaign, for any campaigns, targets,    *)
(* agents, stages, limits and number of seats.                             *)
(***************************************************************************)
EXTENDS SoftwareDeployment, FiniteSetTheorems, TLAPS

(* What a claim has read was a target that may be claimed.                   *)
CandidatesWereOpen ==
    \A k \in Calls : cand[k] # None => cand[k].seen.state \in {"QUEUED", "WAITING_REBOOT"}

(* A stage that was reached has no target that is still held back.           *)
StageIsOpened ==
    \A c \in Campaigns : camp[c].state # "DRAFT" => \A t \in Cohort(c, camp[c].stage) : tgt[t].state # "HELD"

(* A reservation becomes an assignment only with the success of its target.  *)
AssignedIsInstalled == \A t \in Targets : resv[t] = "ASSIGNED" => tgt[t].state = "SUCCESS"

DepInv == DeploymentInv /\ CandidatesWereOpen /\ StageIsOpened /\ AssignedIsInstalled

-----------------------------------------------------------------------------
(* The invariant, one target at a time                                       *)

CampaignRows == [state : {"DRAFT", "ACTIVE", "PAUSED", "STOPPED", "COMPLETED"}, stage : Stages]

(* Target t of a campaign C with the record x.                               *)
TargetOK(C, t, x) ==
    /\ C.state = "DRAFT" \/ t \notin Cohort(CampaignOf[t], C.stage) =>
         x.state \in {"HELD", "CANCELLED"} /\ x.attempts = 0
    /\ C.state = "COMPLETED" => x.state \in {"SUCCESS", "FAILED", "CANCELLED"}
    /\ C.state # "DRAFT" /\ t \in Cohort(CampaignOf[t], C.stage) => x.state # "HELD"

LicenseOK(x, r) ==
    /\ x.state # "CLAIMED" /\ x.outcome \in SafeFailures => r # "RESERVED"
    /\ r = "ASSIGNED" => x.state = "SUCCESS"

(* What the invariant says of one target.                                    *)
LEMMA TargetFacts ==
    ASSUME DepInv, NEW t \in Targets
    PROVE  /\ CampaignOf[t] \in Campaigns /\ camp[CampaignOf[t]] \in CampaignRows /\ tgt[t] \in TargetRecords
           /\ t \in TargetsOf(CampaignOf[t])
           /\ TargetOK(camp[CampaignOf[t]], t, tgt[t]) /\ LicenseOK(tgt[t], resv[t])
<1>1. CampaignOf[t] \in Campaigns /\ t \in TargetsOf(CampaignOf[t])
  BY ShapeAssumption DEF TargetsOf
<1>2. camp[CampaignOf[t]] \in CampaignRows /\ tgt[t] \in TargetRecords
  BY <1>1 DEF DepInv, DeploymentInv, TypeOK, CampaignRows
<1>3. TargetOK(camp[CampaignOf[t]], t, tgt[t])
  BY <1>1 DEF TargetOK, DepInv, DeploymentInv, StagesContainTheRollout, CompletedMeansTerminal, StageIsOpened
<1>4. LicenseOK(tgt[t], resv[t])
  BY DEF LicenseOK, DepInv, DeploymentInv, SafeFailureHoldsNoSeat, AssignedIsInstalled
<1> QED
  BY <1>1, <1>2, <1>3, <1>4

(* The invariant after a step, target by target.                             *)
LEMMA DepInvNext ==
    ASSUME TypeOK', CandidatesWereOpen',
           \A t \in Targets : TargetOK(camp'[CampaignOf[t]], t, tgt'[t]) /\ LicenseOK(tgt'[t], resv'[t])
    PROVE  DepInv'
<1>1. \A c \in Campaigns : \A t \in TargetsOf(c) : t \in Targets /\ CampaignOf[t] = c
  BY DEF TargetsOf
<1>2. \A c \in Campaigns : \A t \in Cohort(c, camp'[c].stage) : t \in TargetsOf(c)
  BY DEF Cohort
<1>3. StagesContainTheRollout' /\ CompletedMeansTerminal'
  <2>1. ASSUME NEW c \in Campaigns, NEW t \in TargetsOf(c)
        PROVE  /\ camp'[c].state = "DRAFT" \/ t \notin Cohort(c, camp'[c].stage) =>
                    tgt'[t].state \in {"HELD", "CANCELLED"} /\ tgt'[t].attempts = 0
               /\ camp'[c].state = "COMPLETED" => tgt'[t].state \in {"SUCCESS", "FAILED", "CANCELLED"}
    BY <1>1 DEF TargetOK
  <2>2. StagesContainTheRollout'
    BY <2>1 DEF StagesContainTheRollout, Cohort, TargetsOf
  <2>3. CompletedMeansTerminal'
    BY <2>1 DEF CompletedMeansTerminal, TargetsOf
  <2> QED BY <2>2, <2>3
<1>4. StageIsOpened'
  BY <1>1, <1>2 DEF StageIsOpened, TargetOK, Cohort, TargetsOf
<1>5. SafeFailureHoldsNoSeat' /\ AssignedIsInstalled'
  BY DEF SafeFailureHoldsNoSeat, AssignedIsInstalled, LicenseOK
<1> QED
  BY <1>3, <1>4, <1>5 DEF DepInv, DeploymentInv

(* The invariant holds of campaigns in DRAFT whose targets are all HELD.     *)
LEMMA InitDepInv == Init => DepInv
<1> SUFFICES ASSUME Init PROVE DepInv
  OBVIOUS
<1> USE ShapeAssumption, PolicyAssumption DEF Init
<1>1. TypeOK
  BY DEF TypeOK, TargetRecords, Stages
<1>2. StagesContainTheRollout /\ CompletedMeansTerminal
  BY DEF StagesContainTheRollout, CompletedMeansTerminal, TargetsOf
<1>3. SafeFailureHoldsNoSeat /\ CandidatesWereOpen /\ StageIsOpened /\ AssignedIsInstalled
  BY DEF SafeFailureHoldsNoSeat, CandidatesWereOpen, StageIsOpened, AssignedIsInstalled
<1> QED
  BY <1>1, <1>2, <1>3 DEF DepInv, DeploymentInv

-----------------------------------------------------------------------------
(* Stages                                                                    *)

(* A stage other than the last one is followed by a larger one.              *)
LEMMA NextStageFacts ==
    ASSUME NEW p \in Stages, p # 100
    PROVE  NextStage(p) \in Stages /\ NextStage(p) > p
<1>1. \E n \in Stages : n > p /\ \A m \in Stages : m > p => n <= m
  BY DEF Stages
<1> QED
  BY <1>1 DEF NextStage

(* A campaign has finitely many targets.                                     *)
LEMMA TargetCount ==
    ASSUME NEW c \in Campaigns
    PROVE  Cardinality(TargetsOf(c)) \in Nat
<1>1. TargetsOf(c) \subseteq Targets
  BY DEF TargetsOf
<1>2. IsFiniteSet(TargetsOf(c))
  BY <1>1, ShapeAssumption, FS_Subset
<1> QED
  BY <1>2, FS_CardinalityType

(* A later stage contains the earlier ones, and the last one every target.   *)
LEMMA CutoffGrows ==
    ASSUME NEW n \in Nat, NEW p \in Stages, NEW q \in Stages, p <= q
    PROVE  Cutoff(n, p) \in Nat /\ Cutoff(n, q) \in Nat /\ Cutoff(n, p) <= Cutoff(n, q)
<1>1. n * p \in Nat /\ n * q \in Nat /\ n * p <= n * q
  BY DEF Stages
<1>2. Ceiling(n * p) \in Nat /\ Ceiling(n * q) \in Nat /\ Ceiling(n * p) <= Ceiling(n * q)
  BY <1>1 DEF Ceiling
<1> QED
  BY <1>2 DEF Cutoff

(* A later stage covers every target of an earlier one: rounding up is       *)
(* monotone.                                                                 *)
LEMMA CohortGrows ==
    ASSUME NEW c \in Campaigns, NEW p \in Stages, NEW q \in Stages, p <= q
    PROVE  Cohort(c, p) \subseteq Cohort(c, q)
<1>1. Cardinality(TargetsOf(c)) \in Nat
  BY TargetCount
<1>2. \A t \in TargetsOf(c) : Order[t] \in Nat
  BY ShapeAssumption DEF TargetsOf
<1>3. PICK n \in Nat : n = Cardinality(TargetsOf(c))
  BY <1>1
<1>4. Cutoff(n, p) \in Nat /\ Cutoff(n, q) \in Nat /\ Cutoff(n, p) <= Cutoff(n, q)
  BY CutoffGrows
<1> QED
  BY <1>2, <1>3, <1>4 DEF Cohort

(* The last stage covers every target of the campaign.                       *)
LEMMA LastStageIsAll ==
    ASSUME NEW c \in Campaigns
    PROVE  Cohort(c, 100) = TargetsOf(c)
<1>1. PICK n \in Nat : n = Cardinality(TargetsOf(c))
  BY TargetCount
<1>2. \A t \in TargetsOf(c) : Order[t] \in Nat /\ Order[t] <= n
  BY <1>1, ShapeAssumption, CohortAssumption DEF TargetsOf
<1>3. Cutoff(n, 100) \in Nat /\ n <= Cutoff(n, 100)
  BY DEF Cutoff, Ceiling
<1> QED
  BY <1>1, <1>2, <1>3 DEF Cohort

-----------------------------------------------------------------------------
(* Campaign commands                                                         *)

(* A command that writes one campaign preserves the invariant if it does so  *)
(* for the targets of that campaign.                                         *)
LEMMA CampaignMoves ==
    ASSUME DepInv, NEW c \in Campaigns, NEW C \in CampaignRows, camp' = [camp EXCEPT ![c] = C],
           tgt' \in [Targets -> TargetRecords], \A t \in Targets : CampaignOf[t] # c => tgt'[t] = tgt[t],
           \A t \in TargetsOf(c) : TargetOK(C, t, tgt'[t]) /\ LicenseOK(tgt'[t], resv[t]),
           UNCHANGED <<cand, deployable, licenseVars>>
    PROVE  DepInv'
<1>0. UNCHANGED <<cand, deployable, resv, seated>>
  BY DEF licenseVars
<1>1. camp' \in [Campaigns -> CampaignRows] /\ camp'[c] = C /\ \A d \in Campaigns : d # c => camp'[d] = camp[d]
  BY DEF DepInv, DeploymentInv, TypeOK, CampaignRows
<1>2. TypeOK'
  BY <1>0, <1>1 DEF DepInv, DeploymentInv, TypeOK, CampaignRows
<1>3. CandidatesWereOpen'
  BY <1>0 DEF DepInv, CandidatesWereOpen
<1>4. ASSUME NEW t \in Targets PROVE TargetOK(camp'[CampaignOf[t]], t, tgt'[t]) /\ LicenseOK(tgt'[t], resv'[t])
  <2>1. CASE CampaignOf[t] = c
    BY <1>0, <1>1, <2>1 DEF TargetsOf
  <2>2. CASE CampaignOf[t] # c
    BY <1>0, <1>1, <2>2, TargetFacts
  <2> QED BY <2>1, <2>2
<1> QED
  BY <1>2, <1>3, <1>4, DepInvNext

(* A target that is queued by the opening of a stage, or left alone by it,   *)
(* is in order.                                                              *)
LEMMA Queued ==
    ASSUME DepInv, NEW t \in Targets, NEW p \in Stages,
           NEW y, y = IF t \in Cohort(CampaignOf[t], p) /\ tgt[t].state = "HELD"
                      THEN [tgt[t] EXCEPT !.state = "QUEUED"] ELSE tgt[t],
           Cohort(CampaignOf[t], camp[CampaignOf[t]].stage) \subseteq Cohort(CampaignOf[t], p),
           camp[CampaignOf[t]].state \in {"DRAFT", "ACTIVE"}
    PROVE  /\ y \in TargetRecords /\ TargetOK([state |-> "ACTIVE", stage |-> p], t, y)
           /\ LicenseOK(y, resv[t])
<1>1. tgt[t] \in TargetRecords /\ TargetOK(camp[CampaignOf[t]], t, tgt[t]) /\ LicenseOK(tgt[t], resv[t])
  BY TargetFacts
<1>2. CASE t \in Cohort(CampaignOf[t], p) /\ tgt[t].state = "HELD"
  <2>1. y \in TargetRecords /\ y.state = "QUEUED" /\ y.outcome = tgt[t].outcome
    BY <1>1, <1>2 DEF TargetRecords
  <2> QED BY <1>1, <1>2, <2>1 DEF TargetOK, LicenseOK
<1>3. CASE ~(t \in Cohort(CampaignOf[t], p) /\ tgt[t].state = "HELD")
  <2>1. y = tgt[t]
    BY <1>3
  <2>2. TargetOK([state |-> "ACTIVE", stage |-> p], t, tgt[t])
    BY <1>1, <1>3 DEF TargetOK
  <2> QED BY <1>1, <2>1, <2>2
<1> QED
  BY <1>2, <1>3

(* Opening a stage preserves the invariant.                                  *)
LEMMA StageOpens ==
    ASSUME DepInv, NEW c \in Campaigns, NEW p \in Stages, camp[c].state \in {"DRAFT", "ACTIVE"},
           Cohort(c, camp[c].stage) \subseteq Cohort(c, p),
           SetCampaign(c, "ACTIVE", p), tgt' = QueueCohort(c, p), UNCHANGED <<cand, deployable, licenseVars>>
    PROVE  DepInv'
<1> DEFINE f(t) == IF t \in Cohort(c, p) /\ tgt[t].state = "HELD"
                   THEN [tgt[t] EXCEPT !.state = "QUEUED"] ELSE tgt[t]
           C == [state |-> "ACTIVE", stage |-> p]
<1>1. C \in CampaignRows /\ camp' = [camp EXCEPT ![c] = C]
  BY DEF CampaignRows, SetCampaign
<1>2. \A t \in Targets : tgt'[t] = f(t)
  BY DEF QueueCohort
<1>3. ASSUME NEW t \in Targets, CampaignOf[t] # c PROVE tgt'[t] = tgt[t]
  <2>1. t \notin Cohort(c, p)
    BY <1>3 DEF Cohort, TargetsOf
  <2> QED BY <1>2, <2>1
<1>4. ASSUME NEW t \in TargetsOf(c)
      PROVE  tgt'[t] \in TargetRecords /\ TargetOK(C, t, tgt'[t]) /\ LicenseOK(tgt'[t], resv[t])
  <2>1. t \in Targets /\ CampaignOf[t] = c
    BY DEF TargetsOf
  <2>2. tgt'[t] = IF t \in Cohort(CampaignOf[t], p) /\ tgt[t].state = "HELD"
                  THEN [tgt[t] EXCEPT !.state = "QUEUED"] ELSE tgt[t]
    BY <1>2, <2>1
  <2>3. PICK y : y = tgt'[t]
    OBVIOUS
  <2> QED BY <2>1, <2>2, <2>3, Queued
<1> HIDE DEF C, f
<1>5. tgt' \in [Targets -> TargetRecords]
  <2>1. \A t \in Targets : tgt'[t] \in TargetRecords
    BY <1>3, <1>4, TargetFacts DEF TargetsOf
  <2>2. tgt' = [t \in Targets |-> tgt'[t]]
    BY DEF QueueCohort
  <2> QED BY <2>1, <2>2
<1> QED
  BY <1>1, <1>3, <1>4, <1>5, CampaignMoves

(* What stopping a campaign makes of one of its targets.                     *)
LEMMA Cancelled ==
    ASSUME NEW t \in Targets, NEW C, NEW D, D.state = "STOPPED", D.stage = C.stage, NEW x \in TargetRecords, NEW r,
           TargetOK(C, t, x), LicenseOK(x, r),
           NEW y, y = IF x.state \in {"HELD", "QUEUED"} THEN [x EXCEPT !.state = "CANCELLED"] ELSE x
    PROVE  y \in TargetRecords /\ TargetOK(D, t, y) /\ LicenseOK(y, r)
<1>1. CASE x.state \in {"HELD", "QUEUED"}
  <2>1. y \in TargetRecords /\ y.state = "CANCELLED" /\ y.outcome = x.outcome /\ y.attempts = x.attempts
    BY <1>1 DEF TargetRecords
  <2>2. TargetOK(D, t, y)
    BY <1>1, <2>1 DEF TargetOK
  <2>3. LicenseOK(y, r)
    BY <1>1, <2>1 DEF LicenseOK
  <2> QED BY <2>1, <2>2, <2>3
<1>2. CASE x.state \notin {"HELD", "QUEUED"}
  <2>1. y = x
    BY <1>2
  <2>2. TargetOK(D, t, x)
    BY <1>2 DEF TargetOK
  <2> QED BY <2>1, <2>2
<1> QED
  BY <1>1, <1>2

(* Activating, advancing, pausing, resuming and cancelling a campaign        *)
(* preserve the invariant.                                                   *)
LEMMA CampaignPreserves == DepInv /\ CampaignCommands => DepInv'
<1> SUFFICES ASSUME DepInv, CampaignCommands PROVE DepInv'
  OBVIOUS
<1>0. /\ \A c \in Campaigns : camp[c] \in CampaignRows
      /\ tgt \in [Targets -> TargetRecords]
  BY DEF DepInv, DeploymentInv, TypeOK, CampaignRows
<1>1. ASSUME NEW c \in Campaigns, Start(c) PROVE DepInv'
  <2>1. camp[c].stage \in Stages
    BY <1>0 DEF CampaignRows
  <2>2. PICK p \in Stages : p = camp[c].stage
    BY <2>1
  <2>3. Cohort(c, camp[c].stage) \subseteq Cohort(c, p) /\ camp[c].state = "DRAFT" /\ SetCampaign(c, "ACTIVE", p)
        /\ tgt' = QueueCohort(c, p) /\ UNCHANGED <<cand, deployable, licenseVars>>
    BY <1>1, <2>2 DEF Start
  <2> QED BY <2>3, StageOpens
<1>2. ASSUME NEW c \in Campaigns, Advance(c) PROVE DepInv'
  <2>1. camp[c].stage \in Stages /\ camp[c].stage # 100
    BY <1>0, <1>2 DEF CampaignRows, Advance
  <2>2. PICK p \in Stages : p = NextStage(camp[c].stage) /\ p > camp[c].stage
    BY <2>1, NextStageFacts
  <2>3. camp[c].stage <= p
    BY <2>1, <2>2 DEF Stages
  <2>4. Cohort(c, camp[c].stage) \subseteq Cohort(c, p)
    BY <2>1, <2>3, CohortGrows
  <2>5. camp[c].state = "ACTIVE" /\ SetCampaign(c, "ACTIVE", p)
        /\ tgt' = QueueCohort(c, p) /\ UNCHANGED <<cand, deployable, licenseVars>>
    BY <1>2, <2>2 DEF Advance
  <2> QED BY <2>4, <2>5, StageOpens
<1>3. ASSUME NEW c \in Campaigns, Pause(c) \/ Resume(c) PROVE DepInv'
  <2>1. PICK s \in {"PAUSED", "ACTIVE"} : SetCampaign(c, s, camp[c].stage)
    BY <1>3 DEF Pause, Resume
  <2>2. UNCHANGED <<tgt, cand, deployable, licenseVars>> /\ camp[c].state \in {"PAUSED", "ACTIVE"}
    BY <1>3 DEF Pause, Resume
  <2> DEFINE C == [state |-> s, stage |-> camp[c].stage]
  <2>3. C \in CampaignRows /\ camp' = [camp EXCEPT ![c] = C] /\ C.state = s /\ C.stage = camp[c].stage
    BY <1>0, <2>1 DEF SetCampaign, CampaignRows
  <2> HIDE DEF C
  <2>4. ASSUME NEW t \in TargetsOf(c) PROVE TargetOK(C, t, tgt'[t]) /\ LicenseOK(tgt'[t], resv[t])
    <3>1. t \in Targets /\ CampaignOf[t] = c
      BY DEF TargetsOf
    <3>2. TargetOK(camp[c], t, tgt[t]) /\ LicenseOK(tgt[t], resv[t])
      BY <3>1, TargetFacts
    <3>3. TargetOK(C, t, tgt[t])
      BY <2>2, <2>3, <3>2 DEF TargetOK
    <3> QED BY <2>2, <3>2, <3>3
  <2> QED BY <1>0, <2>2, <2>3, <2>4, CampaignMoves
<1>4. ASSUME NEW c \in Campaigns, Stop(c) PROVE DepInv'
  <2> DEFINE C == [state |-> "STOPPED", stage |-> camp[c].stage]
             f(t) == IF CampaignOf[t] = c /\ tgt[t].state \in {"HELD", "QUEUED"}
                     THEN [tgt[t] EXCEPT !.state = "CANCELLED"] ELSE tgt[t]
  <2>1. /\ C \in CampaignRows /\ camp' = [camp EXCEPT ![c] = C] /\ C.state = "STOPPED" /\ C.stage = camp[c].stage
        /\ UNCHANGED <<cand, deployable, licenseVars>>
    BY <1>0, <1>4 DEF Stop, SetCampaign, CampaignRows
  <2>2. tgt' = [t \in Targets |-> f(t)]
    BY <1>4 DEF Stop, CancelPending
  <2>3. \A t \in Targets : CampaignOf[t] # c => tgt'[t] = tgt[t]
    BY <2>2
  <2> HIDE DEF C
  <2>4. ASSUME NEW t \in TargetsOf(c)
        PROVE  tgt'[t] \in TargetRecords /\ TargetOK(C, t, tgt'[t]) /\ LicenseOK(tgt'[t], resv[t])
    <3>1. t \in Targets /\ CampaignOf[t] = c
      BY DEF TargetsOf
    <3>2. tgt[t] \in TargetRecords /\ TargetOK(camp[c], t, tgt[t]) /\ LicenseOK(tgt[t], resv[t])
      BY <3>1, TargetFacts
    <3>3. PICK y : y = tgt'[t]
      OBVIOUS
    <3>4. y = IF tgt[t].state \in {"HELD", "QUEUED"} THEN [tgt[t] EXCEPT !.state = "CANCELLED"] ELSE tgt[t]
      BY <2>2, <3>1, <3>3
    <3> QED BY <2>1, <3>1, <3>2, <3>3, <3>4, Cancelled
  <2> HIDE DEF f
  <2>5. tgt' \in [Targets -> TargetRecords]
    <3>1. \A t \in Targets : tgt'[t] \in TargetRecords
      BY <1>0, <2>3, <2>4 DEF TargetsOf
    <3> QED BY <2>2, <3>1
  <2> QED BY <2>1, <2>3, <2>4, <2>5, CampaignMoves
<1>5. ASSUME NEW t \in Targets, RetryDeploymentTarget(t) PROVE DepInv'
  <2>1. /\ tgt[t].state = "FAILED" /\ camp[CampaignOf[t]].state = "ACTIVE" /\ tgt' = [tgt EXCEPT ![t].state = "QUEUED"]
        /\ UNCHANGED <<camp, cand, deployable, resv, seated>>
    BY <1>5 DEF RetryDeploymentTarget, licenseVars
  <2> DEFINE y == [tgt[t] EXCEPT !.state = "QUEUED"]
  <2>2. tgt[t] \in TargetRecords /\ TargetOK(camp[CampaignOf[t]], t, tgt[t]) /\ LicenseOK(tgt[t], resv[t])
    BY TargetFacts
  <2>3. y \in TargetRecords /\ y.state = "QUEUED" /\ y.outcome = tgt[t].outcome
    BY <2>2 DEF TargetRecords
  <2>4. tgt' = [tgt EXCEPT ![t] = y]
    BY <2>1
  <2> HIDE DEF y
  <2>5. TargetOK(camp[CampaignOf[t]], t, y) /\ LicenseOK(y, resv[t])
    BY <2>1, <2>2, <2>3 DEF TargetOK, LicenseOK
  <2>6. tgt' \in [Targets -> TargetRecords] /\ tgt'[t] = y /\ \A u \in Targets : u # t => tgt'[u] = tgt[u]
    BY <1>0, <2>3, <2>4
  <2>7. TypeOK' /\ CandidatesWereOpen'
    BY <2>1, <2>6 DEF DepInv, DeploymentInv, TypeOK, CandidatesWereOpen
  <2>8. \A u \in Targets : TargetOK(camp'[CampaignOf[u]], u, tgt'[u]) /\ LicenseOK(tgt'[u], resv'[u])
    BY <2>1, <2>5, <2>6, TargetFacts
  <2> QED BY <2>7, <2>8, DepInvNext
<1> QED
  BY <1>1, <1>2, <1>3, <1>4, <1>5 DEF CampaignCommands

-----------------------------------------------------------------------------
(* Claims, reports and seats                                                 *)

(* What a successful claim has found under its locks, and what it writes.    *)
LEMMA ClaimFacts ==
    ASSUME DepInv, NEW k \in Calls, ClaimDeploymentTarget(k), NEW t, t = cand[k].t
    PROVE  /\ t \in Targets /\ tgt[t].state \in {"QUEUED", "WAITING_REBOOT"} /\ tgt[t].attempts < MaxAttempts
           /\ camp[CampaignOf[t]].state = "ACTIVE" /\ deployable /\ Reserve(t)
           /\ tgt' = [tgt EXCEPT ![t] = [tgt[t] EXCEPT !.state = "CLAIMED", !.leased = TRUE, !.attempts = @ + 1]]
           /\ cand' = [cand EXCEPT ![k] = None] /\ UNCHANGED <<camp, deployable>>
<1>1. cand[k] # None /\ Claimable(k) /\ Reserve(t)
  BY DEF ClaimDeploymentTarget
<1>2. t \in Targets /\ cand[k].seen.state \in {"QUEUED", "WAITING_REBOOT"}
  BY <1>1 DEF DepInv, DeploymentInv, TypeOK, CandidatesWereOpen
<1>3. /\ tgt[t] = cand[k].seen /\ tgt[t].attempts < MaxAttempts /\ camp[CampaignOf[t]].state = "ACTIVE" /\ deployable
  BY <1>1 DEF Claimable
<1> QED
  BY <1>1, <1>2, <1>3 DEF ClaimDeploymentTarget

(* A claim preserves the invariant: its candidate, read before the locks, is *)
(* checked again under them.                                                 *)
LEMMA ClaimPreserves ==
    ASSUME DepInv, NEW k \in Calls, ClaimDeploymentTarget(k)
    PROVE  DepInv'
<1>0. PICK t : t = cand[k].t
  OBVIOUS
<1>1. /\ t \in Targets /\ tgt[t].state \in {"QUEUED", "WAITING_REBOOT"} /\ tgt[t].attempts < MaxAttempts
      /\ camp[CampaignOf[t]].state = "ACTIVE" /\ Reserve(t)
      /\ tgt' = [tgt EXCEPT ![t] = [tgt[t] EXCEPT !.state = "CLAIMED", !.leased = TRUE, !.attempts = @ + 1]]
      /\ cand' = [cand EXCEPT ![k] = None] /\ UNCHANGED <<camp, deployable>>
  BY <1>0, ClaimFacts
<1> DEFINE y == [tgt[t] EXCEPT !.state = "CLAIMED", !.leased = TRUE, !.attempts = tgt[t].attempts + 1]
<1>2. tgt[t] \in TargetRecords /\ TargetOK(camp[CampaignOf[t]], t, tgt[t]) /\ LicenseOK(tgt[t], resv[t])
  BY <1>1, TargetFacts
<1>3. tgt[t].attempts + 1 \in 0 .. MaxAttempts
  <2>1. tgt[t].attempts \in 0 .. MaxAttempts /\ MaxAttempts \in Nat
    BY <1>2, PolicyAssumption DEF TargetRecords
  <2> QED BY <1>1, <2>1
<1>4. y \in TargetRecords /\ y.state = "CLAIMED" /\ tgt' = [u \in DOMAIN tgt |-> IF u = t THEN y ELSE tgt[u]]
  <2>1. y \in TargetRecords /\ y.state = "CLAIMED"
    BY <1>2, <1>3 DEF TargetRecords
  <2>2. tgt' = [u \in DOMAIN tgt |-> IF u = t THEN y ELSE tgt[u]]
    BY <1>1
  <2> QED BY <2>1, <2>2
<1> HIDE DEF y
<1>5. tgt' \in [Targets -> TargetRecords] /\ tgt'[t] = y /\ \A u \in Targets : u # t => tgt'[u] = tgt[u]
  BY <1>1, <1>4 DEF DepInv, DeploymentInv, TypeOK
<1>6. /\ resv' \in [Targets -> {"NONE", "RESERVED", "RELEASED", "ASSIGNED"}] /\ UNCHANGED seated
      /\ \A u \in Targets : u # t => resv'[u] = resv[u]
      /\ resv'[t] \in {resv[t], "RESERVED"}
  BY <1>1 DEF Reserve, DepInv, DeploymentInv, TypeOK
<1>7. cand' \in [Calls -> [t : Targets, seen : TargetRecords] \cup {None}] /\ \A j \in Calls : cand'[j] \in {cand[j], None}
  BY <1>1 DEF DepInv, DeploymentInv, TypeOK
<1>8. TypeOK'
  BY <1>1, <1>5, <1>6, <1>7 DEF DepInv, DeploymentInv, TypeOK
<1>9. CandidatesWereOpen'
  BY <1>7 DEF DepInv, CandidatesWereOpen
<1>10. TargetOK(camp[CampaignOf[t]], t, y) /\ LicenseOK(y, resv'[t])
  BY <1>1, <1>2, <1>4, <1>6 DEF TargetOK, LicenseOK
<1>11. \A u \in Targets : TargetOK(camp'[CampaignOf[u]], u, tgt'[u]) /\ LicenseOK(tgt'[u], resv'[u])
  BY <1>1, <1>5, <1>6, <1>10, TargetFacts
<1> QED
  BY <1>8, <1>9, <1>11, DepInvNext

(* The steps of a gateway call preserve the invariant.                       *)
LEMMA CallsPreserve ==
    ASSUME DepInv, NEW k \in Calls, NextDeploymentCandidate(k) \/ ClaimDeploymentTarget(k) \/ ClaimRefused(k)
    PROVE  DepInv'
<1>1. CASE ClaimDeploymentTarget(k)
  BY <1>1, ClaimPreserves
<1>2. CASE NextDeploymentCandidate(k) \/ ClaimRefused(k)
  <2>1. UNCHANGED <<camp, tgt, deployable, resv, seated>>
    BY <1>2 DEF NextDeploymentCandidate, ClaimRefused, licenseVars
  <2>2. \E y \in [t : Targets, seen : TargetRecords] \cup {None} :
           /\ cand' = [cand EXCEPT ![k] = y]
           /\ y # None => y.seen.state \in {"QUEUED", "WAITING_REBOOT"}
    <3>1. CASE ClaimRefused(k)
      BY <3>1 DEF ClaimRefused
    <3>2. CASE NextDeploymentCandidate(k)
      <4>1. PICK t \in Open(CallerOf[k]) : cand' = [cand EXCEPT ![k] = [t |-> t, seen |-> tgt[t]]]
        BY <3>2 DEF NextDeploymentCandidate
      <4>2. t \in Targets /\ tgt[t].state \in {"QUEUED", "WAITING_REBOOT"} /\ tgt[t] \in TargetRecords
        BY <4>1, TargetFacts DEF Open
      <4>3. [t |-> t, seen |-> tgt[t]] \in [t : Targets, seen : TargetRecords] /\ [t |-> t, seen |-> tgt[t]].seen = tgt[t]
        BY <4>2
      <4> QED BY <4>1, <4>2, <4>3
    <3> QED BY <1>2, <3>1, <3>2
  <2>3. /\ cand' \in [Calls -> [t : Targets, seen : TargetRecords] \cup {None}]
        /\ \A j \in Calls : cand'[j] # None => \/ cand'[j] = cand[j]
                                              \/ cand'[j].seen.state \in {"QUEUED", "WAITING_REBOOT"}
    BY <2>2 DEF DepInv, DeploymentInv, TypeOK
  <2>4. TypeOK'
    BY <2>1, <2>3 DEF DepInv, DeploymentInv, TypeOK
  <2>5. CandidatesWereOpen'
    BY <2>3 DEF DepInv, CandidatesWereOpen
  <2>6. \A u \in Targets : TargetOK(camp'[CampaignOf[u]], u, tgt'[u]) /\ LicenseOK(tgt'[u], resv'[u])
    BY <2>1, TargetFacts
  <2> QED BY <2>4, <2>5, <2>6, DepInvNext
<1> QED
  BY <1>1, <1>2

(* The license side of a report, for the target as it is reported.           *)
LEMMA LicenseFollowsReport ==
    ASSUME DepInv, NEW t \in Targets, NEW outcome \in Outcomes, NEW x, tgt[t].state = "CLAIMED",
           LicenseEffect(t, outcome), x.outcome = outcome, x.state # "CLAIMED", outcome = "SUCCESS" => x.state = "SUCCESS"
    PROVE  /\ resv' \in [Targets -> {"NONE", "RESERVED", "RELEASED", "ASSIGNED"}] /\ seated' \subseteq Assets
           /\ \A u \in Targets : u # t => resv'[u] = resv[u]
           /\ LicenseOK(x, resv'[t])
           /\ outcome = "SUCCESS" => AssetOf[t] \in seated'
<1>0. /\ resv \in [Targets -> {"NONE", "RESERVED", "RELEASED", "ASSIGNED"}] /\ seated \subseteq Assets
      /\ AssetOf[t] \in Assets /\ resv[t] # "ASSIGNED"
  <2>1. resv[t] # "ASSIGNED"
    BY DEF DepInv, AssignedIsInstalled
  <2> QED BY <2>1, ShapeAssumption DEF DepInv, DeploymentInv, TypeOK
<1>1. CASE outcome = "SUCCESS"
  <2>1. Activate(t)
    BY <1>1 DEF LicenseEffect, SafeFailures
  <2>2. /\ resv' \in [Targets -> {"NONE", "RESERVED", "RELEASED", "ASSIGNED"}] /\ seated' \subseteq Assets
        /\ \A u \in Targets : u # t => resv'[u] = resv[u]
    BY <1>0, <2>1 DEF Activate
  <2>3. AssetOf[t] \in seated'
    <3>1. CASE resv[t] = "RESERVED"
      BY <2>1, <3>1 DEF Activate
    <3>2. CASE resv[t] # "RESERVED"
      BY <1>0, <2>1, <3>2 DEF Activate, CanActivate
    <3> QED BY <3>1, <3>2
  <2>4. LicenseOK(x, resv'[t])
    BY <1>1 DEF LicenseOK, SafeFailures
  <2> QED BY <2>2, <2>3, <2>4
<1>2. CASE outcome \in SafeFailures
  <2>1. Release(t) /\ outcome # "SUCCESS"
    BY <1>2 DEF LicenseEffect, SafeFailures
  <2>2. /\ resv' \in [Targets -> {"NONE", "RESERVED", "RELEASED", "ASSIGNED"}] /\ seated' \subseteq Assets
        /\ \A u \in Targets : u # t => resv'[u] = resv[u]
        /\ resv'[t] \notin {"RESERVED", "ASSIGNED"}
    BY <1>0, <2>1 DEF Release
  <2> QED BY <2>1, <2>2 DEF LicenseOK
<1>3. CASE outcome # "SUCCESS" /\ outcome \notin SafeFailures
  <2>1. UNCHANGED <<resv, seated>>
    BY <1>3 DEF LicenseEffect, licenseVars
  <2> QED BY <1>0, <1>3, <2>1 DEF LicenseOK
<1> QED
  BY <1>1, <1>2, <1>3

(* The report of an agent preserves the invariant: what it consumes or       *)
(* releases is the seat its own target reserved.                             *)
LEMMA ReportPreserves ==
    ASSUME DepInv, NEW t \in Targets, NEW outcome \in Outcomes, NEW retry \in BOOLEAN,
           ReportDeploymentResult(t, outcome, retry)
    PROVE  DepInv'
<1> DEFINE c == CampaignOf[t]
           requeued == retry /\ tgt[t].attempts < MaxAttempts /\ outcome \in {"PRECHECK_FAILED", "INSTALL_FAILED"}
           state == IF requeued THEN "QUEUED" ELSE IF outcome \in Failures THEN "FAILED" ELSE outcome
           x == [tgt[t] EXCEPT !.state = state, !.leased = FALSE, !.outcome = outcome]
           T == [tgt EXCEPT ![t] = x]
           stopped == StopTripped(c, T, t)
           C == [camp[c] EXCEPT !.state = IF stopped THEN "STOPPED" ELSE IF Finished(c, T) THEN "COMPLETED" ELSE @]
<1>1. /\ tgt[t].state = "CLAIMED" /\ LicenseEffect(t, outcome) /\ UNCHANGED <<cand, deployable>>
      /\ tgt' = IF stopped THEN CancelPending(c, T) ELSE T
      /\ camp' = [camp EXCEPT ![c] = C]
  BY DEF ReportDeploymentResult
<1>2. /\ c \in Campaigns /\ camp[c] \in CampaignRows /\ tgt[t] \in TargetRecords
      /\ TargetOK(camp[c], t, tgt[t]) /\ LicenseOK(tgt[t], resv[t])
  BY TargetFacts
<1>3. state \in {"QUEUED", "FAILED", "WAITING_REBOOT", "SUCCESS"} /\ (outcome = "SUCCESS" => state = "SUCCESS")
  BY DEF Outcomes, Failures, SafeFailures, SecurityFailures
<1> HIDE DEF requeued, state
<1>4. /\ x \in TargetRecords /\ x.state = state /\ x.outcome = outcome
  BY <1>2, <1>3 DEF TargetRecords
<1> HIDE DEF x
<1>5. /\ T \in [Targets -> TargetRecords] /\ T[t] = x /\ \A u \in Targets : u # t => T[u] = tgt[u]
  BY <1>4 DEF DepInv, DeploymentInv, TypeOK
<1> HIDE DEF T
<1>6. TargetOK(camp[c], t, x)
  BY <1>1, <1>2, <1>3, <1>4 DEF TargetOK
<1>7. /\ resv' \in [Targets -> {"NONE", "RESERVED", "RELEASED", "ASSIGNED"}] /\ seated' \subseteq Assets
      /\ \A u \in Targets : u # t => resv'[u] = resv[u]
      /\ LicenseOK(x, resv'[t])
  BY <1>1, <1>3, <1>4, LicenseFollowsReport
<1>8. ASSUME NEW u \in Targets
      PROVE  T[u] \in TargetRecords /\ TargetOK(camp[CampaignOf[u]], u, T[u]) /\ LicenseOK(T[u], resv'[u])
  BY <1>4, <1>5, <1>6, <1>7, TargetFacts
<1>9. C \in CampaignRows /\ C.stage = camp[c].stage
  BY <1>2 DEF CampaignRows
<1>10. CASE stopped
  <2>1. C.state = "STOPPED"
    BY <1>2, <1>10 DEF CampaignRows
  <2>2. tgt' = [u \in Targets |-> IF CampaignOf[u] = c /\ T[u].state \in {"HELD", "QUEUED"}
                                  THEN [T[u] EXCEPT !.state = "CANCELLED"] ELSE T[u]]
    BY <1>1, <1>10 DEF CancelPending
  <2> HIDE DEF C, stopped, c
  <2>3. camp' \in [Campaigns -> CampaignRows] /\ camp'[c] = C /\ \A d \in Campaigns : d # c => camp'[d] = camp[d]
    BY <1>1, <1>2, <1>9 DEF DepInv, DeploymentInv, TypeOK, CampaignRows
  <2>4. ASSUME NEW u \in Targets
        PROVE  tgt'[u] \in TargetRecords /\ TargetOK(camp'[CampaignOf[u]], u, tgt'[u]) /\ LicenseOK(tgt'[u], resv'[u])
    <3>0. CampaignOf[u] \in Campaigns
      BY TargetFacts
    <3>1. CASE CampaignOf[u] = c
      <4>1. PICK y : y = tgt'[u]
        OBVIOUS
      <4>2. PICK r : r = resv'[u]
        OBVIOUS
      <4>3. y = IF T[u].state \in {"HELD", "QUEUED"} THEN [T[u] EXCEPT !.state = "CANCELLED"] ELSE T[u]
        BY <2>2, <3>1, <4>1
      <4>4. T[u] \in TargetRecords /\ TargetOK(camp[c], u, T[u]) /\ LicenseOK(T[u], r)
        BY <1>8, <3>1, <4>2
      <4>5. y \in TargetRecords /\ TargetOK(C, u, y) /\ LicenseOK(y, r)
        BY <1>9, <2>1, <4>3, <4>4, Cancelled
      <4> QED BY <2>3, <3>1, <4>1, <4>2, <4>5
    <3>2. CASE CampaignOf[u] # c
      BY <1>8, <2>2, <2>3, <3>0, <3>2
    <3> QED BY <3>1, <3>2
  <2>5. tgt' \in [Targets -> TargetRecords]
    BY <2>2, <2>4
  <2>6. TypeOK' /\ CandidatesWereOpen'
    <3>1. TypeOK'
      BY <1>1, <1>7, <2>3, <2>5 DEF DepInv, DeploymentInv, TypeOK, CampaignRows
    <3>2. CandidatesWereOpen'
      BY <1>1 DEF DepInv, CandidatesWereOpen
    <3> QED BY <3>1, <3>2
  <2> QED BY <2>4, <2>6, DepInvNext
<1>11. CASE ~stopped
  <2>1. tgt' = T
    BY <1>1, <1>11
  <2>2. \/ C.state = camp[c].state
        \/ /\ C.state = "COMPLETED" /\ Finished(c, T)
    BY <1>2, <1>11 DEF CampaignRows
  <2> HIDE DEF C, stopped
  <2>3. camp' \in [Campaigns -> CampaignRows] /\ camp'[c] = C /\ \A d \in Campaigns : d # c => camp'[d] = camp[d]
    BY <1>1, <1>2, <1>9 DEF DepInv, DeploymentInv, TypeOK, CampaignRows
  <2>4. ASSUME NEW u \in Targets PROVE TargetOK(camp'[CampaignOf[u]], u, tgt'[u]) /\ LicenseOK(tgt'[u], resv'[u])
    <3>0. CampaignOf[u] \in Campaigns /\ u \in TargetsOf(CampaignOf[u])
      BY TargetFacts
    <3>1. CASE CampaignOf[u] # c
      BY <1>8, <2>1, <2>3, <3>0, <3>1
    <3>2. CASE CampaignOf[u] = c /\ C.state = camp[c].state
      <4>1. TargetOK(camp[c], u, T[u]) /\ LicenseOK(T[u], resv'[u])
        BY <1>8, <3>2
      <4>2. TargetOK(C, u, T[u])
        BY <1>9, <3>2, <4>1 DEF TargetOK
      <4> QED BY <2>1, <2>3, <3>2, <4>1, <4>2
    <3>3. CASE CampaignOf[u] = c /\ C.state = "COMPLETED" /\ Finished(c, T)
      <4>1. TargetOK(camp[c], u, T[u]) /\ LicenseOK(T[u], resv'[u]) /\ T[u] \in TargetRecords
        BY <1>8, <3>3
      <4>2. camp[c].state = "ACTIVE" /\ camp[c].stage = 100 /\ T[u].state \notin ActiveTargetStates
        BY <3>0, <3>3 DEF Finished
      <4>3. u \in Cohort(c, 100)
        BY <1>2, <3>0, <3>3, LastStageIsAll
      <4>4. T[u].state # "HELD"
        BY <3>3, <4>1, <4>2, <4>3 DEF TargetOK
      <4>5. T[u].state \in {"SUCCESS", "FAILED", "CANCELLED"}
        BY <4>1, <4>2, <4>4 DEF TargetRecords, ActiveTargetStates
      <4>6. TargetOK(C, u, T[u])
        BY <1>9, <3>3, <4>2, <4>3, <4>5 DEF TargetOK
      <4> QED BY <2>1, <2>3, <3>3, <4>1, <4>6
    <3> QED BY <2>2, <3>1, <3>2, <3>3
  <2>5. TypeOK'
    BY <1>1, <1>5, <1>7, <2>1, <2>3 DEF DepInv, DeploymentInv, TypeOK, CampaignRows
  <2>6. CandidatesWereOpen'
    BY <1>1 DEF DepInv, CandidatesWereOpen
  <2> QED BY <2>4, <2>5, <2>6, DepInvNext
<1> QED
  BY <1>10, <1>11

(* A lease that runs out preserves the invariant.                            *)
LEMMA LeasePreserves ==
    ASSUME DepInv, NEW t \in Targets, LeaseExpires(t)
    PROVE  DepInv'
<1> DEFINE y == [tgt[t] EXCEPT !.leased = FALSE]
<1>1. tgt' = [tgt EXCEPT ![t] = y] /\ UNCHANGED <<camp, cand, deployable, resv, seated>>
  BY DEF LeaseExpires, licenseVars
<1>2. tgt[t] \in TargetRecords /\ TargetOK(camp[CampaignOf[t]], t, tgt[t]) /\ LicenseOK(tgt[t], resv[t])
  BY TargetFacts
<1>3. y \in TargetRecords /\ y.state = tgt[t].state /\ y.outcome = tgt[t].outcome /\ y.attempts = tgt[t].attempts
  BY <1>2 DEF TargetRecords
<1> HIDE DEF y
<1>4. tgt' \in [Targets -> TargetRecords] /\ tgt'[t] = y /\ \A u \in Targets : u # t => tgt'[u] = tgt[u]
  BY <1>1, <1>3 DEF DepInv, DeploymentInv, TypeOK
<1>5. TypeOK' /\ CandidatesWereOpen'
  BY <1>1, <1>4 DEF DepInv, DeploymentInv, TypeOK, CandidatesWereOpen
<1>6. TargetOK(camp[CampaignOf[t]], t, y) /\ LicenseOK(y, resv[t])
  BY <1>2, <1>3 DEF TargetOK, LicenseOK
<1>7. \A u \in Targets : TargetOK(camp'[CampaignOf[u]], u, tgt'[u]) /\ LicenseOK(tgt'[u], resv'[u])
  BY <1>1, <1>4, <1>6, TargetFacts
<1> QED
  BY <1>5, <1>7, DepInvNext

(* Administrators, revocation and stuttering leave campaigns and targets.    *)
LEMMA ElsewherePreserves ==
    ASSUME DepInv, UNCHANGED <<camp, tgt, cand, resv>>, deployable' \in BOOLEAN, seated' \subseteq Assets
    PROVE  DepInv'
<1>1. TypeOK' /\ CandidatesWereOpen'
  BY DEF DepInv, DeploymentInv, TypeOK, CandidatesWereOpen
<1>2. \A u \in Targets : TargetOK(camp'[CampaignOf[u]], u, tgt'[u]) /\ LicenseOK(tgt'[u], resv'[u])
  BY TargetFacts
<1> QED
  BY <1>1, <1>2, DepInvNext

(* Every step preserves the invariant.                                       *)
LEMMA DepStep == DepInv /\ [Next]_vars => DepInv'
<1> SUFFICES ASSUME DepInv, [Next]_vars PROVE DepInv'
  OBVIOUS
<1>0. seated \subseteq Assets /\ deployable \in BOOLEAN
  BY DEF DepInv, DeploymentInv, TypeOK
<1>1. CASE CampaignCommands
  BY <1>1, CampaignPreserves
<1>2. ASSUME NEW k \in Calls, NextDeploymentCandidate(k) \/ ClaimDeploymentTarget(k) \/ ClaimRefused(k) PROVE DepInv'
  BY <1>2, CallsPreserve
<1>3. ASSUME NEW t \in Targets, LeaseExpires(t) PROVE DepInv'
  BY <1>3, LeasePreserves
<1>4. ASSUME NEW t \in Targets, NEW outcome \in Outcomes, NEW retry \in BOOLEAN, ReportDeploymentResult(t, outcome, retry)
      PROVE  DepInv'
  BY <1>4, ReportPreserves
<1>5. ASSUME NEW a \in Assets, AssignSeat(a) \/ ReclaimSeat(a) PROVE DepInv'
  <2>1. UNCHANGED <<camp, tgt, cand, resv, deployable>> /\ seated' \subseteq Assets
    BY <1>0, <1>5 DEF AssignSeat, ReclaimSeat
  <2> QED BY <1>0, <2>1, ElsewherePreserves
<1>6. CASE Revoke \/ UNCHANGED vars
  <2>1. UNCHANGED <<camp, tgt, cand, resv, seated>> /\ deployable' \in BOOLEAN
    BY <1>0, <1>6 DEF Revoke, vars, licenseVars
  <2> QED BY <1>0, <2>1, ElsewherePreserves
<1> QED
  BY <1>1, <1>2, <1>3, <1>4, <1>5, <1>6 DEF Next

-----------------------------------------------------------------------------
(* The rollout stays within the stage reached, a COMPLETED campaign has only *)
(* terminal targets for good, and a safe failure gives its seat back, for    *)
(* any number of targets, agents and seats (deployments.ts, the deployment   *)
(* routes of the agent gateway).                                             *)
THEOREM DeploymentInvariant == Spec => []DeploymentInv
<1>1. Init => DepInv
  BY InitDepInv
<1>2. DepInv /\ [Next]_vars => DepInv'
  BY DepStep
<1>3. DepInv => DeploymentInv
  BY DEF DepInv
<1> QED
  BY <1>1, <1>2, <1>3, PTL DEF Spec

(* A job is leased only while its campaign is active and its artifact        *)
(* deployable, to one claim at a time and with a seat, whatever committed    *)
(* since its candidate was read; a recorded success leaves the asset seated  *)
(* (claimDeploymentTarget, reserveLicenseForDeployment,                      *)
(* activateDeploymentReservation).                                           *)
THEOREM DispatchIsAlwaysAllowed == Spec => DispatchIsStillAllowed
<1> DEFINE Allowed(t) ==
      /\ tgt'[t].attempts > tgt[t].attempts =>
            /\ camp[CampaignOf[t]].state = "ACTIVE" /\ deployable
            /\ tgt[t].state # "CLAIMED"
            /\ resv'[t] = "RESERVED" \/ AssetOf[t] \in seated'
      /\ tgt[t].state # "SUCCESS" /\ tgt'[t].state = "SUCCESS" => AssetOf[t] \in seated'
<1>1. ASSUME DepInv, Next, NEW t \in Targets PROVE Allowed(t)
  <2>0. tgt[t] \in TargetRecords /\ tgt \in [Targets -> TargetRecords] /\ tgt[t].attempts \in Nat
    BY <1>1, PolicyAssumption DEF DepInv, DeploymentInv, TypeOK, TargetRecords
  <2>1. CASE tgt'[t].attempts = tgt[t].attempts /\ (tgt'[t].state # "SUCCESS" \/ tgt[t].state = "SUCCESS")
    BY <2>0, <2>1
  <2>2. CASE CampaignCommands
    <3>1. ASSUME NEW c \in Campaigns, NEW p, tgt' = QueueCohort(c, p)
          PROVE  tgt'[t].attempts = tgt[t].attempts /\ (tgt'[t].state # "SUCCESS" \/ tgt[t].state = "SUCCESS")
      BY <2>0, <3>1 DEF QueueCohort, TargetRecords
    <3>2. ASSUME NEW c \in Campaigns, tgt' = CancelPending(c, tgt)
          PROVE  tgt'[t].attempts = tgt[t].attempts /\ (tgt'[t].state # "SUCCESS" \/ tgt[t].state = "SUCCESS")
      BY <2>0, <3>2 DEF CancelPending, TargetRecords
    <3>3. ASSUME NEW u \in Targets, tgt' = [tgt EXCEPT ![u].state = "QUEUED"]
          PROVE  tgt'[t].attempts = tgt[t].attempts /\ (tgt'[t].state # "SUCCESS" \/ tgt[t].state = "SUCCESS")
      BY <2>0, <3>3 DEF TargetRecords
    <3>4. CASE UNCHANGED tgt
      BY <2>1, <3>4
    <3> HIDE DEF Allowed
    <3> QED
      BY <2>1, <2>2, <3>1, <3>2, <3>3, <3>4
      DEF CampaignCommands, Start, Pause, Resume, Advance, Stop, RetryDeploymentTarget
  <2>3. ASSUME NEW k \in Calls, ClaimDeploymentTarget(k) PROVE Allowed(t)
    <3>0. PICK u : u = cand[k].t
      OBVIOUS
    <3>1. /\ u \in Targets /\ tgt[u].state \in {"QUEUED", "WAITING_REBOOT"}
          /\ camp[CampaignOf[u]].state = "ACTIVE" /\ deployable /\ Reserve(u)
          /\ tgt' = [tgt EXCEPT ![u] = [tgt[u] EXCEPT !.state = "CLAIMED", !.leased = TRUE, !.attempts = @ + 1]]
      BY <1>1, <2>3, <3>0, ClaimFacts
    <3>2. CASE t # u
      BY <2>0, <2>1, <3>1, <3>2
    <3>3. CASE t = u
      <4>1. tgt'[t].state = "CLAIMED"
        BY <2>0, <3>1, <3>3 DEF TargetRecords
      <4>2. resv[t] # "ASSIGNED" /\ resv \in [Targets -> {"NONE", "RESERVED", "RELEASED", "ASSIGNED"}]
        BY <1>1, <3>1, <3>3 DEF DepInv, DeploymentInv, TypeOK, AssignedIsInstalled
      <4>3. resv'[t] = "RESERVED" \/ AssetOf[t] \in seated'
        BY <3>1, <3>3, <4>2 DEF Reserve
      <4> QED BY <3>1, <3>3, <4>1, <4>3
    <3> QED BY <3>2, <3>3
  <2>4. ASSUME NEW u \in Targets, NEW outcome \in Outcomes, NEW retry \in BOOLEAN, ReportDeploymentResult(u, outcome, retry)
        PROVE  Allowed(t)
    <3> DEFINE c == CampaignOf[u]
               requeued == retry /\ tgt[u].attempts < MaxAttempts /\ outcome \in {"PRECHECK_FAILED", "INSTALL_FAILED"}
               state == IF requeued THEN "QUEUED" ELSE IF outcome \in Failures THEN "FAILED" ELSE outcome
               x == [tgt[u] EXCEPT !.state = state, !.leased = FALSE, !.outcome = outcome]
               T == [tgt EXCEPT ![u] = x]
    <3>1. /\ tgt[u].state = "CLAIMED" /\ LicenseEffect(u, outcome)
          /\ tgt' = CancelPending(c, T) \/ tgt' = T
      BY <2>4 DEF ReportDeploymentResult
    <3>2. state \in {"QUEUED", "FAILED", "WAITING_REBOOT", "SUCCESS"} /\ (outcome = "SUCCESS" <=> state = "SUCCESS")
      BY DEF Outcomes, Failures, SafeFailures, SecurityFailures
    <3> HIDE DEF requeued, state
    <3>3. tgt[u] \in TargetRecords
      BY <1>1, TargetFacts
    <3>4. x \in TargetRecords /\ x.state = state /\ x.attempts = tgt[u].attempts /\ x.outcome = outcome
      BY <3>2, <3>3 DEF TargetRecords
    <3> HIDE DEF x
    <3>5. T[u] = x /\ \A v \in Targets : T[v] \in TargetRecords /\ (v # u => T[v] = tgt[v])
      BY <2>0, <3>4
    <3> HIDE DEF T
    <3>6. tgt'[t].attempts = T[t].attempts /\ (tgt'[t].state = "SUCCESS" => T[t].state = "SUCCESS")
      <4>1. CASE tgt' = T
        BY <4>1
      <4>2. CASE tgt' = CancelPending(c, T)
        <5>1. T[t] \in TargetRecords
          BY <3>5
        <5> QED BY <4>2, <5>1 DEF CancelPending, TargetRecords
      <4> QED BY <3>1, <4>1, <4>2
    <3>7. CASE t # u
      BY <2>1, <3>5, <3>6, <3>7
    <3>8. CASE t = u
      <4>1. tgt'[t].attempts = tgt[t].attempts
        BY <3>4, <3>5, <3>6, <3>8
      <4>2. ASSUME tgt'[t].state = "SUCCESS" PROVE AssetOf[t] \in seated'
        <5>1. outcome = "SUCCESS"
          BY <3>2, <3>4, <3>5, <3>6, <3>8, <4>2
        <5>2. x.outcome = outcome /\ x.state # "CLAIMED" /\ (outcome = "SUCCESS" => x.state = "SUCCESS")
          BY <3>2, <3>4
        <5> QED BY <1>1, <3>1, <3>8, <5>1, <5>2, LicenseFollowsReport
      <4> QED BY <2>0, <4>1, <4>2
    <3> QED BY <3>7, <3>8
  <2>5. ASSUME NEW u \in Targets, LeaseExpires(u) PROVE Allowed(t)
    <3>1. tgt'[t].attempts = tgt[t].attempts /\ tgt'[t].state = tgt[t].state
      BY <2>0, <2>5 DEF LeaseExpires, TargetRecords
    <3> QED BY <2>1, <3>1
  <2>6. CASE UNCHANGED tgt
    BY <2>1, <2>6
  <2> HIDE DEF Allowed
  <2> QED
    BY <1>1, <2>2, <2>3, <2>4, <2>5, <2>6 DEF Next, NextDeploymentCandidate, ClaimRefused, AssignSeat, ReclaimSeat, Revoke
<1>2. DepInv /\ [Next]_vars => [\A t \in Targets : Allowed(t)]_vars
  <2> HIDE DEF Allowed
  <2> QED BY <1>1
<1>3. Init => DepInv
  BY InitDepInv
<1>4. DepInv /\ [Next]_vars => DepInv'
  BY DepStep
<1> QED
  BY <1>2, <1>3, <1>4, PTL DEF Spec, DispatchIsStillAllowed
=============================================================================
