-------------------------- MODULE AutomationRules --------------------------
(***************************************************************************)
(* How an event becomes an action intent that may be executed: versioned   *)
(* rules, the policy of the action, kill switches, the grant of the        *)
(* automation principal, the conflict between intents of one event, and    *)
(* the approval an intent waits for (modules/automation/application,       *)
(* apps/worker/src/automation-evaluator.ts, apps/api/src/automation-       *)
(* routes.ts).  What happens to a READY intent is ActionExecution.         *)
(*                                                                         *)
(* Every action is one transaction.  One policy key and one target: the    *)
(* actions of an event exclude each other (same exclusivity group), so the *)
(* conflict scope is the event, and an action stands for its desired       *)
(* state.  Which rules an event matches is data: any set of active rules.  *)
(* A deduplicated intent is named by its event and its action.  Optimistic *)
(* versions are left out: a stale command changes nothing.                 *)
(***************************************************************************)
EXTENDS Naturals, Sequences, FiniteSets

CONSTANTS Rules, Events, Actions,
          Bodies,        \* contents of a rule version: [act, safety, need]
          KillScopes,    \* kill switches in use: rules, and "*" for all
          GrantScopes,   \* scopes a grant of the automation principal can have
          MaxVersions,   \* bound: versions of a rule
          MaxPolicies,   \* bound: versions of the policy
          MaxRequests    \* bound: approval requests

ASSUME RulesAssumption == IsFiniteSet(Actions)

VARIABLES rules, policies, kills, grant, intents, conflict, requests, told,
          review, mediation

ruleVars == <<rules, policies, kills, grant, intents, conflict, requests, told, review, mediation>>

RuleIntents == Events \X Actions
NoIntent == [state |-> "NONE", decision |-> "DENY", policy |-> 0, from |-> {}, scope |-> "NONE", safety |-> "NONE"]
NoRule == [state |-> "NONE", versions |-> <<>>, draft |-> 0, active |-> 0]

(* review and mediation are the work items of intents and of conflicts; told *)
(* holds the events whose consumers have not run yet.                        *)
RulesInit ==
    /\ rules = [r \in Rules |-> NoRule] /\ policies = <<>>
    /\ kills = {} /\ grant \in GrantScopes
    /\ intents = [i \in RuleIntents |-> NoIntent] /\ conflict = [e \in Events |-> "NONE"]
    /\ requests = <<>> /\ told = {}
    /\ review = [i \in RuleIntents |-> "NONE"] /\ mediation = [e \in Events |-> "NONE"]

intentVars == <<intents, conflict, told, review, mediation>>

-----------------------------------------------------------------------------
(* Rules.  A draft keeps its number when it is edited; a published version   *)
(* is never written again.                                                   *)

NewVersion(b) == [body |-> b, published |-> FALSE]

CreateRule(r, b) ==
    /\ rules[r].state = "NONE"
    /\ rules' = [rules EXCEPT ![r] = [state |-> "DRAFT", versions |-> <<NewVersion(b)>>, draft |-> 1, active |-> 0]]

UpdateDraft(r, b) ==
    /\ rules[r].state # "NONE"
    /\ LET d == rules[r].draft
           n == Len(rules[r].versions)
       IN  \/ d # 0 /\ rules' = [rules EXCEPT ![r].versions[d].body = b]
           \/ d = 0 /\ n < MaxVersions
              /\ rules' = [rules EXCEPT ![r].versions = Append(@, NewVersion(b)), ![r].draft = n + 1]

PublishVersion(r) ==
    /\ rules[r].draft # 0
    /\ rules' = [rules EXCEPT ![r].versions[rules[r].draft].published = TRUE, ![r].draft = 0]

(* Fault: the approval names the version, not its content.                   *)
ApprovedByNumber(r, v) ==
    rules[r].versions[v].body.safety = "HIGH_RISK" =>
      \E q \in DOMAIN requests : /\ requests[q].kind = "RULE" /\ requests[q].state = "APPROVED"
                                 /\ requests[q].of.rule = r /\ requests[q].of.version = v

ActivationApproved(r, v) ==
    rules[r].versions[v].body.safety = "HIGH_RISK" =>
      \E q \in DOMAIN requests : /\ requests[q].kind = "RULE" /\ requests[q].state = "APPROVED"
                                 /\ requests[q].of = [rule |-> r, version |-> v, body |-> rules[r].versions[v].body]

ActivateRule(r, v) ==
    /\ v \in DOMAIN rules[r].versions /\ rules[r].versions[v].published
    /\ ActivationApproved(r, v)
    /\ rules' = [rules EXCEPT ![r].state = "ACTIVE", ![r].active = v]

DeactivateRule(r) ==
    /\ rules[r].state # "NONE"
    /\ rules' = [rules EXCEPT ![r].state = "INACTIVE"]

RuleCommands ==
    /\ \E r \in Rules : \/ \E b \in Bodies : CreateRule(r, b) \/ UpdateDraft(r, b)
                        \/ PublishVersion(r) \/ DeactivateRule(r)
                        \/ \E v \in 1 .. MaxVersions : ActivateRule(r, v)
    /\ UNCHANGED <<policies, kills, grant, requests, intentVars>>

-----------------------------------------------------------------------------
(* The policy of the action: one draft and one active version at a time.     *)

Modes == {"DENY", "ALLOW", "REQUIRE_APPROVAL"}
PoliciesIn(s) == {p \in DOMAIN policies : policies[p].state = s}

CreateActionPolicyDraft(m) ==
    /\ PoliciesIn("DRAFT") = {} /\ Len(policies) < MaxPolicies
    /\ policies' = Append(policies, [state |-> "DRAFT", mode |-> m, effective |-> TRUE])

UpdateActionPolicyDraft(p, m) ==
    /\ policies[p].state = "DRAFT" /\ policies' = [policies EXCEPT ![p].mode = m]

ActivateActionPolicy(p) ==
    /\ policies[p].state = "DRAFT" /\ PoliciesIn("ACTIVE") = {}
    /\ policies' = [policies EXCEPT ![p].state = "ACTIVE"]

DeactivateActionPolicy(p) ==
    /\ policies[p].state = "ACTIVE" /\ policies' = [policies EXCEPT ![p].state = "INACTIVE"]

(* The effective interval of the active version ends.                        *)
PolicyLapses(p) ==
    /\ policies[p].state = "ACTIVE" /\ policies[p].effective
    /\ policies' = [policies EXCEPT ![p].effective = FALSE]

PolicyCommands ==
    /\ \/ \E m \in Modes : \/ CreateActionPolicyDraft(m)
                           \/ \E p \in DOMAIN policies : UpdateActionPolicyDraft(p, m)
       \/ \E p \in DOMAIN policies : ActivateActionPolicy(p) \/ DeactivateActionPolicy(p) \/ PolicyLapses(p)
    /\ UNCHANGED <<rules, kills, grant, requests, intentVars>>

(* Kill switches: one for every action ("*") and one for each rule.          *)
SetScopedKillSwitch ==
    /\ \E k \in KillScopes : kills' \in {kills \cup {k}, kills \ {k}} \ {kills}
    /\ UNCHANGED <<rules, policies, grant, requests, intentVars>>

(* An administrator grants or withdraws the permission of the principal.     *)
GrantChanges ==
    /\ grant' \in (GrantScopes \cup {"NONE"}) \ {grant}
    /\ UNCHANGED <<rules, policies, kills, requests, intentVars>>

-----------------------------------------------------------------------------
(* The decision about an action                                              *)

(* 0 when no version is active.                                              *)
ActivePolicy == IF PoliciesIn("ACTIVE") = {} THEN 0 ELSE CHOOSE p \in PoliciesIn("ACTIVE") : TRUE

(* What the policy says for a rule of this safety level.                     *)
Decide(safety, need) ==
    LET p == ActivePolicy
    IN  CASE safety = "PROHIBITED_AUTO" -> "DENY"
          [] p = 0 -> "DENY"
          [] p # 0 /\ (~policies[p].effective \/ policies[p].mode = "DENY") -> "DENY"
          [] p # 0 /\ safety = "HIGH_RISK" /\ policies[p].mode = "ALLOW" -> "DENY"
          [] OTHER -> IF policies[p].mode = "REQUIRE_APPROVAL" \/ need \/ safety = "HIGH_RISK"
                      THEN "REQUIRE_APPROVAL" ELSE "ALLOW"

IsKilled(r) == kills \cap {"*", r} # {}
Body(r) == rules[r].versions[rules[r].active].body

(* The most restrictive decision wins.                                       *)
Restrictive(D) == IF "DENY" \in D THEN "DENY"
                  ELSE IF "REQUIRE_APPROVAL" \in D THEN "REQUIRE_APPROVAL" ELSE "ALLOW"

IntentState(decision, authorized) ==
    IF decision = "DENY" \/ ~authorized THEN "BLOCKED"
    ELSE IF decision = "REQUIRE_APPROVAL" THEN "PENDING_APPROVAL" ELSE "READY"

(* The intent that the matching rules R share; its context binds             *)
(* contributors, policy and scope.  (The code keeps the safety level of the  *)
(* first of them.  It is read again only under the policy version that made  *)
(* this decision, where a level of any of them gives the same answer.)       *)
Canonical(R) ==
    LET decision == Restrictive({Decide(Body(r).safety, Body(r).need) : r \in R})
    IN  [state |-> IntentState(decision, grant # "NONE" /\ \A r \in R : ~IsKilled(r)),
         decision |-> decision, policy |-> ActivePolicy,
         from |-> {<<r, rules[r].active>> : r \in R}, scope |-> grant,
         safety |-> IF \E r \in R : Body(r).safety = "HIGH_RISK" THEN "HIGH_RISK" ELSE "SAFE"]

(* Executable intents of one event that want different things.               *)
Live(new) == {a \in Actions : new[a].state \in {"READY", "PENDING_APPROVAL"}}
DetectConflict(new) ==
    [a \in Actions |-> IF a \in Live(new) /\ Cardinality(Live(new)) > 1
                       THEN [new[a] EXCEPT !.state = "CONFLICTED"] ELSE new[a]]

OpenItem(s) == IF s = "NONE" THEN "OPEN" ELSE s
CloseItem(s) == IF s = "OPEN" THEN "RESOLVED" ELSE s

(* The decision events that matter later: a consumer turns CONFLICTED into a *)
(* work item.  (The item it makes for a BLOCKED event is already there.)     *)
Announce(e, new) == IF \E a \in Actions : new[a].state = "CONFLICTED" THEN {<<"CONFLICTED", e>>} ELSE {}

(* An intent that waits for approval is reviewed, and one that was blocked   *)
(* for want of a policy or a permission.                                     *)
Unconfigured == ActivePolicy = 0 \/ ~policies[ActivePolicy].effective
NeedsReview(n) ==
    \/ n.state = "PENDING_APPROVAL"
    \/ n.state = "BLOCKED" /\ (n.decision = "DENY" => Unconfigured /\ \A c \in n.from : ~IsKilled(c[1]))

Reviewed(e, new) ==
    [i \in RuleIntents |-> IF i[1] = e /\ NeedsReview(new[i[2]]) THEN OpenItem(review[i]) ELSE review[i]]

ActiveRules == {r \in Rules : rules[r].state = "ACTIVE"}

EvaluateEvent(e) ==
    /\ conflict[e] = "NONE" /\ \A a \in Actions : intents[<<e, a>>].state = "NONE"
    /\ \E M \in SUBSET ActiveRules \ {{}} :
         LET matching(a) == {r \in M : Body(r).act = a}
             new == DetectConflict([a \in Actions |-> IF matching(a) = {} THEN NoIntent ELSE Canonical(matching(a))])
         IN  /\ intents' = [i \in RuleIntents |-> IF i[1] = e THEN new[i[2]] ELSE intents[i]]
             /\ conflict' = [conflict EXCEPT ![e] = IF \E a \in Actions : new[a].state = "CONFLICTED" THEN "OPEN" ELSE @]
             /\ told' = told \cup Announce(e, new)
             /\ review' = Reviewed(e, new)
    /\ UNCHANGED <<rules, policies, kills, grant, requests, mediation>>

(* The consumer of the conflict event; it does not ask for the state.        *)
ApplyAutomationWorkItemEvent(e) ==
    /\ <<"CONFLICTED", e>> \in told /\ told' = told \ {<<"CONFLICTED", e>>}
    /\ mediation' = [mediation EXCEPT ![e] = OpenItem(@)]
    /\ UNCHANGED <<rules, policies, kills, grant, intents, conflict, requests, review>>

-----------------------------------------------------------------------------
(* Conflicts and approvals                                                   *)

IntentKilled(i) == \E c \in intents[i].from : IsKilled(c[1])
(* The decision of today for an intent of the past.                          *)
AssessAction(i) == Decide(intents[i].safety, intents[i].decision = "REQUIRE_APPROVAL")

Selectable(i) ==
    /\ intents[i].decision # "DENY" /\ ~IntentKilled(i) /\ grant # "NONE"
    /\ AssessAction(i) # "DENY" /\ ActivePolicy = intents[i].policy

(* One of the members is selected, the others are blocked.                   *)
ResolveConflict(e, a) ==
    /\ conflict[e] = "OPEN" /\ intents[<<e, a>>].state = "CONFLICTED" /\ Selectable(<<e, a>>)
    /\ intents' = [i \in RuleIntents |->
                     IF i[1] # e \/ intents[i].state # "CONFLICTED" THEN intents[i]
                     ELSE [intents[i] EXCEPT !.state = IF i[2] # a THEN "BLOCKED"
                                                       ELSE IF AssessAction(i) = "ALLOW" THEN "READY" ELSE "PENDING_APPROVAL"]]
    /\ conflict' = [conflict EXCEPT ![e] = "RESOLVED"]
    /\ mediation' = [mediation EXCEPT ![e] = CloseItem(@)]
    /\ UNCHANGED <<rules, policies, kills, grant, requests, told, review>>

Request(kind, of) == [kind |-> kind, of |-> of, state |-> "PENDING"]

(* Somebody asks for the activation of a version, as its content is now, or  *)
(* for an intent, with the context hash it has.                              *)
CreateApproval ==
    /\ Len(requests) < MaxRequests
    /\ \/ \E r \in Rules : \E v \in DOMAIN rules[r].versions :
            requests' = Append(requests, Request("RULE", [rule |-> r, version |-> v, body |-> rules[r].versions[v].body]))
       \/ \E i \in RuleIntents : /\ intents[i].state # "NONE"
                                 /\ requests' = Append(requests, Request("INTENT", i))
    /\ UNCHANGED <<rules, policies, kills, grant, intentVars>>

DecideApproval(q) ==
    /\ requests[q].state = "PENDING"
    /\ \E d \in {"APPROVED", "REJECTED"} : requests' = [requests EXCEPT ![q].state = d]
    /\ told' = IF requests[q].kind = "INTENT" THEN told \cup {<<"DECIDED", q>>} ELSE told
    /\ UNCHANGED <<rules, policies, kills, grant, intents, conflict, review, mediation>>

(* Fault: the kill switches are not asked again.                             *)
RecheckWithoutKill(q) ==
    LET i == requests[q].of
    IN  /\ requests[q].state = "APPROVED" /\ intents[i].decision = "REQUIRE_APPROVAL" /\ grant # "NONE"
        /\ AssessAction(i) = "REQUIRE_APPROVAL" /\ ActivePolicy = intents[i].policy /\ conflict[i[1]] # "OPEN"

(* The approval counts if nothing it was given for has changed.  The context *)
(* is computed again with the site of the target as its scope.               *)
RecheckIntentApproval(q) ==
    LET i == requests[q].of
    IN  /\ requests[q].state = "APPROVED"
        /\ intents[i].decision = "REQUIRE_APPROVAL"
        /\ grant # "NONE" /\ AssessAction(i) = "REQUIRE_APPROVAL" /\ ActivePolicy = intents[i].policy
        /\ intents[i].scope = "SITE"
        /\ conflict[i[1]] # "OPEN" /\ ~IntentKilled(i)

(* Fault: the promotion does not ask for the state of the intent.            *)
PromoteAnyState(i, promoted) == [intents EXCEPT ![i].state = IF promoted THEN "READY" ELSE @]

PromoteOrBlock(i, promoted) ==
    [intents EXCEPT ![i].state = IF @ # "PENDING_APPROVAL" THEN @ ELSE IF promoted THEN "READY" ELSE "BLOCKED"]

ApplyApprovalEvent(q) ==
    LET i == requests[q].of
        promoted == RecheckIntentApproval(q)
    IN  /\ <<"DECIDED", q>> \in told
        /\ intents' = PromoteOrBlock(i, promoted)
        /\ told' = told \ {<<"DECIDED", q>>}
        /\ review' = [review EXCEPT ![i] = IF promoted THEN CloseItem(@) ELSE OpenItem(@)]
        /\ UNCHANGED <<rules, policies, kills, grant, conflict, requests, mediation>>

RulesNext ==
    \/ RuleCommands \/ PolicyCommands \/ SetScopedKillSwitch \/ GrantChanges
    \/ \E e \in Events : EvaluateEvent(e) \/ ApplyAutomationWorkItemEvent(e) \/ \E a \in Actions : ResolveConflict(e, a)
    \/ CreateApproval
    \/ \E q \in DOMAIN requests : DecideApproval(q) \/ ApplyApprovalEvent(q)

RulesSpec == RulesInit /\ [][RulesNext]_ruleVars

-----------------------------------------------------------------------------
(* Properties                                                                *)

RulesTypeOK ==
    /\ \A r \in Rules : /\ rules[r].state \in {"NONE", "DRAFT", "ACTIVE", "INACTIVE"}
                        /\ rules[r].draft \in 0 .. Len(rules[r].versions) /\ rules[r].active \in 0 .. Len(rules[r].versions)
    /\ Cardinality(PoliciesIn("ACTIVE")) <= 1 /\ Cardinality(PoliciesIn("DRAFT")) <= 1
    /\ \A i \in RuleIntents : intents[i].state \in {"NONE", "READY", "PENDING_APPROVAL", "BLOCKED", "CONFLICTED"}

(* Of the intents of one event that exclude each other at most one is, or    *)
(* can still become, executable, whatever order evaluation, resolution and   *)
(* late approvals take (evaluateEvent, resolveConflict,                      *)
(* recheckIntentApproval); an intent is CONFLICTED exactly while its         *)
(* conflict is open.                                                         *)
ConflictsExcludeEachOther ==
    /\ RulesTypeOK
    /\ \A e \in Events :
         /\ Cardinality({a \in Actions : intents[<<e, a>>].state \in {"READY", "PENDING_APPROVAL"}}) <= 1
         /\ conflict[e] = "OPEN" <=> \E a \in Actions : intents[<<e, a>>].state = "CONFLICTED"

(* A HIGH_RISK rule is active only with a content that somebody approved,    *)
(* however drafts are edited, published and activated again while approvals  *)
(* are pending (activateRule, updateDraft).                                  *)
ApprovedContentRuns ==
    \A r \in ActiveRules :
      Body(r).safety = "HIGH_RISK" =>
        \E q \in DOMAIN requests : /\ requests[q].state = "APPROVED"
                                   /\ requests[q].of = [rule |-> r, version |-> rules[r].active, body |-> Body(r)]

(* An intent becomes READY only under the policy version it was decided by,  *)
(* with no kill switch of a contributor set, and, where that policy wants    *)
(* approval, after one was given for this intent (evaluateEvent,             *)
(* resolveConflict, recheckIntentApproval).                                  *)
ReadyIsSanctioned ==
    [][\A i \in RuleIntents : intents'[i].state = "READY" /\ intents[i].state # "READY" =>
          /\ intents'[i].policy = ActivePolicy /\ policies[ActivePolicy].effective
          /\ \A c \in intents'[i].from : ~IsKilled(c[1])
          /\ policies[ActivePolicy].mode = "REQUIRE_APPROVAL" =>
               \E q \in DOMAIN requests : requests[q].kind = "INTENT" /\ requests[q].of = i /\ requests[q].state = "APPROVED"]_ruleVars
=============================================================================
