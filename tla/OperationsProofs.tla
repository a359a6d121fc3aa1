-------------------------- MODULE OperationsProofs --------------------------
(***************************************************************************)
(* What holds of the automation rules, of the agent fleet and of the       *)
(* execution of restart commands, for any number of rules, events and      *)
(* actions, of agents, sockets and credentials, of intents, executions     *)
(* and retries.                                                            *)
(***************************************************************************)
EXTENDS AgentFleet, AutomationRules, ActionExecution, FiniteSetTheorems, SequenceTheorems, TLAPS

-----------------------------------------------------------------------------
(* Sequences and small sets                                                  *)

(* A sequence with one element replaced.                                     *)
LEMMA SeqUpdate ==
    ASSUME NEW S, NEW s \in Seq(S), NEW i \in DOMAIN s, NEW x \in S
    PROVE  /\ [s EXCEPT ![i] = x] \in Seq(S) /\ DOMAIN [s EXCEPT ![i] = x] = DOMAIN s
           /\ Len([s EXCEPT ![i] = x]) = Len(s)
           /\ [s EXCEPT ![i] = x][i] = x
           /\ \A j \in DOMAIN s : j # i => [s EXCEPT ![i] = x][j] = s[j]
  OBVIOUS

(* A sequence with one element more.                                         *)
LEMMA SeqAppended ==
    ASSUME NEW S, NEW s \in Seq(S), NEW x \in S
    PROVE  /\ Append(s, x) \in Seq(S) /\ DOMAIN Append(s, x) = DOMAIN s \cup {Len(s) + 1}
           /\ Len(Append(s, x)) = Len(s) + 1 /\ Len(s) + 1 \notin DOMAIN s
           /\ Append(s, x)[Len(s) + 1] = x
           /\ \A j \in DOMAIN s : Append(s, x)[j] = s[j]
  OBVIOUS

(* The domain and the elements of a sequence.                                *)
LEMMA SeqDomain ==
    ASSUME NEW S, NEW s \in Seq(S)
    PROVE  /\ DOMAIN s = 1 .. Len(s) /\ Len(s) \in Nat /\ 0 \notin DOMAIN s
           /\ \A j \in DOMAIN s : j \in Nat /\ s[j] \in S
  OBVIOUS

(* At most one element, said with and without a cardinality.                 *)
LEMMA AtMostOne ==
    ASSUME NEW S, \A x, y \in S : x = y
    PROVE  IsFiniteSet(S) /\ Cardinality(S) <= 1
<1>1. CASE S = {}
  BY <1>1, FS_EmptySet
<1>2. CASE S # {}
  <2>1. PICK x \in S : TRUE
    BY <1>2
  <2>2. S = {x}
    BY <2>1
  <2>3. IsFiniteSet({x}) /\ Cardinality({x}) = 1
    BY FS_Singleton
  <2> QED BY <2>2, <2>3
<1> QED
  BY <1>1, <1>2

(* A set with at most one element.                                           *)
LEMMA OnlyOne ==
    ASSUME NEW S, IsFiniteSet(S), ~ Cardinality(S) > 1, NEW x \in S, NEW y \in S
    PROVE  x = y
<1> SUFFICES ASSUME x # y PROVE FALSE
  OBVIOUS
<1>1. {x, y} \subseteq S /\ IsFiniteSet({x, y}) /\ Cardinality({x, y}) = 2
  <2>1. IsFiniteSet({x}) /\ Cardinality({x}) = 1
    BY FS_Singleton
  <2>2. IsFiniteSet({x} \cup {y}) /\ Cardinality({x} \cup {y}) = Cardinality({x}) + 1
    <3>1. y \notin {x}
      OBVIOUS
    <3> QED BY <2>1, <3>1, FS_AddElement
  <2>3. {x} \cup {y} = {x, y}
    OBVIOUS
  <2> QED BY <2>1, <2>2, <2>3
<1>2. Cardinality({x, y}) <= Cardinality(S) /\ Cardinality(S) \in Nat
  BY <1>1, FS_Subset, FS_CardinalityType
<1> QED
  BY <1>1, <1>2

-----------------------------------------------------------------------------
(* Automation rules                                                          *)

Versions == [body : Bodies, published : BOOLEAN]
RuleRows == [state : {"NONE", "DRAFT", "ACTIVE", "INACTIVE"}, versions : Seq(Versions), draft : Nat, active : Nat]
PolicyRows == [state : {"DRAFT", "ACTIVE", "INACTIVE"}, mode : Modes, effective : BOOLEAN]
Decisions == {"DENY", "ALLOW", "REQUIRE_APPROVAL"}
Levels == {"NONE", "SAFE", "HIGH_RISK"}
IntentRows == [state : {"NONE", "READY", "PENDING_APPROVAL", "BLOCKED", "CONFLICTED"}, decision : Decisions,
               policy : Nat, from : SUBSET (Rules \X Nat), scope : GrantScopes \cup {"NONE"}, safety : Levels]
Contents == [rule : Rules, version : Nat, body : Bodies]
RequestRows == [kind : {"RULE", "INTENT"}, of : RuleIntents \cup Contents, state : {"PENDING", "APPROVED", "REJECTED"}]

RowsOK ==
    /\ rules \in [Rules -> RuleRows] /\ policies \in Seq(PolicyRows) /\ requests \in Seq(RequestRows)
    /\ grant \in GrantScopes \cup {"NONE"}
    /\ intents \in [RuleIntents -> IntentRows] /\ conflict \in [Events -> {"NONE", "OPEN", "RESOLVED"}]

(* A draft is not published and what is active is: content that runs is      *)
(* never written again.                                                      *)
VersionsOK(x) ==
    /\ x.draft # 0 => x.draft \in DOMAIN x.versions /\ ~ x.versions[x.draft].published
    /\ x.active # 0 => x.active \in DOMAIN x.versions /\ x.versions[x.active].published
    /\ x.state = "ACTIVE" => x.active # 0

OnePolicy == \A s \in {"ACTIVE", "DRAFT"} : \A p, q \in PoliciesIn(s) : p = q

(* The approvals of intents are of intents, and so are the decisions told.   *)
RequestsOK ==
    /\ \A q \in DOMAIN requests : requests[q].kind = "INTENT" => requests[q].of \in RuleIntents
    /\ \A t \in told : t[1] = "DECIDED" => t[2] \in DOMAIN requests /\ requests[t[2]].kind = "INTENT"

Executable(i) == intents[i].state \in {"READY", "PENDING_APPROVAL"}

(* While the conflict of an event is open none of its intents is executable. *)
ConflictsOK ==
    \A e \in Events :
        /\ conflict[e] = "OPEN" <=> \E a \in Actions : intents[<<e, a>>].state = "CONFLICTED"
        /\ conflict[e] = "OPEN" => \A a \in Actions : ~ Executable(<<e, a>>)
        /\ \A a, b \in Actions : Executable(<<e, a>>) /\ Executable(<<e, b>>) => a = b

RulesInv ==
    /\ RowsOK /\ (\A r \in Rules : VersionsOK(rules[r])) /\ OnePolicy /\ RequestsOK /\ ConflictsOK
    /\ ApprovedContentRuns

(* The inductive invariant holds without a rule.                             *)
LEMMA RulesInitInv == RulesInit => RulesInv
<1> SUFFICES ASSUME RulesInit PROVE RulesInv
  OBVIOUS
<1> USE DEF RulesInit
<1>1. NoRule \in RuleRows /\ NoIntent \in IntentRows
  BY DEF NoRule, NoIntent, RuleRows, IntentRows, Decisions, Levels
<1>2. RowsOK
  BY <1>1 DEF RowsOK
<1>3. \A r \in Rules : VersionsOK(rules[r])
  BY DEF VersionsOK, NoRule
<1>4. OnePolicy /\ RequestsOK
  BY DEF OnePolicy, PoliciesIn, RequestsOK
<1>5. \A e \in Events, a \in Actions : intents[<<e, a>>].state = "NONE"
  BY DEF RuleIntents, NoIntent
<1>6. ConflictsOK
  BY <1>5 DEF ConflictsOK, Executable
<1>7. ApprovedContentRuns
  BY DEF ApprovedContentRuns, ActiveRules, NoRule
<1> QED
  BY <1>2, <1>3, <1>4, <1>6, <1>7 DEF RulesInv

(* The content a rule runs with was approved.                                *)
Sanctioned(r, x) ==
    x.state = "ACTIVE" /\ x.versions[x.active].body.safety = "HIGH_RISK" =>
        \E q \in DOMAIN requests : /\ requests[q].state = "APPROVED"
                                   /\ requests[q].of = [rule |-> r, version |-> x.active,
                                                        body |-> x.versions[x.active].body]

(* ApprovedContentRuns says that every single rule is sanctioned.            *)
LEMMA ApprovedIsSanctioned == ApprovedContentRuns <=> \A r \in Rules : Sanctioned(r, rules[r])
  BY DEF ApprovedContentRuns, ActiveRules, Body, Sanctioned

(* A rule stays sanctioned while its state and its active version stay.      *)
LEMMA SameContentRuns ==
    ASSUME NEW r, NEW x, NEW y, Sanctioned(r, x), y.state = x.state, y.active = x.active,
           x.state = "ACTIVE" => y.versions[x.active] = x.versions[x.active]
    PROVE  Sanctioned(r, y)
  BY DEF Sanctioned

(* A command that writes one rule preserves the invariant if it does so for  *)
(* that rule.                                                                *)
LEMMA RuleWritten ==
    ASSUME RulesInv, NEW r \in Rules, NEW y \in RuleRows, VersionsOK(y), Sanctioned(r, y),
           rules' = [rules EXCEPT ![r] = y], UNCHANGED <<policies, kills, grant, requests, intentVars>>
    PROVE  RulesInv'
<1> USE DEF RulesInv, intentVars
<1>1. /\ rules' \in [Rules -> RuleRows] /\ rules'[r] = y
      /\ \A q \in Rules : q # r => rules'[q] = rules[q]
  BY DEF RowsOK
<1>2. RowsOK'
  BY <1>1 DEF RowsOK
<1>3. \A q \in Rules : VersionsOK(rules'[q])
  BY <1>1
<1>4. OnePolicy' /\ RequestsOK'
  BY DEF OnePolicy, PoliciesIn, RequestsOK
<1>5. ConflictsOK'
  BY DEF ConflictsOK, Executable
<1>6. \A q \in Rules : Sanctioned(q, rules'[q])
  BY <1>1, ApprovedIsSanctioned
<1>7. ApprovedContentRuns'
  BY <1>6 DEF ApprovedContentRuns, ActiveRules, Body, Sanctioned
<1>8. (\A q \in Rules : VersionsOK(rules[q]))'
  BY <1>3 DEF VersionsOK
<1> QED
  BY <1>2, <1>4, <1>5, <1>7, <1>8

(* Creating, editing, publishing, activating and deactivating rules preserve *)
(* the invariant.                                                            *)
LEMMA RuleCommandsPreserve == RulesInv /\ RuleCommands => RulesInv'
<1> SUFFICES ASSUME RulesInv, RuleCommands PROVE RulesInv'
  OBVIOUS
<1>0. UNCHANGED <<policies, kills, grant, requests, intentVars>>
  BY DEF RuleCommands
<1>a. ASSUME NEW r \in Rules
      PROVE  /\ rules[r] \in RuleRows /\ VersionsOK(rules[r]) /\ Sanctioned(r, rules[r])
             /\ rules[r].versions \in Seq(Versions) /\ rules \in [Rules -> RuleRows]
  BY ApprovedIsSanctioned DEF RulesInv, RowsOK, RuleRows
<1>1. ASSUME NEW r \in Rules, NEW b \in Bodies, CreateRule(r, b) PROVE RulesInv'
  <2> DEFINE y == [state |-> "DRAFT", versions |-> <<NewVersion(b)>>, draft |-> 1, active |-> 0]
  <2>1. <<NewVersion(b)>> \in Seq(Versions)
    BY DEF NewVersion, Versions
  <2>2. y \in RuleRows
    BY <2>1 DEF RuleRows
  <2>3. VersionsOK(y) /\ Sanctioned(r, y)
    BY DEF VersionsOK, Sanctioned, NewVersion
  <2>4. rules' = [rules EXCEPT ![r] = y]
    BY <1>1 DEF CreateRule
  <2> HIDE DEF y
  <2> QED BY <1>0, <2>2, <2>3, <2>4, RuleWritten
<1>2. ASSUME NEW r \in Rules, NEW b \in Bodies, UpdateDraft(r, b) PROVE RulesInv'
  <2> DEFINE x == rules[r]
             d == x.draft
             n == Len(x.versions)
  <2>1. CASE d # 0 /\ rules' = [rules EXCEPT ![r].versions[d].body = b]
    <3> DEFINE w == [x.versions[d] EXCEPT !.body = b]
               vs == [x.versions EXCEPT ![d] = w]
               y == [x EXCEPT !.versions = vs]
    <3>1. d \in DOMAIN x.versions /\ ~ x.versions[d].published /\ x.versions[d] \in Versions
      BY <1>a, <2>1 DEF VersionsOK
    <3>2. w \in Versions /\ w.published = x.versions[d].published
      BY <3>1 DEF Versions
    <3> HIDE DEF w
    <3>3. /\ vs \in Seq(Versions) /\ DOMAIN vs = DOMAIN x.versions /\ vs[d] = w
          /\ \A j \in DOMAIN x.versions : j # d => vs[j] = x.versions[j]
      BY <1>a, <3>1, <3>2, SeqUpdate
    <3>4. rules' = [rules EXCEPT ![r] = y]
      BY <1>a, <2>1, <3>1 DEF w
    <3> HIDE DEF vs
    <3>5. y \in RuleRows /\ y.draft = d /\ y.active = x.active /\ y.state = x.state /\ y.versions = vs
      BY <1>a, <3>3 DEF RuleRows
    <3> HIDE DEF y
    <3>6. VersionsOK(y)
      BY <1>a, <3>1, <3>2, <3>3, <3>5 DEF VersionsOK
    <3>7. x.active # 0 => x.active # d /\ x.active \in DOMAIN x.versions
      BY <1>a, <3>1 DEF VersionsOK
    <3>8. x.state = "ACTIVE" => vs[x.active] = x.versions[x.active]
      BY <1>a, <3>3, <3>7 DEF VersionsOK
    <3>9. Sanctioned(r, y)
      BY <1>a, <3>5, <3>8, SameContentRuns
    <3> QED BY <1>0, <3>4, <3>5, <3>6, <3>9, RuleWritten
  <2>2. CASE /\ d = 0
             /\ rules' = [rules EXCEPT ![r].versions = Append(@, NewVersion(b)), ![r].draft = n + 1]
    <3> DEFINE vs == Append(x.versions, NewVersion(b))
               y == [x EXCEPT !.versions = vs, !.draft = n + 1]
    <3>1. NewVersion(b) \in Versions /\ ~ NewVersion(b).published
      BY DEF NewVersion, Versions
    <3>2. /\ vs \in Seq(Versions) /\ DOMAIN vs = DOMAIN x.versions \cup {n + 1} /\ vs[n + 1] = NewVersion(b)
          /\ \A j \in DOMAIN x.versions : vs[j] = x.versions[j]
      BY <1>a, <3>1, SeqAppended
    <3>3. n + 1 \in Nat
      BY <1>a
    <3>4. rules' = [rules EXCEPT ![r] = y]
      BY <1>a, <2>2
    <3> HIDE DEF vs, n
    <3>5. y \in RuleRows /\ y.draft = n + 1 /\ y.active = x.active /\ y.state = x.state /\ y.versions = vs
      BY <1>a, <3>2, <3>3 DEF RuleRows
    <3> HIDE DEF y
    <3>6. VersionsOK(y)
      BY <1>a, <3>1, <3>2, <3>5 DEF VersionsOK
    <3>7. x.state = "ACTIVE" => vs[x.active] = x.versions[x.active]
      BY <1>a, <3>2 DEF VersionsOK
    <3>8. Sanctioned(r, y)
      BY <1>a, <3>5, <3>7, SameContentRuns
    <3> QED BY <1>0, <3>4, <3>5, <3>6, <3>8, RuleWritten
  <2> QED BY <1>2, <2>1, <2>2 DEF UpdateDraft
<1>3. ASSUME NEW r \in Rules, PublishVersion(r) PROVE RulesInv'
  <2> DEFINE x == rules[r]
             d == x.draft
             w == [x.versions[d] EXCEPT !.published = TRUE]
             vs == [x.versions EXCEPT ![d] = w]
             y == [x EXCEPT !.versions = vs, !.draft = 0]
  <2>1. d \in DOMAIN x.versions /\ ~ x.versions[d].published /\ x.versions[d] \in Versions
    BY <1>a, <1>3 DEF VersionsOK, PublishVersion
  <2>2. w \in Versions /\ w.published
    BY <2>1 DEF Versions
  <2> HIDE DEF w
  <2>3. /\ vs \in Seq(Versions) /\ DOMAIN vs = DOMAIN x.versions /\ vs[d] = w
        /\ \A j \in DOMAIN x.versions : j # d => vs[j] = x.versions[j]
    BY <1>a, <2>1, <2>2, SeqUpdate
  <2>4. rules' = [rules EXCEPT ![r] = y]
    BY <1>3, <1>a, <2>1 DEF w, PublishVersion
  <2> HIDE DEF vs
  <2>5. y \in RuleRows /\ y.draft = 0 /\ y.active = x.active /\ y.state = x.state /\ y.versions = vs
    BY <1>a, <2>3 DEF RuleRows
  <2> HIDE DEF y
  <2>6. x.active # 0 => x.active # d /\ x.active \in DOMAIN x.versions
    BY <1>a, <2>1 DEF VersionsOK
  <2>7. VersionsOK(y)
    BY <1>a, <2>2, <2>3, <2>5, <2>6 DEF VersionsOK
  <2>8. x.state = "ACTIVE" => vs[x.active] = x.versions[x.active]
    BY <1>a, <2>3, <2>6 DEF VersionsOK
  <2>9. Sanctioned(r, y)
    BY <1>a, <2>5, <2>8, SameContentRuns
  <2> QED BY <1>0, <2>4, <2>5, <2>7, <2>9, RuleWritten
<1>4. ASSUME NEW r \in Rules, DeactivateRule(r) PROVE RulesInv'
  <2> DEFINE y == [rules[r] EXCEPT !.state = "INACTIVE"]
  <2>1. /\ y \in RuleRows /\ y.draft = rules[r].draft /\ y.active = rules[r].active
        /\ y.versions = rules[r].versions /\ y.state = "INACTIVE"
    BY <1>a DEF RuleRows
  <2>2. rules' = [rules EXCEPT ![r] = y]
    BY <1>4, <1>a DEF DeactivateRule
  <2> HIDE DEF y
  <2>3. VersionsOK(y) /\ Sanctioned(r, y)
    BY <1>a, <2>1 DEF VersionsOK, Sanctioned
  <2> QED BY <1>0, <2>1, <2>2, <2>3, RuleWritten
<1>5. ASSUME NEW r \in Rules, NEW v, ActivateRule(r, v) PROVE RulesInv'
  <2> DEFINE x == rules[r]
             y == [x EXCEPT !.state = "ACTIVE", !.active = v]
  <2>1. v \in DOMAIN x.versions /\ x.versions[v].published /\ v \in Nat /\ v # 0
    BY <1>5, <1>a DEF ActivateRule
  <2>2. y \in RuleRows /\ y.draft = x.draft /\ y.active = v /\ y.versions = x.versions /\ y.state = "ACTIVE"
    BY <1>a, <2>1 DEF RuleRows
  <2>3. rules' = [rules EXCEPT ![r] = y]
    BY <1>5, <1>a DEF ActivateRule
  <2>4. ActivationApproved(r, v)
    BY <1>5 DEF ActivateRule
  <2> HIDE DEF y
  <2>5. VersionsOK(y)
    BY <1>a, <2>1, <2>2 DEF VersionsOK
  <2>6. Sanctioned(r, y)
    BY <2>2, <2>4 DEF Sanctioned, ActivationApproved
  <2> QED BY <1>0, <2>2, <2>3, <2>5, <2>6, RuleWritten
<1> QED
  BY <1>1, <1>2, <1>3, <1>4, <1>5 DEF RuleCommands

(* A step that changes policies, switches or the grant, and nothing else.    *)
LEMMA SettingsChange ==
    ASSUME RulesInv, UNCHANGED <<rules, requests, intentVars>>,
           policies' \in Seq(PolicyRows), OnePolicy', grant' \in GrantScopes \cup {"NONE"}
    PROVE  RulesInv'
<1> USE DEF RulesInv, intentVars
<1>1. RowsOK'
  BY DEF RowsOK
<1>2. RequestsOK' /\ ConflictsOK'
  BY DEF RequestsOK, ConflictsOK, Executable
<1>3. ApprovedContentRuns'
  BY DEF ApprovedContentRuns, ActiveRules, Body
<1>4. (\A r \in Rules : VersionsOK(rules[r]))'
  BY DEF VersionsOK
<1> QED
  BY <1>1, <1>2, <1>3, <1>4

(* One policy version is rewritten.                                          *)
LEMMA PolicyWritten ==
    ASSUME RulesInv, NEW p \in DOMAIN policies, NEW y \in PolicyRows, policies' = [policies EXCEPT ![p] = y],
           \/ y.state = policies[p].state \/ y.state = "INACTIVE"
           \/ y.state = "ACTIVE" /\ PoliciesIn("ACTIVE") = {},
           UNCHANGED <<rules, kills, grant, requests, intentVars>>
    PROVE  RulesInv'
<1>0. policies \in Seq(PolicyRows) /\ OnePolicy /\ grant \in GrantScopes \cup {"NONE"}
  BY DEF RulesInv, RowsOK
<1>1. /\ policies' \in Seq(PolicyRows) /\ DOMAIN policies' = DOMAIN policies /\ policies'[p] = y
      /\ \A q \in DOMAIN policies : q # p => policies'[q] = policies[q]
  BY <1>0, SeqUpdate
<1>2. OnePolicy'
  BY <1>0, <1>1 DEF OnePolicy, PoliciesIn
<1> QED
  BY <1>0, <1>1, <1>2, SettingsChange

(* The commands on the execution policy preserve the invariant.              *)
LEMMA PolicyCommandsPreserve == RulesInv /\ PolicyCommands => RulesInv'
<1> SUFFICES ASSUME RulesInv, PolicyCommands PROVE RulesInv'
  OBVIOUS
<1>0. /\ UNCHANGED <<rules, kills, grant, requests, intentVars>> /\ policies \in Seq(PolicyRows) /\ OnePolicy
      /\ grant \in GrantScopes \cup {"NONE"} /\ \A p \in DOMAIN policies : policies[p] \in PolicyRows
  BY DEF PolicyCommands, RulesInv, RowsOK
<1>1. ASSUME NEW m \in Modes, CreateActionPolicyDraft(m) PROVE RulesInv'
  <2> DEFINE y == [state |-> "DRAFT", mode |-> m, effective |-> TRUE]
  <2>1. y \in PolicyRows /\ y.state = "DRAFT"
    BY DEF PolicyRows
  <2>2. policies' = Append(policies, y) /\ PoliciesIn("DRAFT") = {}
    BY <1>1 DEF CreateActionPolicyDraft
  <2> HIDE DEF y
  <2>3. /\ policies' \in Seq(PolicyRows) /\ DOMAIN policies' = DOMAIN policies \cup {Len(policies) + 1}
        /\ policies'[Len(policies) + 1] = y /\ \A q \in DOMAIN policies : policies'[q] = policies[q]
    BY <1>0, <2>1, <2>2, SeqAppended
  <2>4. OnePolicy'
    BY <1>0, <2>1, <2>2, <2>3 DEF OnePolicy, PoliciesIn
  <2> QED BY <1>0, <2>3, <2>4, SettingsChange
<1>2. ASSUME NEW p \in DOMAIN policies, NEW m \in Modes, UpdateActionPolicyDraft(p, m) PROVE RulesInv'
  <2> DEFINE y == [policies[p] EXCEPT !.mode = m]
  <2>1. y \in PolicyRows /\ y.state = policies[p].state /\ policies' = [policies EXCEPT ![p] = y]
    BY <1>0, <1>2 DEF PolicyRows, UpdateActionPolicyDraft
  <2> HIDE DEF y
  <2> QED BY <1>0, <2>1, PolicyWritten
<1>3. ASSUME NEW p \in DOMAIN policies, ActivateActionPolicy(p) PROVE RulesInv'
  <2> DEFINE y == [policies[p] EXCEPT !.state = "ACTIVE"]
  <2>1. /\ y \in PolicyRows /\ y.state = "ACTIVE" /\ PoliciesIn("ACTIVE") = {}
        /\ policies' = [policies EXCEPT ![p] = y]
    BY <1>0, <1>3 DEF PolicyRows, ActivateActionPolicy
  <2> HIDE DEF y
  <2> QED BY <1>0, <2>1, PolicyWritten
<1>4. ASSUME NEW p \in DOMAIN policies, DeactivateActionPolicy(p) PROVE RulesInv'
  <2> DEFINE y == [policies[p] EXCEPT !.state = "INACTIVE"]
  <2>1. y \in PolicyRows /\ y.state = "INACTIVE" /\ policies' = [policies EXCEPT ![p] = y]
    BY <1>0, <1>4 DEF PolicyRows, DeactivateActionPolicy
  <2> HIDE DEF y
  <2> QED BY <1>0, <2>1, PolicyWritten
<1>5. ASSUME NEW p \in DOMAIN policies, PolicyLapses(p) PROVE RulesInv'
  <2> DEFINE y == [policies[p] EXCEPT !.effective = FALSE]
  <2>1. y \in PolicyRows /\ y.state = policies[p].state /\ policies' = [policies EXCEPT ![p] = y]
    BY <1>0, <1>5 DEF PolicyRows, PolicyLapses
  <2> HIDE DEF y
  <2> QED BY <1>0, <2>1, PolicyWritten
<1> QED
  BY <1>1, <1>2, <1>3, <1>4, <1>5 DEF PolicyCommands

(* Kill switches and grants that change preserve the invariant.              *)
LEMMA SwitchesPreserve == RulesInv /\ (SetScopedKillSwitch \/ GrantChanges) => RulesInv'
<1> SUFFICES ASSUME RulesInv, SetScopedKillSwitch \/ GrantChanges PROVE RulesInv'
  OBVIOUS
<1>1. UNCHANGED <<rules, requests, intentVars, policies>> /\ grant' \in GrantScopes \cup {"NONE"}
  BY DEF SetScopedKillSwitch, GrantChanges, RulesInv, RowsOK
<1>2. policies' \in Seq(PolicyRows) /\ OnePolicy'
  BY <1>1 DEF RulesInv, RowsOK, OnePolicy, PoliciesIn
<1> QED
  BY <1>1, <1>2, SettingsChange

(* What it takes for a decision not to be DENY, and to be ALLOW.             *)
LEMMA DecideFacts ==
    ASSUME NEW safety, NEW need
    PROVE  /\ Decide(safety, need) \in Decisions
           /\ Decide(safety, need) # "DENY" => ActivePolicy # 0 /\ policies[ActivePolicy].effective
           /\ Decide(safety, need) = "ALLOW" => policies[ActivePolicy].mode # "REQUIRE_APPROVAL"
  BY DEF Decide, Decisions

(* The active policy version is a number.                                    *)
LEMMA ActivePolicyType == RulesInv => ActivePolicy \in Nat
<1> SUFFICES ASSUME RulesInv PROVE ActivePolicy \in Nat
  OBVIOUS
<1>1. PoliciesIn("ACTIVE") \subseteq Nat
  BY DEF PoliciesIn, RulesInv, RowsOK
<1> QED
  BY <1>1 DEF ActivePolicy

(* What sanctions the execution of an intent i that reads x.                 *)
MayBecomeReady(i, x) ==
    /\ x.policy = ActivePolicy /\ policies[ActivePolicy].effective
    /\ \A c \in x.from : ~IsKilled(c[1])
    /\ policies[ActivePolicy].mode = "REQUIRE_APPROVAL" =>
         \E q \in DOMAIN requests : requests[q].kind = "INTENT" /\ requests[q].of = i /\ requests[q].state = "APPROVED"

(* The intent that matching rules make.                                      *)
LEMMA CanonicalFacts ==
    ASSUME RulesInv, NEW R \in SUBSET Rules, R # {}
    PROVE  /\ Canonical(R) \in IntentRows
           /\ Canonical(R).state \in {"READY", "PENDING_APPROVAL", "BLOCKED"}
           /\ Canonical(R).state = "READY" => \A i : MayBecomeReady(i, Canonical(R))
<1> DEFINE D == {Decide(Body(r).safety, Body(r).need) : r \in R}
           decision == Restrictive(D)
           authorized == grant # "NONE" /\ \A r \in R : ~IsKilled(r)
           x == Canonical(R)
<1>1. decision \in Decisions
  BY DEF Restrictive, Decisions
<1>2. IntentState(decision, authorized) \in {"READY", "PENDING_APPROVAL", "BLOCKED"}
  BY DEF IntentState
<1>3. /\ x.state = IntentState(decision, authorized) /\ x.decision = decision /\ x.policy = ActivePolicy
      /\ x.from = {<<r, rules[r].active>> : r \in R} /\ x.scope = grant
  BY DEF Canonical
<1>4. x \in IntentRows
  <2>1. \A r \in R : <<r, rules[r].active>> \in Rules \X Nat
    BY DEF RulesInv, RowsOK, RuleRows
  <2>2. {<<r, rules[r].active>> : r \in R} \in SUBSET (Rules \X Nat)
    BY <2>1
  <2>3. grant \in GrantScopes \cup {"NONE"} /\ ActivePolicy \in Nat
    BY ActivePolicyType DEF RulesInv, RowsOK
  <2> HIDE DEF decision, authorized
  <2> QED BY <1>1, <1>2, <2>2, <2>3 DEF Canonical, IntentRows, Levels, decision, authorized, D
<1>5. ASSUME x.state = "READY" PROVE \A i : MayBecomeReady(i, x)
  <2>1. decision = "ALLOW" /\ authorized
    BY <1>1, <1>3, <1>5 DEF IntentState, Decisions
  <2>2. "DENY" \notin D /\ "REQUIRE_APPROVAL" \notin D
    BY <2>1 DEF Restrictive
  <2>3. PICK r \in R : TRUE
    OBVIOUS
  <2>4. Decide(Body(r).safety, Body(r).need) = "ALLOW"
    BY <2>2, DecideFacts DEF Decisions
  <2>5. policies[ActivePolicy].effective /\ policies[ActivePolicy].mode # "REQUIRE_APPROVAL"
    BY <2>4, DecideFacts
  <2>6. \A c \in x.from : ~IsKilled(c[1])
    BY <1>3, <2>1
  <2> QED BY <1>3, <2>5, <2>6 DEF MayBecomeReady
<1> QED
  BY <1>2, <1>3, <1>4, <1>5

(* A step that touches intents, conflicts and what is told of them.          *)
LEMMA IntentsMove ==
    ASSUME RulesInv, UNCHANGED <<rules, policies, grant, requests>>,
           intents' \in [RuleIntents -> IntentRows], conflict' \in [Events -> {"NONE", "OPEN", "RESOLVED"}],
           ConflictsOK', \A t \in told' : t[1] = "DECIDED" => t \in told
    PROVE  RulesInv'
<1> USE DEF RulesInv
<1>1. RowsOK'
  BY DEF RowsOK
<1>2. RequestsOK'
  BY DEF RequestsOK
<1>3. ApprovedContentRuns'
  BY DEF ApprovedContentRuns, ActiveRules, Body
<1>4. (\A r \in Rules : VersionsOK(rules[r]))' /\ OnePolicy'
  BY DEF VersionsOK, OnePolicy, PoliciesIn
<1> QED
  BY <1>1, <1>2, <1>3, <1>4

(* The intents of one event change, and its conflict with them.              *)
LEMMA EventMoves ==
    ASSUME RulesInv, NEW e \in Events, NEW c \in {"NONE", "OPEN", "RESOLVED"},
           intents' \in [RuleIntents -> IntentRows], conflict' = [conflict EXCEPT ![e] = c],
           \A f \in Events, a \in Actions : f # e => intents'[<<f, a>>] = intents[<<f, a>>],
           c = "OPEN" <=> \E a \in Actions : intents'[<<e, a>>].state = "CONFLICTED",
           c = "OPEN" => \A a \in Actions : intents'[<<e, a>>].state \notin {"READY", "PENDING_APPROVAL"},
           \A a, b \in Actions : intents'[<<e, a>>].state \in {"READY", "PENDING_APPROVAL"} /\
               intents'[<<e, b>>].state \in {"READY", "PENDING_APPROVAL"} => a = b
    PROVE  ConflictsOK' /\ conflict' \in [Events -> {"NONE", "OPEN", "RESOLVED"}]
<1>1. /\ conflict' \in [Events -> {"NONE", "OPEN", "RESOLVED"}] /\ conflict'[e] = c
      /\ \A f \in Events : f # e => conflict'[f] = conflict[f]
  BY DEF RulesInv, RowsOK
<1>2. ASSUME NEW f \in Events
      PROVE  /\ conflict'[f] = "OPEN" <=> \E a \in Actions : intents'[<<f, a>>].state = "CONFLICTED"
             /\ conflict'[f] = "OPEN" => \A a \in Actions : ~ Executable(<<f, a>>)'
             /\ \A a, b \in Actions : Executable(<<f, a>>)' /\ Executable(<<f, b>>)' => a = b
  <2>1. CASE f = e
    BY <1>1, <2>1 DEF Executable
  <2>2. CASE f # e
    <3>1. conflict'[f] = conflict[f] /\ \A a \in Actions : intents'[<<f, a>>] = intents[<<f, a>>]
      BY <1>1, <2>2
    <3>2. /\ conflict[f] = "OPEN" <=> \E a \in Actions : intents[<<f, a>>].state = "CONFLICTED"
          /\ conflict[f] = "OPEN" => \A a \in Actions : ~ Executable(<<f, a>>)
          /\ \A a, b \in Actions : Executable(<<f, a>>) /\ Executable(<<f, b>>) => a = b
      BY DEF RulesInv, ConflictsOK
    <3>3. \A a \in Actions : Executable(<<f, a>>)' <=> Executable(<<f, a>>)
      BY <3>1 DEF Executable
    <3> QED BY <3>1, <3>2, <3>3
  <2> QED BY <2>1, <2>2
<1> QED
  BY <1>1, <1>2 DEF ConflictsOK

(* An intent newly READY is sanctioned.                                      *)
ReadyOnlyIfSanctioned ==
    \A i \in RuleIntents : intents'[i].state = "READY" /\ intents[i].state # "READY" => MayBecomeReady(i, intents'[i])

(* What an evaluation writes.                                                *)
LEMMA Evaluated ==
    ASSUME RulesInv, NEW e \in Events, EvaluateEvent(e)
    PROVE  \E N \in [Actions -> IntentRows] :
              /\ \A a \in Actions : \/ N[a].state = "NONE"
                                    \/ /\ N[a].state \in {"READY", "PENDING_APPROVAL", "BLOCKED"}
                                       /\ N[a].state = "READY" => \A i : MayBecomeReady(i, N[a])
              /\ intents' = [i \in RuleIntents |-> IF i[1] = e THEN DetectConflict(N)[i[2]] ELSE intents[i]]
              /\ conflict' = [conflict EXCEPT ![e] =
                                IF \E a \in Actions : DetectConflict(N)[a].state = "CONFLICTED" THEN "OPEN" ELSE @]
              /\ told' = told \cup Announce(e, DetectConflict(N))
<1>1. PICK M \in SUBSET ActiveRules :
         LET matching(a) == {r \in M : Body(r).act = a}
             new == DetectConflict([a \in Actions |-> IF matching(a) = {} THEN NoIntent ELSE Canonical(matching(a))])
         IN  /\ intents' = [i \in RuleIntents |-> IF i[1] = e THEN new[i[2]] ELSE intents[i]]
             /\ conflict' = [conflict EXCEPT ![e] = IF \E a \in Actions : new[a].state = "CONFLICTED" THEN "OPEN" ELSE @]
             /\ told' = told \cup Announce(e, new)
  BY DEF EvaluateEvent
<1> DEFINE matching(a) == {r \in M : Body(r).act = a}
           N == [a \in Actions |-> IF matching(a) = {} THEN NoIntent ELSE Canonical(matching(a))]
<1>2. \A a : matching(a) \in SUBSET Rules
  BY DEF ActiveRules
<1>3. NoIntent \in IntentRows /\ NoIntent.state = "NONE"
  BY DEF NoIntent, IntentRows, Decisions, Levels
<1>4. ASSUME NEW a \in Actions
      PROVE  /\ N[a] \in IntentRows
             /\ \/ N[a].state = "NONE"
                \/ /\ N[a].state \in {"READY", "PENDING_APPROVAL", "BLOCKED"}
                   /\ N[a].state = "READY" => \A i : MayBecomeReady(i, N[a])
  <2>1. CASE matching(a) = {}
    BY <1>3, <2>1
  <2>2. CASE matching(a) # {}
    <3>1. N[a] = Canonical(matching(a))
      BY <2>2
    <3> QED BY <1>2, <2>2, <3>1, CanonicalFacts
  <2> QED BY <2>1, <2>2
<1>5. N \in [Actions -> IntentRows]
  BY <1>4
<1> QED
  BY <1>1, <1>4, <1>5

(* Evaluating an event preserves the invariant, and makes READY only what is *)
(* sanctioned.                                                               *)
LEMMA EvaluationPreserves ==
    ASSUME RulesInv, NEW e \in Events, EvaluateEvent(e)
    PROVE  RulesInv' /\ ReadyOnlyIfSanctioned
<1>0. UNCHANGED <<rules, policies, grant, requests>> /\ conflict[e] = "NONE"
  BY DEF EvaluateEvent
<1>1. PICK N \in [Actions -> IntentRows] :
              /\ \A a \in Actions : \/ N[a].state = "NONE"
                                    \/ /\ N[a].state \in {"READY", "PENDING_APPROVAL", "BLOCKED"}
                                       /\ N[a].state = "READY" => \A i : MayBecomeReady(i, N[a])
              /\ intents' = [i \in RuleIntents |-> IF i[1] = e THEN DetectConflict(N)[i[2]] ELSE intents[i]]
              /\ conflict' = [conflict EXCEPT ![e] =
                                IF \E a \in Actions : DetectConflict(N)[a].state = "CONFLICTED" THEN "OPEN" ELSE @]
              /\ told' = told \cup Announce(e, DetectConflict(N))
  BY Evaluated
<1> DEFINE new == DetectConflict(N)
           c == IF \E a \in Actions : new[a].state = "CONFLICTED" THEN "OPEN" ELSE conflict[e]
<1>2. IsFiniteSet(Live(N)) /\ Live(N) \subseteq Actions
  <2>1. Live(N) \in SUBSET Actions
    BY DEF Live
  <2> QED BY <2>1, RulesAssumption, FS_Subset
<1>3. ASSUME Cardinality(Live(N)) > 1
      PROVE  /\ \A a \in Actions : /\ new[a] \in IntentRows
                                   /\ a \in Live(N) => new[a].state = "CONFLICTED"
                                   /\ a \notin Live(N) => new[a] = N[a]
             /\ \E a \in Actions : a \in Live(N)
  <2>1. Live(N) # {}
    BY <1>3, FS_EmptySet
  <2>2. \A a \in Actions : a \in Live(N) => new[a] = [N[a] EXCEPT !.state = "CONFLICTED"]
    BY <1>3 DEF DetectConflict
  <2>3. \A a \in Actions : a \notin Live(N) => new[a] = N[a]
    BY DEF DetectConflict
  <2>4. \A a \in Actions : /\ [N[a] EXCEPT !.state = "CONFLICTED"] \in IntentRows
                           /\ [N[a] EXCEPT !.state = "CONFLICTED"].state = "CONFLICTED"
    BY DEF IntentRows
  <2> QED BY <1>2, <2>1, <2>2, <2>3, <2>4
<1>4. ASSUME ~ Cardinality(Live(N)) > 1
      PROVE  (\A a \in Actions : new[a] = N[a]) /\ \A a, b \in Live(N) : a = b
  BY <1>2, <1>4, OnlyOne DEF DetectConflict
<1>5. \A a \in Actions : /\ new[a] \in IntentRows
                         /\ new[a].state = "READY" => \A i : MayBecomeReady(i, new[a])
  BY <1>1, <1>3, <1>4
<1>6. \A a \in Actions : a \in Live(N) <=> N[a].state \in {"READY", "PENDING_APPROVAL"}
  BY DEF Live
<1> HIDE DEF new
<1>7. /\ intents' \in [RuleIntents -> IntentRows]
      /\ \A a \in Actions : intents'[<<e, a>>] = new[a]
      /\ \A f \in Events, a \in Actions : f # e => intents'[<<f, a>>] = intents[<<f, a>>]
  <2>1. intents' = [i \in RuleIntents |-> IF i[1] = e THEN new[i[2]] ELSE intents[i]]
    BY <1>1 DEF new
  <2>2. intents \in [RuleIntents -> IntentRows]
    BY DEF RulesInv, RowsOK
  <2> QED BY <1>5, <2>1, <2>2 DEF RuleIntents
<1>8. conflict' = [conflict EXCEPT ![e] = c] /\ c \in {"NONE", "OPEN", "RESOLVED"}
  BY <1>0, <1>1 DEF new
<1>9. c = "OPEN" <=> \E a \in Actions : new[a].state = "CONFLICTED"
  BY <1>0
<1> HIDE DEF c
<1>10. c = "OPEN" => \A a \in Actions : new[a].state \notin {"READY", "PENDING_APPROVAL"}
  BY <1>1, <1>3, <1>4, <1>6, <1>9
<1>11. \A a, b \in Actions :
          new[a].state \in {"READY", "PENDING_APPROVAL"} /\ new[b].state \in {"READY", "PENDING_APPROVAL"} => a = b
  BY <1>3, <1>4, <1>6
<1>12. ConflictsOK' /\ conflict' \in [Events -> {"NONE", "OPEN", "RESOLVED"}]
  <2>1. c = "OPEN" <=> \E a \in Actions : intents'[<<e, a>>].state = "CONFLICTED"
    BY <1>7, <1>9
  <2>2. c = "OPEN" => \A a \in Actions : intents'[<<e, a>>].state \notin {"READY", "PENDING_APPROVAL"}
    BY <1>7, <1>10
  <2>3. \A a, b \in Actions : intents'[<<e, a>>].state \in {"READY", "PENDING_APPROVAL"} /\
            intents'[<<e, b>>].state \in {"READY", "PENDING_APPROVAL"} => a = b
    BY <1>7, <1>11
  <2> QED BY <1>7, <1>8, <2>1, <2>2, <2>3, EventMoves
<1>13. \A t \in told' : t[1] = "DECIDED" => t \in told
  BY <1>1 DEF Announce
<1>14. RulesInv'
  BY <1>0, <1>7, <1>12, <1>13, IntentsMove
<1>15. ReadyOnlyIfSanctioned
  <2>1. ASSUME NEW f \in Events, NEW a \in Actions, intents'[<<f, a>>].state = "READY", intents[<<f, a>>].state # "READY"
        PROVE  MayBecomeReady(<<f, a>>, intents'[<<f, a>>])
    BY <1>5, <1>7, <2>1
  <2> QED BY <2>1 DEF ReadyOnlyIfSanctioned, RuleIntents
<1> QED
  BY <1>14, <1>15

(* So does an operator's choice among conflicting actions.                   *)
LEMMA ResolutionPreserves ==
    ASSUME RulesInv, NEW e \in Events, NEW a \in Actions, ResolveConflict(e, a)
    PROVE  RulesInv' /\ ReadyOnlyIfSanctioned
<1> DEFINE j == <<e, a>>
           s == IF AssessAction(j) = "ALLOW" THEN "READY" ELSE "PENDING_APPROVAL"
<1>0. /\ UNCHANGED <<rules, policies, grant, requests, told>> /\ conflict[e] = "OPEN" /\ Selectable(j)
      /\ intents[j].state = "CONFLICTED" /\ j \in RuleIntents /\ intents \in [RuleIntents -> IntentRows]
      /\ conflict' = [conflict EXCEPT ![e] = "RESOLVED"]
      /\ \A b \in Actions : intents[<<e, b>>].state \notin {"READY", "PENDING_APPROVAL"}
  BY DEF ResolveConflict, RuleIntents, RulesInv, RowsOK, ConflictsOK, Executable
<1>1. ASSUME NEW f \in Events, NEW b \in Actions
      PROVE  LET i == <<f, b>> IN
             intents'[i] = IF f # e \/ intents[i].state # "CONFLICTED" THEN intents[i]
                           ELSE [intents[i] EXCEPT !.state = IF b # a THEN "BLOCKED"
                                   ELSE IF AssessAction(i) = "ALLOW" THEN "READY" ELSE "PENDING_APPROVAL"]
  BY DEF ResolveConflict, RuleIntents
<1>2. ASSUME NEW f \in Events, NEW b \in Actions, f # e PROVE intents'[<<f, b>>] = intents[<<f, b>>]
  BY <1>1, <1>2
<1>3. ASSUME NEW b \in Actions, b # a
      PROVE  /\ intents'[<<e, b>>] \in IntentRows
             /\ intents'[<<e, b>>].state \notin {"READY", "PENDING_APPROVAL", "CONFLICTED"}
  <2>1. intents[<<e, b>>] \in IntentRows
    BY <1>0 DEF RuleIntents
  <2>2. CASE intents[<<e, b>>].state # "CONFLICTED"
    BY <1>0, <1>1, <2>1, <2>2
  <2>3. CASE intents[<<e, b>>].state = "CONFLICTED"
    <3>1. intents'[<<e, b>>] = [intents[<<e, b>>] EXCEPT !.state = "BLOCKED"]
      BY <1>1, <1>3, <2>3
    <3> QED BY <2>1, <3>1 DEF IntentRows
  <2> QED BY <2>2, <2>3
<1>4. /\ intents'[j] \in IntentRows /\ intents'[j].state = s /\ intents'[j].policy = intents[j].policy
      /\ intents'[j].from = intents[j].from
  <2>1. intents'[j] = [intents[j] EXCEPT !.state = s]
    BY <1>0, <1>1
  <2>2. s \in {"READY", "PENDING_APPROVAL"} /\ intents[j] \in IntentRows
    BY <1>0
  <2> HIDE DEF s, j
  <2> QED BY <2>1, <2>2 DEF IntentRows
<1>5. intents' \in [RuleIntents -> IntentRows]
  <2>1. intents' = [i \in RuleIntents |-> intents'[i]]
    BY DEF ResolveConflict
  <2>2. \A f \in Events, b \in Actions : intents'[<<f, b>>] \in IntentRows
    BY <1>0, <1>2, <1>3, <1>4 DEF RuleIntents
  <2> QED BY <2>1, <2>2 DEF RuleIntents
<1>6. ConflictsOK' /\ conflict' \in [Events -> {"NONE", "OPEN", "RESOLVED"}]
  <2>1. s # "CONFLICTED"
    OBVIOUS
  <2> HIDE DEF s
  <2> QED BY <1>0, <1>2, <1>3, <1>4, <1>5, <2>1, EventMoves
<1>7. RulesInv'
  BY <1>0, <1>5, <1>6, IntentsMove
<1>8. ASSUME s = "READY" PROVE MayBecomeReady(j, intents'[j])
  <2>1. AssessAction(j) = "ALLOW"
    BY <1>8
  <2>2. policies[ActivePolicy].effective /\ policies[ActivePolicy].mode # "REQUIRE_APPROVAL"
    BY <2>1, DecideFacts DEF AssessAction
  <2>3. ActivePolicy = intents[j].policy /\ ~IntentKilled(j)
    BY <1>0 DEF Selectable
  <2> QED BY <1>4, <2>2, <2>3 DEF MayBecomeReady, IntentKilled
<1>9. ReadyOnlyIfSanctioned
  <2>1. ASSUME NEW f \in Events, NEW b \in Actions, intents'[<<f, b>>].state = "READY", intents[<<f, b>>].state # "READY"
        PROVE  MayBecomeReady(<<f, b>>, intents'[<<f, b>>])
    <3>1. f = e /\ b = a
      BY <1>2, <1>3, <2>1
    <3> QED BY <1>4, <1>8, <2>1, <3>1
  <2> QED BY <2>1 DEF ReadyOnlyIfSanctioned, RuleIntents
<1> QED
  BY <1>7, <1>9

(* A request is added or decided: approvals that were given stay given.      *)
LEMMA RequestsMove ==
    ASSUME RulesInv, UNCHANGED <<rules, policies, grant, intents, conflict>>,
           requests' \in Seq(RequestRows), RequestsOK', DOMAIN requests \subseteq DOMAIN requests',
           \A q \in DOMAIN requests : /\ requests'[q].of = requests[q].of
                                      /\ requests[q].state = "APPROVED" => requests'[q].state = "APPROVED"
    PROVE  RulesInv'
<1> USE DEF RulesInv
<1>1. RowsOK'
  BY DEF RowsOK
<1>2. ConflictsOK'
  BY DEF ConflictsOK, Executable
<1>3. \A r \in Rules : Sanctioned(r, rules[r])'
  <2>1. \A r \in Rules : Sanctioned(r, rules[r])
    BY ApprovedIsSanctioned
  <2> QED BY <2>1 DEF Sanctioned
<1>4. ApprovedContentRuns'
  BY <1>3 DEF ApprovedContentRuns, ActiveRules, Body, Sanctioned
<1>5. (\A r \in Rules : VersionsOK(rules[r]))' /\ OnePolicy'
  BY DEF VersionsOK, OnePolicy, PoliciesIn
<1> QED
  BY <1>1, <1>2, <1>4, <1>5

(* Asking for an approval preserves the invariant.                           *)
LEMMA RequestPreserves == RulesInv /\ CreateApproval => RulesInv'
<1> SUFFICES ASSUME RulesInv, CreateApproval PROVE RulesInv'
  OBVIOUS
<1>0. UNCHANGED <<rules, policies, grant, intents, conflict, told>> /\ requests \in Seq(RequestRows)
  BY DEF CreateApproval, intentVars, RulesInv, RowsOK
<1>1. PICK y \in RequestRows : requests' = Append(requests, y) /\ (y.kind = "INTENT" => y.of \in RuleIntents)
  <2>1. CASE \E r \in Rules : \E v \in DOMAIN rules[r].versions :
                requests' = Append(requests, Request("RULE", [rule |-> r, version |-> v, body |-> rules[r].versions[v].body]))
    <3>1. PICK r \in Rules : \E v \in DOMAIN rules[r].versions :
             requests' = Append(requests, Request("RULE", [rule |-> r, version |-> v, body |-> rules[r].versions[v].body]))
      BY <2>1
    <3>2. PICK v \in DOMAIN rules[r].versions :
             requests' = Append(requests, Request("RULE", [rule |-> r, version |-> v, body |-> rules[r].versions[v].body]))
      BY <3>1
    <3>3. rules[r].versions \in Seq(Versions)
      BY DEF RulesInv, RowsOK, RuleRows
    <3>4. v \in Nat /\ rules[r].versions[v] \in Versions
      BY <3>3, SeqDomain
    <3>5. [rule |-> r, version |-> v, body |-> rules[r].versions[v].body] \in Contents
      BY <3>4 DEF Contents, Versions
    <3> DEFINE y == Request("RULE", [rule |-> r, version |-> v, body |-> rules[r].versions[v].body])
    <3>6. y \in RequestRows /\ y.kind = "RULE"
      BY <3>5 DEF Request, RequestRows
    <3> QED BY <3>2, <3>6
  <2>2. CASE \E i \in RuleIntents : requests' = Append(requests, Request("INTENT", i))
    <3>1. PICK i \in RuleIntents : requests' = Append(requests, Request("INTENT", i))
      BY <2>2
    <3>2. Request("INTENT", i) \in RequestRows /\ Request("INTENT", i).of = i
      BY DEF Request, RequestRows
    <3> QED BY <3>1, <3>2
  <2> QED BY <2>1, <2>2 DEF CreateApproval
<1>2. /\ requests' \in Seq(RequestRows) /\ DOMAIN requests' = DOMAIN requests \cup {Len(requests) + 1}
      /\ requests'[Len(requests) + 1] = y /\ \A q \in DOMAIN requests : requests'[q] = requests[q]
  BY <1>0, <1>1, SeqAppended
<1>3. RequestsOK'
  BY <1>0, <1>1, <1>2 DEF RequestsOK, RulesInv
<1> QED
  BY <1>0, <1>2, <1>3, RequestsMove

(* Deciding an approval preserves the invariant.                             *)
LEMMA DecisionPreserves == ASSUME RulesInv, NEW q \in DOMAIN requests, DecideApproval(q) PROVE RulesInv'
<1>0. /\ UNCHANGED <<rules, policies, grant, intents, conflict>> /\ requests \in Seq(RequestRows)
      /\ requests[q] \in RequestRows /\ requests[q].state = "PENDING"
  BY DEF DecideApproval, RulesInv, RowsOK
<1>1. PICK d \in {"APPROVED", "REJECTED"} : requests' = [requests EXCEPT ![q].state = d]
  BY DEF DecideApproval
<1> DEFINE y == [requests[q] EXCEPT !.state = d]
<1>2. y \in RequestRows /\ y.kind = requests[q].kind /\ y.of = requests[q].of /\ y.state = d
  BY <1>0 DEF RequestRows
<1>3. requests' = [requests EXCEPT ![q] = y]
  BY <1>0, <1>1
<1> HIDE DEF y
<1>4. /\ requests' \in Seq(RequestRows) /\ DOMAIN requests' = DOMAIN requests /\ requests'[q] = y
      /\ \A p \in DOMAIN requests : p # q => requests'[p] = requests[p]
  BY <1>0, <1>2, <1>3, SeqUpdate
<1>5. \A t \in told' : t \in told \/ (t = <<"DECIDED", q>> /\ requests[q].kind = "INTENT")
  <2>1. CASE requests[q].kind = "INTENT"
    BY <2>1 DEF DecideApproval
  <2>2. CASE requests[q].kind # "INTENT"
    BY <2>2 DEF DecideApproval
  <2> QED BY <2>1, <2>2
<1>6. RequestsOK'
  BY <1>2, <1>4, <1>5 DEF RequestsOK, RulesInv
<1> QED
  BY <1>0, <1>2, <1>4, <1>6, RequestsMove

(* Applying a decision, however late, preserves the invariant and makes      *)
(* READY only what is still sanctioned.                                      *)
LEMMA ApprovalPreserves ==
    ASSUME RulesInv, NEW q \in DOMAIN requests, ApplyApprovalEvent(q)
    PROVE  RulesInv' /\ ReadyOnlyIfSanctioned
<1> DEFINE j == requests[q].of
           promoted == RecheckIntentApproval(q)
           old == intents[j].state
           s == IF old # "PENDING_APPROVAL" THEN old ELSE IF promoted THEN "READY" ELSE "BLOCKED"
<1>0. /\ UNCHANGED <<rules, policies, grant, requests, conflict>> /\ told' \subseteq told
      /\ intents' = PromoteOrBlock(j, promoted)
  BY DEF ApplyApprovalEvent
<1>1. requests[q].kind = "INTENT" /\ j \in RuleIntents /\ intents \in [RuleIntents -> IntentRows]
  BY DEF ApplyApprovalEvent, RulesInv, RequestsOK, RowsOK
<1>2. intents' = [intents EXCEPT ![j].state = s]
  BY <1>0, <1>1 DEF PromoteOrBlock
<1>3. /\ s \in {"NONE", "READY", "PENDING_APPROVAL", "BLOCKED", "CONFLICTED"}
      /\ s \in {"READY", "PENDING_APPROVAL"} => old \in {"READY", "PENDING_APPROVAL"}
      /\ s = "CONFLICTED" <=> old = "CONFLICTED"
      /\ s = "READY" /\ old # "READY" => promoted
  BY <1>1 DEF IntentRows
<1> HIDE DEF s
<1>4. /\ intents' \in [RuleIntents -> IntentRows] /\ intents'[j].state = s /\ intents'[j].policy = intents[j].policy
      /\ intents'[j].from = intents[j].from /\ \A i \in RuleIntents : i # j => intents'[i] = intents[i]
  BY <1>1, <1>2, <1>3 DEF IntentRows
<1> HIDE DEF j, promoted, old
<1>5. \A i \in RuleIntents : /\ Executable(i)' => Executable(i)
                             /\ intents'[i].state = "CONFLICTED" <=> intents[i].state = "CONFLICTED"
  BY <1>1, <1>3, <1>4 DEF Executable, old
<1>6. ConflictsOK'
  <2>1. \A e \in Events, a \in Actions : <<e, a>> \in RuleIntents
    BY DEF RuleIntents
  <2>2. UNCHANGED conflict
    BY <1>0
  <2>3. \A e \in Events, a \in Actions : /\ Executable(<<e, a>>)' => Executable(<<e, a>>)
                                         /\ intents'[<<e, a>>].state = "CONFLICTED" <=> intents[<<e, a>>].state = "CONFLICTED"
    BY <1>5, <2>1
  <2> HIDE DEF Executable
  <2>4. ASSUME NEW e \in Events
        PROVE  /\ conflict'[e] = "OPEN" <=> \E a \in Actions : intents'[<<e, a>>].state = "CONFLICTED"
               /\ conflict'[e] = "OPEN" => \A a \in Actions : ~ Executable(<<e, a>>)'
               /\ \A a, b \in Actions : Executable(<<e, a>>)' /\ Executable(<<e, b>>)' => a = b
    BY <2>2, <2>3 DEF RulesInv, ConflictsOK
  <2> QED BY <2>4 DEF ConflictsOK
<1>7. RulesInv'
  BY <1>0, <1>4, <1>6, IntentsMove DEF RulesInv, RowsOK
<1>8. ASSUME promoted PROVE MayBecomeReady(j, intents'[j])
  <2>1. /\ requests[q].state = "APPROVED" /\ AssessAction(j) = "REQUIRE_APPROVAL"
        /\ ActivePolicy = intents[j].policy /\ ~IntentKilled(j)
    BY <1>8 DEF promoted, RecheckIntentApproval, j
  <2>2. policies[ActivePolicy].effective
    BY <2>1, DecideFacts DEF AssessAction
  <2>3. requests[q].of = j
    BY DEF j
  <2> QED BY <1>1, <1>4, <2>1, <2>2, <2>3 DEF MayBecomeReady, IntentKilled
<1>9. ReadyOnlyIfSanctioned
  <2>1. ASSUME NEW i \in RuleIntents, intents'[i].state = "READY", intents[i].state # "READY"
        PROVE  MayBecomeReady(i, intents'[i])
    <3>1. i = j
      BY <1>4, <2>1
    <3>2. promoted
      BY <1>3, <1>4, <2>1, <3>1 DEF old
    <3> QED BY <1>8, <3>1, <3>2
  <2> QED BY <2>1 DEF ReadyOnlyIfSanctioned
<1> QED
  BY <1>7, <1>9

(* Applying an event to the work queue preserves the invariant.              *)
LEMMA WorkItemPreserves == ASSUME RulesInv, NEW e \in Events, ApplyAutomationWorkItemEvent(e) PROVE RulesInv'
<1>1. UNCHANGED <<rules, policies, grant, intents, conflict, requests>> /\ told' \subseteq told
  BY DEF ApplyAutomationWorkItemEvent
<1>2. ConflictsOK'
  BY <1>1 DEF ConflictsOK, Executable, RulesInv
<1> QED
  BY <1>1, <1>2, IntentsMove DEF RulesInv, RowsOK

(* Every step keeps the invariant and makes READY only what is sanctioned.   *)
LEMMA RulesStep ==
    ASSUME RulesInv, [RulesNext]_ruleVars
    PROVE  RulesInv' /\ ReadyOnlyIfSanctioned
<1>0. UNCHANGED intents => ReadyOnlyIfSanctioned
  BY DEF ReadyOnlyIfSanctioned
<1>1. CASE RuleCommands \/ PolicyCommands \/ SetScopedKillSwitch \/ GrantChanges \/ CreateApproval
  <2>1. UNCHANGED intents
    BY <1>1 DEF RuleCommands, PolicyCommands, SetScopedKillSwitch, GrantChanges, CreateApproval, intentVars
  <2> QED
    BY <1>0, <1>1, <2>1, RuleCommandsPreserve, PolicyCommandsPreserve, SwitchesPreserve, RequestPreserves
<1>2. ASSUME NEW e \in Events, EvaluateEvent(e) \/ \E a \in Actions : ResolveConflict(e, a)
      PROVE  RulesInv' /\ ReadyOnlyIfSanctioned
  BY <1>2, EvaluationPreserves, ResolutionPreserves
<1>3. ASSUME NEW e \in Events, ApplyAutomationWorkItemEvent(e) PROVE RulesInv' /\ ReadyOnlyIfSanctioned
  <2>1. UNCHANGED intents
    BY <1>3 DEF ApplyAutomationWorkItemEvent
  <2> QED BY <1>0, <1>3, <2>1, WorkItemPreserves
<1>4. ASSUME NEW q \in DOMAIN requests, DecideApproval(q) PROVE RulesInv' /\ ReadyOnlyIfSanctioned
  <2>1. UNCHANGED intents
    BY <1>4 DEF DecideApproval
  <2> QED BY <1>0, <1>4, <2>1, DecisionPreserves
<1>5. ASSUME NEW q \in DOMAIN requests, ApplyApprovalEvent(q) PROVE RulesInv' /\ ReadyOnlyIfSanctioned
  BY <1>5, ApprovalPreserves
<1>6. CASE UNCHANGED ruleVars
  <2>1. UNCHANGED <<rules, policies, grant, intents, conflict, requests, told>>
    BY <1>6 DEF ruleVars
  <2>2. ConflictsOK'
    BY <2>1 DEF ConflictsOK, Executable, RulesInv
  <2>3. RulesInv'
    BY <2>1, <2>2, IntentsMove DEF RulesInv, RowsOK
  <2> QED BY <1>0, <2>1, <2>3
<1> QED
  BY <1>1, <1>2, <1>3, <1>4, <1>5, <1>6 DEF RulesNext

(* The inductive invariant of rules, policies, intents and approvals.        *)
THEOREM RulesInvariant == RulesSpec => []RulesInv
<1>1. RulesInit => RulesInv
  BY RulesInitInv
<1>2. RulesInv /\ [RulesNext]_ruleVars => RulesInv'
  BY RulesStep
<1> QED
  BY <1>1, <1>2, PTL DEF RulesSpec

(* However many actions and events there are, at most one intent of an event *)
(* is, or can still become, executable (evaluateEvent, resolveConflict,      *)
(* recheckIntentApproval).                                                   *)
THEOREM ConflictsAlwaysExclude == RulesSpec => []ConflictsExcludeEachOther
<1>1. RulesInv => ConflictsExcludeEachOther
  <2> SUFFICES ASSUME RulesInv PROVE ConflictsExcludeEachOther
    OBVIOUS
  <2>1. Cardinality(PoliciesIn("ACTIVE")) <= 1 /\ Cardinality(PoliciesIn("DRAFT")) <= 1
    BY AtMostOne DEF RulesInv, OnePolicy
  <2>2. ASSUME NEW r \in Rules
        PROVE  /\ rules[r].state \in {"NONE", "DRAFT", "ACTIVE", "INACTIVE"}
               /\ rules[r].draft \in 0 .. Len(rules[r].versions) /\ rules[r].active \in 0 .. Len(rules[r].versions)
    <3>1. rules[r] \in RuleRows /\ VersionsOK(rules[r]) /\ rules[r].versions \in Seq(Versions)
      BY DEF RulesInv, RowsOK, RuleRows
    <3>2. DOMAIN rules[r].versions = 1 .. Len(rules[r].versions) /\ Len(rules[r].versions) \in Nat
      BY <3>1, SeqDomain
    <3> QED BY <3>1, <3>2 DEF VersionsOK, RuleRows
  <2>3. \A i \in RuleIntents : intents[i].state \in {"NONE", "READY", "PENDING_APPROVAL", "BLOCKED", "CONFLICTED"}
    BY DEF RulesInv, RowsOK, IntentRows
  <2>4. RulesTypeOK
    BY <2>1, <2>2, <2>3 DEF RulesTypeOK
  <2>5. ASSUME NEW e \in Events
        PROVE  Cardinality({a \in Actions : intents[<<e, a>>].state \in {"READY", "PENDING_APPROVAL"}}) <= 1
    <3> DEFINE S == {a \in Actions : intents[<<e, a>>].state \in {"READY", "PENDING_APPROVAL"}}
    <3>1. \A x, y \in S : x = y
      BY DEF RulesInv, ConflictsOK, Executable
    <3> HIDE DEF S
    <3>2. Cardinality(S) <= 1
      BY <3>1, AtMostOne
    <3> QED BY <3>2 DEF S
  <2>6. \A e \in Events : conflict[e] = "OPEN" <=> \E a \in Actions : intents[<<e, a>>].state = "CONFLICTED"
    BY DEF RulesInv, ConflictsOK
  <2> QED BY <2>4, <2>5, <2>6 DEF ConflictsExcludeEachOther
<1> QED
  BY <1>1, RulesInvariant, PTL

(* A HIGH_RISK rule runs only with a content that was approved, however      *)
(* drafts and versions are edited meanwhile (activateRule, updateDraft).     *)
THEOREM OnlyApprovedContentRuns == RulesSpec => []ApprovedContentRuns
<1>1. RulesInv => ApprovedContentRuns
  BY DEF RulesInv
<1> QED
  BY <1>1, RulesInvariant, PTL

(* An intent becomes READY only under the policy that decided it, with no    *)
(* kill switch set and with the approval that policy wants (evaluateEvent,   *)
(* resolveConflict, recheckIntentApproval).                                  *)
THEOREM ReadyIsAlwaysSanctioned == RulesSpec => ReadyIsSanctioned
<1>1. RulesInv /\ [RulesNext]_ruleVars =>
        [\A i \in RuleIntents : intents'[i].state = "READY" /\ intents[i].state # "READY" =>
          /\ intents'[i].policy = ActivePolicy /\ policies[ActivePolicy].effective
          /\ \A c \in intents'[i].from : ~IsKilled(c[1])
          /\ policies[ActivePolicy].mode = "REQUIRE_APPROVAL" =>
               \E q \in DOMAIN requests : requests[q].kind = "INTENT" /\ requests[q].of = i /\ requests[q].state = "APPROVED"]_ruleVars
  BY RulesStep DEF ReadyOnlyIfSanctioned, MayBecomeReady
<1> QED
  BY <1>1, RulesInvariant, PTL DEF RulesSpec, ReadyIsSanctioned

-----------------------------------------------------------------------------
(* The agent fleet                                                           *)

TokenRows == [agent : Agents, status : {"ISSUED", "CONSUMED", "REVOKED"}, live : BOOLEAN]
CredRows == [agent : Agents, status : {"ACTIVE", "REVOKED", "EXPIRED", "REPLACED"},
             life : {"FRESH", "DUE", "GRACE", "OVER"}, next : Nat, overlap : {"NONE", "OPEN", "OVER"}]
AttemptRows == [op : {"ENROLL", "ROTATE"}, agent : Agents, token : Nat, key : EnrollKeys \cup Sockets \cup {"gone"},
                state : {"ISSUING", "ISSUED"}, leased : BOOLEAN, cred : Nat]

FleetRowsOK ==
    /\ reg \in [Agents -> {"NONE", "ACTIVE", "DISABLED", "RETIRED"}] /\ assetOver \in BOOLEAN
    /\ tokens \in Seq(TokenRows) /\ creds \in Seq(CredRows) /\ attempts \in Seq(AttemptRows)
    /\ sess \in [Sockets -> [cred : Nat, ended : BOOLEAN]]
    /\ req \in [Sockets -> {"none", "message", "rotate"}] /\ effects \in [Sockets -> Nat]
    /\ held \subseteq DOMAIN creds /\ wanted \subseteq DOMAIN creds

OneActive == \A a, b \in Agents : reg[a] = "ACTIVE" /\ reg[b] = "ACTIVE" => a = b

(* A session has a credential before it has a request, and nothing happened  *)
(* in it before there is a receipt.                                          *)
SessionsOK ==
    \A s \in Sockets : /\ sess[s].cred \in {0} \cup DOMAIN creds
                       /\ req[s] # "none" => sess[s].cred # 0
                       /\ s \notin receipts => effects[s] = 0

(* A rotation in flight runs for the agent of its session's credential.      *)
CallsOK ==
    \A k \in calls : /\ k.att \in DOMAIN attempts
                     /\ attempts[k.att].op = "ROTATE" =>
                          /\ k.s \in Sockets /\ sess[k.s].cred # 0
                          /\ creds[sess[k.s].cred].agent = attempts[k.att].agent

AttemptsOK ==
    /\ \A i \in DOMAIN attempts :
         /\ attempts[i].cred \in {0} \cup DOMAIN creds
         /\ attempts[i].state = "ISSUED" <=> attempts[i].cred # 0
         /\ attempts[i].op = "ENROLL" => attempts[i].token \in DOMAIN tokens
         /\ attempts[i].op = "ROTATE" => attempts[i].token = 0
    /\ \A c \in DOMAIN creds : \E i \in DOMAIN attempts : attempts[i].cred = c
    /\ \A i, j \in DOMAIN attempts : attempts[i].cred = attempts[j].cred /\ attempts[i].cred # 0 => i = j

TokensOK ==
    /\ \A t \in DOMAIN tokens : tokens[t].status = "CONSUMED" <=>
         \E i \in DOMAIN attempts : attempts[i].token = t /\ attempts[i].state = "ISSUED"
    /\ \A i, j \in DOMAIN attempts :
         /\ attempts[i].token = attempts[j].token /\ attempts[i].token # 0
         /\ attempts[i].state = "ISSUED" /\ attempts[j].state = "ISSUED"
         => i = j

Rotating(i) == attempts[i].op = "ROTATE" /\ InFlight(i)

(* While a rotation of an agent is in flight there is no other, and the      *)
(* agent has at most one valid credential: its own, or, once that one has    *)
(* expired, one that was enrolled since.                                     *)
RotationsOK ==
    \A i \in DOMAIN attempts : Rotating(i) =>
      /\ \A j \in DOMAIN attempts : Rotating(j) /\ attempts[j].agent = attempts[i].agent => j = i
      /\ \A c, d \in CredsOf(attempts[i].agent) : Usable(c) /\ Usable(d) => c = d

NoThreeUsable ==
    \A c, d, e \in DOMAIN creds :
      /\ Usable(c) /\ Usable(d) /\ Usable(e)
      /\ creds[c].agent = creds[d].agent /\ creds[d].agent = creds[e].agent
      => c = d \/ d = e \/ c = e

FleetInv ==
    /\ FleetRowsOK /\ OneActive /\ SessionsOK /\ CallsOK /\ AttemptsOK /\ TokensOK
    /\ RotationsOK /\ NoThreeUsable /\ ValidPairs /\ CutOffEndsSessions

-----------------------------------------------------------------------------
(* What a step may do to the rows of each table without disturbing the       *)
(* invariant: credentials only become less usable, attempts are only leased  *)
(* or disowned, tokens are neither consumed nor unconsumed.                  *)

SessionRows == [cred : Nat, ended : BOOLEAN]

CredsSettle ==
    /\ creds' \in Seq(CredRows) /\ DOMAIN creds' = DOMAIN creds
    /\ \A c \in DOMAIN creds :
         /\ creds'[c].agent = creds[c].agent /\ creds'[c].next = creds[c].next
         /\ Usable(c)' => Usable(c)
         /\ creds[c].life \in {"GRACE", "OVER"} => creds'[c].life \in {"GRACE", "OVER"}

SameAttempts ==
    /\ attempts' \in Seq(AttemptRows) /\ DOMAIN attempts' = DOMAIN attempts
    /\ \A i \in DOMAIN attempts :
         /\ attempts'[i].op = attempts[i].op /\ attempts'[i].agent = attempts[i].agent
         /\ attempts'[i].token = attempts[i].token /\ attempts'[i].state = attempts[i].state
         /\ attempts'[i].cred = attempts[i].cred

TokensSettle ==
    /\ tokens' \in Seq(TokenRows) /\ DOMAIN tokens \subseteq DOMAIN tokens'
    /\ \A t \in DOMAIN tokens : tokens'[t].status = "CONSUMED" <=> tokens[t].status = "CONSUMED"
    /\ \A t \in DOMAIN tokens' \ DOMAIN tokens : tokens'[t].status # "CONSUMED"

(* The sessions keep their credentials and stay ended.                       *)
SessionsSettle ==
    /\ sess' \in [Sockets -> SessionRows]
    /\ \A s \in Sockets : sess'[s].cred = sess[s].cred /\ (sess[s].ended => sess'[s].ended)

(* A sequence computed element by element from another.                      *)
LEMMA SeqMapped ==
    ASSUME NEW S, NEW T, NEW s \in Seq(T), NEW f(_), \A i \in DOMAIN s : f(i) \in S
    PROVE  /\ [i \in DOMAIN s |-> f(i)] \in Seq(S) /\ DOMAIN [i \in DOMAIN s |-> f(i)] = DOMAIN s
           /\ \A i \in DOMAIN s : [j \in DOMAIN s |-> f(j)][i] = f(i)
  OBVIOUS

(* What the invariant says of the rows of the fleet.                         *)
LEMMA FleetRows ==
    ASSUME FleetInv
    PROVE  /\ 0 \notin DOMAIN creds /\ 0 \notin DOMAIN tokens /\ 0 \notin DOMAIN attempts
           /\ \A c \in DOMAIN creds : creds[c] \in CredRows /\ c \in Nat
           /\ \A t \in DOMAIN tokens : tokens[t] \in TokenRows /\ t \in Nat
           /\ \A i \in DOMAIN attempts : attempts[i] \in AttemptRows /\ i \in Nat
<1>1. creds \in Seq(CredRows) /\ tokens \in Seq(TokenRows) /\ attempts \in Seq(AttemptRows)
  BY DEF FleetInv, FleetRowsOK
<1>2. 0 \notin DOMAIN creds /\ \A c \in DOMAIN creds : creds[c] \in CredRows /\ c \in Nat
  BY <1>1
<1>3. 0 \notin DOMAIN tokens /\ \A t \in DOMAIN tokens : tokens[t] \in TokenRows /\ t \in Nat
  BY <1>1
<1>4. 0 \notin DOMAIN attempts /\ \A i \in DOMAIN attempts : attempts[i] \in AttemptRows /\ i \in Nat
  BY <1>1
<1> QED
  BY <1>2, <1>3, <1>4

(* A table that is not written settles: the step relations below hold of it. *)
LEMMA UnchangedSettles ==
    ASSUME FleetInv
    PROVE  /\ UNCHANGED creds => CredsSettle
           /\ UNCHANGED attempts => SameAttempts
           /\ UNCHANGED tokens => TokensSettle
           /\ UNCHANGED sess => SessionsSettle
<1>1. UNCHANGED creds => CredsSettle
  BY DEF FleetInv, FleetRowsOK, CredsSettle, Usable, Active
<1>2. UNCHANGED attempts => SameAttempts
  BY DEF FleetInv, FleetRowsOK, SameAttempts
<1>3. UNCHANGED tokens => TokensSettle
  BY DEF FleetInv, FleetRowsOK, TokensSettle
<1>4. UNCHANGED sess => SessionsSettle
  BY DEF FleetInv, FleetRowsOK, SessionsSettle, SessionRows
<1> QED
  BY <1>1, <1>2, <1>3, <1>4

(* The tables of the issuing side.                                           *)
LEMMA IssuingSettles ==
    ASSUME FleetInv, CredsSettle, SameAttempts, TokensSettle
    PROVE  AttemptsOK' /\ TokensOK' /\ RotationsOK' /\ NoThreeUsable' /\ ValidPairs'
<1>0. 0 \notin DOMAIN tokens' /\ 0 \notin DOMAIN creds
  BY SeqDomain DEF TokensSettle, FleetInv, FleetRowsOK
<1>1. AttemptsOK'
  <2>1. AttemptsOK
    BY DEF FleetInv
  <2>2. DOMAIN attempts' = DOMAIN attempts /\ DOMAIN creds' = DOMAIN creds /\ DOMAIN tokens \subseteq DOMAIN tokens'
    BY DEF CredsSettle, SameAttempts, TokensSettle
  <2>3. \A i \in DOMAIN attempts : attempts'[i].cred = attempts[i].cred
    BY DEF SameAttempts
  <2>4. \A i \in DOMAIN attempts :
         /\ attempts'[i].cred \in {0} \cup DOMAIN creds
         /\ attempts'[i].state = "ISSUED" <=> attempts'[i].cred # 0
         /\ attempts'[i].op = "ENROLL" => attempts'[i].token \in DOMAIN tokens
         /\ attempts'[i].op = "ROTATE" => attempts'[i].token = 0
    BY <2>1 DEF AttemptsOK, SameAttempts
  <2>5. \A c \in DOMAIN creds : \E i \in DOMAIN attempts : attempts'[i].cred = c
    BY <2>1, <2>3 DEF AttemptsOK
  <2>6. \A i, j \in DOMAIN attempts : attempts'[i].cred = attempts'[j].cred /\ attempts'[i].cred # 0 => i = j
    BY <2>1, <2>3 DEF AttemptsOK
  <2> QED BY <2>2, <2>4, <2>5, <2>6 DEF AttemptsOK
<1>2. TokensOK'
  <2>1. ASSUME NEW i \in DOMAIN attempts', attempts'[i].token # 0 PROVE attempts'[i].token \in DOMAIN tokens
    <3>1. i \in DOMAIN attempts /\ attempts'[i].token = attempts[i].token /\ attempts[i].op \in {"ENROLL", "ROTATE"}
      BY FleetRows DEF SameAttempts, AttemptRows
    <3> QED BY <2>1, <3>1 DEF AttemptsOK, FleetInv
  <2>2. \A t \in DOMAIN tokens' : tokens'[t].status = "CONSUMED" <=>
           \E i \in DOMAIN attempts' : attempts'[i].token = t /\ attempts'[i].state = "ISSUED"
    BY <1>0, <2>1 DEF TokensOK, SameAttempts, TokensSettle, FleetInv
  <2>3. \A i, j \in DOMAIN attempts' :
           /\ attempts'[i].token = attempts'[j].token /\ attempts'[i].token # 0
           /\ attempts'[i].state = "ISSUED" /\ attempts'[j].state = "ISSUED"
           => i = j
    BY DEF TokensOK, SameAttempts, FleetInv
  <2> QED BY <2>2, <2>3 DEF TokensOK
<1>3. RotationsOK'
  <2>1. \A i \in DOMAIN attempts : /\ Rotating(i)' => Rotating(i)
                                   /\ attempts'[i].agent = attempts[i].agent
    BY DEF Rotating, InFlight, SameAttempts
  <2>2. \A a : CredsOf(a)' = CredsOf(a)
    BY DEF CredsOf, CredsSettle
  <2>3. \A a : \A c \in CredsOf(a) : Usable(c)' => Usable(c)
    BY DEF CredsOf, CredsSettle
  <2> HIDE DEF Rotating, CredsOf, Usable
  <2>4. DOMAIN attempts' = DOMAIN attempts
    BY DEF SameAttempts
  <2> QED BY <2>1, <2>2, <2>3, <2>4 DEF RotationsOK, FleetInv
<1>4. NoThreeUsable'
  BY DEF NoThreeUsable, CredsSettle, FleetInv
<1>5. ValidPairs'
  BY DEF ValidPairs, CredsSettle, FleetInv
<1> QED
  BY <1>1, <1>2, <1>3, <1>4, <1>5

(* Calls that come to an end, and one that is made.                          *)
LEMMA CallsSettle ==
    ASSUME FleetInv, CredsSettle, SameAttempts, SessionsSettle, calls' \subseteq calls
    PROVE  CallsOK'
<1> SUFFICES ASSUME NEW k \in calls'
             PROVE  /\ k.att \in DOMAIN attempts'
                    /\ attempts'[k.att].op = "ROTATE" =>
                         /\ k.s \in Sockets /\ sess'[k.s].cred # 0
                         /\ creds'[sess'[k.s].cred].agent = attempts'[k.att].agent
  BY DEF CallsOK
<1>1. /\ k.att \in DOMAIN attempts
      /\ attempts[k.att].op = "ROTATE" => /\ k.s \in Sockets /\ sess[k.s].cred # 0
                                          /\ creds[sess[k.s].cred].agent = attempts[k.att].agent
  BY DEF CallsOK, FleetInv
<1>2. k.s \in Sockets => sess'[k.s].cred = sess[k.s].cred /\ sess[k.s].cred \in {0} \cup DOMAIN creds
  BY DEF SessionsSettle, SessionsOK, FleetInv
<1> QED
  BY <1>1, <1>2 DEF CredsSettle, SameAttempts

(* Sessions stay in order when credentials only lose rights.                 *)
LEMMA SessionsStay ==
    ASSUME FleetInv, CredsSettle, SessionsSettle, UNCHANGED <<req, receipts, effects>>
    PROVE  SessionsOK'
  BY DEF FleetInv, SessionsOK, CredsSettle, SessionsSettle

(* Nobody is cut off by the step.                                            *)
LEMMA CutOffStays ==
    ASSUME FleetInv, SessionsSettle, CredsSettle,
           \A a \in Agents : reg[a] = "ACTIVE" => reg'[a] = "ACTIVE",
           \A c \in DOMAIN creds : creds'[c].status = "REVOKED" => creds[c].status = "REVOKED"
    PROVE  CutOffEndsSessions'
<1> SUFFICES ASSUME NEW s \in Sockets, sess'[s].cred # 0,
                    reg'[creds'[sess'[s].cred].agent] # "ACTIVE" \/ creds'[sess'[s].cred].status = "REVOKED"
             PROVE  sess'[s].ended
  BY DEF CutOffEndsSessions
<1> DEFINE c == sess[s].cred
<1>1. c \in DOMAIN creds /\ sess'[s].cred = c /\ (sess[s].ended => sess'[s].ended)
  BY DEF FleetInv, SessionsOK, SessionsSettle
<1>2. creds[c].agent \in Agents /\ creds'[c].agent = creds[c].agent
  BY <1>1, FleetRows DEF CredsSettle, CredRows
<1>3. reg[creds[c].agent] # "ACTIVE" \/ creds[c].status = "REVOKED"
  BY <1>1, <1>2
<1>4. c # 0
  BY <1>1
<1> QED
  BY <1>1, <1>3, <1>4 DEF FleetInv, CutOffEndsSessions

(* The inductive invariant holds of a fleet that nobody has joined.          *)
LEMMA FleetInitInv == FleetInit => FleetInv
<1> SUFFICES ASSUME FleetInit PROVE FleetInv
  OBVIOUS
<1> USE DEF FleetInit
<1>1. FleetRowsOK
  <2>1. tokens \in Seq(TokenRows) /\ creds \in Seq(CredRows) /\ attempts \in Seq(AttemptRows)
    OBVIOUS
  <2>2. sess \in [Sockets -> [cred : Nat, ended : BOOLEAN]] /\ assetOver \in BOOLEAN
    BY DEF NewSession
  <2>3. /\ reg \in [Agents -> {"NONE", "ACTIVE", "DISABLED", "RETIRED"}]
        /\ req \in [Sockets -> {"none", "message", "rotate"}] /\ effects \in [Sockets -> Nat]
        /\ held \subseteq DOMAIN creds /\ wanted \subseteq DOMAIN creds
    OBVIOUS
  <2> QED BY <2>1, <2>2, <2>3 DEF FleetRowsOK
<1>2. OneActive /\ SessionsOK /\ CallsOK /\ AttemptsOK
  BY DEF OneActive, SessionsOK, CallsOK, AttemptsOK, NewSession
<1>3. TokensOK /\ RotationsOK /\ NoThreeUsable /\ ValidPairs /\ CutOffEndsSessions
  BY DEF TokensOK, RotationsOK, NoThreeUsable, ValidPairs, CutOffEndsSessions, NewSession
<1> QED
  BY <1>1, <1>2, <1>3 DEF FleetInv

-----------------------------------------------------------------------------
(* Steps that issue nothing                                                  *)

RegOK == reg \in [Agents -> {"NONE", "ACTIVE", "DISABLED", "RETIRED"}] /\ OneActive

(* A step preserves the invariant if it settles credentials, attempts and    *)
(* tokens, and leaves the rest in order.                                     *)
LEMMA FleetFrame ==
    ASSUME FleetInv, CredsSettle, SameAttempts, TokensSettle, RegOK', assetOver' \in BOOLEAN,
           sess' \in [Sockets -> SessionRows], req' \in [Sockets -> {"none", "message", "rotate"}],
           effects' \in [Sockets -> Nat], held' \subseteq DOMAIN creds, wanted' \subseteq DOMAIN creds,
           SessionsOK', CallsOK', CutOffEndsSessions'
    PROVE  FleetInv'
<1>1. FleetRowsOK'
  BY DEF FleetRowsOK, CredsSettle, SameAttempts, TokensSettle, RegOK, SessionRows
<1>2. OneActive'
  BY DEF RegOK
<1> QED
  BY <1>1, <1>2, IssuingSettles DEF FleetInv

(* A step that leaves the requests of sessions alone.                        *)
LEMMA FleetCommand ==
    ASSUME FleetInv, CredsSettle, SameAttempts, TokensSettle, SessionsSettle,
           UNCHANGED <<req, receipts, effects>>, calls' \subseteq calls, RegOK', assetOver' \in BOOLEAN,
           held' \subseteq DOMAIN creds, wanted' \subseteq DOMAIN creds, CutOffEndsSessions'
    PROVE  FleetInv'
<1>1. CallsOK' /\ SessionsOK'
  BY CallsSettle, SessionsStay
<1>2. /\ sess' \in [Sockets -> SessionRows] /\ req' \in [Sockets -> {"none", "message", "rotate"}]
      /\ effects' \in [Sockets -> Nat]
  BY DEF SessionsSettle, FleetInv, FleetRowsOK
<1> QED
  BY <1>1, <1>2, FleetFrame

(* ... and cuts nobody off.                                                  *)
LEMMA FleetQuiet ==
    ASSUME FleetInv, CredsSettle, SameAttempts, TokensSettle,
           UNCHANGED <<reg, sess, req, receipts, effects, wanted>>, calls' \subseteq calls,
           assetOver' \in BOOLEAN, held' \subseteq DOMAIN creds,
           \A c \in DOMAIN creds : creds'[c].status = "REVOKED" => creds[c].status = "REVOKED"
    PROVE  FleetInv'
<1>1. RegOK' /\ wanted' \subseteq DOMAIN creds
  BY DEF RegOK, FleetInv, FleetRowsOK, OneActive
<1>2. SessionsSettle
  BY UnchangedSettles
<1>3. CutOffEndsSessions'
  BY <1>2, CutOffStays
<1> QED
  BY <1>1, <1>2, <1>3, FleetCommand

(* Changing the state of one registration leaves at most one of them ACTIVE. *)
LEMMA RegistrationWritten ==
    ASSUME FleetInv, NEW a \in Agents, NEW t \in {"ACTIVE", "DISABLED", "RETIRED"}, reg' = [reg EXCEPT ![a] = t],
           t = "ACTIVE" => \A b \in Agents : reg[b] # "ACTIVE"
    PROVE  RegOK'
<1>1. reg \in [Agents -> {"NONE", "ACTIVE", "DISABLED", "RETIRED"}] /\ OneActive
  BY DEF FleetInv, FleetRowsOK
<1>2. reg' \in [Agents -> {"NONE", "ACTIVE", "DISABLED", "RETIRED"}]
  BY <1>1
<1>3. OneActive'
  BY <1>1 DEF OneActive
<1> QED
  BY <1>2, <1>3 DEF RegOK

(* Issuing a token settles the tokens.                                       *)
LEMMA TokenIssued ==
    ASSUME FleetInv, NEW a \in Agents, tokens' = IssuedToken(a)
    PROVE  TokensSettle
<1> DEFINE y == [agent |-> a, status |-> "ISSUED", live |-> TRUE]
<1>1. y \in TokenRows /\ tokens \in Seq(TokenRows) /\ tokens' = Append(tokens, y) /\ y.status = "ISSUED"
  BY DEF TokenRows, FleetInv, FleetRowsOK, IssuedToken
<1> HIDE DEF y
<1>2. /\ tokens' \in Seq(TokenRows) /\ DOMAIN tokens' = DOMAIN tokens \cup {Len(tokens) + 1}
      /\ tokens'[Len(tokens) + 1] = y /\ \A t \in DOMAIN tokens : tokens'[t] = tokens[t]
  BY <1>1, SeqAppended
<1> QED
  BY <1>1, <1>2 DEF TokensSettle

(* A step that neither consumes a token nor writes a consumed one settles    *)
(* the tokens.                                                               *)
LEMMA TokenWritten ==
    ASSUME FleetInv, NEW t \in DOMAIN tokens, NEW y \in TokenRows, tokens' = [tokens EXCEPT ![t] = y],
           y.status # "CONSUMED", tokens[t].status # "CONSUMED"
    PROVE  TokensSettle
<1>1. tokens \in Seq(TokenRows)
  BY DEF FleetInv, FleetRowsOK
<1>2. /\ tokens' \in Seq(TokenRows) /\ DOMAIN tokens' = DOMAIN tokens /\ tokens'[t] = y
      /\ \A u \in DOMAIN tokens : u # t => tokens'[u] = tokens[u]
  BY <1>1, SeqUpdate
<1> QED
  BY <1>2 DEF TokensSettle

(* Revoking credentials C and ending their sessions.                         *)
LEMMA RevocationEnds ==
    ASSUME FleetInv, NEW C \in SUBSET DOMAIN creds, creds' = Revoked(C), sess' = EndSessions(SessionsOf(C)),
           UNCHANGED reg
    PROVE  CredsSettle /\ SessionsSettle /\ CutOffEndsSessions'
<1> DEFINE f(c) == IF c \in C /\ Active(c) THEN [creds[c] EXCEPT !.status = "REVOKED"] ELSE creds[c]
<1>1. creds' = [c \in DOMAIN creds |-> f(c)] /\ creds \in Seq(CredRows)
  BY DEF Revoked, FleetInv, FleetRowsOK
<1>2. \A c \in DOMAIN creds : /\ f(c) \in CredRows /\ f(c).agent = creds[c].agent /\ f(c).next = creds[c].next
                              /\ f(c).life = creds[c].life /\ f(c).overlap = creds[c].overlap
                              /\ f(c).status = "ACTIVE" => creds[c].status = "ACTIVE"
                              /\ f(c).status = "REVOKED" => c \in C \/ creds[c].status = "REVOKED"
  BY FleetRows DEF CredRows, Active
<1> HIDE DEF f
<1>3. /\ creds' \in Seq(CredRows) /\ DOMAIN creds' = DOMAIN creds
      /\ \A c \in DOMAIN creds : creds'[c] = f(c)
  BY <1>1, <1>2, SeqMapped
<1>4. CredsSettle
  BY <1>2, <1>3 DEF CredsSettle, Usable, Active
<1>5. \A s \in Sockets : /\ sess'[s] \in SessionRows /\ sess'[s].cred = sess[s].cred
                         /\ sess[s].ended => sess'[s].ended
                         /\ sess[s].cred \in C => sess'[s].ended
  BY DEF EndSessions, SessionsOf, FleetInv, FleetRowsOK, SessionRows
<1>6. SessionsSettle
  <2>1. sess' = [s \in Sockets |-> sess'[s]]
    BY DEF EndSessions
  <2> QED BY <1>5, <2>1 DEF SessionsSettle
<1>7. CutOffEndsSessions'
  <2> SUFFICES ASSUME NEW s \in Sockets, sess'[s].cred # 0,
                      reg'[creds'[sess'[s].cred].agent] # "ACTIVE" \/ creds'[sess'[s].cred].status = "REVOKED"
               PROVE  sess'[s].ended
    BY DEF CutOffEndsSessions
  <2>1. sess[s].cred \in DOMAIN creds /\ sess[s].cred # 0
    BY <1>5 DEF FleetInv, SessionsOK
  <2>2. reg[creds[sess[s].cred].agent] # "ACTIVE" \/ creds[sess[s].cred].status = "REVOKED" \/ sess[s].cred \in C
    BY <1>2, <1>3, <1>5, <2>1
  <2> QED BY <1>5, <2>1, <2>2 DEF FleetInv, CutOffEndsSessions
<1> QED
  BY <1>4, <1>6, <1>7

(* The operators' commands on registrations, tokens and credentials preserve *)
(* the invariant.                                                            *)
LEMMA RegistrationPreserves == FleetInv /\ RegistrationRoutes => FleetInv'
<1> SUFFICES ASSUME FleetInv, RegistrationRoutes PROVE FleetInv'
  OBVIOUS
<1>0. /\ UNCHANGED <<assetOver, attempts, req, calls, held, receipts, effects>>
      /\ held \subseteq DOMAIN creds /\ wanted \subseteq DOMAIN creds /\ assetOver \in BOOLEAN
      /\ UNCHANGED reg => RegOK'
  BY DEF RegistrationRoutes, CreateAgentRegistration, IssueEnrollmentToken, ForceAgentReenrollment,
     TransitionAgentRegistration, RevokeEnrollmentToken, RevokeAgentCredential, FleetInv, FleetRowsOK, RegOK, OneActive
<1>1. ASSUME NEW a \in Agents, CreateAgentRegistration(a) PROVE FleetInv'
  <2>1. UNCHANGED <<tokens, creds, sess, wanted>> /\ reg' = [reg EXCEPT ![a] = "ACTIVE"] /\ \A b \in Agents : reg[b] # "ACTIVE"
    BY <1>1 DEF CreateAgentRegistration, CanRegister
  <2>2. RegOK'
    BY <2>1, RegistrationWritten
  <2>3. CredsSettle /\ SameAttempts /\ TokensSettle /\ SessionsSettle
    BY <1>0, <2>1, UnchangedSettles
  <2>4. CutOffEndsSessions'
    BY <2>1, <2>3, CutOffStays
  <2> QED BY <1>0, <2>1, <2>2, <2>3, <2>4, FleetCommand
<1>2. ASSUME NEW a \in Agents, IssueEnrollmentToken(a) PROVE FleetInv'
  <2>1. UNCHANGED <<reg, creds, sess, wanted>> /\ tokens' = IssuedToken(a)
    BY <1>2 DEF IssueEnrollmentToken
  <2>2. CredsSettle /\ SameAttempts /\ TokensSettle
    BY <1>0, <2>1, UnchangedSettles, TokenIssued
  <2> QED BY <1>0, <2>1, <2>2, FleetQuiet
<1>3. ASSUME NEW a \in Agents, ForceAgentReenrollment(a) PROVE FleetInv'
  <2>1. /\ UNCHANGED reg /\ tokens' = IssuedToken(a) /\ creds' = Revoked(CredsOf(a))
        /\ sess' = EndSessions(SessionsOf(CredsOf(a))) /\ CredsOf(a) \in SUBSET DOMAIN creds
        /\ wanted' \subseteq DOMAIN creds
    BY <1>0, <1>3 DEF ForceAgentReenrollment, CredsOf
  <2>2. CredsSettle /\ SessionsSettle /\ CutOffEndsSessions'
    BY <2>1, RevocationEnds
  <2>3. SameAttempts /\ TokensSettle
    BY <1>0, <2>1, UnchangedSettles, TokenIssued
  <2> QED BY <1>0, <2>1, <2>2, <2>3, FleetCommand
<1>4. ASSUME NEW a \in Agents, NEW t \in {"ACTIVE", "DISABLED", "RETIRED"}, TransitionAgentRegistration(a, t)
      PROVE  FleetInv'
  <2>1. /\ UNCHANGED <<tokens, creds, wanted>> /\ reg' = [reg EXCEPT ![a] = t] /\ sess' = SessionsAfter(a, t)
        /\ t = "ACTIVE" => \A b \in Agents : reg[b] # "ACTIVE"
    BY <1>4 DEF TransitionAgentRegistration, CanTransition
  <2>2. RegOK'
    BY <2>1, RegistrationWritten
  <2>3. CredsSettle /\ SameAttempts /\ TokensSettle
    BY <1>0, <2>1, UnchangedSettles
  <2>4. \A s \in Sockets : /\ sess'[s] \in SessionRows /\ sess'[s].cred = sess[s].cred
                           /\ sess[s].ended => sess'[s].ended
                           /\ t # "ACTIVE" /\ sess[s].cred \in CredsOf(a) => sess'[s].ended
    BY <2>1 DEF SessionsAfter, EndSessions, SessionsOf, FleetInv, FleetRowsOK, SessionRows
  <2>5. SessionsSettle
    <3>1. sess' = [s \in Sockets |-> sess'[s]]
      BY <2>1 DEF SessionsAfter, EndSessions, FleetInv, FleetRowsOK
    <3> QED BY <2>4, <3>1 DEF SessionsSettle
  <2>6. CutOffEndsSessions'
    <3> SUFFICES ASSUME NEW s \in Sockets, sess'[s].cred # 0,
                        reg'[creds'[sess'[s].cred].agent] # "ACTIVE" \/ creds'[sess'[s].cred].status = "REVOKED"
                 PROVE  sess'[s].ended
      BY DEF CutOffEndsSessions
    <3> DEFINE c == sess[s].cred
    <3>1. c \in DOMAIN creds /\ c # 0 /\ sess'[s].cred = c /\ creds[c].agent \in Agents
      BY <2>4, FleetRows DEF FleetInv, SessionsOK, CredRows
    <3>2. CASE creds[c].agent = a /\ t # "ACTIVE"
      BY <2>4, <3>1, <3>2 DEF CredsOf
    <3>3. CASE creds[c].agent = a /\ t = "ACTIVE"
      <4>1. reg'[a] = "ACTIVE"
        BY <2>1, <3>3 DEF FleetInv, FleetRowsOK
      <4>2. creds[c].status = "REVOKED"
        BY <2>1, <3>1, <3>3, <4>1
      <4> QED BY <2>4, <3>1, <4>2 DEF FleetInv, CutOffEndsSessions
    <3>4. CASE creds[c].agent # a
      <4>1. reg'[creds[c].agent] = reg[creds[c].agent]
        BY <2>1, <3>1, <3>4 DEF FleetInv, FleetRowsOK
      <4> QED BY <2>1, <2>4, <3>1, <4>1 DEF FleetInv, CutOffEndsSessions
    <3> QED BY <3>2, <3>3, <3>4
  <2> QED BY <1>0, <2>1, <2>2, <2>3, <2>5, <2>6, FleetCommand
<1>5. ASSUME NEW t \in DOMAIN tokens, RevokeEnrollmentToken(t) PROVE FleetInv'
  <2> DEFINE y == [tokens[t] EXCEPT !.status = "REVOKED"]
  <2>1. /\ UNCHANGED <<reg, creds, sess, wanted>> /\ tokens[t].status = "ISSUED"
        /\ tokens' = [tokens EXCEPT ![t] = y]
    BY <1>5 DEF RevokeEnrollmentToken, TokenRevoked
  <2>2. y \in TokenRows /\ y.status = "REVOKED"
    BY FleetRows DEF TokenRows
  <2> HIDE DEF y
  <2>3. CredsSettle /\ SameAttempts /\ TokensSettle
    BY <1>0, <2>1, <2>2, UnchangedSettles, TokenWritten
  <2> QED BY <1>0, <2>1, <2>3, FleetQuiet
<1>6. ASSUME NEW c \in DOMAIN creds, RevokeAgentCredential(c) PROVE FleetInv'
  <2>1. UNCHANGED <<reg, tokens>> /\ wanted' \subseteq DOMAIN creds /\ RevokeRow(c)
    BY <1>0, <1>6 DEF RevokeAgentCredential
  <2>2. SameAttempts /\ TokensSettle
    BY <1>0, <2>1, UnchangedSettles
  <2>3. CASE MayLeaveActive(c)
    <3>1. creds' = Revoked({c}) /\ sess' = EndSessions(SessionsOf({c})) /\ {c} \in SUBSET DOMAIN creds
      BY <2>1, <2>3 DEF RevokeRow
    <3>2. CredsSettle /\ SessionsSettle /\ CutOffEndsSessions'
      BY <2>1, <3>1, RevocationEnds
    <3> QED BY <1>0, <2>1, <2>2, <3>2, FleetCommand
  <2>4. CASE ~MayLeaveActive(c)
    <3>1. UNCHANGED <<creds, sess>>
      BY <2>1, <2>4 DEF RevokeRow
    <3>2. CredsSettle /\ SessionsSettle
      BY <3>1, UnchangedSettles
    <3>3. CutOffEndsSessions'
      BY <2>1, <3>1, <3>2, CutOffStays
    <3> QED BY <1>0, <2>1, <2>2, <3>2, <3>3, FleetCommand
  <2> QED BY <2>3, <2>4
<1> QED
  BY <1>1, <1>2, <1>3, <1>4, <1>5, <1>6 DEF RegistrationRoutes

-----------------------------------------------------------------------------
(* The gateway                                                               *)

(* Taking or losing the lease of an attempt changes nothing else of it.      *)
LEMMA Leased ==
    ASSUME FleetInv, NEW i \in DOMAIN attempts, NEW b \in BOOLEAN, attempts' = [attempts EXCEPT ![i].leased = b]
    PROVE  SameAttempts
<1> DEFINE y == [attempts[i] EXCEPT !.leased = b]
<1>1. attempts \in Seq(AttemptRows) /\ attempts' = [attempts EXCEPT ![i] = y]
  BY DEF FleetInv, FleetRowsOK
<1>2. /\ y \in AttemptRows /\ y.op = attempts[i].op /\ y.agent = attempts[i].agent /\ y.token = attempts[i].token
      /\ y.state = attempts[i].state /\ y.cred = attempts[i].cred
  BY FleetRows DEF AttemptRows
<1> HIDE DEF y
<1>3. /\ attempts' \in Seq(AttemptRows) /\ DOMAIN attempts' = DOMAIN attempts /\ attempts'[i] = y
      /\ \A j \in DOMAIN attempts : j # i => attempts'[j] = attempts[j]
  BY <1>1, <1>2, SeqUpdate
<1> QED
  BY <1>2, <1>3 DEF SameAttempts

(* Writing one credential settles the credentials, if the write gives it no  *)
(* right back.                                                               *)
LEMMA CredWritten ==
    ASSUME FleetInv, NEW c \in DOMAIN creds, NEW y \in CredRows, creds' = [creds EXCEPT ![c] = y],
           y.agent = creds[c].agent, y.next = creds[c].next, y.status # "REVOKED" \/ creds[c].status = "REVOKED",
           (y.status = "ACTIVE" /\ y.life \in {"FRESH", "DUE"} /\ y.overlap # "OVER") => Usable(c),
           creds[c].life \in {"GRACE", "OVER"} => y.life \in {"GRACE", "OVER"}
    PROVE  CredsSettle /\ \A d \in DOMAIN creds : creds'[d].status = "REVOKED" => creds[d].status = "REVOKED"
<1>1. creds \in Seq(CredRows)
  BY DEF FleetInv, FleetRowsOK
<1>2. /\ creds' \in Seq(CredRows) /\ DOMAIN creds' = DOMAIN creds /\ creds'[c] = y
      /\ \A d \in DOMAIN creds : d # c => creds'[d] = creds[d]
  BY <1>1, SeqUpdate
<1> QED
  BY <1>2 DEF CredsSettle, Usable, Active

(* An attempt is reserved and the issuer called for it.                      *)
LEMMA Reserved ==
    ASSUME FleetInv, CredsSettle, NEW y \in AttemptRows, NEW x, y.state = "ISSUING", y.cred = 0,
           attempts' = Append(attempts, y), calls' = calls \cup {Call(Len(attempts) + 1, x)},
           y.op = "ENROLL" => y.token \in DOMAIN tokens,
           y.op = "ROTATE" =>
             /\ y.token = 0 /\ x \in Sockets /\ sess[x].cred # 0 /\ creds[sess[x].cred].agent = y.agent
             /\ \A i \in DOMAIN attempts : Rotating(i) => attempts[i].agent # y.agent
             /\ \A c, d \in CredsOf(y.agent) : Usable(c) /\ Usable(d) => c = d,
           \A c \in DOMAIN creds : creds'[c].status = "REVOKED" => creds[c].status = "REVOKED",
           req' \in [Sockets -> {"none", "message", "rotate"}], \A s \in Sockets : req'[s] # "none" => req[s] # "none",
           UNCHANGED <<reg, assetOver, tokens, sess, held, receipts, effects, wanted>>
    PROVE  FleetInv'
<1>0. PICK n : n = Len(attempts) + 1
  OBVIOUS
<1>1. /\ attempts' \in Seq(AttemptRows) /\ DOMAIN attempts' = DOMAIN attempts \cup {n} /\ n \notin DOMAIN attempts
      /\ attempts'[n] = y /\ \A i \in DOMAIN attempts : attempts'[i] = attempts[i]
  BY <1>0, SeqAppended DEF FleetInv, FleetRowsOK
<1>2. calls' = calls \cup {Call(n, x)}
  BY <1>0
<1>3. FleetRowsOK' /\ OneActive'
  BY <1>1 DEF FleetInv, FleetRowsOK, CredsSettle, OneActive
<1>4. SessionsOK'
  BY DEF FleetInv, SessionsOK, CredsSettle
<1>5. CutOffEndsSessions'
  BY UnchangedSettles, CutOffStays
<1>6. CallsOK'
  <2> SUFFICES ASSUME NEW k \in calls'
               PROVE  /\ k.att \in DOMAIN attempts'
                      /\ attempts'[k.att].op = "ROTATE" =>
                           /\ k.s \in Sockets /\ sess'[k.s].cred # 0
                           /\ creds'[sess'[k.s].cred].agent = attempts'[k.att].agent
    BY DEF CallsOK
  <2>1. \A s \in Sockets : sess[s].cred # 0 => creds'[sess[s].cred].agent = creds[sess[s].cred].agent
    BY DEF FleetInv, SessionsOK, CredsSettle
  <2>2. CASE k = Call(n, x)
    BY <1>1, <2>1, <2>2 DEF Call
  <2>3. CASE k \in calls
    <3>1. /\ k.att \in DOMAIN attempts
          /\ attempts[k.att].op = "ROTATE" => /\ k.s \in Sockets /\ sess[k.s].cred # 0
                                              /\ creds[sess[k.s].cred].agent = attempts[k.att].agent
      BY <2>3 DEF FleetInv, CallsOK
    <3> QED BY <1>1, <2>1, <3>1
  <2> QED BY <1>2, <2>2, <2>3
<1>7. AttemptsOK'
  <2>0. AttemptsOK /\ DOMAIN creds' = DOMAIN creds
    BY DEF FleetInv, CredsSettle
  <2>1. \A i \in DOMAIN attempts' :
         /\ attempts'[i].cred \in {0} \cup DOMAIN creds
         /\ attempts'[i].state = "ISSUED" <=> attempts'[i].cred # 0
         /\ attempts'[i].op = "ENROLL" => attempts'[i].token \in DOMAIN tokens
         /\ attempts'[i].op = "ROTATE" => attempts'[i].token = 0
    BY <1>1, <2>0 DEF AttemptsOK
  <2>2. \A c \in DOMAIN creds : \E i \in DOMAIN attempts' : attempts'[i].cred = c
    BY <1>1, <2>0 DEF AttemptsOK
  <2>3. \A i, j \in DOMAIN attempts' : attempts'[i].cred = attempts'[j].cred /\ attempts'[i].cred # 0 => i = j
    BY <1>1, <2>0 DEF AttemptsOK
  <2> QED BY <2>0, <2>1, <2>2, <2>3 DEF AttemptsOK
<1>8. TokensOK'
  <2>0. TokensOK /\ UNCHANGED tokens
    BY DEF FleetInv
  <2>1. \A t \in DOMAIN tokens : tokens[t].status = "CONSUMED" <=>
           \E i \in DOMAIN attempts' : attempts'[i].token = t /\ attempts'[i].state = "ISSUED"
    BY <1>1, <2>0 DEF TokensOK
  <2>2. \A i, j \in DOMAIN attempts' :
           /\ attempts'[i].token = attempts'[j].token /\ attempts'[i].token # 0
           /\ attempts'[i].state = "ISSUED" /\ attempts'[j].state = "ISSUED"
           => i = j
    BY <1>1, <2>0 DEF TokensOK
  <2> QED BY <2>0, <2>1, <2>2 DEF TokensOK
<1>9. RotationsOK'
  <2>1. \A i \in DOMAIN attempts : Rotating(i)' <=> Rotating(i)
    BY <1>1 DEF Rotating, InFlight
  <2>2. Rotating(n)' => y.op = "ROTATE"
    BY <1>1 DEF Rotating
  <2>3. \A a : CredsOf(a)' = CredsOf(a) /\ \A c \in CredsOf(a) : Usable(c)' => Usable(c)
    BY DEF CredsOf, CredsSettle
  <2>4. RotationsOK
    BY DEF FleetInv
  <2> SUFFICES ASSUME NEW i \in DOMAIN attempts', Rotating(i)', NEW a, a = attempts'[i].agent
               PROVE  /\ \A j \in DOMAIN attempts' : Rotating(j)' /\ attempts'[j].agent = a => j = i
                      /\ \A c, d \in CredsOf(a)' : Usable(c)' /\ Usable(d)' => c = d
    BY DEF RotationsOK, CredsOf
  <2> HIDE DEF Rotating, CredsOf, Usable
  <2>5. \A j \in DOMAIN attempts' : Rotating(j)' /\ attempts'[j].agent = a => j = i
    BY <1>1, <2>1, <2>2, <2>4 DEF RotationsOK
  <2>6. \A c, d \in CredsOf(a) : Usable(c) /\ Usable(d) => c = d
    BY <1>1, <2>1, <2>2, <2>4 DEF RotationsOK
  <2> QED BY <2>3, <2>5, <2>6
<1>10. NoThreeUsable' /\ ValidPairs'
  BY DEF NoThreeUsable, ValidPairs, CredsSettle, FleetInv
<1> QED
  BY <1>3, <1>4, <1>5, <1>6, <1>7, <1>8, <1>9, <1>10 DEF FleetInv

(* An issued certificate becomes a credential of the attempt.                *)
LEMMA Issued ==
    ASSUME FleetInv, NEW i \in DOMAIN attempts, InFlight(i), NEW n, n = Len(creds) + 1,
           creds' \in Seq(CredRows), DOMAIN creds' = DOMAIN creds \cup {n}, creds'[n].agent = attempts[i].agent,
           creds'[n].status = "ACTIVE",
           \A c \in DOMAIN creds : /\ creds'[c].agent = creds[c].agent /\ creds'[c].life = creds[c].life
                                   /\ creds'[c].status = creds[c].status /\ (Usable(c)' => Usable(c))
                                   /\ creds[c].next # 0 => creds'[c].next = creds[c].next,
           NEW y \in AttemptRows, attempts' = [attempts EXCEPT ![i] = y],
           y.op = attempts[i].op, y.agent = attempts[i].agent, y.token = attempts[i].token, y.state = "ISSUED", y.cred = n,
           tokens' \in Seq(TokenRows), DOMAIN tokens' = DOMAIN tokens,
           \A t \in DOMAIN tokens : t # attempts[i].token => tokens'[t].status = tokens[t].status,
           y.op = "ENROLL" => /\ tokens[y.token].status = "ISSUED" /\ tokens'[y.token].status = "CONSUMED"
                              /\ \A c \in CredsOf(y.agent) : ~Usable(c),
           \A c, d \in CredsOf(y.agent) : Usable(c) /\ Usable(d) => c = d,
           \A c \in CredsOf(y.agent) : Usable(c) => \/ creds'[c].next = n
                                                   \/ \E p \in DOMAIN creds : /\ creds'[p].next = n
                                                                              /\ creds[p].life \in {"GRACE", "OVER"},
           calls' \subseteq calls, held' \subseteq held \cup {n},
           UNCHANGED <<reg, assetOver, sess, req, receipts, effects, wanted>>
    PROVE  FleetInv'
<1>1. /\ attempts' \in Seq(AttemptRows) /\ DOMAIN attempts' = DOMAIN attempts
      /\ attempts'[i] = y /\ \A j \in DOMAIN attempts : j # i => attempts'[j] = attempts[j]
  BY SeqUpdate DEF FleetInv, FleetRowsOK
<1>2. /\ n \notin DOMAIN creds /\ n # 0 /\ n \in Nat /\ \A c \in DOMAIN creds : c < n
      /\ 0 \notin DOMAIN tokens /\ attempts[i].op \in {"ENROLL", "ROTATE"}
  <2>1. creds \in Seq(CredRows)
    BY DEF FleetInv, FleetRowsOK
  <2>2. n \notin DOMAIN creds /\ n # 0 /\ n \in Nat /\ \A c \in DOMAIN creds : c < n
    BY <2>1
  <2> QED BY <2>2, FleetRows DEF AttemptRows
<1>3. attempts[i].state = "ISSUING" /\ attempts[i].cred = 0
  BY DEF FleetInv, AttemptsOK, InFlight
<1>4. FleetRowsOK' /\ OneActive'
  <2>1. OneActive'
    BY DEF FleetInv, OneActive
  <2>2. held' \subseteq DOMAIN creds' /\ wanted' \subseteq DOMAIN creds'
    BY DEF FleetInv, FleetRowsOK
  <2> QED BY <1>1, <2>1, <2>2 DEF FleetInv, FleetRowsOK
<1>5. SessionsOK'
  BY DEF FleetInv, SessionsOK
<1>6. CutOffEndsSessions'
  BY DEF FleetInv, CutOffEndsSessions, SessionsOK
<1>7. CallsOK'
  <2> SUFFICES ASSUME NEW k \in calls'
               PROVE  /\ k.att \in DOMAIN attempts'
                      /\ attempts'[k.att].op = "ROTATE" =>
                           /\ k.s \in Sockets /\ sess'[k.s].cred # 0
                           /\ creds'[sess'[k.s].cred].agent = attempts'[k.att].agent
    BY DEF CallsOK
  <2>1. \A s \in Sockets : sess[s].cred # 0 => creds'[sess[s].cred].agent = creds[sess[s].cred].agent
    BY DEF FleetInv, SessionsOK
  <2>2. /\ k.att \in DOMAIN attempts
        /\ attempts[k.att].op = "ROTATE" => /\ k.s \in Sockets /\ sess[k.s].cred # 0
                                            /\ creds[sess[k.s].cred].agent = attempts[k.att].agent
    BY DEF FleetInv, CallsOK
  <2>3. attempts'[k.att].op = attempts[k.att].op /\ attempts'[k.att].agent = attempts[k.att].agent
    BY <1>1, <2>2
  <2> QED BY <1>1, <2>1, <2>2, <2>3
<1>8. AttemptsOK'
  <2>0. AttemptsOK
    BY DEF FleetInv
  <2>1. \A j \in DOMAIN attempts :
         /\ attempts'[j].cred \in {0} \cup DOMAIN creds \cup {n}
         /\ attempts'[j].state = "ISSUED" <=> attempts'[j].cred # 0
         /\ attempts'[j].op = "ENROLL" => attempts'[j].token \in DOMAIN tokens
         /\ attempts'[j].op = "ROTATE" => attempts'[j].token = 0
    BY <1>1, <1>2, <2>0 DEF AttemptsOK
  <2>2. ASSUME NEW c \in DOMAIN creds PROVE \E j \in DOMAIN attempts : attempts'[j].cred = c
    <3>1. PICK j \in DOMAIN attempts : attempts[j].cred = c
      BY <2>0 DEF AttemptsOK
    <3>2. j # i
      BY <1>3, <3>1, FleetRows
    <3> QED BY <1>1, <3>1, <3>2
  <2>3. attempts'[i].cred = n
    BY <1>1
  <2>4. \A j, k \in DOMAIN attempts : attempts'[j].cred = attempts'[k].cred /\ attempts'[j].cred # 0 => j = k
    BY <1>1, <1>2, <2>0 DEF AttemptsOK
  <2> QED BY <1>1, <2>1, <2>2, <2>3, <2>4 DEF AttemptsOK
<1>9. TokensOK'
  <2>0. TokensOK /\ AttemptsOK
    BY DEF FleetInv
  <2>1. attempts'[i].token = y.token /\ attempts'[i].state = "ISSUED" /\ attempts[i].token = y.token
    BY <1>1
  <2>2. CASE y.op = "ENROLL"
    <3>1. y.token \in DOMAIN tokens /\ tokens[y.token].status # "CONSUMED"
      BY <2>0, <2>2 DEF AttemptsOK
    <3>2. \A j \in DOMAIN attempts : attempts[j].token = y.token => attempts[j].state # "ISSUED"
      BY <2>0, <3>1 DEF TokensOK
    <3>3. ASSUME NEW t \in DOMAIN tokens
          PROVE  tokens'[t].status = "CONSUMED" <=>
                   \E j \in DOMAIN attempts : attempts'[j].token = t /\ attempts'[j].state = "ISSUED"
      <4>1. CASE t = y.token
        BY <2>1, <2>2, <4>1
      <4>2. CASE t # y.token
        <5>1. tokens'[t].status = "CONSUMED" <=> \E j \in DOMAIN attempts : attempts[j].token = t /\ attempts[j].state = "ISSUED"
          BY <2>0, <2>1, <4>2 DEF TokensOK
        <5>2. \A j \in DOMAIN attempts : /\ attempts'[j].token = attempts[j].token
                                         /\ attempts[j].token = t => attempts'[j] = attempts[j]
          BY <1>1, <2>1, <4>2
        <5> QED BY <5>1, <5>2
      <4> QED BY <4>1, <4>2
    <3>4. \A j, k \in DOMAIN attempts :
             /\ attempts'[j].token = attempts'[k].token /\ attempts'[j].token # 0
             /\ attempts'[j].state = "ISSUED" /\ attempts'[k].state = "ISSUED"
             => j = k
      BY <1>1, <2>0, <2>1, <3>2 DEF TokensOK
    <3> QED BY <1>1, <3>3, <3>4 DEF TokensOK
  <2>3. CASE y.op = "ROTATE"
    <3>1. y.token = 0
      BY <2>0, <2>3 DEF AttemptsOK
    <3>2. ASSUME NEW t \in DOMAIN tokens
          PROVE  tokens'[t].status = "CONSUMED" <=>
                   \E j \in DOMAIN attempts : attempts'[j].token = t /\ attempts'[j].state = "ISSUED"
      <4>1. t # 0
        BY <1>2
      <4>2. tokens'[t].status = "CONSUMED" <=> \E j \in DOMAIN attempts : attempts[j].token = t /\ attempts[j].state = "ISSUED"
        BY <2>0, <2>1, <3>1, <4>1 DEF TokensOK
      <4>3. \A j \in DOMAIN attempts : /\ attempts'[j].token = attempts[j].token
                                       /\ attempts[j].token = t => attempts'[j] = attempts[j]
        BY <1>1, <2>1, <3>1, <4>1
      <4> QED BY <4>2, <4>3
    <3>3. \A j, k \in DOMAIN attempts :
             /\ attempts'[j].token = attempts'[k].token /\ attempts'[j].token # 0
             /\ attempts'[j].state = "ISSUED" /\ attempts'[k].state = "ISSUED"
             => j = k
      BY <1>1, <2>0, <2>1, <3>1 DEF TokensOK
    <3> QED BY <1>1, <3>2, <3>3 DEF TokensOK
  <2> QED BY <1>2, <2>2, <2>3
<1>10. RotationsOK'
  <2>1. \A j \in DOMAIN attempts : /\ Rotating(j)' => Rotating(j) /\ j # i
                                   /\ attempts'[j].agent = attempts[j].agent
    BY <1>1 DEF Rotating, InFlight
  <2>2. \A a : \A c \in CredsOf(a)' : (c \in CredsOf(a) /\ (Usable(c)' => Usable(c))) \/ (c = n /\ a = y.agent)
    BY DEF CredsOf
  <2>3. y.op = "ROTATE" => Rotating(i)
    BY DEF Rotating
  <2>4. RotationsOK /\ DOMAIN attempts' = DOMAIN attempts
    BY <1>1 DEF FleetInv
  <2> SUFFICES ASSUME NEW j \in DOMAIN attempts, Rotating(j)', NEW a, a = attempts'[j].agent
               PROVE  /\ \A k \in DOMAIN attempts : Rotating(k)' /\ attempts'[k].agent = a => k = j
                      /\ \A c, d \in CredsOf(a)' : Usable(c)' /\ Usable(d)' => c = d
    BY <2>4 DEF RotationsOK, CredsOf
  <2> HIDE DEF Rotating, CredsOf, Usable
  <2>5. \A k \in DOMAIN attempts : Rotating(k)' /\ attempts'[k].agent = a => k = j
    BY <2>1, <2>4 DEF RotationsOK
  <2>6. attempts[j].agent = y.agent => \A c \in CredsOf(y.agent) : ~Usable(c)
    BY <1>2, <2>1, <2>3, <2>4 DEF RotationsOK
  <2>7. \A c, d \in CredsOf(attempts[j].agent) : Usable(c) /\ Usable(d) => c = d
    BY <2>1, <2>4 DEF RotationsOK
  <2>8. \A c, d \in CredsOf(a)' : Usable(c)' /\ Usable(d)' => c = d
    BY <2>1, <2>2, <2>6, <2>7
  <2> QED BY <2>5, <2>8
<1>11. ASSUME NEW c \in DOMAIN creds', NEW d \in DOMAIN creds', c # d, Usable(c)', Usable(d)',
              creds'[c].agent = creds'[d].agent
       PROVE  (c = n \/ d = n \/ (Usable(c) /\ Usable(d) /\ creds[c].agent = creds[d].agent)) /\ (c = n => d # n)
              /\ (c = n => d \in CredsOf(y.agent) /\ Usable(d)) /\ (d = n => c \in CredsOf(y.agent) /\ Usable(c))
  BY <1>11 DEF CredsOf
<1>12. NoThreeUsable'
  <2> SUFFICES ASSUME NEW c \in DOMAIN creds', NEW d \in DOMAIN creds', NEW e \in DOMAIN creds',
                      Usable(c)', Usable(d)', Usable(e)', creds'[c].agent = creds'[d].agent,
                      creds'[d].agent = creds'[e].agent, c # d, d # e, c # e
               PROVE  FALSE
    BY DEF NoThreeUsable
  <2> HIDE DEF Usable
  <2>1. CASE c = n \/ d = n \/ e = n
    BY <1>11, <2>1
  <2>2. CASE ~(c = n \/ d = n \/ e = n)
    BY <1>11, <2>2 DEF NoThreeUsable, FleetInv
  <2> QED BY <2>1, <2>2
<1>13. ValidPairs'
  <2> SUFFICES ASSUME NEW c \in DOMAIN creds', NEW d \in DOMAIN creds', c < d, creds'[c].agent = creds'[d].agent,
                      Usable(c)', Usable(d)'
               PROVE  \/ creds'[c].next = d
                      \/ \E p \in DOMAIN creds' : creds'[p].next = d /\ creds'[p].life \in {"GRACE", "OVER"}
    BY DEF ValidPairs
  <2> HIDE DEF Usable
  <2>0. c # d /\ c # n
    <3>1. c \in Nat /\ d \in Nat /\ d <= n
      BY <1>2, FleetRows
    <3> QED BY <1>2, <3>1
  <2>1. CASE d = n
    <3>1. c \in CredsOf(y.agent) /\ Usable(c)
      BY <1>11, <2>0, <2>1
    <3> QED BY <2>1, <3>1
  <2>2. CASE d # n
    <3>1. c \in DOMAIN creds /\ d \in DOMAIN creds /\ Usable(c) /\ Usable(d) /\ creds[c].agent = creds[d].agent /\ d # 0
      BY <1>11, <2>0, <2>2, FleetRows
    <3>2. \/ creds[c].next = d
          \/ \E p \in DOMAIN creds : creds[p].next = d /\ creds[p].life \in {"GRACE", "OVER"}
      BY <3>1 DEF FleetInv, ValidPairs
    <3> QED BY <3>1, <3>2
  <2> QED BY <2>1, <2>2
<1> QED
  BY <1>4, <1>5, <1>6, <1>7, <1>8, <1>9, <1>10, <1>12, <1>13 DEF FleetInv

(* The first transaction of an enrollment preserves the invariant.           *)
LEMMA EnrollmentReserves ==
    ASSUME FleetInv, NEW t \in DOMAIN tokens, NEW key \in EnrollKeys, ReserveEnrollment(t, key)
    PROVE  FleetInv'
<1>0. /\ UNCHANGED <<reg, assetOver, tokens, creds, sess, req, receipts, effects, wanted>> /\ assetOver \in BOOLEAN
      /\ held \subseteq DOMAIN creds /\ CredsSettle /\ TokensSettle /\ SessionsSettle
      /\ req \in [Sockets -> {"none", "message", "rotate"}] /\ RegOK'
      /\ effects \in [Sockets -> Nat] /\ wanted \subseteq DOMAIN creds
  BY UnchangedSettles DEF ReserveEnrollment, FleetInv, FleetRowsOK, RegOK, OneActive
<1>1. CASE NewEnrollment(t, key)
  <2> DEFINE y == [op |-> "ENROLL", agent |-> tokens[t].agent, token |-> t, key |-> key,
                   state |-> "ISSUING", leased |-> TRUE, cred |-> 0]
  <2>1. attempts' = Append(attempts, y) /\ calls' = calls \cup {Call(Len(attempts) + 1, "none")} /\ UNCHANGED held
    BY <1>1 DEF NewEnrollment
  <2>2. tokens[t] \in TokenRows /\ t \in Nat
    BY FleetRows
  <2>3. y \in AttemptRows /\ y.state = "ISSUING" /\ y.cred = 0 /\ y.op = "ENROLL" /\ y.token = t
    BY <2>2 DEF AttemptRows, TokenRows
  <2> HIDE DEF y
  <2> QED BY <1>0, <2>1, <2>3, Reserved
<1>2. ASSUME NEW i \in PriorEnroll(t, key), ResumeEnrollment(t, i) PROVE FleetInv'
  <2>0. i \in DOMAIN attempts /\ attempts[i].op = "ENROLL"
    BY DEF PriorEnroll
  <2>1. CASE attempts[i].state = "ISSUED" /\ held' = held \cup {attempts[i].cred} /\ UNCHANGED <<attempts, calls>>
    <3>1. attempts[i].cred \in DOMAIN creds
      BY <2>0, <2>1 DEF FleetInv, AttemptsOK
    <3>2. SameAttempts
      BY <2>1, UnchangedSettles
    <3> QED BY <1>0, <2>1, <3>1, <3>2, FleetQuiet
  <2>2. CASE /\ attempts' = [attempts EXCEPT ![i].leased = TRUE] /\ calls' = calls \cup {Call(i, "none")}
             /\ UNCHANGED held
    <3>1. SameAttempts
      BY <2>0, <2>2, Leased
    <3>2. CallsOK'
      <4> SUFFICES ASSUME NEW k \in calls'
                   PROVE  /\ k.att \in DOMAIN attempts'
                          /\ attempts'[k.att].op = "ROTATE" =>
                               /\ k.s \in Sockets /\ sess'[k.s].cred # 0
                               /\ creds'[sess'[k.s].cred].agent = attempts'[k.att].agent
        BY DEF CallsOK
      <4>1. CASE k \in calls
        BY <1>0, <3>1, <4>1 DEF CallsOK, SameAttempts, FleetInv
      <4>2. CASE k = Call(i, "none")
        BY <2>0, <3>1, <4>2 DEF Call, SameAttempts
      <4> QED BY <2>2, <4>1, <4>2
    <3>3. SessionsOK'
      BY <1>0, SessionsStay
    <3>4. CutOffEndsSessions'
      BY <1>0, CutOffStays
    <3>5. sess' \in [Sockets -> SessionRows]
      BY <1>0 DEF SessionsSettle
    <3> QED BY <1>0, <2>2, <3>1, <3>2, <3>3, <3>4, <3>5, FleetFrame
  <2> QED BY <1>2, <2>1, <2>2 DEF ResumeEnrollment
<1> QED
  BY <1>1, <1>2 DEF ReserveEnrollment

(* An issuer that fails, or a request that dies between its two              *)
(* transactions, preserves the invariant.                                    *)
LEMMA CallEnds ==
    ASSUME FleetInv, NEW k \in calls, IssuerFails(k) \/ RequestDies(k)
    PROVE  FleetInv'
<1>1. /\ UNCHANGED <<reg, assetOver, tokens, creds, sess, req, held, receipts, effects, wanted>>
      /\ calls' \subseteq calls /\ assetOver \in BOOLEAN /\ held \subseteq DOMAIN creds
      /\ UNCHANGED attempts \/ attempts' = [attempts EXCEPT ![k.att].leased = FALSE]
      /\ k.att \in DOMAIN attempts
  BY DEF IssuerFails, RequestDies, FleetInv, FleetRowsOK, CallsOK
<1>2. CredsSettle /\ TokensSettle /\ SameAttempts
  BY <1>1, UnchangedSettles, Leased
<1> QED
  BY <1>1, <1>2, FleetQuiet

(* The second transaction of an enrollment preserves the invariant.          *)
LEMMA EnrollmentFinishes ==
    ASSUME FleetInv, NEW k \in calls, FinishEnrollment(k)
    PROVE  FleetInv'
<1> DEFINE i == k.att
<1>0. /\ UNCHANGED <<reg, assetOver, sess, req, receipts, effects, wanted>> /\ calls' \subseteq calls
      /\ assetOver \in BOOLEAN /\ held \subseteq DOMAIN creds /\ i \in DOMAIN attempts /\ attempts[i].op = "ENROLL"
  BY DEF FinishEnrollment, FleetInv, FleetRowsOK, CallsOK
<1>1. CASE /\ UNCHANGED <<creds, tokens, attempts>> /\ held' \subseteq DOMAIN creds
  BY <1>0, <1>1, UnchangedSettles, FleetQuiet
<1>2. CASE /\ MayEnroll(i)
           /\ creds' = Append(creds, NewCredential(attempts[i].agent))
           /\ tokens' = [tokens EXCEPT ![attempts[i].token].status = "CONSUMED"]
           /\ attempts' = [attempts EXCEPT ![i].state = "ISSUED", ![i].leased = FALSE, ![i].cred = Len(creds) + 1]
           /\ Answer(Len(creds) + 1)
  <2>0. PICK n : n = Len(creds) + 1
    OBVIOUS
  <2> DEFINE y == [attempts[i] EXCEPT !.state = "ISSUED", !.leased = FALSE, !.cred = n]
             u == [tokens[attempts[i].token] EXCEPT !.status = "CONSUMED"]
  <2>1. /\ attempts[i] \in AttemptRows /\ InFlight(i) /\ creds \in Seq(CredRows) /\ Len(creds) + 1 \in Nat
        /\ tokens \in Seq(TokenRows) /\ attempts \in Seq(AttemptRows)
        /\ attempts[i].token \in DOMAIN tokens /\ tokens[attempts[i].token].status = "ISSUED"
        /\ \A c \in CredsOf(attempts[i].agent) : ~Usable(c)
    BY <1>0, <1>2, FleetRows DEF MayEnroll, FleetInv, FleetRowsOK, AttemptsOK
  <2>2. /\ y \in AttemptRows /\ y.op = attempts[i].op /\ y.agent = attempts[i].agent /\ y.token = attempts[i].token
        /\ y.state = "ISSUED" /\ y.cred = n
    BY <2>0, <2>1 DEF AttemptRows
  <2>3. attempts' = [attempts EXCEPT ![i] = y]
    BY <1>0, <1>2, <2>0, <2>1
  <2>4. u \in TokenRows /\ u.status = "CONSUMED" /\ tokens' = [tokens EXCEPT ![attempts[i].token] = u]
    BY <1>2, <2>1, FleetRows DEF TokenRows
  <2> HIDE DEF y, u
  <2>5. /\ tokens' \in Seq(TokenRows) /\ DOMAIN tokens' = DOMAIN tokens /\ tokens'[attempts[i].token] = u
        /\ \A t \in DOMAIN tokens : t # attempts[i].token => tokens'[t] = tokens[t]
    BY <2>1, <2>4, SeqUpdate
  <2>6. NewCredential(attempts[i].agent) \in CredRows
    BY <2>1 DEF NewCredential, CredRows, AttemptRows
  <2>7. /\ creds' \in Seq(CredRows) /\ DOMAIN creds' = DOMAIN creds \cup {n}
        /\ creds'[n] = NewCredential(attempts[i].agent) /\ \A c \in DOMAIN creds : creds'[c] = creds[c]
    BY <1>2, <2>0, <2>1, <2>6, SeqAppended
  <2>8. creds'[n].agent = attempts[i].agent /\ creds'[n].status = "ACTIVE"
    BY <2>7 DEF NewCredential
  <2>9. \A c \in DOMAIN creds : /\ creds'[c].agent = creds[c].agent /\ creds'[c].life = creds[c].life
                                /\ creds'[c].status = creds[c].status /\ (Usable(c)' => Usable(c))
                                /\ creds[c].next # 0 => creds'[c].next = creds[c].next
    BY <2>7 DEF Usable, Active
  <2>10. held' \subseteq held \cup {n}
    BY <1>2, <2>0 DEF Answer
  <2> HIDE DEF i
  <2>11. \A t \in DOMAIN tokens : t # attempts[i].token => tokens'[t].status = tokens[t].status
    BY <2>5
  <2>12. /\ tokens[y.token].status = "ISSUED" /\ tokens'[y.token].status = "CONSUMED"
         /\ \A c \in CredsOf(y.agent) : ~Usable(c)
    BY <2>1, <2>2, <2>4, <2>5
  <2> QED
    BY <1>0, <2>0, <2>1, <2>2, <2>3, <2>5, <2>7, <2>8, <2>9, <2>10, <2>11, <2>12, Issued
<1>3. attempts[i].state = "ISSUED" => attempts[i].cred \in DOMAIN creds
  BY <1>0 DEF FleetInv, AttemptsOK
<1> QED
  BY <1>0, <1>1, <1>2, <1>3 DEF FinishEnrollment, Answer

(* The second transaction of a rotation preserves the invariant.             *)
LEMMA RotationFinishes ==
    ASSUME FleetInv, NEW k \in calls, FinishRotation(k)
    PROVE  FleetInv'
<1> DEFINE i == k.att
           c == sess[k.s].cred
<1>0. /\ UNCHANGED <<reg, assetOver, tokens, sess, req, receipts, effects, wanted>> /\ calls' \subseteq calls
      /\ assetOver \in BOOLEAN /\ held \subseteq DOMAIN creds /\ i \in DOMAIN attempts /\ attempts[i].op = "ROTATE"
      /\ k.s \in Sockets /\ c # 0 /\ creds[c].agent = attempts[i].agent
  BY DEF FinishRotation, FleetInv, FleetRowsOK, CallsOK
<1>1. CASE UNCHANGED <<creds, attempts, held>>
  BY <1>0, <1>1, UnchangedSettles, FleetQuiet
<1>2. CASE /\ InFlight(i) /\ MayFinishRotation(k.s)
           /\ creds' = Append([creds EXCEPT ![c].next = Len(creds) + 1, ![c].overlap = "OPEN"], NewCredential(creds[c].agent))
           /\ attempts' = [attempts EXCEPT ![i].state = "ISSUED", ![i].cred = Len(creds) + 1]
           /\ Answer(Len(creds) + 1)
  <2>0. PICK n : n = Len(creds) + 1
    OBVIOUS
  <2> DEFINE y == [attempts[i] EXCEPT !.state = "ISSUED", !.cred = n]
             x == [creds[c] EXCEPT !.next = n, !.overlap = "OPEN"]
             mid == [creds EXCEPT ![c] = x]
  <2>1. /\ attempts[i] \in AttemptRows /\ creds \in Seq(CredRows) /\ n \in Nat
        /\ tokens \in Seq(TokenRows) /\ attempts \in Seq(AttemptRows)
        /\ c \in DOMAIN creds /\ creds[c] \in CredRows
    BY <1>0, <2>0, FleetRows DEF FleetInv, FleetRowsOK, SessionsOK
  <2>2. /\ y \in AttemptRows /\ y.op = attempts[i].op /\ y.agent = attempts[i].agent /\ y.token = attempts[i].token
        /\ y.state = "ISSUED" /\ y.cred = n
    BY <2>1 DEF AttemptRows
  <2>3. attempts' = [attempts EXCEPT ![i] = y]
    BY <1>0, <1>2, <2>0, <2>1
  <2>4. /\ x \in CredRows /\ x.agent = creds[c].agent /\ x.life = creds[c].life /\ x.status = creds[c].status
        /\ x.next = n /\ x.overlap = "OPEN"
    BY <2>1 DEF CredRows
  <2>5. creds' = Append(mid, NewCredential(creds[c].agent))
    BY <1>2, <2>0, <2>1
  <2>6. Current(k.s) /\ creds[c].next = 0
    BY <1>2 DEF MayFinishRotation
  <2>7. Active(c) /\ creds[c].life # "OVER" /\ creds[c].overlap # "OVER"
    BY <2>6 DEF Current
  <2> HIDE DEF y, x
  <2>8. /\ mid \in Seq(CredRows) /\ DOMAIN mid = DOMAIN creds /\ Len(mid) = Len(creds) /\ mid[c] = x
        /\ \A d \in DOMAIN creds : d # c => mid[d] = creds[d]
    BY <2>1, <2>4, SeqUpdate
  <2> HIDE DEF mid
  <2>9. NewCredential(creds[c].agent) \in CredRows
    BY <2>1 DEF NewCredential, CredRows
  <2>10. /\ creds' \in Seq(CredRows) /\ DOMAIN creds' = DOMAIN creds \cup {n}
         /\ creds'[n] = NewCredential(creds[c].agent) /\ \A d \in DOMAIN creds : creds'[d] = mid[d]
    BY <2>0, <2>5, <2>8, <2>9, SeqAppended
  <2>11. creds'[n].agent = attempts[i].agent /\ creds'[n].status = "ACTIVE"
    BY <1>0, <2>10 DEF NewCredential
  <2>12. \A d \in DOMAIN creds : /\ creds'[d].agent = creds[d].agent /\ creds'[d].life = creds[d].life
                                 /\ creds'[d].status = creds[d].status /\ (Usable(d)' => Usable(d))
                                 /\ creds[d].next # 0 => creds'[d].next = creds[d].next
    BY <2>4, <2>6, <2>7, <2>8, <2>10 DEF Usable, Active
  <2>13. creds'[c].next = n
    BY <2>1, <2>4, <2>8, <2>10
  <2>14. Rotating(i)
    BY <1>0, <1>2 DEF Rotating
  <2>15. \A d, e \in CredsOf(y.agent) : Usable(d) /\ Usable(e) => d = e
    <3>1. CredsOf(y.agent) = CredsOf(attempts[i].agent)
      BY <2>2
    <3> QED BY <1>0, <2>14, <3>1 DEF FleetInv, RotationsOK
  <2>16. c \in CredsOf(y.agent)
    BY <1>0, <2>1, <2>2 DEF CredsOf
  <2>17. \A d \in CredsOf(y.agent) : Usable(d) =>
           \/ creds'[d].next = n
           \/ \E p \in DOMAIN creds : creds'[p].next = n /\ creds[p].life \in {"GRACE", "OVER"}
    <3>1. CASE Usable(c)
      BY <2>13, <2>15, <2>16, <3>1
    <3>2. CASE ~Usable(c)
      <4>1. creds[c].life \in {"GRACE", "OVER"}
        BY <2>1, <2>7, <3>2 DEF Usable, CredRows
      <4> QED BY <2>1, <2>13, <4>1
    <3> QED BY <3>1, <3>2
  <2>18. held' \subseteq held \cup {n} /\ y.op = "ROTATE"
    BY <1>0, <1>2, <2>0, <2>2 DEF Answer
  <2> HIDE DEF i, c
  <2> QED
    BY <1>0, <1>2, <2>0, <2>1, <2>2, <2>3, <2>10, <2>11, <2>12, <2>15, <2>17, <2>18, Issued
<1> QED
  BY <1>1, <1>2 DEF FinishRotation

(* Authenticating a request or a socket preserves the invariant.             *)
LEMMA RequestAuthenticates ==
    ASSUME FleetInv, NEW s \in Sockets, NEW c \in DOMAIN creds, NEW what \in {"message", "rotate"},
           Authenticate(s, c, what)
    PROVE  FleetInv'
<1>0. /\ UNCHANGED <<reg, assetOver, tokens, attempts, calls, held, receipts, effects, wanted>>
      /\ assetOver \in BOOLEAN /\ held \subseteq DOMAIN creds /\ wanted \subseteq DOMAIN creds
      /\ SameAttempts /\ TokensSettle /\ Active(c) /\ reg[creds[c].agent] = "ACTIVE" /\ RegOK'
      /\ sess[s].cred \in {0, c} /\ creds[c] \in CredRows /\ effects \in [Sockets -> Nat]
  BY UnchangedSettles, FleetRows DEF Authenticate, Admitted, FleetInv, FleetRowsOK, RegOK, OneActive
<1>1. CASE creds' = [creds EXCEPT ![c].status = "REPLACED", ![c].overlap = "NONE"] /\ UNCHANGED <<sess, req>>
  <2> DEFINE y == [creds[c] EXCEPT !.status = "REPLACED", !.overlap = "NONE"]
  <2>1. creds' = [creds EXCEPT ![c] = y]
    BY <1>0, <1>1 DEF CredRows
  <2>2. /\ y \in CredRows /\ y.agent = creds[c].agent /\ y.next = creds[c].next /\ y.status = "REPLACED"
        /\ y.life = creds[c].life
    BY <1>0 DEF CredRows
  <2> HIDE DEF y
  <2>3. CredsSettle /\ \A d \in DOMAIN creds : creds'[d].status = "REVOKED" => creds[d].status = "REVOKED"
    BY <2>1, <2>2, CredWritten
  <2> QED BY <1>0, <1>1, <2>3, FleetQuiet
<1>2. CASE creds' = [creds EXCEPT ![c].status = "EXPIRED"] /\ UNCHANGED <<sess, req>>
  <2> DEFINE y == [creds[c] EXCEPT !.status = "EXPIRED"]
  <2>1. creds' = [creds EXCEPT ![c] = y]
    BY <1>2
  <2>2. /\ y \in CredRows /\ y.agent = creds[c].agent /\ y.next = creds[c].next /\ y.status = "EXPIRED"
        /\ y.life = creds[c].life
    BY <1>0 DEF CredRows
  <2> HIDE DEF y
  <2>3. CredsSettle /\ \A d \in DOMAIN creds : creds'[d].status = "REVOKED" => creds[d].status = "REVOKED"
    BY <2>1, <2>2, CredWritten
  <2> QED BY <1>0, <1>2, <2>3, FleetQuiet
<1>3. CASE /\ UNCHANGED creds /\ sess' = [sess EXCEPT ![s].cred = c] /\ req' = [req EXCEPT ![s] = what]
  <2>1. CredsSettle
    BY <1>3, UnchangedSettles
  <2>2. c \in Nat /\ c # 0
    BY FleetRows
  <2>3. sess \in [Sockets -> SessionRows] /\ req \in [Sockets -> {"none", "message", "rotate"}]
    BY DEF FleetInv, FleetRowsOK, SessionRows
  <2>4. /\ sess' \in [Sockets -> SessionRows] /\ sess'[s].cred = c
        /\ \A t \in Sockets : t # s => sess'[t] = sess[t]
    BY <1>3, <2>2, <2>3 DEF SessionRows
  <2>5. req' \in [Sockets -> {"none", "message", "rotate"}] /\ \A t \in Sockets : t # s => req'[t] = req[t]
    BY <1>3, <2>3
  <2>6. SessionsOK'
    BY <1>0, <1>3, <2>2, <2>4, <2>5 DEF SessionsOK, FleetInv
  <2>7. CutOffEndsSessions'
    <3> SUFFICES ASSUME NEW t \in Sockets, sess'[t].cred # 0,
                        reg'[creds'[sess'[t].cred].agent] # "ACTIVE" \/ creds'[sess'[t].cred].status = "REVOKED"
                 PROVE  sess'[t].ended
      BY DEF CutOffEndsSessions
    <3>1. t # s
      BY <1>0, <1>3, <2>4 DEF Active
    <3> QED BY <1>0, <1>3, <2>4, <3>1 DEF FleetInv, CutOffEndsSessions
  <2>8. CallsOK'
    <3>1. \A t \in Sockets : sess[t].cred # 0 => sess'[t].cred = sess[t].cred
      BY <1>0, <2>4
    <3>2. \A k \in calls : /\ k.att \in DOMAIN attempts
                           /\ attempts[k.att].op = "ROTATE" =>
                                /\ k.s \in Sockets /\ sess[k.s].cred # 0
                                /\ creds[sess[k.s].cred].agent = attempts[k.att].agent
      BY DEF FleetInv, CallsOK
    <3>3. UNCHANGED <<calls, attempts, creds>>
      BY <1>0, <1>3
    <3>4. \A k \in calls : /\ k.att \in DOMAIN attempts
                           /\ attempts[k.att].op = "ROTATE" =>
                                /\ k.s \in Sockets /\ sess'[k.s].cred # 0
                                /\ creds[sess'[k.s].cred].agent = attempts[k.att].agent
      BY <3>1, <3>2
    <3> QED BY <3>3, <3>4 DEF CallsOK
  <2> QED BY <1>0, <2>1, <2>4, <2>5, <2>6, <2>7, <2>8, FleetFrame
<1> QED
  BY <1>1, <1>2, <1>3 DEF Authenticate

(* Serving a message of an authenticated socket preserves the invariant.     *)
LEMMA MessageServed ==
    ASSUME FleetInv, NEW s \in Sockets, ServeMessage(s)
    PROVE  FleetInv'
<1>0. /\ UNCHANGED <<reg, assetOver, tokens, creds, attempts, sess, calls, held, wanted>>
      /\ assetOver \in BOOLEAN /\ held \subseteq DOMAIN creds /\ wanted \subseteq DOMAIN creds /\ RegOK'
      /\ sess \in [Sockets -> SessionRows] /\ req \in [Sockets -> {"none", "message", "rotate"}]
      /\ effects \in [Sockets -> Nat]
      /\ CredsSettle /\ SameAttempts /\ TokensSettle /\ SessionsSettle
  BY UnchangedSettles DEF ServeMessage, FleetInv, FleetRowsOK, RegOK, OneActive, SessionRows
<1>1. req' = [req EXCEPT ![s] = "none"]
  BY DEF ServeMessage
<1>2. req' \in [Sockets -> {"none", "message", "rotate"}] /\ \A t \in Sockets : req'[t] # "none" => req[t] # "none"
  BY <1>0, <1>1
<1>3. /\ effects' \in [Sockets -> Nat]
      /\ \A t \in Sockets : t \notin receipts' => t \notin receipts /\ effects'[t] = effects[t]
  <2>1. CASE UNCHANGED <<receipts, effects>>
    BY <1>0, <2>1
  <2>2. CASE receipts' = receipts \cup {s} /\ MessageEffect(s)
    BY <1>0, <2>2 DEF MessageEffect
  <2> QED BY <2>1, <2>2 DEF ServeMessage, ProcessAgentMessage
<1>4. SessionsOK'
  BY <1>0, <1>2, <1>3 DEF FleetInv, SessionsOK
<1>5. CutOffEndsSessions' /\ CallsOK'
  BY <1>0, CutOffStays, CallsSettle
<1> QED
  BY <1>0, <1>2, <1>3, <1>4, <1>5, FleetFrame

(* Replacing the credentials whose overlap is over settles them and revokes  *)
(* none.                                                                     *)
LEMMA RetireSettles ==
    ASSUME FleetInv, NEW a, creds' = Retire(a)
    PROVE  CredsSettle /\ \A c \in DOMAIN creds : creds'[c].status = "REVOKED" => creds[c].status = "REVOKED"
<1> DEFINE f(c) == IF creds[c].agent = a /\ Active(c) /\ creds[c].overlap = "OVER"
                   THEN [creds[c] EXCEPT !.status = "REPLACED", !.overlap = "NONE"] ELSE creds[c]
<1>1. creds' = [c \in DOMAIN creds |-> f(c)] /\ creds \in Seq(CredRows)
  BY DEF Retire, FleetInv, FleetRowsOK
<1>2. \A c \in DOMAIN creds : /\ f(c) \in CredRows /\ f(c).agent = creds[c].agent /\ f(c).next = creds[c].next
                              /\ f(c).life = creds[c].life
                              /\ f(c).status = "ACTIVE" => f(c) = creds[c]
                              /\ f(c).status = "REVOKED" => creds[c].status = "REVOKED"
  BY FleetRows DEF CredRows, Active
<1> HIDE DEF f
<1>3. /\ creds' \in Seq(CredRows) /\ DOMAIN creds' = DOMAIN creds
      /\ \A c \in DOMAIN creds : creds'[c] = f(c)
  BY <1>1, <1>2, SeqMapped
<1> QED
  BY <1>2, <1>3 DEF CredsSettle, Usable, Active

(* The first transaction of a rotation preserves the invariant.              *)
LEMMA RotationReserves ==
    ASSUME FleetInv, NEW s \in Sockets, ReserveRotation(s)
    PROVE  FleetInv'
<1>0. PICK a : a = creds[sess[s].cred].agent
  OBVIOUS
<1>1. /\ UNCHANGED <<reg, assetOver, tokens, sess, held, receipts, effects, wanted>>
      /\ assetOver \in BOOLEAN /\ held \subseteq DOMAIN creds /\ wanted \subseteq DOMAIN creds /\ RegOK'
      /\ sess \in [Sockets -> SessionRows] /\ req \in [Sockets -> {"none", "message", "rotate"}]
      /\ effects \in [Sockets -> Nat] /\ TokensSettle /\ SessionsSettle
      /\ req[s] = "rotate" /\ req' = [req EXCEPT ![s] = "none"]
  BY UnchangedSettles DEF ReserveRotation, FleetInv, FleetRowsOK, RegOK, OneActive, SessionRows
<1>2. req' \in [Sockets -> {"none", "message", "rotate"}] /\ \A t \in Sockets : req'[t] # "none" => req[t] # "none"
  BY <1>1
<1>3. sess[s].cred \in DOMAIN creds /\ sess[s].cred # 0 /\ a \in Agents
  <2>1. sess[s].cred \in DOMAIN creds /\ sess[s].cred # 0
    BY <1>1 DEF FleetInv, SessionsOK
  <2> QED BY <1>0, <2>1, FleetRows DEF CredRows
<1>4. CASE /\ MayRotate(s) /\ RotationsInFlight(a) = {}
           /\ attempts' = Append(attempts, [op |-> "ROTATE", agent |-> a, token |-> 0, key |-> s,
                                            state |-> "ISSUING", leased |-> FALSE, cred |-> 0])
           /\ calls' = calls \cup {Call(Len(attempts) + 1, s)} /\ creds' = Retire(a)
  <2> DEFINE y == [op |-> "ROTATE", agent |-> a, token |-> 0, key |-> s,
                   state |-> "ISSUING", leased |-> FALSE, cred |-> 0]
  <2>1. /\ y \in AttemptRows /\ y.op = "ROTATE" /\ y.agent = a /\ y.token = 0 /\ y.state = "ISSUING" /\ y.cred = 0
        /\ attempts' = Append(attempts, y)
    BY <1>3, <1>4 DEF AttemptRows
  <2> HIDE DEF y
  <2>2. CredsSettle /\ \A c \in DOMAIN creds : creds'[c].status = "REVOKED" => creds[c].status = "REVOKED"
    BY <1>4, RetireSettles
  <2>3. \A i \in DOMAIN attempts : Rotating(i) => attempts[i].agent # a
    BY <1>4 DEF RotationsInFlight, Rotating
  <2>4. \A d \in CredsOf(a) \ {sess[s].cred} : ~Usable(d)
    BY <1>0, <1>4 DEF MayRotate
  <2>5. \A c, d \in CredsOf(y.agent) : Usable(c) /\ Usable(d) => c = d
    BY <2>1, <2>4
  <2> QED BY <1>0, <1>1, <1>2, <1>3, <1>4, <2>1, <2>2, <2>3, <2>5, Reserved
<1>5. CASE /\ \E i \in RotationsInFlight(a) : calls' = calls \cup {Call(i, s)}
           /\ creds' = Retire(a) /\ UNCHANGED attempts
  <2>1. CredsSettle /\ \A c \in DOMAIN creds : creds'[c].status = "REVOKED" => creds[c].status = "REVOKED"
    BY <1>5, RetireSettles
  <2>2. SameAttempts
    BY <1>5, UnchangedSettles
  <2>3. PICK i \in RotationsInFlight(a) : calls' = calls \cup {Call(i, s)}
    BY <1>5
  <2>4. i \in DOMAIN attempts /\ attempts[i].agent = a
    BY DEF RotationsInFlight
  <2>5. CallsOK'
    <3> SUFFICES ASSUME NEW k \in calls'
                 PROVE  /\ k.att \in DOMAIN attempts'
                        /\ attempts'[k.att].op = "ROTATE" =>
                             /\ k.s \in Sockets /\ sess'[k.s].cred # 0
                             /\ creds'[sess'[k.s].cred].agent = attempts'[k.att].agent
      BY DEF CallsOK
    <3>1. \A t \in Sockets : sess[t].cred # 0 => creds'[sess[t].cred].agent = creds[sess[t].cred].agent
      BY <2>1 DEF FleetInv, SessionsOK, CredsSettle
    <3>2. CASE k \in calls
      <4>1. /\ k.att \in DOMAIN attempts
            /\ attempts[k.att].op = "ROTATE" => /\ k.s \in Sockets /\ sess[k.s].cred # 0
                                                /\ creds[sess[k.s].cred].agent = attempts[k.att].agent
        BY <3>2 DEF FleetInv, CallsOK
      <4> QED BY <1>1, <1>5, <3>1, <4>1
    <3>3. CASE k = Call(i, s)
      BY <1>0, <1>1, <1>3, <1>5, <2>4, <3>1, <3>3 DEF Call
    <3> QED BY <2>3, <3>2, <3>3
  <2>6. SessionsOK'
    BY <1>1, <1>2, <2>1 DEF FleetInv, SessionsOK, CredsSettle
  <2>7. CutOffEndsSessions'
    BY <1>1, <2>1, CutOffStays
  <2> QED BY <1>1, <1>2, <2>1, <2>2, <2>5, <2>6, <2>7, FleetFrame
<1>6. CASE UNCHANGED <<attempts, calls, creds>>
  <2>1. CredsSettle /\ SameAttempts
    BY <1>6, UnchangedSettles
  <2>2. SessionsOK'
    BY <1>1, <1>2, <1>6 DEF FleetInv, SessionsOK
  <2>3. CutOffEndsSessions' /\ CallsOK'
    BY <1>1, <1>6, <2>1, CutOffStays, CallsSettle
  <2> QED BY <1>1, <1>2, <2>1, <2>2, <2>3, FleetFrame
<1> QED
  BY <1>0, <1>4, <1>5, <1>6 DEF ReserveRotation

(* Closing a socket preserves the invariant.                                 *)
LEMMA SocketCloses ==
    ASSUME FleetInv, NEW s \in Sockets, CloseSocket(s)
    PROVE  FleetInv'
<1>0. /\ UNCHANGED <<reg, assetOver, tokens, creds, held, wanted>>
      /\ assetOver \in BOOLEAN /\ held \subseteq DOMAIN creds /\ wanted \subseteq DOMAIN creds /\ RegOK'
      /\ sess \in [Sockets -> SessionRows] /\ req \in [Sockets -> {"none", "message", "rotate"}]
      /\ effects \in [Sockets -> Nat] /\ TokensSettle /\ CredsSettle
  BY UnchangedSettles DEF CloseSocket, FleetInv, FleetRowsOK, RegOK, OneActive, SessionRows
<1>1. /\ sess' \in [Sockets -> SessionRows] /\ sess'[s].cred = 0
      /\ \A t \in Sockets : t # s => sess'[t] = sess[t]
  BY <1>0 DEF CloseSocket, NewSession, SessionRows
<1>2. /\ req' \in [Sockets -> {"none", "message", "rotate"}] /\ req'[s] = "none"
      /\ \A t \in Sockets : t # s => req'[t] = req[t]
  BY <1>0 DEF CloseSocket
<1>3. /\ effects' \in [Sockets -> Nat] /\ effects'[s] = 0
      /\ \A t \in Sockets : t # s => effects'[t] = effects[t] /\ (t \in receipts' <=> t \in receipts)
  BY <1>0 DEF CloseSocket
<1>4. SameAttempts
  <2> DEFINE f(i) == IF attempts[i].key = s THEN [attempts[i] EXCEPT !.key = "gone"] ELSE attempts[i]
  <2>1. attempts' = [i \in DOMAIN attempts |-> f(i)] /\ attempts \in Seq(AttemptRows)
    BY DEF CloseSocket, FleetInv, FleetRowsOK
  <2>2. \A i \in DOMAIN attempts :
          /\ f(i) \in AttemptRows /\ f(i).op = attempts[i].op /\ f(i).agent = attempts[i].agent
          /\ f(i).token = attempts[i].token /\ f(i).state = attempts[i].state /\ f(i).cred = attempts[i].cred
    BY FleetRows DEF AttemptRows
  <2> HIDE DEF f
  <2>3. /\ attempts' \in Seq(AttemptRows) /\ DOMAIN attempts' = DOMAIN attempts
        /\ \A i \in DOMAIN attempts : attempts'[i] = f(i)
    BY <2>1, <2>2, SeqMapped
  <2> QED BY <2>2, <2>3 DEF SameAttempts
<1>5. SessionsOK'
  BY <1>0, <1>1, <1>2, <1>3 DEF FleetInv, SessionsOK
<1>6. CutOffEndsSessions'
  BY <1>0, <1>1 DEF FleetInv, CutOffEndsSessions
<1>7. CallsOK'
  <2> SUFFICES ASSUME NEW k \in calls'
               PROVE  /\ k.att \in DOMAIN attempts'
                      /\ attempts'[k.att].op = "ROTATE" =>
                           /\ k.s \in Sockets /\ sess'[k.s].cred # 0
                           /\ creds'[sess'[k.s].cred].agent = attempts'[k.att].agent
    BY DEF CallsOK
  <2>1. k \in calls /\ k.s # s
    BY DEF CloseSocket
  <2>2. /\ k.att \in DOMAIN attempts
        /\ attempts[k.att].op = "ROTATE" => /\ k.s \in Sockets /\ sess[k.s].cred # 0
                                            /\ creds[sess[k.s].cred].agent = attempts[k.att].agent
    BY <2>1 DEF FleetInv, CallsOK
  <2> QED BY <1>0, <1>1, <1>4, <2>1, <2>2 DEF SameAttempts
<1> QED
  BY <1>0, <1>1, <1>2, <1>3, <1>4, <1>5, <1>6, <1>7, FleetFrame

(* Tokens, credentials, overlaps and leases that run out preserve the        *)
(* invariant, and so does the end of the asset's life.                       *)
LEMMA TimePreserves == FleetInv /\ TimePasses => FleetInv'
<1> SUFFICES ASSUME FleetInv, TimePasses PROVE FleetInv'
  OBVIOUS
<1>0. /\ UNCHANGED <<reg, sess, req, calls, held, receipts, effects, wanted>>
      /\ assetOver' \in BOOLEAN /\ held \subseteq DOMAIN creds
  BY DEF TimePasses, FleetInv, FleetRowsOK
<1>1. ASSUME NEW t \in DOMAIN tokens, tokens[t].status = "ISSUED", tokens' = [tokens EXCEPT ![t].live = FALSE],
             UNCHANGED <<creds, attempts>>
      PROVE  FleetInv'
  <2> DEFINE y == [tokens[t] EXCEPT !.live = FALSE]
  <2>1. y \in TokenRows /\ y.status = "ISSUED" /\ tokens' = [tokens EXCEPT ![t] = y]
    BY <1>1, FleetRows DEF TokenRows
  <2> HIDE DEF y
  <2>2. CredsSettle /\ SameAttempts /\ TokensSettle
    BY <1>1, <2>1, UnchangedSettles, TokenWritten
  <2> QED BY <1>0, <1>1, <2>2, FleetQuiet
<1>2. ASSUME NEW c \in DOMAIN creds, creds[c].life # "OVER", creds' = [creds EXCEPT ![c].life = Later(@)],
             UNCHANGED <<tokens, attempts>>
      PROVE  FleetInv'
  <2> DEFINE y == [creds[c] EXCEPT !.life = Later(creds[c].life)]
  <2>0. creds[c] \in CredRows
    BY FleetRows
  <2>1. /\ Later(creds[c].life) \in {"FRESH", "DUE", "GRACE", "OVER"}
        /\ creds[c].life \in {"GRACE", "OVER"} => Later(creds[c].life) \in {"GRACE", "OVER"}
        /\ Later(creds[c].life) \in {"FRESH", "DUE"} => creds[c].life \in {"FRESH", "DUE"}
    BY <2>0 DEF Later, CredRows
  <2>2. /\ y \in CredRows /\ y.agent = creds[c].agent /\ y.next = creds[c].next /\ y.status = creds[c].status
        /\ y.overlap = creds[c].overlap /\ y.life = Later(creds[c].life) /\ creds' = [creds EXCEPT ![c] = y]
    BY <1>2, <2>0, <2>1 DEF CredRows
  <2> HIDE DEF y
  <2>3. (y.status = "ACTIVE" /\ y.life \in {"FRESH", "DUE"} /\ y.overlap # "OVER") => Usable(c)
    BY <2>1, <2>2 DEF Usable, Active
  <2>4. CredsSettle /\ \A d \in DOMAIN creds : creds'[d].status = "REVOKED" => creds[d].status = "REVOKED"
    BY <2>1, <2>2, <2>3, CredWritten
  <2>5. SameAttempts /\ TokensSettle
    BY <1>2, UnchangedSettles
  <2> QED BY <1>0, <2>4, <2>5, FleetQuiet
<1>3. ASSUME NEW c \in DOMAIN creds, creds[c].overlap = "OPEN", creds' = [creds EXCEPT ![c].overlap = "OVER"],
             UNCHANGED <<tokens, attempts>>
      PROVE  FleetInv'
  <2> DEFINE y == [creds[c] EXCEPT !.overlap = "OVER"]
  <2>1. creds[c] \in CredRows
    BY FleetRows
  <2>2. /\ y \in CredRows /\ y.agent = creds[c].agent /\ y.next = creds[c].next /\ y.status = creds[c].status
        /\ y.overlap = "OVER" /\ y.life = creds[c].life /\ creds' = [creds EXCEPT ![c] = y]
    BY <1>3, <2>1 DEF CredRows
  <2> HIDE DEF y
  <2>3. CredsSettle /\ \A d \in DOMAIN creds : creds'[d].status = "REVOKED" => creds[d].status = "REVOKED"
    BY <2>2, CredWritten
  <2>4. SameAttempts /\ TokensSettle
    BY <1>3, UnchangedSettles
  <2> QED BY <1>0, <2>3, <2>4, FleetQuiet
<1>4. ASSUME NEW i \in DOMAIN attempts, attempts' = [attempts EXCEPT ![i].leased = FALSE], UNCHANGED <<tokens, creds>>
      PROVE  FleetInv'
  BY <1>0, <1>4, UnchangedSettles, Leased, FleetQuiet
<1>5. ASSUME UNCHANGED <<tokens, creds, attempts>> PROVE FleetInv'
  BY <1>0, <1>5, UnchangedSettles, FleetQuiet
<1> QED
  BY <1>1, <1>2, <1>3, <1>4, <1>5 DEF TimePasses

(* Every step keeps the invariant.                                           *)
LEMMA FleetStep == FleetInv /\ [FleetNext]_fleetVars => FleetInv'
<1> SUFFICES ASSUME FleetInv, [FleetNext]_fleetVars PROVE FleetInv'
  OBVIOUS
<1>1. CASE RegistrationRoutes
  BY <1>1, RegistrationPreserves
<1>2. ASSUME NEW t \in DOMAIN tokens, NEW key \in EnrollKeys, ReserveEnrollment(t, key) PROVE FleetInv'
  BY <1>2, EnrollmentReserves
<1>3. ASSUME NEW k \in calls, IssuerFails(k) \/ RequestDies(k) \/ FinishEnrollment(k) \/ FinishRotation(k) PROVE FleetInv'
  BY <1>3, CallEnds, EnrollmentFinishes, RotationFinishes
<1>4. ASSUME NEW s \in Sockets, NEW c \in DOMAIN creds, NEW what \in {"message", "rotate"}, Authenticate(s, c, what)
      PROVE  FleetInv'
  BY <1>4, RequestAuthenticates
<1>5. ASSUME NEW s \in Sockets, ServeMessage(s) \/ ReserveRotation(s) \/ CloseSocket(s) PROVE FleetInv'
  BY <1>5, MessageServed, RotationReserves, SocketCloses
<1>6. CASE TimePasses
  BY <1>6, TimePreserves
<1>7. CASE UNCHANGED fleetVars
  <2>1. UNCHANGED <<reg, assetOver, tokens, creds, attempts, sess, req, calls, held, receipts, effects, wanted>>
    BY <1>7 DEF fleetVars
  <2>2. assetOver \in BOOLEAN /\ held \subseteq DOMAIN creds
    BY DEF FleetInv, FleetRowsOK
  <2> QED BY <2>1, <2>2, UnchangedSettles, FleetQuiet
<1> QED
  BY <1>1, <1>2, <1>3, <1>4, <1>5, <1>6, <1>7 DEF FleetNext, GatewayRoutes, AgentRequests

-----------------------------------------------------------------------------
(* The inductive invariant of registrations, tokens, attempts, credentials   *)
(* and sessions: what is in flight between the transactions of a request     *)
(* stays consistent with what other requests commit meanwhile.               *)
THEOREM FleetInvariant == FleetSpec => []FleetInv
<1>1. FleetInit => FleetInv
  BY FleetInitInv
<1>2. FleetInv /\ [FleetNext]_fleetVars => FleetInv'
  BY FleetStep
<1> QED
  BY <1>1, <1>2, PTL DEF FleetSpec

(* A set without three different elements has at most two.                   *)
LEMMA AtMostTwo ==
    ASSUME NEW S, \A x, y, z \in S : x = y \/ y = z \/ x = z
    PROVE  Cardinality(S) <= 2
<1>1. CASE S = {}
  BY <1>1, FS_EmptySet
<1>2. CASE S # {}
  <2>1. PICK x \in S : TRUE
    BY <1>2
  <2> DEFINE R == S \ {x}
  <2>2. \A y, z \in R : y = z
    BY <2>1
  <2>3. IsFiniteSet(R) /\ Cardinality(R) <= 1 /\ x \notin R /\ R \cup {x} = S
    BY <2>1, <2>2, AtMostOne
  <2> HIDE DEF R
  <2>4. Cardinality(R \cup {x}) = Cardinality(R) + 1 /\ Cardinality(R) \in Nat
    BY <2>3, FS_AddElement, FS_CardinalityType
  <2> QED BY <2>3, <2>4
<1> QED
  BY <1>1, <1>2

(* Whatever requests race, retry or die: a token yields at most one          *)
(* credential and a credential belongs to one attempt, a registration has at *)
(* most two valid credentials and an asset one active registration           *)
(* (enrollment.ts, credentials.ts).                                          *)
THEOREM CredentialsAlwaysAccounted == FleetSpec => []CredentialsAreAccounted
<1>1. FleetInv => CredentialsAreAccounted
  <2> SUFFICES ASSUME FleetInv PROVE CredentialsAreAccounted
    OBVIOUS
  <2>1. FleetTypeOK
    <3>1. /\ \A t \in DOMAIN tokens : tokens[t].status \in {"ISSUED", "CONSUMED", "REVOKED"}
          /\ \A c \in DOMAIN creds : creds[c].status \in {"ACTIVE", "REVOKED", "EXPIRED", "REPLACED"}
          /\ \A i \in DOMAIN attempts : attempts[i].state \in {"ISSUING", "ISSUED"}
      BY FleetRows DEF TokenRows, CredRows, AttemptRows
    <3> QED BY <3>1 DEF FleetInv, FleetRowsOK, FleetTypeOK
  <2>2. ValidPairs
    BY DEF FleetInv
  <2>3. AtMostTwoUsable
    <3>1. ASSUME NEW a \in Agents PROVE Cardinality({c \in CredsOf(a) : Usable(c)}) <= 2
      <4> DEFINE S == {c \in CredsOf(a) : Usable(c)}
      <4>1. \A x, y, z \in S : x = y \/ y = z \/ x = z
        BY DEF CredsOf, FleetInv, NoThreeUsable
      <4> HIDE DEF S
      <4>2. Cardinality(S) <= 2
        BY <4>1, AtMostTwo
      <4> QED BY <4>2 DEF S
    <3> QED BY <3>1 DEF AtMostTwoUsable
  <2>4. OneAttemptPerCredential
    <3>1. ASSUME NEW c \in DOMAIN creds PROVE Cardinality({i \in DOMAIN attempts : attempts[i].cred = c}) = 1
      <4>1. PICK i \in DOMAIN attempts : attempts[i].cred = c
        BY DEF FleetInv, AttemptsOK
      <4>2. c # 0
        BY FleetRows
      <4>3. {j \in DOMAIN attempts : attempts[j].cred = c} = {i}
        BY <4>1, <4>2 DEF FleetInv, AttemptsOK
      <4> QED BY <4>3, FS_Singleton
    <3> QED BY <3>1 DEF OneAttemptPerCredential
  <2>5. OneCredentialPerToken
    <3>1. ASSUME NEW t \in DOMAIN tokens
          PROVE  Cardinality({i \in DOMAIN attempts : attempts[i].token = t /\ attempts[i].state = "ISSUED"})
                   = IF tokens[t].status = "CONSUMED" THEN 1 ELSE 0
      <4> DEFINE S == {i \in DOMAIN attempts : attempts[i].token = t /\ attempts[i].state = "ISSUED"}
      <4>0. t # 0
        BY FleetRows
      <4>1. CASE tokens[t].status = "CONSUMED"
        <5>1. PICK i \in S : TRUE
          BY <4>1 DEF FleetInv, TokensOK
        <5>2. S = {i}
          BY <4>0, <5>1 DEF FleetInv, TokensOK
        <5> QED BY <4>1, <5>2, FS_Singleton
      <4>2. CASE tokens[t].status # "CONSUMED"
        <5>1. S = {}
          BY <4>2 DEF FleetInv, TokensOK
        <5> QED BY <4>2, <5>1, FS_EmptySet
      <4> QED BY <4>1, <4>2
    <3> QED BY <3>1 DEF OneCredentialPerToken
  <2>6. OneRegistrationPerAsset
    <3>1. \A a, b \in {g \in Agents : reg[g] = "ACTIVE"} : a = b
      BY DEF FleetInv, OneActive
    <3> QED BY <3>1, AtMostOne DEF OneRegistrationPerAsset
  <2> QED BY <2>1, <2>2, <2>3, <2>4, <2>5, <2>6 DEF CredentialsAreAccounted
<1> QED
  BY <1>1, FleetInvariant, PTL

(* A revoked credential and a registration that is not ACTIVE have no open   *)
(* session, also when the revocation races the authentication that opens one *)
(* (revokeAgentCredential, transitionAgentRegistration, authenticate).       *)
THEOREM CutOffAlwaysEndsSessions == FleetSpec => []CutOffEndsSessions
<1>1. FleetInv => CutOffEndsSessions
  BY DEF FleetInv
<1> QED
  BY <1>1, FleetInvariant, PTL

(* A message takes effect once per session, and never for an agent that was  *)
(* cut off after the gateway authenticated it (processAgentMessage,          *)
(* assertCurrentAgentPrincipal).                                             *)
THEOREM NoEffectEverAfterCutOff == FleetSpec => NoEffectAfterCutOff
<1>1. ASSUME FleetInv, FleetNext, NEW s \in Sockets, effects'[s] > effects[s]
      PROVE  /\ effects'[s] = 1 /\ creds[sess[s].cred].status = "ACTIVE"
             /\ reg[creds[sess[s].cred].agent] = "ACTIVE" /\ ~assetOver /\ ~sess[s].ended
  <2>0. effects \in [Sockets -> Nat]
    BY <1>1 DEF FleetInv, FleetRowsOK
  <2>1. CASE UNCHANGED effects
    BY <1>1, <2>0, <2>1
  <2>2. CASE \E t \in Sockets : CloseSocket(t)
    BY <1>1, <2>0, <2>2 DEF CloseSocket
  <2>3. ASSUME NEW t \in Sockets, ServeMessage(t), effects' # effects
        PROVE  /\ effects'[s] = 1 /\ creds[sess[s].cred].status = "ACTIVE"
               /\ reg[creds[sess[s].cred].agent] = "ACTIVE" /\ ~assetOver /\ ~sess[s].ended
    <3>1. Current(t) /\ t \notin receipts /\ effects' = [effects EXCEPT ![t] = @ + 1]
      BY <2>3 DEF ServeMessage, ServedPrincipal, ProcessAgentMessage, MessageEffect
    <3>2. s = t
      BY <1>1, <2>0, <3>1
    <3>3. effects[s] = 0
      BY <1>1, <3>1, <3>2 DEF FleetInv, SessionsOK
    <3>4. effects'[s] = 1
      BY <2>0, <3>1, <3>2, <3>3
    <3>5. /\ creds[sess[s].cred].status = "ACTIVE" /\ reg[creds[sess[s].cred].agent] = "ACTIVE"
          /\ ~assetOver /\ ~sess[s].ended
      BY <3>1, <3>2 DEF Current, Active
    <3> QED BY <3>4, <3>5
  <2>4. \/ UNCHANGED effects \/ (\E t \in Sockets : CloseSocket(t)) \/ (\E t \in Sockets : ServeMessage(t))
    <3>1. CASE RegistrationRoutes
      BY <3>1 DEF RegistrationRoutes, CreateAgentRegistration, IssueEnrollmentToken, ForceAgentReenrollment,
         TransitionAgentRegistration, RevokeEnrollmentToken, RevokeAgentCredential
    <3>2. CASE GatewayRoutes
      BY <3>2 DEF GatewayRoutes, ReserveEnrollment, IssuerFails, FinishEnrollment, FinishRotation, AgentRequests,
         Authenticate, ReserveRotation
    <3>3. CASE TimePasses \/ \E k \in calls : RequestDies(k)
      BY <3>3 DEF TimePasses, RequestDies
    <3> QED BY <1>1, <3>1, <3>2, <3>3 DEF FleetNext
  <2> QED BY <2>1, <2>2, <2>3, <2>4
<1>2. FleetInv /\ [FleetNext]_fleetVars =>
        [\A s \in Sockets : effects'[s] > effects[s] =>
          LET c == creds[sess[s].cred]
          IN  effects'[s] = 1 /\ c.status = "ACTIVE" /\ reg[c.agent] = "ACTIVE" /\ ~assetOver /\ ~sess[s].ended]_fleetVars
  BY <1>1
<1> QED
  BY <1>2, FleetInvariant, PTL DEF FleetSpec, NoEffectAfterCutOff

-----------------------------------------------------------------------------
(* Restart executions                                                        *)

USE TimingAssumption

(* Whatever a step does to executions in X, it leaves the others alone.      *)
LEMMA ExecsArePairs ==
    ASSUME NEW x \in Execs
    PROVE  x[1] \in Intents /\ x[2] \in 1..MaxAttempts /\ x = <<x[1], x[2]>>
  BY DEF Execs

(* The answers under way are records of different types. *)
LEMMA RecordsDiffer ==
    /\ \A x, y, t : [type |-> "REJECTED", exec |-> x] # [type |-> "ACCEPTED", exec |-> y, at |-> t]
    /\ \A x, y : [type |-> "REJECTED", exec |-> x] # [type |-> "OUTCOME", exec |-> y]
    /\ \A x, y, t : [type |-> "OUTCOME", exec |-> x] # [type |-> "ACCEPTED", exec |-> y, at |-> t]
    /\ \A x, i : [type |-> "REJECTED", exec |-> x] # [type |-> "READY", intent |-> i]
    /\ \A x, i, t : [type |-> "READY", intent |-> i] # [type |-> "ACCEPTED", exec |-> x, at |-> t]
    /\ \A x, r, t : [type |-> "REJECTED", exec |-> x] # [type |-> "ONLINE", runtime |-> r, at |-> t]
    /\ \A x, r, t, u : [type |-> "ONLINE", runtime |-> r, at |-> u] # [type |-> "ACCEPTED", exec |-> x, at |-> t]
    /\ \A x, y : [type |-> "REJECTED", exec |-> x] = [type |-> "REJECTED", exec |-> y] => x = y
    /\ \A x, y, t, u : [type |-> "ACCEPTED", exec |-> x, at |-> t] = [type |-> "ACCEPTED", exec |-> y, at |-> u] => x = y
  <1>1. \A x, y, t : [type |-> "REJECTED", exec |-> x].type = "REJECTED"
                   /\ [type |-> "ACCEPTED", exec |-> y, at |-> t].type = "ACCEPTED"
                   /\ [type |-> "ACCEPTED", exec |-> y, at |-> t].exec = y
                   /\ [type |-> "REJECTED", exec |-> x].exec = x
                   /\ [type |-> "OUTCOME", exec |-> x].type = "OUTCOME"
                   /\ [type |-> "READY", intent |-> x].type = "READY"
                   /\ [type |-> "ONLINE", runtime |-> x, at |-> y].type = "ONLINE"
    OBVIOUS
  <1> QED  BY <1>1

(* The claim query returns an unlocked PENDING execution. *)
LEMMA ClaimableIsFree ==
    ASSUME NEW x \in Execs, Claimable(x)
    PROVE  state[x] = "PENDING" /\ \A c \in claims : c.exec # x
  BY DEF Claimable, Locked

(* The inductive invariant of executions holds before the first intent.      *)
LEMMA InitIInv == Init => IInv
  <1> SUFFICES ASSUME Init PROVE IInv
    OBVIOUS
  <1>1. TypeOK
    <2>1. <<>> \in Seq(Execs) /\ 0 \in 0..MaxTime /\ 0 \in 0..MaxRuntime
      OBVIOUS
    <2>2. owner \in [Execs -> Sessions] /\ session \in Sessions
      BY DEF Init
    <2> QED  BY <2>1, <2>2 DEF Init, TypeOK, States, Unset
  <1>2. ClaimsHoldPending
    BY DEF Init, ClaimsHoldPending, States, Unset, Execs
  <1>3. ReceiptFollowsDispatch
    BY DEF Init, ReceiptFollowsDispatch, States, Unset, Execs
  <1>4. EventsMatchReceipts
    BY DEF Init, EventsMatchReceipts, States, Unset, Execs
  <1>5. OneLiveAttempt
    BY DEF Init, OneLiveAttempt, States, Unset, Execs
  <1>6. SuccessIsVerified
    BY DEF Init, SuccessIsVerified, States, Unset, Execs
  <1>7. CancelledNeverDelivered
    BY DEF Init, CancelledNeverDelivered, States, Unset, Execs
  <1>8. FailedIsDefinite
    BY DEF Init, FailedIsDefinite, States, Unset, Execs
  <1> QED  BY <1>1, <1>2, <1>3, <1>4, <1>5, <1>6, <1>7, <1>8 DEF IInv

(* Every step of gateway, worker, operator, agent and clock preserves the    *)
(* invariant of executions.                                                  *)
LEMMA NextIInv == IInv /\ [Next]_vars => IInv'
  <1> SUFFICES ASSUME IInv, [Next]_vars PROVE IInv'
    OBVIOUS
  <1> USE DEF IInv
  <1>1. ASSUME NEW i \in Intents, IntentReady(i) PROVE IInv'
    <2>1. TypeOK'
      BY <1>1 DEF IntentReady, TypeOK, execVars, agentVars, States
    <2>2. ClaimsHoldPending'
      BY <1>1 DEF IntentReady, ClaimsHoldPending, execVars, agentVars, TypeOK
    <2>3. ReceiptFollowsDispatch'
      BY <1>1 DEF IntentReady, ReceiptFollowsDispatch, execVars, agentVars, TypeOK, InTime
    <2>4. EventsMatchReceipts'
      BY <1>1 DEF IntentReady, EventsMatchReceipts, execVars, agentVars, TypeOK, OutcomeEvents
    <2>5. OneLiveAttempt'
      BY <1>1 DEF IntentReady, OneLiveAttempt, execVars, agentVars, TypeOK
    <2>6. SuccessIsVerified'
      BY <1>1 DEF IntentReady, SuccessIsVerified, execVars, agentVars, TypeOK, InTime
    <2>7. CancelledNeverDelivered'
      BY <1>1 DEF IntentReady, CancelledNeverDelivered, execVars, agentVars, TypeOK
    <2>8. FailedIsDefinite'
      BY <1>1 DEF IntentReady, FailedIsDefinite, execVars, agentVars, TypeOK
    <2> QED  BY <2>1, <2>2, <2>3, <2>4, <2>5, <2>6, <2>7, <2>8
  <1>2. ASSUME NEW i \in Intents, IntentWithdrawn(i) PROVE IInv'
    <2>1. TypeOK'
      BY <1>2 DEF IntentWithdrawn, TypeOK, execVars, agentVars, States
    <2>2. ClaimsHoldPending'
      BY <1>2 DEF IntentWithdrawn, ClaimsHoldPending, execVars, agentVars, TypeOK
    <2>3. ReceiptFollowsDispatch'
      BY <1>2 DEF IntentWithdrawn, ReceiptFollowsDispatch, execVars, agentVars, TypeOK, InTime
    <2>4. EventsMatchReceipts'
      BY <1>2 DEF IntentWithdrawn, EventsMatchReceipts, execVars, agentVars, TypeOK, OutcomeEvents
    <2>5. OneLiveAttempt'
      BY <1>2 DEF IntentWithdrawn, OneLiveAttempt, execVars, agentVars, TypeOK
    <2>6. SuccessIsVerified'
      BY <1>2 DEF IntentWithdrawn, SuccessIsVerified, execVars, agentVars, TypeOK, InTime
    <2>7. CancelledNeverDelivered'
      BY <1>2 DEF IntentWithdrawn, CancelledNeverDelivered, execVars, agentVars, TypeOK
    <2>8. FailedIsDefinite'
      BY <1>2 DEF IntentWithdrawn, FailedIsDefinite, execVars, agentVars, TypeOK
    <2> QED  BY <2>1, <2>2, <2>3, <2>4, <2>5, <2>6, <2>7, <2>8
  <1>3. CASE SetKillSwitch
    <2>1. TypeOK'
      BY <1>3 DEF SetKillSwitch, TypeOK, execVars, agentVars, States
    <2>2. ClaimsHoldPending'
      BY <1>3 DEF SetKillSwitch, ClaimsHoldPending, execVars, agentVars, TypeOK
    <2>3. ReceiptFollowsDispatch'
      BY <1>3 DEF SetKillSwitch, ReceiptFollowsDispatch, execVars, agentVars, TypeOK, InTime
    <2>4. EventsMatchReceipts'
      BY <1>3 DEF SetKillSwitch, EventsMatchReceipts, execVars, agentVars, TypeOK, OutcomeEvents
    <2>5. OneLiveAttempt'
      BY <1>3 DEF SetKillSwitch, OneLiveAttempt, execVars, agentVars, TypeOK
    <2>6. SuccessIsVerified'
      BY <1>3 DEF SetKillSwitch, SuccessIsVerified, execVars, agentVars, TypeOK, InTime
    <2>7. CancelledNeverDelivered'
      BY <1>3 DEF SetKillSwitch, CancelledNeverDelivered, execVars, agentVars, TypeOK
    <2>8. FailedIsDefinite'
      BY <1>3 DEF SetKillSwitch, FailedIsDefinite, execVars, agentVars, TypeOK
    <2> QED  BY <2>1, <2>2, <2>3, <2>4, <2>5, <2>6, <2>7, <2>8
  <1>4. ASSUME NEW s \in Sessions, NEW x \in Execs, ClaimAgentRestart(s, x) PROVE IInv'
    <2>1. TypeOK'
      BY <1>4 DEF ClaimAgentRestart, TypeOK, execVars, agentVars, States
    <2>2. ClaimsHoldPending'
      <3>1. state[x] = "PENDING" /\ \A c \in claims : c.exec # x
        BY <1>4, ClaimableIsFree DEF ClaimAgentRestart
      <3>2. PICK b \in BOOLEAN : claims' = claims \cup
              {[exec |-> x, session |-> s, base |-> RestartBaseline, dispatch |-> b]}
        <4>1. PICK pass \in BOOLEAN : claims' = claims \cup
                {[exec |-> x, session |-> s, base |-> RestartBaseline,
                  dispatch |-> pass /\ x[1] \in ready /\ ~killed]}
          BY <1>4 DEF ClaimAgentRestart
        <4>2. (pass /\ x[1] \in ready /\ ~killed) \in BOOLEAN
          BY Zenon
        <4> QED  BY <4>1, <4>2, Zenon
      <3>3. RestartBaseline \in 0..MaxRuntime /\ state' = state
        BY <1>4 DEF ClaimAgentRestart, RestartBaseline, TypeOK, execVars
      <3> QED  BY <3>1, <3>2, <3>3 DEF ClaimsHoldPending
    <2>3. ReceiptFollowsDispatch'
      BY <1>4 DEF ClaimAgentRestart, ReceiptFollowsDispatch, execVars, agentVars, TypeOK, InTime
    <2>4. EventsMatchReceipts'
      BY <1>4 DEF ClaimAgentRestart, EventsMatchReceipts, execVars, agentVars, TypeOK, OutcomeEvents
    <2>5. OneLiveAttempt'
      BY <1>4 DEF ClaimAgentRestart, OneLiveAttempt, execVars, agentVars, TypeOK
    <2>6. SuccessIsVerified'
      BY <1>4 DEF ClaimAgentRestart, SuccessIsVerified, execVars, agentVars, TypeOK, InTime
    <2>7. CancelledNeverDelivered'
      BY <1>4 DEF ClaimAgentRestart, CancelledNeverDelivered, execVars, agentVars, TypeOK
    <2>8. FailedIsDefinite'
      BY <1>4 DEF ClaimAgentRestart, FailedIsDefinite, execVars, agentVars, TypeOK
    <2> QED  BY <2>1, <2>2, <2>3, <2>4, <2>5, <2>6, <2>7, <2>8
  <1>5. ASSUME NEW c \in claims, CommitClaim(c) PROVE IInv'
    <2> DEFINE x == c.exec
    <2>a. x \in Execs /\ c.session \in Sessions /\ c.base \in 0..MaxRuntime
      BY DEF ClaimsHoldPending
    <2>b. state[x] = "PENDING" /\ receipt[x] = "NONE"
      BY <2>a DEF ClaimsHoldPending, ReceiptFollowsDispatch
    <2>c. now \in 0..MaxTime
      BY DEF TypeOK
    <2>d. state' \in [Execs -> States]
      BY <1>5, <2>a DEF CommitClaim, TypeOK, States
    <2>e. /\ \A y \in Execs \ {x} : state'[y] = state[y] /\ receipt'[y] = receipt[y]
                                  /\ dispatchedAt'[y] = dispatchedAt[y]
          /\ \/ state'[x] = "DISPATCHED" /\ receipt'[x] = "DELIVERED" /\ events' = events
             \/ state'[x] = "FAILED" /\ receipt'[x] = "NONE"
                /\ events' = events \cup OutcomeEvents({x})
          /\ UNCHANGED <<acceptedAt, observed>>
      BY <1>5, <2>a, <2>b DEF CommitClaim, RecordDelivery, TypeOK
    <2>f. \A y \in Execs : baseline'[y] = baseline[y] \/ y = x
      BY <1>5, <2>a DEF CommitClaim, TypeOK
    <2>1. TypeOK'
      <3>1. CASE c.dispatch
        BY <1>5, <3>1, <2>a, <2>c DEF CommitClaim, RecordDelivery, TypeOK, States, agentVars
      <3>2. CASE ~c.dispatch
        BY <1>5, <3>2, <2>a DEF CommitClaim, TypeOK, States, agentVars
      <3> QED  BY <3>1, <3>2
    <2>2. ClaimsHoldPending'
      BY <1>5, <2>a, <2>e DEF CommitClaim, ClaimsHoldPending
    <2>3. ReceiptFollowsDispatch'
      BY <2>e DEF ReceiptFollowsDispatch, InTime
    <2>4. EventsMatchReceipts'
      <3>1. \A y \in Execs : [type |-> "REJECTED", exec |-> y] \in events' =>
                               [type |-> "REJECTED", exec |-> y] \in events
        BY <2>e DEF OutcomeEvents
      <3>2. \A y \in Execs, t \in 0..MaxTime :
              [type |-> "ACCEPTED", exec |-> y, at |-> t] \in events' =>
              [type |-> "ACCEPTED", exec |-> y, at |-> t] \in events
        BY <2>e, RecordsDiffer DEF OutcomeEvents
      <3> QED  BY <3>1, <3>2, <2>b, <2>e DEF EventsMatchReceipts
    <2>5. OneLiveAttempt'
      BY <2>a, <2>b, <2>e DEF OneLiveAttempt
    <2>6. SuccessIsVerified'
      BY <2>e, <2>f DEF SuccessIsVerified, InTime
    <2>7. CancelledNeverDelivered'
      BY <2>e DEF CancelledNeverDelivered
    <2>8. FailedIsDefinite'
      BY <2>e DEF FailedIsDefinite
    <2> QED  BY <2>1, <2>2, <2>3, <2>4, <2>5, <2>6, <2>7, <2>8
  <1>6. ASSUME NEW c \in claims, AbortClaim(c) PROVE IInv'
    <2>1. TypeOK'
      BY <1>6 DEF AbortClaim, TypeOK, execVars, agentVars, States
    <2>2. ClaimsHoldPending'
      BY <1>6 DEF AbortClaim, ClaimsHoldPending, execVars, agentVars, TypeOK
    <2>3. ReceiptFollowsDispatch'
      BY <1>6 DEF AbortClaim, ReceiptFollowsDispatch, execVars, agentVars, TypeOK, InTime
    <2>4. EventsMatchReceipts'
      BY <1>6 DEF AbortClaim, EventsMatchReceipts, execVars, agentVars, TypeOK, OutcomeEvents
    <2>5. OneLiveAttempt'
      BY <1>6 DEF AbortClaim, OneLiveAttempt, execVars, agentVars, TypeOK
    <2>6. SuccessIsVerified'
      BY <1>6 DEF AbortClaim, SuccessIsVerified, execVars, agentVars, TypeOK, InTime
    <2>7. CancelledNeverDelivered'
      BY <1>6 DEF AbortClaim, CancelledNeverDelivered, execVars, agentVars, TypeOK
    <2>8. FailedIsDefinite'
      BY <1>6 DEF AbortClaim, FailedIsDefinite, execVars, agentVars, TypeOK
    <2> QED  BY <2>1, <2>2, <2>3, <2>4, <2>5, <2>6, <2>7, <2>8
  <1>7. ASSUME NEW x \in Execs, AcceptAutomationAction(x) PROVE IInv'
    <2>1. TypeOK'
      BY <1>7 DEF AcceptAutomationAction, TypeOK, execVars, agentVars, States
    <2>2. ClaimsHoldPending'
      BY <1>7 DEF AcceptAutomationAction, ClaimsHoldPending, execVars, agentVars, TypeOK
    <2>3. ReceiptFollowsDispatch'
      BY <1>7 DEF AcceptAutomationAction, ReceiptFollowsDispatch, execVars, agentVars, TypeOK, InTime
    <2>4. EventsMatchReceipts'
      BY <1>7 DEF AcceptAutomationAction, EventsMatchReceipts, execVars, agentVars, TypeOK, OutcomeEvents
    <2>5. OneLiveAttempt'
      BY <1>7 DEF AcceptAutomationAction, OneLiveAttempt, execVars, agentVars, TypeOK
    <2>6. SuccessIsVerified'
      BY <1>7 DEF AcceptAutomationAction, SuccessIsVerified, execVars, agentVars, TypeOK, InTime
    <2>7. CancelledNeverDelivered'
      BY <1>7 DEF AcceptAutomationAction, CancelledNeverDelivered, execVars, agentVars, TypeOK
    <2>8. FailedIsDefinite'
      BY <1>7 DEF AcceptAutomationAction, FailedIsDefinite, execVars, agentVars, TypeOK
    <2> QED  BY <2>1, <2>2, <2>3, <2>4, <2>5, <2>6, <2>7, <2>8
  <1>8. ASSUME NEW x \in Execs, RejectAutomationAction(x) PROVE IInv'
    <2>1. TypeOK'
      BY <1>8 DEF RejectAutomationAction, TypeOK, execVars, agentVars, States
    <2>2. ClaimsHoldPending'
      BY <1>8 DEF RejectAutomationAction, ClaimsHoldPending, execVars, agentVars, TypeOK
    <2>3. ReceiptFollowsDispatch'
      BY <1>8 DEF RejectAutomationAction, ReceiptFollowsDispatch, execVars, agentVars, TypeOK, InTime
    <2>4. EventsMatchReceipts'
      BY <1>8 DEF RejectAutomationAction, EventsMatchReceipts, execVars, agentVars, TypeOK, OutcomeEvents
    <2>5. OneLiveAttempt'
      BY <1>8 DEF RejectAutomationAction, OneLiveAttempt, execVars, agentVars, TypeOK
    <2>6. SuccessIsVerified'
      BY <1>8 DEF RejectAutomationAction, SuccessIsVerified, execVars, agentVars, TypeOK, InTime
    <2>7. CancelledNeverDelivered'
      BY <1>8 DEF RejectAutomationAction, CancelledNeverDelivered, execVars, agentVars, TypeOK
    <2>8. FailedIsDefinite'
      BY <1>8 DEF RejectAutomationAction, FailedIsDefinite, execVars, agentVars, TypeOK
    <2> QED  BY <2>1, <2>2, <2>3, <2>4, <2>5, <2>6, <2>7, <2>8
  <1>9. CASE AgentRestarts
    <2>1. TypeOK'
      BY <1>9 DEF AgentRestarts, TypeOK, execVars, agentVars, States
    <2>2. ClaimsHoldPending'
      BY <1>9 DEF AgentRestarts, ClaimsHoldPending, execVars, agentVars, TypeOK
    <2>3. ReceiptFollowsDispatch'
      BY <1>9 DEF AgentRestarts, ReceiptFollowsDispatch, execVars, agentVars, TypeOK, InTime
    <2>4. EventsMatchReceipts'
      BY <1>9 DEF AgentRestarts, EventsMatchReceipts, execVars, agentVars, TypeOK, OutcomeEvents
    <2>5. OneLiveAttempt'
      BY <1>9 DEF AgentRestarts, OneLiveAttempt, execVars, agentVars, TypeOK
    <2>6. SuccessIsVerified'
      BY <1>9 DEF AgentRestarts, SuccessIsVerified, execVars, agentVars, TypeOK, InTime
    <2>7. CancelledNeverDelivered'
      BY <1>9 DEF AgentRestarts, CancelledNeverDelivered, execVars, agentVars, TypeOK
    <2>8. FailedIsDefinite'
      BY <1>9 DEF AgentRestarts, FailedIsDefinite, execVars, agentVars, TypeOK
    <2> QED  BY <2>1, <2>2, <2>3, <2>4, <2>5, <2>6, <2>7, <2>8
  <1>10. CASE RecordHeartbeat
    <2>1. TypeOK'
      BY <1>10 DEF RecordHeartbeat, TypeOK, execVars, agentVars, States
    <2>2. ClaimsHoldPending'
      BY <1>10 DEF RecordHeartbeat, ClaimsHoldPending, execVars, agentVars, TypeOK
    <2>3. ReceiptFollowsDispatch'
      BY <1>10 DEF RecordHeartbeat, ReceiptFollowsDispatch, execVars, agentVars, TypeOK, InTime
    <2>4. EventsMatchReceipts'
      BY <1>10 DEF RecordHeartbeat, EventsMatchReceipts, execVars, agentVars, TypeOK, OutcomeEvents
    <2>5. OneLiveAttempt'
      BY <1>10 DEF RecordHeartbeat, OneLiveAttempt, execVars, agentVars, TypeOK
    <2>6. SuccessIsVerified'
      BY <1>10 DEF RecordHeartbeat, SuccessIsVerified, execVars, agentVars, TypeOK, InTime
    <2>7. CancelledNeverDelivered'
      BY <1>10 DEF RecordHeartbeat, CancelledNeverDelivered, execVars, agentVars, TypeOK
    <2>8. FailedIsDefinite'
      BY <1>10 DEF RecordHeartbeat, FailedIsDefinite, execVars, agentVars, TypeOK
    <2> QED  BY <2>1, <2>2, <2>3, <2>4, <2>5, <2>6, <2>7, <2>8
  <1>11. ASSUME NEW i \in Intents, CreateAutomaticExecution(i) PROVE IInv'
    <2>a. <<i, 1>> \in Execs
      BY DEF Execs
    <2>1. TypeOK'
      <3>1. Append(created, <<i, 1>>) \in Seq(Execs)
        BY <2>a DEF TypeOK
      <3> QED  BY <1>11, <2>a, <3>1 DEF CreateAutomaticExecution, TypeOK, States, agentVars
    <2>2. ClaimsHoldPending'
      BY <1>11 DEF CreateAutomaticExecution, ClaimsHoldPending, execVars, agentVars, TypeOK
    <2>3. ReceiptFollowsDispatch'
      BY <1>11 DEF CreateAutomaticExecution, ReceiptFollowsDispatch, execVars, agentVars, TypeOK, InTime
    <2>4. EventsMatchReceipts'
      BY <1>11 DEF CreateAutomaticExecution, EventsMatchReceipts, execVars, agentVars, TypeOK, OutcomeEvents
    <2>5. OneLiveAttempt'
      <3> SUFFICES ASSUME NEW x \in Execs, NEW y \in Execs, x[1] = y[1], x[2] < y[2],
                          state'[y] # "ABSENT"
                   PROVE  state'[x] \in {"FAILED", "UNKNOWN"}
        BY DEF OneLiveAttempt
      <3>1. y # <<i, 1>>
        BY ExecsArePairs
      <3>2. state'[y] = state[y]
        BY <1>11, <3>1 DEF CreateAutomaticExecution, TypeOK
      <3>3. state[x] \in {"FAILED", "UNKNOWN"}
        BY <3>2 DEF OneLiveAttempt
      <3> QED  BY <1>11, <3>3, <2>a DEF CreateAutomaticExecution, TypeOK
    <2>6. SuccessIsVerified'
      BY <1>11 DEF CreateAutomaticExecution, SuccessIsVerified, execVars, agentVars, TypeOK, InTime
    <2>7. CancelledNeverDelivered'
      BY <1>11 DEF CreateAutomaticExecution, CancelledNeverDelivered, execVars, agentVars, TypeOK
    <2>8. FailedIsDefinite'
      BY <1>11 DEF CreateAutomaticExecution, FailedIsDefinite, execVars, agentVars, TypeOK
    <2> QED  BY <2>1, <2>2, <2>3, <2>4, <2>5, <2>6, <2>7, <2>8
  <1>12. ASSUME NEW x \in Execs, NEW t \in 0..MaxTime, RecordExecutionAcceptance(x, t) PROVE IInv'
    <2>1. TypeOK'
      BY <1>12 DEF RecordExecutionAcceptance, TypeOK, execVars, agentVars, States
    <2>2. ClaimsHoldPending'
      BY <1>12 DEF RecordExecutionAcceptance, ClaimsHoldPending, execVars, agentVars, TypeOK
    <2>3. ReceiptFollowsDispatch'
      BY <1>12 DEF RecordExecutionAcceptance, ReceiptFollowsDispatch, EventsMatchReceipts,
         TypeOK, InTime
    <2>4. EventsMatchReceipts'
      <3>1. \A y \in Execs : [type |-> "REJECTED", exec |-> y] \in events' =>
                               [type |-> "REJECTED", exec |-> y] \in events
        BY <1>12 DEF RecordExecutionAcceptance, OutcomeEvents
      <3>2. \A y \in Execs, u \in 0..MaxTime :
              [type |-> "ACCEPTED", exec |-> y, at |-> u] \in events' =>
              [type |-> "ACCEPTED", exec |-> y, at |-> u] \in events
        BY <1>12, RecordsDiffer DEF RecordExecutionAcceptance, OutcomeEvents
      <3> QED  BY <1>12, <3>1, <3>2 DEF RecordExecutionAcceptance, EventsMatchReceipts
    <2>5. OneLiveAttempt'
      BY <1>12 DEF RecordExecutionAcceptance, OneLiveAttempt, execVars, agentVars, TypeOK
    <2>6. SuccessIsVerified'
      BY <1>12 DEF RecordExecutionAcceptance, SuccessIsVerified, execVars, agentVars, TypeOK, InTime
    <2>7. CancelledNeverDelivered'
      BY <1>12 DEF RecordExecutionAcceptance, CancelledNeverDelivered, execVars, agentVars, TypeOK
    <2>8. FailedIsDefinite'
      BY <1>12 DEF RecordExecutionAcceptance, FailedIsDefinite, execVars, agentVars, TypeOK
    <2> QED  BY <2>1, <2>2, <2>3, <2>4, <2>5, <2>6, <2>7, <2>8
  <1>13. ASSUME NEW x \in Execs, RecordExecutionRejection(x) PROVE IInv'
    <2>1. TypeOK'
      BY <1>13 DEF RecordExecutionRejection, TypeOK, execVars, agentVars, States
    <2>2. ClaimsHoldPending'
      BY <1>13 DEF RecordExecutionRejection, ClaimsHoldPending, execVars, agentVars, TypeOK
    <2>3. ReceiptFollowsDispatch'
      BY <1>13 DEF RecordExecutionRejection, ReceiptFollowsDispatch, execVars, agentVars, TypeOK, InTime
    <2>4. EventsMatchReceipts'
      <3>1. \A y \in Execs : [type |-> "REJECTED", exec |-> y] \in events' =>
                               [type |-> "REJECTED", exec |-> y] \in events
        BY <1>13 DEF RecordExecutionRejection, OutcomeEvents
      <3>2. \A y \in Execs, u \in 0..MaxTime :
              [type |-> "ACCEPTED", exec |-> y, at |-> u] \in events' =>
              [type |-> "ACCEPTED", exec |-> y, at |-> u] \in events
        BY <1>13, RecordsDiffer DEF RecordExecutionRejection, OutcomeEvents
      <3> QED  BY <1>13, <3>1, <3>2 DEF RecordExecutionRejection, EventsMatchReceipts
    <2>5. OneLiveAttempt'
      BY <1>13 DEF RecordExecutionRejection, OneLiveAttempt, execVars, agentVars, TypeOK
    <2>6. SuccessIsVerified'
      BY <1>13 DEF RecordExecutionRejection, SuccessIsVerified, execVars, agentVars, TypeOK, InTime
    <2>7. CancelledNeverDelivered'
      BY <1>13 DEF RecordExecutionRejection, CancelledNeverDelivered, execVars, agentVars, TypeOK
    <2>8. FailedIsDefinite'
      BY <1>13 DEF RecordExecutionRejection, FailedIsDefinite, EventsMatchReceipts, TypeOK
    <2> QED  BY <2>1, <2>2, <2>3, <2>4, <2>5, <2>6, <2>7, <2>8
  <1>14. ASSUME NEW x \in Execs, Project(x) PROVE IInv'
    <2>1. TypeOK'
      BY <1>14 DEF Project, TypeOK, execVars, agentVars, States
    <2>2. ClaimsHoldPending'
      BY <1>14 DEF Project, ClaimsHoldPending, execVars, agentVars, TypeOK
    <2>3. ReceiptFollowsDispatch'
      BY <1>14 DEF Project, ReceiptFollowsDispatch, execVars, agentVars, TypeOK, InTime
    <2>4. EventsMatchReceipts'
      BY <1>14 DEF Project, EventsMatchReceipts, execVars, agentVars, TypeOK, OutcomeEvents
    <2>5. OneLiveAttempt'
      BY <1>14 DEF Project, OneLiveAttempt, execVars, agentVars, TypeOK
    <2>6. SuccessIsVerified'
      BY <1>14 DEF Project, SuccessIsVerified, execVars, agentVars, TypeOK, InTime
    <2>7. CancelledNeverDelivered'
      BY <1>14 DEF Project, CancelledNeverDelivered, execVars, agentVars, TypeOK
    <2>8. FailedIsDefinite'
      BY <1>14 DEF Project, FailedIsDefinite, execVars, agentVars, TypeOK
    <2> QED  BY <2>1, <2>2, <2>3, <2>4, <2>5, <2>6, <2>7, <2>8
  <1>15. ASSUME NEW r \in 0..MaxRuntime, NEW t \in 0..MaxTime, ObserveAgentRuntime(r, t) PROVE IInv'
    <2>a. \A x \in Execs : \/ state'[x] = state[x] /\ observed'[x] = observed[x]
                           \/ state[x] = "VERIFYING" /\ state'[x] = "SUCCEEDED"
                              /\ observed'[x] = r /\ r # baseline[x]
      BY <1>15 DEF ObserveAgentRuntime, Verified, TypeOK
    <2>1. TypeOK'
      BY <1>15 DEF ObserveAgentRuntime, TypeOK, execVars, agentVars, States
    <2>2. ClaimsHoldPending'
      BY <1>15, <2>a DEF ObserveAgentRuntime, ClaimsHoldPending
    <2>3. ReceiptFollowsDispatch'
      BY <1>15 DEF ObserveAgentRuntime, ReceiptFollowsDispatch, execVars, agentVars, TypeOK, InTime
    <2>4. EventsMatchReceipts'
      BY <1>15 DEF ObserveAgentRuntime, EventsMatchReceipts, execVars, agentVars, TypeOK, OutcomeEvents
    <2>5. OneLiveAttempt'
      BY <2>a DEF OneLiveAttempt
    <2>6. SuccessIsVerified'
      BY <1>15, <2>a DEF ObserveAgentRuntime, SuccessIsVerified, ReceiptFollowsDispatch,
         TypeOK, InTime, Unset
    <2>7. CancelledNeverDelivered'
      BY <1>15 DEF ObserveAgentRuntime, CancelledNeverDelivered, execVars, agentVars, TypeOK
    <2>8. FailedIsDefinite'
      BY <1>15 DEF ObserveAgentRuntime, FailedIsDefinite, execVars, agentVars, TypeOK
    <2> QED  BY <2>1, <2>2, <2>3, <2>4, <2>5, <2>6, <2>7, <2>8
  <1>16. CASE MarkExpiredExecutionsUnknown
    <2>a. \A x \in Execs : \/ state'[x] = state[x]
                           \/ state[x] \in {"DISPATCHED", "VERIFYING"} /\ state'[x] = "UNKNOWN"
      BY <1>16 DEF MarkExpiredExecutionsUnknown, Expired, TypeOK
    <2>1. TypeOK'
      BY <1>16 DEF MarkExpiredExecutionsUnknown, TypeOK, execVars, agentVars, States
    <2>2. ClaimsHoldPending'
      BY <1>16, <2>a DEF MarkExpiredExecutionsUnknown, ClaimsHoldPending
    <2>3. ReceiptFollowsDispatch'
      BY <1>16 DEF MarkExpiredExecutionsUnknown, ReceiptFollowsDispatch, execVars, agentVars, TypeOK, InTime
    <2>4. EventsMatchReceipts'
      BY <1>16 DEF MarkExpiredExecutionsUnknown, EventsMatchReceipts, execVars, agentVars, TypeOK, OutcomeEvents
    <2>5. OneLiveAttempt'
      BY <2>a DEF OneLiveAttempt
    <2>6. SuccessIsVerified'
      BY <1>16 DEF MarkExpiredExecutionsUnknown, SuccessIsVerified, execVars, agentVars, TypeOK, InTime
    <2>7. CancelledNeverDelivered'
      BY <1>16 DEF MarkExpiredExecutionsUnknown, CancelledNeverDelivered, execVars, agentVars, TypeOK
    <2>8. FailedIsDefinite'
      BY <1>16 DEF MarkExpiredExecutionsUnknown, FailedIsDefinite, execVars, agentVars, TypeOK
    <2> QED  BY <2>1, <2>2, <2>3, <2>4, <2>5, <2>6, <2>7, <2>8
  <1>17. ASSUME NEW x \in Execs, CancelActionExecution(x) PROVE IInv'
    <2>1. TypeOK'
      BY <1>17 DEF CancelActionExecution, TypeOK, execVars, agentVars, States
    <2>2. ClaimsHoldPending'
      BY <1>17 DEF CancelActionExecution, ClaimsHoldPending, Locked, TypeOK
    <2>3. ReceiptFollowsDispatch'
      BY <1>17 DEF CancelActionExecution, ReceiptFollowsDispatch, execVars, agentVars, TypeOK, InTime
    <2>4. EventsMatchReceipts'
      BY <1>17 DEF CancelActionExecution, EventsMatchReceipts, execVars, agentVars, TypeOK, OutcomeEvents
    <2>5. OneLiveAttempt'
      BY <1>17 DEF CancelActionExecution, OneLiveAttempt, execVars, agentVars, TypeOK
    <2>6. SuccessIsVerified'
      BY <1>17 DEF CancelActionExecution, SuccessIsVerified, execVars, agentVars, TypeOK, InTime
    <2>7. CancelledNeverDelivered'
      BY <1>17 DEF CancelActionExecution, CancelledNeverDelivered, ReceiptFollowsDispatch, TypeOK
    <2>8. FailedIsDefinite'
      BY <1>17 DEF CancelActionExecution, FailedIsDefinite, execVars, agentVars, TypeOK
    <2> QED  BY <2>1, <2>2, <2>3, <2>4, <2>5, <2>6, <2>7, <2>8
  <1>18. ASSUME NEW x \in Execs, RetryActionExecution(x) PROVE IInv'
    <2> DEFINE y == <<x[1], x[2] + 1>>
    <2>a. y \in Execs /\ y[1] = x[1] /\ y[2] = x[2] + 1
      BY <1>18, ExecsArePairs DEF RetryActionExecution, Execs
    <2>b. state[y] = "ABSENT" /\ receipt[y] = "NONE"
      BY <1>18, <2>a, ExecsArePairs DEF RetryActionExecution, Latest, ReceiptFollowsDispatch
    <2>c. state' = [state EXCEPT ![y] = "PENDING"]
      BY <1>18 DEF RetryActionExecution
    <2>1. TypeOK'
      <3>1. Append(created, y) \in Seq(Execs)
        BY <2>a DEF TypeOK
      <3> QED  BY <1>18, <2>a, <3>1 DEF RetryActionExecution, TypeOK, States, agentVars
    <2>2. ClaimsHoldPending'
      BY <1>18 DEF RetryActionExecution, ClaimsHoldPending, execVars, agentVars, TypeOK
    <2>3. ReceiptFollowsDispatch'
      BY <1>18, <2>a, <2>b DEF RetryActionExecution, ReceiptFollowsDispatch, TypeOK, InTime
    <2>4. EventsMatchReceipts'
      BY <1>18 DEF RetryActionExecution, EventsMatchReceipts, execVars, agentVars, TypeOK, OutcomeEvents
    <2>5. OneLiveAttempt'
      <3> SUFFICES ASSUME NEW u \in Execs, NEW v \in Execs, u[1] = v[1], u[2] < v[2],
                          state'[v] # "ABSENT"
                   PROVE  state'[u] \in {"FAILED", "UNKNOWN"}
        BY DEF OneLiveAttempt
      <3>1. state[x] \in {"FAILED", "UNKNOWN"} /\ Latest(x)
        BY <1>18 DEF RetryActionExecution
      <3>2. CASE v = y
        <4>1. u[2] <= x[2]
          BY <3>2, <2>a, ExecsArePairs
        <4>2. CASE u = x
          BY <4>2, <3>1, <2>a, <2>b, <2>c DEF TypeOK
        <4>3. CASE u # x
          <5>1. u[2] < x[2] /\ u[1] = x[1]
            BY <4>1, <4>3, <3>2, <2>a, ExecsArePairs
          <5>2. state[u] \in {"FAILED", "UNKNOWN"}
            BY <5>1, <3>1 DEF OneLiveAttempt
          <5> QED  BY <5>2, <2>a, <2>b, <2>c DEF TypeOK
        <4> QED  BY <4>2, <4>3
      <3>3. CASE v # y
        <4>1. state[v] # "ABSENT"
          BY <3>3, <2>a, <2>c DEF TypeOK
        <4>2. state[u] \in {"FAILED", "UNKNOWN"}
          BY <4>1 DEF OneLiveAttempt
        <4> QED  BY <4>2, <2>a, <2>b, <2>c DEF TypeOK
      <3> QED  BY <3>2, <3>3
    <2>6. SuccessIsVerified'
      BY <1>18 DEF RetryActionExecution, SuccessIsVerified, execVars, agentVars, TypeOK, InTime
    <2>7. CancelledNeverDelivered'
      BY <1>18 DEF RetryActionExecution, CancelledNeverDelivered, execVars, agentVars, TypeOK
    <2>8. FailedIsDefinite'
      BY <1>18 DEF RetryActionExecution, FailedIsDefinite, execVars, agentVars, TypeOK
    <2> QED  BY <2>1, <2>2, <2>3, <2>4, <2>5, <2>6, <2>7, <2>8
  <1>19. CASE Tick
    <2>1. TypeOK'
      BY <1>19 DEF Tick, TypeOK, execVars, agentVars, States
    <2>2. ClaimsHoldPending'
      BY <1>19 DEF Tick, ClaimsHoldPending, execVars, agentVars, TypeOK
    <2>3. ReceiptFollowsDispatch'
      BY <1>19 DEF Tick, ReceiptFollowsDispatch, execVars, agentVars, TypeOK, InTime
    <2>4. EventsMatchReceipts'
      BY <1>19 DEF Tick, EventsMatchReceipts, execVars, agentVars, TypeOK, OutcomeEvents
    <2>5. OneLiveAttempt'
      BY <1>19 DEF Tick, OneLiveAttempt, execVars, agentVars, TypeOK
    <2>6. SuccessIsVerified'
      BY <1>19 DEF Tick, SuccessIsVerified, execVars, agentVars, TypeOK, InTime
    <2>7. CancelledNeverDelivered'
      BY <1>19 DEF Tick, CancelledNeverDelivered, execVars, agentVars, TypeOK
    <2>8. FailedIsDefinite'
      BY <1>19 DEF Tick, FailedIsDefinite, execVars, agentVars, TypeOK
    <2> QED  BY <2>1, <2>2, <2>3, <2>4, <2>5, <2>6, <2>7, <2>8
  <1>20. CASE UNCHANGED vars
    <2>1. TypeOK'
      BY <1>20 DEF vars, TypeOK, execVars, agentVars, States
    <2>2. ClaimsHoldPending'
      BY <1>20 DEF vars, ClaimsHoldPending, execVars, agentVars, TypeOK
    <2>3. ReceiptFollowsDispatch'
      BY <1>20 DEF vars, ReceiptFollowsDispatch, execVars, agentVars, TypeOK, InTime
    <2>4. EventsMatchReceipts'
      BY <1>20 DEF vars, EventsMatchReceipts, execVars, agentVars, TypeOK, OutcomeEvents
    <2>5. OneLiveAttempt'
      BY <1>20 DEF vars, OneLiveAttempt, execVars, agentVars, TypeOK
    <2>6. SuccessIsVerified'
      BY <1>20 DEF vars, SuccessIsVerified, execVars, agentVars, TypeOK, InTime
    <2>7. CancelledNeverDelivered'
      BY <1>20 DEF vars, CancelledNeverDelivered, execVars, agentVars, TypeOK
    <2>8. FailedIsDefinite'
      BY <1>20 DEF vars, FailedIsDefinite, execVars, agentVars, TypeOK
    <2> QED  BY <2>1, <2>2, <2>3, <2>4, <2>5, <2>6, <2>7, <2>8
  <1> QED
    BY <1>1, <1>2, <1>3, <1>4, <1>5, <1>6, <1>7, <1>8, <1>9, <1>10, <1>11, <1>12, <1>13, <1>14, <1>15, <1>16, <1>17, <1>18, <1>19, <1>20 DEF Next, WorkerStep

(* The inductive invariant behind the other theorems: row locks are          *)
(* exclusive and hold PENDING executions, receipts follow dispatch, and an   *)
(* answer under way is the receipt's answer.                                 *)
THEOREM Invariance == Spec => []IInv
  BY InitIInv, NextIInv, PTL DEF Spec

(* Retries and repeated READY events never leave two attempts of an intent   *)
(* alive, and only a FAILED or UNKNOWN attempt is followed by another.       *)
THEOREM SingleAttempt == Spec => []OneLiveAttempt
  <1>1. IInv => OneLiveAttempt
    BY DEF IInv
  <1> QED  BY <1>1, Invariance, PTL

(* SUCCEEDED needs an acceptance in time and a runtime other than the        *)
(* baseline, in whatever order the worker applies the agent's events.        *)
THEOREM VerifiedSuccess == Spec => []SuccessIsVerified
  <1>1. IInv => SuccessIsVerified
    BY DEF IInv
  <1> QED  BY <1>1, Invariance, PTL

(* A cancelled execution was never delivered to the agent, although claims   *)
(* and cancellation run concurrently.                                        *)
THEOREM CancelSafe == Spec => []CancelledNeverDelivered
  <1>1. IInv => CancelledNeverDelivered
    BY DEF IInv
  <1> QED  BY <1>1, Invariance, PTL

(* FAILED means that the agent surely did not take the command. *)
THEOREM DefiniteFailure == Spec => []FailedIsDefinite
  <1>1. IInv => FailedIsDefinite
    BY DEF IInv
  <1> QED  BY <1>1, Invariance, PTL

(* No late answer, heartbeat, sweep or retry changes an ended execution or   *)
(* an answered receipt.                                                      *)
THEOREM FinalOutcomes == Spec => TerminalIsFinal
  <1> DEFINE Final == \A x \in Execs :
         /\ state[x] \in Terminal => state'[x] = state[x]
         /\ receipt[x] \in {"ACCEPTED", "REJECTED"} => receipt'[x] = receipt[x]
  <1>1. IInv /\ [Next]_vars => [Final]_vars
    <2> SUFFICES ASSUME IInv, Next PROVE Final
      BY DEF vars
    <2> USE DEF IInv, TypeOK
    <2>1. ASSUME NEW i \in Intents, IntentReady(i) \/ IntentWithdrawn(i) PROVE Final
      BY <2>1 DEF IntentReady, IntentWithdrawn, execVars
    <2>2. CASE SetKillSwitch
      BY <2>2 DEF SetKillSwitch, execVars
    <2>3. ASSUME NEW s \in Sessions, NEW x \in Execs, ClaimAgentRestart(s, x) PROVE Final
      BY <2>3 DEF ClaimAgentRestart, execVars
    <2>4. ASSUME NEW c \in claims, CommitClaim(c) PROVE Final
      <3>1. c.exec \in Execs /\ state[c.exec] = "PENDING" /\ receipt[c.exec] = "NONE"
        BY DEF ClaimsHoldPending, ReceiptFollowsDispatch
      <3> QED  BY <2>4, <3>1 DEF CommitClaim, RecordDelivery, Terminal
    <2>5. ASSUME NEW c \in claims, AbortClaim(c) PROVE Final
      BY <2>5 DEF AbortClaim, execVars
    <2>6. ASSUME NEW x \in Execs, AcceptAutomationAction(x) \/ RejectAutomationAction(x)
          PROVE  Final
      BY <2>6 DEF AcceptAutomationAction, RejectAutomationAction, execVars
    <2>7. CASE AgentRestarts \/ RecordHeartbeat
      BY <2>7 DEF AgentRestarts, RecordHeartbeat, execVars
    <2>8. ASSUME NEW i \in Intents, CreateAutomaticExecution(i) PROVE Final
      BY <2>8 DEF CreateAutomaticExecution, Terminal
    <2>9. ASSUME NEW x \in Execs, NEW t \in 0..MaxTime, RecordExecutionAcceptance(x, t)
          PROVE  Final
      BY <2>9 DEF RecordExecutionAcceptance, Terminal
    <2>10. ASSUME NEW x \in Execs, RecordExecutionRejection(x) \/ Project(x) PROVE Final
      BY <2>10 DEF RecordExecutionRejection, Project, execVars, Terminal
    <2>11. ASSUME NEW r \in 0..MaxRuntime, NEW t \in 0..MaxTime, ObserveAgentRuntime(r, t)
           PROVE  Final
      BY <2>11 DEF ObserveAgentRuntime, Verified, Terminal
    <2>12. CASE MarkExpiredExecutionsUnknown
      BY <2>12 DEF MarkExpiredExecutionsUnknown, Expired, Terminal
    <2>13. ASSUME NEW x \in Execs, CancelActionExecution(x) PROVE Final
      BY <2>13 DEF CancelActionExecution, Terminal
    <2>14. ASSUME NEW x \in Execs, RetryActionExecution(x) PROVE Final
      <3>1. <<x[1], x[2] + 1>> \in Execs /\ state[<<x[1], x[2] + 1>>] = "ABSENT"
        BY <2>14, ExecsArePairs DEF RetryActionExecution, Latest, Execs
      <3> QED  BY <2>14, <3>1 DEF RetryActionExecution, Terminal
    <2>15. CASE Tick
      BY <2>15 DEF Tick, execVars
    <2> QED
      BY <2>1, <2>2, <2>3, <2>4, <2>5, <2>6, <2>7, <2>8, <2>9, <2>10, <2>11, <2>12,
         <2>13, <2>14, <2>15 DEF Next, WorkerStep
  <1>2. Spec => [][Final]_vars
    BY <1>1, Invariance, PTL DEF Spec
  <1> QED  BY <1>2 DEF TerminalIsFinal
=============================================================================
