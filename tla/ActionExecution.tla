-------------------------- MODULE ActionExecution --------------------------
(***************************************************************************)
(* Controlled restart of one agent: the execution table of the automation  *)
(* module (modules/automation/application/executions.ts), the command      *)
(* receipts of the agent module (modules/agent/application/agent.ts), the  *)
(* gateway routes that join them (apps/agent-gateway/src/automation-action- *)
(* routes.ts) and the worker that applies agent events and sweeps deadlines *)
(* (apps/worker/src/automation-executions.ts).                             *)
(*                                                                         *)
(* An execution is <<intent, attempt>>.  The inbox applies each event once *)
(* (module EventInbox) but, because a failed delivery is retried after     *)
(* later events, in any order: events is a set.  A claim is a transaction  *)
(* of its own steps, because it holds row locks while it reads the kill    *)
(* switch, which no lock protects.  Redelivering a command that is still   *)
(* DISPATCHED changes no state and is left out.  A stale entity_version    *)
(* only refuses an operator's command and is left out too.                 *)
(***************************************************************************)
EXTENDS Integers, Sequences, FiniteSets

CONSTANTS Intents, Sessions,
          AcceptanceTimeout,  \* ACCEPTANCE_TIMEOUT_MS, in ticks
          VerifyTime,         \* VERIFY_MS, in ticks
          MaxTime,            \* bound on the clock
          MaxAttempts,        \* bound on manual retries
          MaxRuntime,         \* bound on agent restarts
          MaxOnline           \* bound on AGENT.ONLINE events not yet applied

ASSUME TimingAssumption ==
    /\ AcceptanceTimeout \in Nat \ {0}
    /\ VerifyTime \in Nat
    /\ MaxTime \in Nat
    /\ MaxAttempts \in Nat \ {0}
    /\ MaxRuntime \in Nat
    /\ MaxOnline \in Nat \ {0}

Execs == Intents \X (1..MaxAttempts)
Unset == -1

VARIABLES
    now,
    ready,         \* intents the engine has made READY
    killed,        \* a kill switch covers the action
    state,         \* action_executions.state
    created,       \* executions in created_at order
    dispatchedAt, acceptedAt, baseline, observed,
    evidence,      \* reconciliation evidence, <<execution, type, key>>
    receipt,       \* automation_action_receipts.state
    owner,         \* its agent_transport_session_id
    claims,        \* claim transactions in flight
    events,        \* committed events the worker has not applied
    workItems,     \* executions an operator has been asked to look at
    runtime,       \* the agent process that is running
    session,       \* its authenticated session
    seenRuntime    \* agents.agent_runtime_id, from the last heartbeat

agentVars == <<runtime, session, seenRuntime>>
execVars == <<state, created, dispatchedAt, acceptedAt, baseline, observed, evidence>>
vars == <<now, ready, killed, execVars, receipt, owner, claims, events,
          workItems, agentVars>>

States == {"ABSENT", "PENDING", "DISPATCHED", "VERIFYING", "SUCCEEDED",
           "FAILED", "UNKNOWN", "CANCELLED"}
Terminal == {"SUCCEEDED", "FAILED", "UNKNOWN", "CANCELLED"}
Locked == {c.exec : c \in claims}

Init ==
    /\ now = 0
    /\ ready = {}
    /\ killed = FALSE
    /\ state = [x \in Execs |-> "ABSENT"]
    /\ created = <<>>
    /\ dispatchedAt = [x \in Execs |-> Unset]
    /\ acceptedAt = [x \in Execs |-> Unset]
    /\ baseline = [x \in Execs |-> Unset]
    /\ observed = [x \in Execs |-> Unset]
    /\ evidence = {}
    /\ receipt = [x \in Execs |-> "NONE"]
    /\ claims = {}
    /\ events = {}
    /\ workItems = {}
    /\ runtime = 0
    /\ session \in Sessions
    /\ owner = [x \in Execs |-> session]  \* no row yet: any value
    /\ seenRuntime = 0

OutcomeEvents(X) == {[type |-> "OUTCOME", exec |-> x] : x \in X}
-----------------------------------------------------------------------------
(* The engine makes an intent READY, or takes that back on a conflict.  A    *)
(* claim holds the intent's row.                                             *)
IntentReady(i) ==
    /\ i \notin ready
    /\ ready' = ready \cup {i}
    /\ events' = events \cup {[type |-> "READY", intent |-> i]}
    /\ UNCHANGED <<now, killed, execVars, receipt, owner, claims, workItems, agentVars>>

IntentWithdrawn(i) ==
    /\ i \in ready
    /\ \A c \in claims : c.exec[1] # i
    /\ ready' = ready \ {i}
    /\ UNCHANGED <<now, killed, execVars, receipt, owner, claims, events,
                   workItems, agentVars>>

(* setScopedKillSwitch: its advisory lock is not taken by claims. *)
SetKillSwitch ==
    /\ killed' = ~killed
    /\ UNCHANGED <<now, ready, execVars, receipt, owner, claims, events,
                   workItems, agentVars>>

(* The first attempt of an intent that is still READY when the event is      *)
(* applied; the unique index turns a second one into a no-op.                *)
CreateAutomaticExecution(i) ==
    LET e == [type |-> "READY", intent |-> i]
        x == <<i, 1>>
    IN
    /\ e \in events
    /\ events' = events \ {e}
    /\ IF i \in ready /\ state[x] = "ABSENT"
       THEN /\ state' = [state EXCEPT ![x] = "PENDING"]
            /\ created' = Append(created, x)
       ELSE UNCHANGED <<state, created>>
    /\ UNCHANGED <<now, ready, killed, dispatchedAt, acceptedAt, baseline,
                   observed, evidence, receipt, owner, claims, workItems, agentVars>>
-----------------------------------------------------------------------------
(* Fault: the claim query does not skip rows another claim has locked. *)
ClaimableThoughLocked(x) ==
    LET free == {k \in DOMAIN created : state[created[k]] = "PENDING"}
    IN  \E k \in free : created[k] = x /\ \A l \in free : k <= l

(* The oldest PENDING execution no other claim has locked. *)
Claimable(x) ==
    LET free == {k \in DOMAIN created :
                    state[created[k]] = "PENDING" /\ created[k] \notin Locked}
    IN  \E k \in free : created[k] = x /\ \A l \in free : k <= l

(* readPendingAutomationAction finds nothing for the session. *)
NoPendingAction(s) == \A y \in Execs : receipt[y] = "DELIVERED" => owner[y] # s

(* readRestartBaseline: the runtime of the last heartbeat. *)
RestartBaseline == seenRuntime

(* The claim route up to its decision: no undelivered answer of this session *)
(* is outstanding, an execution is locked, and the preflight checks decide.  *)
(* Capability, target, policy, authorization, approval and conflict checks   *)
(* are one choice; the kill switch is read as it is now.                     *)
ClaimAgentRestart(s, x) ==
    /\ s = session
    /\ NoPendingAction(s)
    /\ Claimable(x)
    /\ \E pass \in BOOLEAN :
         claims' = claims \cup
            {[exec |-> x, session |-> s, base |-> RestartBaseline,
              dispatch |-> pass /\ x[1] \in ready /\ ~killed]}
    /\ UNCHANGED <<now, ready, killed, execVars, receipt, owner, events,
                   workItems, agentVars>>

(* recordAutomationActionDelivery, in the transaction of the dispatch. *)
RecordDelivery(x, s) ==
    /\ receipt' = [receipt EXCEPT ![x] = "DELIVERED"]
    /\ owner' = [owner EXCEPT ![x] = s]

(* Its commit: DISPATCHED with a DELIVERED receipt, or FAILED.  The bound    *)
(* keeps both deadlines inside the modelled time.                            *)
CommitClaim(c) ==
    LET x == c.exec IN
    /\ now + AcceptanceTimeout + VerifyTime <= MaxTime
    /\ claims' = claims \ {c}
    /\ IF c.dispatch
       THEN /\ state' = [state EXCEPT ![x] = "DISPATCHED"]
            /\ dispatchedAt' = [dispatchedAt EXCEPT ![x] = now]
            /\ baseline' = [baseline EXCEPT ![x] = c.base]
            /\ RecordDelivery(x, c.session)
            /\ UNCHANGED events
       ELSE /\ state' = [state EXCEPT ![x] = "FAILED"]
            /\ events' = events \cup OutcomeEvents({x})
            /\ UNCHANGED <<dispatchedAt, baseline, receipt, owner>>
    /\ UNCHANGED <<now, ready, killed, created, acceptedAt, observed, evidence,
                   workItems, agentVars>>

(* The gateway dies or a statement fails: the execution is PENDING again. *)
AbortClaim(c) ==
    /\ claims' = claims \ {c}
    /\ UNCHANGED <<now, ready, killed, execVars, receipt, owner, events,
                   workItems, agentVars>>
-----------------------------------------------------------------------------
(* The agent acknowledges a command of its own session; the gateway does not *)
(* look at the execution, which may be over.                                 *)
AcceptAutomationAction(x) ==
    /\ receipt[x] = "DELIVERED"
    /\ owner[x] = session
    /\ receipt' = [receipt EXCEPT ![x] = "ACCEPTED"]
    /\ events' = events \cup {[type |-> "ACCEPTED", exec |-> x, at |-> now]}
    /\ UNCHANGED <<now, ready, killed, execVars, owner, claims, workItems, agentVars>>

RejectAutomationAction(x) ==
    /\ receipt[x] = "DELIVERED"
    /\ owner[x] = session
    /\ receipt' = [receipt EXCEPT ![x] = "REJECTED"]
    /\ events' = events \cup {[type |-> "REJECTED", exec |-> x]}
    /\ UNCHANGED <<now, ready, killed, execVars, owner, claims, workItems, agentVars>>

(* The agent process restarts, for the command or for a reason of its own,   *)
(* and may authenticate anew.                                                *)
AgentRestarts ==
    /\ runtime < MaxRuntime
    /\ runtime' = runtime + 1
    /\ session' \in Sessions
    /\ UNCHANGED <<now, ready, killed, execVars, receipt, owner, claims, events,
                   workItems, seenRuntime>>

(* recordHeartbeat and its AGENT.ONLINE event; a claim holds the agent's row. *)
RecordHeartbeat ==
    /\ claims = {}
    /\ Cardinality({e \in events : e.type = "ONLINE"}) < MaxOnline
    /\ seenRuntime' = runtime
    /\ events' = events \cup {[type |-> "ONLINE", runtime |-> runtime, at |-> now]}
    /\ UNCHANGED <<now, ready, killed, execVars, receipt, owner, claims, workItems,
                   runtime, session>>
-----------------------------------------------------------------------------
(* recordExecutionReconciliationEvidence: one row per type and key. *)
RecordEvidence(X, type, key) == evidence' = evidence \cup {<<x, type, key>> : x \in X}

InTime(x, at) == dispatchedAt[x] <= at /\ at < dispatchedAt[x] + AcceptanceTimeout

(* Fault: the acceptance deadline is not compared with accepted_at. *)
RecordAcceptanceWhenever(x, at) ==
    LET e == [type |-> "ACCEPTED", exec |-> x, at |-> at] IN
    /\ e \in events
    /\ events' = events \ {e}
    /\ state' = [state EXCEPT ![x] = IF @ = "DISPATCHED" THEN "VERIFYING" ELSE @]
    /\ acceptedAt' = [acceptedAt EXCEPT ![x] = IF state[x] = "DISPATCHED" THEN at ELSE @]
    /\ UNCHANGED <<now, ready, killed, created, dispatchedAt, baseline, observed,
                   evidence, receipt, owner, claims, workItems, agentVars>>

(* Fault: an acceptance that finds its execution over leaves no evidence. *)
DropLateAcceptance(x, at) ==
    LET e == [type |-> "ACCEPTED", exec |-> x, at |-> at] IN
    /\ e \in events
    /\ events' = events \ {e}
    /\ IF state[x] = "DISPATCHED" /\ InTime(x, at)
       THEN /\ state' = [state EXCEPT ![x] = "VERIFYING"]
            /\ acceptedAt' = [acceptedAt EXCEPT ![x] = at]
       ELSE UNCHANGED <<state, acceptedAt>>
    /\ UNCHANGED <<now, ready, killed, created, dispatchedAt, baseline, observed,
                   evidence, receipt, owner, claims, workItems, agentVars>>

(* recordExecutionAcceptance: in time it starts verification (ACCEPTED and   *)
(* VERIFYING in one transaction); late it is only evidence.                  *)
RecordExecutionAcceptance(x, at) ==
    LET e == [type |-> "ACCEPTED", exec |-> x, at |-> at] IN
    /\ e \in events
    /\ \/ /\ state[x] = "DISPATCHED" /\ InTime(x, at)
          /\ state' = [state EXCEPT ![x] = "VERIFYING"]
          /\ acceptedAt' = [acceptedAt EXCEPT ![x] = at]
          /\ events' = events \ {e}
          /\ UNCHANGED evidence
       \/ /\ state[x] = "DISPATCHED" /\ ~InTime(x, at)
          /\ state' = [state EXCEPT ![x] = "UNKNOWN"]
          /\ RecordEvidence({x}, "LATE_AGENT_ACCEPTED", at)
          /\ events' = (events \ {e}) \cup OutcomeEvents({x})
          /\ UNCHANGED acceptedAt
       \/ /\ state[x] # "DISPATCHED"
          /\ RecordEvidence({x} \cap {y \in Execs : state[y] = "UNKNOWN"},
                            "LATE_AGENT_ACCEPTED", at)
          /\ events' = events \ {e}
          /\ UNCHANGED <<state, acceptedAt>>
    /\ UNCHANGED <<now, ready, killed, created, dispatchedAt, baseline, observed,
                   receipt, owner, claims, workItems, agentVars>>

(* recordExecutionRejection. *)
RecordExecutionRejection(x) ==
    LET e == [type |-> "REJECTED", exec |-> x] IN
    /\ e \in events
    /\ IF state[x] = "DISPATCHED"
       THEN /\ state' = [state EXCEPT ![x] = "FAILED"]
            /\ events' = (events \ {e}) \cup OutcomeEvents({x})
       ELSE /\ events' = events \ {e}
            /\ UNCHANGED state
    /\ UNCHANGED <<now, ready, killed, created, dispatchedAt, acceptedAt, baseline,
                   observed, evidence, receipt, owner, claims, workItems, agentVars>>

(* Executions a heartbeat of runtime r at time t verifies. *)
Verified(r, t) ==
    {x \in Execs : /\ state[x] = "VERIFYING"
                   /\ acceptedAt[x] <= t
                   /\ r # baseline[x]
                   /\ t <= acceptedAt[x] + VerifyTime}

(* observeAgentRuntime: all executions of the agent in one transaction. *)
ObserveAgentRuntime(r, t) ==
    LET e == [type |-> "ONLINE", runtime |-> r, at |-> t]
        late == {x \in Execs : state[x] = "UNKNOWN" /\ r # baseline[x]
                                 /\ t >= dispatchedAt[x]}
    IN
    /\ e \in events
    /\ events' = events \ {e}
    /\ state' = [x \in Execs |-> IF x \in Verified(r, t) THEN "SUCCEEDED" ELSE state[x]]
    /\ observed' = [x \in Execs |-> IF x \in Verified(r, t) THEN r ELSE observed[x]]
    /\ RecordEvidence(late, "LATE_RESTART_RUNTIME", r)
    /\ UNCHANGED <<now, ready, killed, created, dispatchedAt, acceptedAt, baseline,
                   receipt, owner, claims, workItems, agentVars>>

(* Fault: only the acceptance deadline is swept. *)
ExpiredDispatched ==
    {x \in Execs : state[x] = "DISPATCHED" /\ dispatchedAt[x] + AcceptanceTimeout <= now}

Expired ==
    {x \in Execs :
        \/ state[x] = "DISPATCHED" /\ dispatchedAt[x] + AcceptanceTimeout <= now
        \/ state[x] = "VERIFYING" /\ acceptedAt[x] + VerifyTime <= now}

(* Fault: the sweep changes the state and publishes nothing. *)
MarkExpiredSilently ==
    /\ Expired # {}
    /\ state' = [x \in Execs |-> IF x \in Expired THEN "UNKNOWN" ELSE state[x]]
    /\ UNCHANGED <<now, ready, killed, created, dispatchedAt, acceptedAt, baseline,
                   observed, evidence, receipt, owner, claims, events, workItems,
                   agentVars>>

(* markExpiredExecutionsUnknown; batches of 50 are larger than the model. *)
MarkExpiredExecutionsUnknown ==
    /\ Expired # {}
    /\ state' = [x \in Execs |-> IF x \in Expired THEN "UNKNOWN" ELSE state[x]]
    /\ events' = events \cup OutcomeEvents(Expired)
    /\ UNCHANGED <<now, ready, killed, created, dispatchedAt, acceptedAt, baseline,
                   observed, evidence, receipt, owner, claims, workItems, agentVars>>

(* project: the work item of a FAILED or UNKNOWN outcome, keyed by execution. *)
Project(x) ==
    /\ [type |-> "OUTCOME", exec |-> x] \in events
    /\ events' = events \ {[type |-> "OUTCOME", exec |-> x]}
    /\ workItems' = workItems \cup {x}
    /\ UNCHANGED <<now, ready, killed, execVars, receipt, owner, claims, agentVars>>
-----------------------------------------------------------------------------
(* Fault: cancellation does not wait for the row a claim has locked. *)
CancelWithoutLock(x) ==
    /\ state[x] \in {"PENDING", "DISPATCHED"}
    /\ receipt[x] # "ACCEPTED"
    /\ state' = [state EXCEPT ![x] = "CANCELLED"]
    /\ UNCHANGED <<now, ready, killed, created, dispatchedAt, acceptedAt, baseline,
                   observed, evidence, receipt, owner, claims, events, workItems,
                   agentVars>>

CancelActionExecution(x) ==
    /\ x \notin Locked
    /\ state[x] = "PENDING"
    /\ state' = [state EXCEPT ![x] = "CANCELLED"]
    /\ UNCHANGED <<now, ready, killed, created, dispatchedAt, acceptedAt, baseline,
                   observed, evidence, receipt, owner, claims, events, workItems,
                   agentVars>>

Latest(x) == \A y \in Execs : y[1] = x[1] /\ y[2] > x[2] => state[y] = "ABSENT"

(* Fault: an attempt whose command is still out can be retried. *)
RetryUnfinished(x) ==
    LET y == <<x[1], x[2] + 1>> IN
    /\ state[x] \in {"DISPATCHED", "FAILED", "UNKNOWN"}
    /\ x[2] < MaxAttempts
    /\ x[1] \in ready
    /\ Latest(x)
    /\ state' = [state EXCEPT ![y] = "PENDING"]
    /\ created' = Append(created, y)
    /\ UNCHANGED <<now, ready, killed, dispatchedAt, acceptedAt, baseline, observed,
                   evidence, receipt, owner, claims, events, workItems, agentVars>>

(* retryActionExecution: only the latest attempt, of an intent still READY. *)
RetryActionExecution(x) ==
    LET y == <<x[1], x[2] + 1>> IN
    /\ state[x] \in {"FAILED", "UNKNOWN"}
    /\ x[2] < MaxAttempts
    /\ \A c \in claims : c.exec[1] # x[1]
    /\ x[1] \in ready
    /\ Latest(x)
    /\ state' = [state EXCEPT ![y] = "PENDING"]
    /\ created' = Append(created, y)
    /\ UNCHANGED <<now, ready, killed, dispatchedAt, acceptedAt, baseline, observed,
                   evidence, receipt, owner, claims, events, workItems, agentVars>>

Tick ==
    /\ now < MaxTime
    /\ now' = now + 1
    /\ UNCHANGED <<ready, killed, execVars, receipt, owner, claims, events,
                   workItems, agentVars>>

WorkerStep ==
    \/ \E i \in Intents : CreateAutomaticExecution(i)
    \/ \E x \in Execs, t \in 0..MaxTime : RecordExecutionAcceptance(x, t)
    \/ \E x \in Execs : RecordExecutionRejection(x) \/ Project(x)
    \/ \E r \in 0..MaxRuntime, t \in 0..MaxTime : ObserveAgentRuntime(r, t)

Next ==
    \/ \E i \in Intents : IntentReady(i) \/ IntentWithdrawn(i)
    \/ SetKillSwitch
    \/ \E s \in Sessions, x \in Execs : ClaimAgentRestart(s, x)
    \/ \E c \in claims : CommitClaim(c) \/ AbortClaim(c)
    \/ \E x \in Execs : AcceptAutomationAction(x) \/ RejectAutomationAction(x)
    \/ AgentRestarts \/ RecordHeartbeat
    \/ WorkerStep
    \/ MarkExpiredExecutionsUnknown
    \/ \E x \in Execs : CancelActionExecution(x) \/ RetryActionExecution(x)
    \/ Tick

(* Time passes, the worker applies every event it finds and sweeps in every  *)
(* round (EventInbox shows when that is justified).  Nothing obliges the     *)
(* agent or the operators to act.                                            *)
Fairness ==
    /\ WF_vars(Tick)
    /\ WF_vars(MarkExpiredExecutionsUnknown)
    /\ \A x \in Execs : WF_vars(Project(x)) /\ WF_vars(RecordExecutionRejection(x))
    /\ \A x \in Execs : WF_vars(\E t \in 0..MaxTime : RecordExecutionAcceptance(x, t))

Spec == Init /\ [][Next]_vars
FairSpec == Spec /\ Fairness
-----------------------------------------------------------------------------
TypeOK ==
    /\ now \in 0..MaxTime
    /\ ready \subseteq Intents
    /\ killed \in BOOLEAN
    /\ state \in [Execs -> States]
    /\ created \in Seq(Execs)
    /\ dispatchedAt \in [Execs -> 0..MaxTime \cup {Unset}]
    /\ acceptedAt \in [Execs -> 0..MaxTime \cup {Unset}]
    /\ baseline \in [Execs -> 0..MaxRuntime \cup {Unset}]
    /\ observed \in [Execs -> 0..MaxRuntime \cup {Unset}]
    /\ receipt \in [Execs -> {"NONE", "DELIVERED", "ACCEPTED", "REJECTED"}]
    /\ owner \in [Execs -> Sessions]
    /\ runtime \in 0..MaxRuntime
    /\ seenRuntime \in 0..MaxRuntime
    /\ session \in Sessions
    /\ workItems \subseteq Execs

(* At most one attempt of an intent is alive, and a later attempt exists     *)
(* only after the earlier one ended without success: retries and repeated    *)
(* READY events never restart an agent twice at the same time.               *)
OneLiveAttempt ==
    \A x, y \in Execs :
        x[1] = y[1] /\ x[2] < y[2] /\ state[y] # "ABSENT" =>
            state[x] \in {"FAILED", "UNKNOWN"}

(* SUCCEEDED needs an acceptance inside the acceptance window and a runtime  *)
(* other than the one recorded before dispatch.                              *)
SuccessIsVerified ==
    \A x \in Execs : state[x] = "SUCCEEDED" =>
        /\ receipt[x] = "ACCEPTED"
        /\ InTime(x, acceptedAt[x])
        /\ observed[x] # baseline[x] /\ observed[x] # Unset

(* "Cancellation requires proof that the Agent has not accepted the          *)
(* command": a cancelled execution was never even delivered.                 *)
CancelledNeverDelivered ==
    \A x \in Execs : state[x] = "CANCELLED" => receipt[x] = "NONE"

(* An execution is FAILED only when the agent surely did not take the        *)
(* command: anything ambiguous is UNKNOWN.                                   *)
FailedIsDefinite ==
    \A x \in Execs : state[x] = "FAILED" => receipt[x] \in {"NONE", "REJECTED"}

(* Terminal states are final: late acceptance or a late heartbeat never      *)
(* resurrects an execution, and a receipt, once answered, keeps its answer.  *)
TerminalIsFinal ==
    [][\A x \in Execs :
         /\ state[x] \in Terminal => state'[x] = state[x]
         /\ receipt[x] \in {"ACCEPTED", "REJECTED"} => receipt'[x] = receipt[x]]_vars

(* Every dispatched command reaches an outcome. *)
DispatchedEnds ==
    \A x \in Execs : state[x] = "DISPATCHED" ~> state[x] \in Terminal

(* An acceptance is never lost: it starts verification or, when it comes too *)
(* late, is kept as evidence for the operator.                               *)
AcceptanceIsKept ==
    \A x \in Execs :
        receipt[x] = "ACCEPTED" ~>
            \/ acceptedAt[x] # Unset
            \/ \E t \in 0..MaxTime : <<x, "LATE_AGENT_ACCEPTED", t>> \in evidence

(* Every FAILED or UNKNOWN outcome reaches an operator. *)
OutcomesReachOperators ==
    \A x \in Execs : state[x] \in {"FAILED", "UNKNOWN"} ~> x \in workItems
-----------------------------------------------------------------------------
(* The strengthening. *)

(* Row locks are exclusive, and a locked execution stays PENDING. *)
ClaimsHoldPending ==
    /\ claims \subseteq [exec : Execs, session : Sessions, base : 0..MaxRuntime,
                          dispatch : BOOLEAN]
    /\ \A c \in claims : state[c.exec] = "PENDING"
    /\ \A c, d \in claims : c.exec = d.exec => c = d

(* No command exists before dispatch, and only a dispatched one is answered. *)
ReceiptFollowsDispatch ==
    \A x \in Execs :
        /\ state[x] \in {"ABSENT", "PENDING"} => receipt[x] = "NONE"
        /\ state[x] = "VERIFYING" => receipt[x] = "ACCEPTED" /\ InTime(x, acceptedAt[x])

(* An answer on its way to the automation module is the receipt's answer. *)
EventsMatchReceipts ==
    \A x \in Execs :
        /\ [type |-> "REJECTED", exec |-> x] \in events => receipt[x] = "REJECTED"
        /\ \A t \in 0..MaxTime :
             [type |-> "ACCEPTED", exec |-> x, at |-> t] \in events => receipt[x] = "ACCEPTED"

IInv ==
    /\ TypeOK
    /\ ClaimsHoldPending
    /\ ReceiptFollowsDispatch
    /\ EventsMatchReceipts
    /\ OneLiveAttempt
    /\ SuccessIsVerified
    /\ CancelledNeverDelivered
    /\ FailedIsDefinite
-----------------------------------------------------------------------------
(* tasks/TASK-091_CONTROLLED_SELF_HEALING_COMPENSATION.md:296: kill-switch   *)
(* changes before dispatch "are serialized/rechecked at the dispatch         *)
(* decision boundary": no execution is dispatched while the switch is on.    *)
(* The code does not keep this: the claim reads the switch without its lock. *)
NoDispatchWhileKilled ==
    [][\A x \in Execs : killed /\ state[x] # "DISPATCHED" => state'[x] # "DISPATCHED"]_vars
=============================================================================
