----------------------------- MODULE EventInbox -----------------------------
(***************************************************************************)
(* At-least-once delivery of outbox events to one consumer and its inbox   *)
(* (packages/messaging/src/index.ts), driven by the polling loop the       *)
(* automation worker tasks share (apps/worker/src/automation-executions.ts, *)
(* automation-evaluator.ts, automation-conflict-work-items.ts).            *)
(*                                                                         *)
(* An event is its created_at position, so events are ordered; transactions *)
(* commit in any order, so an earlier event may become visible after a     *)
(* later one.  Poison events make the handler fail every time.  Workers    *)
(* are the hosts that run the same task.  lock holds the row a transaction *)
(* has written and not committed: other writers of that row wait for it.   *)
(***************************************************************************)
EXTENDS Integers, FiniteSets

CONSTANTS Workers, Events, Poison,
          Limit,      \* LIMIT of the polling query
          MaxFaults,  \* bound on transient handler failures and crashes
          Nobody

ASSUME EventsAssumption == Events \subseteq Nat /\ Poison \subseteq Events
ASSUME LimitAssumption == Limit \in Nat \ {0} /\ MaxFaults \in Nat
ASSUME NobodyAssumption == Nobody \notin Workers

VARIABLES published, inbox, applied, lock, batch, at, faults

inboxVars == <<published, inbox, applied, lock, batch, at, faults>>

Statuses == {"ABSENT", "NOT_PROCESSED", "FAILED", "PROCESSED"}

InboxInit ==
    /\ published = {}
    /\ inbox = [e \in Events |-> "ABSENT"]
    /\ applied = [e \in Events |-> 0]
    /\ lock = [e \in Events |-> Nobody]
    /\ batch = [w \in Workers |-> {}]
    /\ at = [w \in Workers |-> "idle"]
    /\ faults = 0

(* PostgresOutboxWriter.append, once its transaction commits. *)
Append(e) ==
    /\ e \notin published
    /\ published' = published \cup {e}
    /\ UNCHANGED <<inbox, applied, lock, batch, at, faults>>

Pending == {e \in published : inbox[e] # "PROCESSED"}

(* The first Limit pending events by created_at. *)
Oldest(S) == {e \in S : Cardinality({d \in S : d < e}) < Limit}

Current(w) == CHOOSE e \in batch[w] : \A d \in batch[w] : e <= d

(* The polling query; a task that finds nothing waits and polls again. *)
Poll(w) ==
    /\ at[w] = "idle"
    /\ Pending # {}
    /\ batch' = [batch EXCEPT ![w] = Oldest(Pending)]
    /\ at' = [at EXCEPT ![w] = "next"]
    /\ UNCHANGED <<published, inbox, applied, lock, faults>>

(* The loop goes on with the rest of its batch. *)
Advance(w) ==
    /\ batch' = [batch EXCEPT ![w] = @ \ {Current(w)}]
    /\ at' = [at EXCEPT ![w] = IF batch[w] = {Current(w)} THEN "idle" ELSE "next"]

(* Fault: the claim does not look at the status of an existing row. *)
ClaimAnyStatus(w) ==
    LET e == Current(w) IN
    /\ at[w] = "next"
    /\ lock[e] = Nobody
    /\ lock' = [lock EXCEPT ![e] = w]
    /\ at' = [at EXCEPT ![w] = "handling"]
    /\ UNCHANGED <<published, inbox, applied, batch, faults>>

(* Fault: the claim only takes events it has never seen. *)
ClaimOnlyAbsent(w) ==
    LET e == Current(w) IN
    /\ at[w] = "next"
    /\ lock[e] = Nobody
    /\ IF inbox[e] # "ABSENT"
       THEN Advance(w) /\ UNCHANGED lock
       ELSE /\ lock' = [lock EXCEPT ![e] = w]
            /\ at' = [at EXCEPT ![w] = "handling"]
            /\ UNCHANGED batch
    /\ UNCHANGED <<published, inbox, applied, faults>>

(* PostgresInboxStore.claim: the upsert waits for a concurrent transaction's *)
(* row, then refuses a PROCESSED one.                                        *)
Claim(w) ==
    LET e == Current(w) IN
    /\ at[w] = "next"
    /\ lock[e] = Nobody
    /\ IF inbox[e] = "PROCESSED"
       THEN Advance(w) /\ UNCHANGED lock
       ELSE /\ lock' = [lock EXCEPT ![e] = w]
            /\ at' = [at EXCEPT ![w] = "handling"]
            /\ UNCHANGED batch
    /\ UNCHANGED <<published, inbox, applied, faults>>

(* The handler succeeds and processed() marks the row, both uncommitted. *)
Handle(w) ==
    /\ at[w] = "handling"
    /\ Current(w) \notin Poison
    /\ at' = [at EXCEPT ![w] = "handled"]
    /\ UNCHANGED <<published, inbox, applied, lock, batch, faults>>

(* The handler, or the commit after it, fails and the transaction rolls back. *)
HandlerFails(w) ==
    /\ at[w] \in {"handling", "handled"}
    /\ \/ Current(w) \in Poison /\ UNCHANGED faults
       \/ Current(w) \notin Poison /\ faults < MaxFaults /\ faults' = faults + 1
    /\ lock' = [lock EXCEPT ![Current(w)] = Nobody]
    /\ at' = [at EXCEPT ![w] = "recording"]
    /\ UNCHANGED <<published, inbox, applied, batch>>

(* The effects and the PROCESSED row are committed together. *)
CommitEffect(w) ==
    LET e == Current(w) IN
    /\ at[w] = "handled"
    /\ inbox' = [inbox EXCEPT ![e] = "PROCESSED"]
    /\ applied' = [applied EXCEPT ![e] = @ + 1]
    /\ lock' = [lock EXCEPT ![e] = Nobody]
    /\ Advance(w)
    /\ UNCHANGED <<published, faults>>

(* Fault: the failure is recorded over whatever status the row has. *)
RecordFailureAlways(w) ==
    LET e == Current(w) IN
    /\ at[w] = "recording"
    /\ lock[e] = Nobody
    /\ inbox' = [inbox EXCEPT ![e] = "FAILED"]
    /\ Advance(w)
    /\ UNCHANGED <<published, applied, lock, faults>>

(* Fault: the marker's transaction leaves a NOT_PROCESSED row behind. *)
RecordFailureAsClaim(w) ==
    LET e == Current(w) IN
    /\ at[w] = "recording"
    /\ lock[e] = Nobody
    /\ inbox' = [inbox EXCEPT ![e] = IF @ = "ABSENT" THEN "NOT_PROCESSED" ELSE @]
    /\ Advance(w)
    /\ UNCHANGED <<published, applied, lock, faults>>

(* consume's catch: a second transaction records FAILED unless the row has   *)
(* been processed meanwhile, and the error goes to the loop, which goes on.  *)
RecordFailure(w) ==
    LET e == Current(w) IN
    /\ at[w] = "recording"
    /\ lock[e] = Nobody
    /\ inbox' = [inbox EXCEPT ![e] =
                   IF @ \in {"ABSENT", "NOT_PROCESSED"} THEN "FAILED" ELSE @]
    /\ Advance(w)
    /\ UNCHANGED <<published, applied, lock, faults>>

(* The host dies; PostgreSQL rolls back and the restarted task polls anew. *)
HostDies(w) ==
    /\ at[w] # "idle"
    /\ faults < MaxFaults
    /\ faults' = faults + 1
    /\ lock' = [e \in Events |-> IF lock[e] = w THEN Nobody ELSE lock[e]]
    /\ batch' = [batch EXCEPT ![w] = {}]
    /\ at' = [at EXCEPT ![w] = "idle"]
    /\ UNCHANGED <<published, inbox, applied>>

HostStep(w) ==
    \/ Poll(w) \/ Claim(w) \/ Handle(w) \/ HandlerFails(w)
    \/ CommitEffect(w) \/ RecordFailure(w)

InboxNext ==
    \/ \E e \in Events : Append(e)
    \/ \E w \in Workers : HostStep(w) \/ HostDies(w)

(* A running task takes its next step; the host restarts one that stopped.   *)
(* A handler that can succeed is not failed forever: faults are bounded.     *)
InboxFairness == \A w \in Workers : WF_inboxVars(HostStep(w))

InboxSpec == InboxInit /\ [][InboxNext]_inboxVars
FairInboxSpec == InboxSpec /\ InboxFairness
-----------------------------------------------------------------------------
InboxTypeOK ==
    /\ published \subseteq Events
    /\ inbox \in [Events -> Statuses]
    /\ applied \in [Events -> Nat]
    /\ lock \in [Events -> Workers \cup {Nobody}]
    /\ batch \in [Workers -> SUBSET Events]
    /\ at \in [Workers -> {"idle", "next", "handling", "handled", "recording"}]
    /\ faults \in Nat

(* The consumer's effects are committed exactly when the inbox says so and   *)
(* exactly once, across redelivery, concurrent hosts and crashes.            *)
AppliedIffProcessed ==
    \A e \in Events : applied[e] = IF inbox[e] = "PROCESSED" THEN 1 ELSE 0

(* "Never overwrite a concurrent successful delivery": the FAILED marker,    *)
(* written after the rollback, never undoes another host's PROCESSED.        *)
ProcessedIsFinal ==
    [][\A e \in Events : inbox[e] = "PROCESSED" => inbox'[e] = "PROCESSED"]_inboxVars

(* While poison events are fewer than the batch, every other event is        *)
(* applied, however often it failed before.                                  *)
HealthyEventsAreApplied ==
    \A e \in Events \ Poison : e \in published ~> applied[e] = 1
-----------------------------------------------------------------------------
(* The strengthening: who holds a row, and that a batch is what is left.     *)

(* Between claim and commit the worker owns the row of its current event,    *)
(* which nobody has processed.                                               *)
OwnsRow ==
    \A w \in Workers : at[w] \in {"handling", "handled"} =>
        /\ lock[Current(w)] = w
        /\ inbox[Current(w)] # "PROCESSED"

(* A worker inside its batch has a current event, and only published events. *)
BatchIsPublished ==
    \A w \in Workers :
        /\ batch[w] \subseteq published
        /\ at[w] # "idle" => batch[w] # {}

(* A FAILED row is the only trace a failed delivery leaves. *)
NotProcessedIsPrivate == \A e \in Events : inbox[e] # "NOT_PROCESSED"

InboxInv ==
    /\ InboxTypeOK
    /\ AppliedIffProcessed
    /\ OwnsRow
    /\ BatchIsPublished
    /\ NotProcessedIsPrivate
=============================================================================
