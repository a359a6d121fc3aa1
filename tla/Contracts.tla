----------------------------- MODULE Contracts -----------------------------
(***************************************************************************)
(* Contracts, their renewal cases and the scheduler that announces         *)
(* renewals and expires contracts (modules/contract/application,           *)
(* apps/api/src/contract-routes.ts, apps/worker/src/contract-alerts.ts).   *)
(*                                                                         *)
(* A command is one transaction that locks its row and checks the          *)
(* optimistic version: a stale command changes nothing.  The scheduler     *)
(* selects its candidates outside the transactions that treat them.        *)
(* A commercial snapshot is its term and its notice configuration, and     *)
(* stands for its own fingerprint.  That the supplier is eligible and that *)
(* a document is FINAL and SIGNED (CommercialDocuments) can be true or     *)
(* false at any time: a command they stop changes nothing.  The usage      *)
(* status (HOLD, RESUME) is left out: nothing here reads it.               *)
(***************************************************************************)
EXTENDS Integers, Sequences, FiniteSets

CONSTANTS Contracts, Cases,
          Snapshots,           \* [from, to, date, period]; Unset: not configured
          MaxContractVersions, \* bound: versions of all contracts together
          MaxApprovals,        \* bound: approval requests
          MaxTime,             \* bound: the clock
          MaxBatch             \* candidates of one scheduler pass (50 in the code)

VARIABLES contract, versions, evidence, renewal, approvals, clock,
          phase, queue, passTime, notices, defects

contractVars == <<contract, versions, evidence, renewal, approvals, clock, phase, queue, passTime, notices, defects>>
passVars == <<phase, queue, passTime, notices, defects>>
worldVars == <<approvals, clock>>

Unset == -1
Invalid == -2

ASSUME ContractsAssumption ==
    /\ IsFiniteSet(Contracts) /\ MaxContractVersions \in Nat /\ MaxTime \in Nat
    /\ Snapshots \subseteq [from : Nat, to : Nat, date : Nat \cup {Unset}, period : Nat \cup {Unset}]

NoContract == [state |-> "NONE", submitted |-> 0]
NoCase == [state |-> "NONE", pred |-> "NONE", succ |-> "NONE", proposal |-> <<>>, item |-> "NONE"]

ContractsInit ==
    /\ contract = [c \in Contracts |-> NoContract] /\ versions = [c \in Contracts |-> <<>>]
    /\ evidence = {} /\ renewal = [k \in Cases |-> NoCase]
    /\ approvals = <<>> /\ clock = 0
    /\ phase = "IDLE" /\ queue = {} /\ passTime = 0 /\ notices = {} /\ defects = {}

-----------------------------------------------------------------------------
(* Helpers of the contract module.                                           *)

Current(c) == Len(versions[c])
Snapshot(c) == versions[c][Current(c)].snapshot
InForce(c) == contract[c].state \in {"EXECUTED", "ACTIVE"}

AddVersion(c, s, source) ==
    /\ Cardinality(UNION {{d} \X DOMAIN versions[d] : d \in Contracts}) < MaxContractVersions
    /\ versions' = [versions EXCEPT ![c] = Append(@, [snapshot |-> s, source |-> source])]

Allowed == [UPDATE_DRAFT |-> {"DRAFT"}, SUBMIT |-> {"DRAFT"}, RECALL |-> {"PENDING_SIGNATURE"},
            RECORD |-> {"PENDING_SIGNATURE"}, ACTIVATE |-> {"EXECUTED"}, TERMINATE |-> {"EXECUTED", "ACTIVE"},
            EXPIRE |-> {"ACTIVE"}, CANCEL |-> {"DRAFT", "PENDING_SIGNATURE"}, AMEND |-> {"EXECUTED", "ACTIVE"}]
(* Fault: a version out for signature can be edited. *)
MayChangeSubmitted(from, command) == from \in Allowed[command] \cup IF command = "UPDATE_DRAFT" THEN {"PENDING_SIGNATURE"} ELSE {}
MayTransition(from, command) == from \in Allowed[command]

(* Every linked approval must be granted for exactly this context; none at   *)
(* all is no gate.                                                           *)
ApprovedFor(purpose, source, v, s) ==
    \A i \in DOMAIN approvals :
        LET a == approvals[i] IN
        (a.purpose = purpose /\ a.source = source)
            => a.state = "APPROVED" /\ a.version = v /\ a.snapshot = s

-----------------------------------------------------------------------------
(* Contract commands.                                                        *)

CreateContract(c, s) ==
    /\ contract[c].state = "NONE" /\ s.from < s.to
    /\ contract' = [contract EXCEPT ![c] = [NoContract EXCEPT !.state = "DRAFT"]]
    /\ AddVersion(c, s, "CREATE")
    /\ UNCHANGED <<evidence, renewal>>

ReviseDraft(c, s) ==
    /\ MayTransition(contract[c].state, "UPDATE_DRAFT") /\ s.from < s.to
    /\ AddVersion(c, s, "DRAFT_UPDATE")
    /\ UNCHANGED <<contract, evidence, renewal>>

(* An amendment keeps the term.                                              *)
AmendContract(c, s) ==
    /\ MayTransition(contract[c].state, "AMEND")
    /\ s.from = Snapshot(c).from /\ s.to = Snapshot(c).to
    /\ ApprovedFor("AMENDMENT", c, Current(c), s)
    /\ AddVersion(c, s, "AMENDMENT")
    /\ UNCHANGED <<contract, evidence, renewal>>

SubmitForSignature(c) ==
    /\ MayTransition(contract[c].state, "SUBMIT")
    /\ contract' = [contract EXCEPT ![c].state = "PENDING_SIGNATURE", ![c].submitted = Current(c)]
    /\ UNCHANGED <<versions, evidence, renewal>>

RecallSignature(c) ==
    /\ MayTransition(contract[c].state, "RECALL")
    /\ \A e \in evidence : e[1] # c
    /\ contract' = [contract EXCEPT ![c].state = "DRAFT", ![c].submitted = 0]
    /\ UNCHANGED <<versions, evidence, renewal>>

RecordExecution(c) ==
    /\ MayTransition(contract[c].state, "RECORD")
    /\ ApprovedFor("EXECUTION", c, contract[c].submitted, <<>>)
    /\ evidence' = evidence \cup {<<c, contract[c].submitted>>}
    /\ contract' = [contract EXCEPT ![c].state = "EXECUTED"]
    /\ UNCHANGED <<versions, renewal>>

Activate(c) ==
    /\ MayTransition(contract[c].state, "ACTIVATE")
    /\ Snapshot(c).from <= clock /\ clock < Snapshot(c).to
    /\ <<c, contract[c].submitted>> \in evidence
    /\ contract' = [contract EXCEPT ![c].state = "ACTIVE"]
    /\ UNCHANGED <<versions, evidence, renewal>>

EndContract(c, command, state) ==
    /\ MayTransition(contract[c].state, command)
    /\ contract' = [contract EXCEPT ![c].state = state]
    /\ UNCHANGED <<versions, evidence, renewal>>

Expire(c) == Snapshot(c).to <= clock /\ EndContract(c, "EXPIRE", "EXPIRED")

ContractCommands ==
    /\ \E c \in Contracts :
         \/ \E s \in Snapshots : CreateContract(c, s) \/ ReviseDraft(c, s) \/ AmendContract(c, s)
         \/ SubmitForSignature(c) \/ RecallSignature(c) \/ RecordExecution(c) \/ Activate(c)
         \/ EndContract(c, "TERMINATE", "TERMINATED") \/ EndContract(c, "CANCEL", "CANCELLED")
         \/ contract[c].state = "ACTIVE" /\ Expire(c)
    /\ UNCHANGED <<worldVars, passVars>>

-----------------------------------------------------------------------------
(* Renewal cases.  A case makes its successor contract; the successor is     *)
(* then a contract like any other.                                           *)

OpenRenewal(k, p, c, s) ==
    /\ renewal[k].state = "NONE" /\ contract[c].state = "NONE"
    /\ \A j \in Cases : ~(renewal[j].state = "OPEN" /\ renewal[j].pred = p)
    /\ contract[p].state \in {"EXECUTED", "ACTIVE", "EXPIRED"}
    /\ s.from < s.to /\ Snapshot(p).to <= s.from
    /\ contract' = [contract EXCEPT ![c] = [NoContract EXCEPT !.state = "DRAFT"]]
    /\ AddVersion(c, s, "RENEWAL")
    /\ renewal' = [renewal EXCEPT ![k] = [state |-> "OPEN", pred |-> p, succ |-> c, proposal |-> s, item |-> "NEW"]]
    /\ UNCHANGED evidence

UpdateProposal(k, s) ==
    /\ renewal[k].state = "OPEN"
    /\ LET c == renewal[k].succ IN
         /\ contract[c].state = "DRAFT"
         /\ s.from < s.to /\ Snapshot(renewal[k].pred).to <= s.from
         /\ AddVersion(c, s, "RENEWAL")
    /\ renewal' = [renewal EXCEPT ![k].proposal = s]
    /\ UNCHANGED <<contract, evidence>>

(* Ending a case resolves its work item and leaves the successor alone.      *)
EndRenewal(k, state) ==
    /\ renewal[k].state = "OPEN"
    /\ state = "COMPLETED" =>
         InForce(renewal[k].succ) /\ ApprovedFor("RENEWAL", k, 0, renewal[k].proposal)
    /\ renewal' = [renewal EXCEPT ![k].state = state, ![k].item = "RESOLVED"]
    /\ UNCHANGED <<contract, versions, evidence>>

RenewalCommands ==
    /\ \E k \in Cases :
         \/ \E p, c \in Contracts, s \in Snapshots : OpenRenewal(k, p, c, s)
         \/ \E s \in Snapshots : UpdateProposal(k, s)
         \/ \E state \in {"COMPLETED", "CANCELLED", "NOT_RENEWED"} : EndRenewal(k, state)
    /\ UNCHANGED <<worldVars, passVars>>

-----------------------------------------------------------------------------
(* What the module reads of other parts: approvals and the clock.            *)

RequestApproval ==
    /\ Len(approvals) < MaxApprovals
    /\ \/ \E c \in Contracts : contract[c].state # "NONE" /\
            \/ approvals' = Append(approvals, [purpose |-> "EXECUTION", source |-> c, state |-> "PENDING",
                                               version |-> Current(c), snapshot |-> <<>>])
            \/ \E s \in Snapshots :
                 approvals' = Append(approvals, [purpose |-> "AMENDMENT", source |-> c, state |-> "PENDING",
                                                 version |-> Current(c), snapshot |-> s])
       \/ \E k \in Cases : renewal[k].state = "OPEN" /\
            approvals' = Append(approvals, [purpose |-> "RENEWAL", source |-> k, state |-> "PENDING",
                                            version |-> 0, snapshot |-> renewal[k].proposal])
    /\ UNCHANGED clock

DecideRequest ==
    /\ \E i \in DOMAIN approvals, state \in {"APPROVED", "REJECTED"} :
         approvals[i].state = "PENDING" /\ approvals' = [approvals EXCEPT ![i].state = state]
    /\ UNCHANGED clock

Tick == clock < MaxTime /\ clock' = clock + 1 /\ UNCHANGED approvals

World ==
    /\ RequestApproval \/ DecideRequest \/ Tick
    /\ UNCHANGED <<contract, versions, evidence, renewal, passVars>>

-----------------------------------------------------------------------------
(* The scheduler: one pass announces renewals, then expires contracts.       *)

(* An explicit date wins over a period; a moment outside the term is a       *)
(* defect of the configuration.                                              *)
AlertConfiguration(s) ==
    LET at == IF s.date # Unset THEN s.date ELSE s.to - s.period IN
    IF s.date = Unset /\ s.period = Unset THEN Unset
    ELSE IF at \in s.from..s.to THEN at ELSE Invalid

(* The first MaxBatch of a set of contracts by their end.                    *)
FirstByEnd(C) ==
    {S \in SUBSET C :
        /\ Cardinality(S) = IF Cardinality(C) < MaxBatch THEN Cardinality(C) ELSE MaxBatch
        /\ \A c \in S, e \in C \ S : Snapshot(c).to <= Snapshot(e).to}

SelectAlerts ==
    /\ phase = "IDLE"
    /\ queue' \in FirstByEnd({c \in Contracts : InForce(c)})
    /\ phase' = "ALERTS" /\ passTime' = clock
    /\ UNCHANGED <<contract, notices, defects>>

ScheduleFor(c) ==
    LET at == AlertConfiguration(Snapshot(c)) IN
    /\ defects' = IF at = Invalid THEN defects \cup {<<c, Current(c)>>} ELSE defects
    /\ notices' = IF at >= 0 /\ at <= passTime THEN notices \cup {<<c, Current(c), at>>} ELSE notices

(* Fault: the candidate is not looked at again under its lock. *)
AlertUnlocked(c) == ScheduleFor(c)
AlertCandidate(c) == IF InForce(c) THEN ScheduleFor(c) ELSE UNCHANGED <<notices, defects>>

ProcessAlert(c) ==
    /\ phase = "ALERTS" /\ c \in queue
    /\ AlertCandidate(c)
    /\ queue' = queue \ {c}
    /\ UNCHANGED <<contract, phase, passTime>>

SelectExpired ==
    /\ phase = "ALERTS" /\ queue = {}
    /\ queue' \in FirstByEnd({c \in Contracts : contract[c].state = "ACTIVE" /\ Snapshot(c).to <= clock})
    /\ phase' = "EXPIRY"
    /\ UNCHANGED <<contract, passTime, notices, defects>>

ProcessExpiry(c) ==
    /\ phase = "EXPIRY" /\ c \in queue
    /\ queue' = queue \ {c}
    /\ contract' = IF contract[c].state = "ACTIVE" /\ Snapshot(c).to <= clock
                   THEN [contract EXCEPT ![c].state = "EXPIRED"] ELSE contract
    /\ UNCHANGED <<phase, passTime, notices, defects>>

(* A failed transaction is reported and its candidate left for a later pass. *)
SkipCandidate(c) == c \in queue /\ queue' = queue \ {c} /\ UNCHANGED <<contract, phase, passTime, notices, defects>>

(* The pass ends, or the worker dies in it.                                  *)
PassEnds ==
    /\ phase # "IDLE" /\ phase' = "IDLE" /\ queue' = {} /\ passTime' = 0
    /\ UNCHANGED <<contract, notices, defects>>

ContractAlertTask ==
    /\ \/ SelectAlerts \/ SelectExpired \/ PassEnds
       \/ \E c \in Contracts : ProcessAlert(c) \/ ProcessExpiry(c) \/ SkipCandidate(c)
    /\ UNCHANGED <<versions, evidence, renewal, worldVars>>

ContractsNext == ContractCommands \/ RenewalCommands \/ World \/ ContractAlertTask
ContractsSpec == ContractsInit /\ [][ContractsNext]_contractVars

-----------------------------------------------------------------------------
(* Properties.                                                               *)

ContractsTypeOK ==
    /\ \A c \in Contracts : /\ contract[c].state \in {"NONE", "EXPIRED", "TERMINATED", "CANCELLED"} \cup UNION {Allowed[a] : a \in DOMAIN Allowed}
                            /\ contract[c].submitted \in 0..Current(c) /\ Current(c) \in 0..MaxContractVersions
    /\ evidence \subseteq Contracts \X (1..MaxContractVersions)
    /\ queue \subseteq Contracts

(* Once a contract is executed, the version that was signed has execution    *)
(* evidence, and every later version is an amendment, which is made with a   *)
(* final signed document of its own (contracts.ts RECORD_EXECUTION, AMEND,   *)
(* recall, revision and resubmission).                                       *)
VersionInForceIsSigned ==
    /\ ContractsTypeOK
    /\ \A c \in Contracts : contract[c].state \in {"EXECUTED", "ACTIVE", "EXPIRED", "TERMINATED"} =>
         /\ <<c, contract[c].submitted>> \in evidence
         /\ \A v \in contract[c].submitted + 1..Current(c) : versions[c][v].source = "AMENDMENT"

(* The scheduler treats candidates it selected earlier: a notice is raised   *)
(* only for a contract still in force, for its current version, at or after  *)
(* the moment that version configures (contract-alerts.ts).                  *)
NoticesBindTheVersionInForce ==
    [][\A n \in notices' \ notices :
         /\ InForce(n[1]) /\ n[2] = Current(n[1])
         /\ n[3] = AlertConfiguration(Snapshot(n[1])) /\ n[3] <= clock]_contractVars

(* A renewal successor starts at or after the end of its predecessor         *)
(* (PROCUREMENT_SUPPLIER_PO_INVOICE_CONTRACT_DOCUMENT_WORKFLOW.md, renewal   *)
(* transitions).  The code does not keep this: UPDATE_DRAFT of the successor *)
(* does not ask for it.                                                      *)
SuccessorsDoNotOverlap ==
    \A k \in Cases : renewal[k].state = "COMPLETED" =>
        Snapshot(renewal[k].pred).to <= Snapshot(renewal[k].succ).from
=============================================================================
