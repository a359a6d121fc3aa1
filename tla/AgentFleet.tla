----------------------------- MODULE AgentFleet -----------------------------
(***************************************************************************)
(* The identity of an agent: registration, enrollment token, certificate   *)
(* issuance, mTLS session, rotation, revocation and the receipts of its    *)
(* messages (modules/agent/application, the agent gateway, and the agent   *)
(* commands of apps/api/src/server.ts).                                    *)
(*                                                                         *)
(* Commands of operators are transactions.  Enrollment and rotation are    *)
(* requests of several: reserve an attempt, call the certificate issuer    *)
(* outside any transaction, finish; the gateway can die in between.  (An   *)
(* enrollment also stores the certificate on the attempt before it         *)
(* finishes; nothing else reads it, so that transaction is part of the     *)
(* last one here.)                                                         *)
(* A request of an agent is authenticated in one transaction and served in *)
(* a later one, which checks the principal again (Current).                *)
(*                                                                         *)
(* Clocks are flags.  A credential is FRESH, then DUE (seven days left),   *)
(* then in GRACE (expired, within the 30 seconds of clock skew that        *)
(* authentication forgives), then OVER.  Optimistic versions are left out: *)
(* a command made with a stale version changes nothing.                    *)
(***************************************************************************)
EXTENDS Naturals, Sequences, FiniteSets

CONSTANTS Agents,       \* registrations for the same asset
          Sockets,      \* TLS connections an agent holds at a time
          EnrollKeys,   \* Idempotency-Keys of enrollment requests
          MaxTokens,    \* bound: enrollment tokens
          MaxCreds,     \* bound: credentials
          MaxIssuances  \* bound: issuance attempts

VARIABLES reg, assetOver, tokens, creds, attempts, sess, req, calls, held,
          receipts, effects, wanted

fleetVars == <<reg, assetOver, tokens, creds, attempts, sess, req, calls, held,
               receipts, effects, wanted>>

NewSession == [cred |-> 0, ended |-> FALSE]

FleetInit ==
    /\ reg = [a \in Agents |-> "NONE"] /\ assetOver = FALSE
    /\ tokens = <<>> /\ creds = <<>> /\ attempts = <<>>
    /\ sess = [s \in Sockets |-> NewSession]
    /\ req = [s \in Sockets |-> "none"] /\ calls = {} /\ held = {}
    /\ receipts = {} /\ effects = [s \in Sockets |-> 0]
    /\ wanted = {}

CredsOf(a) == {c \in DOMAIN creds : creds[c].agent = a}
Active(c) == creds[c].status = "ACTIVE"
(* What the queries for a valid credential select.                           *)
Usable(c) == Active(c) /\ creds[c].life \in {"FRESH", "DUE"} /\ creds[c].overlap # "OVER"

EndSessions(S) == [s \in Sockets |-> IF s \in S THEN [sess[s] EXCEPT !.ended = TRUE] ELSE sess[s]]
SessionsOf(C) == {s \in Sockets : sess[s].cred \in C}

-----------------------------------------------------------------------------
(* Operator commands                                                         *)

CanRegister(a) == reg[a] = "NONE" /\ ~assetOver /\ \A b \in Agents : reg[b] # "ACTIVE"

CreateAgentRegistration(a) ==
    /\ CanRegister(a)
    /\ reg' = [reg EXCEPT ![a] = "ACTIVE"]
    /\ UNCHANGED <<assetOver, tokens, creds, attempts, sess, req, calls, held, receipts, effects, wanted>>

CanTransition(a, t) ==
    /\ reg[a] \in {"ACTIVE", "DISABLED"}
    /\ ~(reg[a] = "DISABLED" /\ t = "DISABLED")
    /\ t = "ACTIVE" => reg[a] = "DISABLED" /\ \A b \in Agents : reg[b] # "ACTIVE"

(* Fault: the sessions of the registration survive.                          *)
TransitionKeepingSessions(a, t) ==
    /\ CanTransition(a, t)
    /\ reg' = [reg EXCEPT ![a] = t]
    /\ UNCHANGED <<assetOver, tokens, creds, attempts, sess, req, calls, held, receipts, effects, wanted>>

SessionsAfter(a, t) == IF t = "ACTIVE" THEN sess ELSE EndSessions(SessionsOf(CredsOf(a)))

TransitionAgentRegistration(a, t) ==
    /\ CanTransition(a, t)
    /\ reg' = [reg EXCEPT ![a] = t]
    /\ sess' = SessionsAfter(a, t)
    /\ UNCHANGED <<assetOver, tokens, creds, attempts, req, calls, held, receipts, effects, wanted>>

Outstanding(a) == \E t \in DOMAIN tokens : tokens[t] = [agent |-> a, status |-> "ISSUED", live |-> TRUE]

CanIssueToken(a) ==
    /\ reg[a] = "ACTIVE" /\ ~assetOver /\ ~Outstanding(a)
    /\ Len(tokens) < MaxTokens

IssuedToken(a) == Append(tokens, [agent |-> a, status |-> "ISSUED", live |-> TRUE])

IssueEnrollmentToken(a) ==
    /\ CanIssueToken(a)
    /\ \A c \in CredsOf(a) : ~Usable(c)
    /\ tokens' = IssuedToken(a)
    /\ UNCHANGED <<reg, assetOver, creds, attempts, sess, req, calls, held, receipts, effects, wanted>>

(* CHECK (overlap_until IS NULL OR status='ACTIVE'): a credential whose      *)
(* overlap deadline is set can only stay ACTIVE or be made REPLACED, which   *)
(* clears it.  Every other status makes the statement, and with it the       *)
(* transaction, fail.                                                        *)
MayLeaveActive(c) == creds[c].overlap = "NONE"

Revoked(C) == [c \in DOMAIN creds |->
                 IF c \in C /\ Active(c) THEN [creds[c] EXCEPT !.status = "REVOKED"] ELSE creds[c]]

RevokeRow(c) ==
    IF MayLeaveActive(c)
    THEN creds' = Revoked({c}) /\ sess' = EndSessions(SessionsOf({c}))
    ELSE UNCHANGED <<creds, sess>>

(* wanted remembers what operators asked for, whether or not it succeeded.   *)
RevokeAgentCredential(c) ==
    /\ Active(c)
    /\ wanted' = wanted \cup {c}
    /\ RevokeRow(c)
    /\ UNCHANGED <<reg, assetOver, tokens, attempts, req, calls, held, receipts, effects>>

CanForce(a) == CanIssueToken(a) /\ \A c \in CredsOf(a) : Active(c) => MayLeaveActive(c)

(* Revokes, ends the sessions and issues a token, or rolls all of it back.   *)
ForceAgentReenrollment(a) ==
    /\ CanForce(a)
    /\ creds' = Revoked(CredsOf(a)) /\ sess' = EndSessions(SessionsOf(CredsOf(a)))
    /\ tokens' = IssuedToken(a)
    /\ wanted' = wanted \cup {c \in CredsOf(a) : Active(c)}
    /\ UNCHANGED <<reg, assetOver, attempts, req, calls, held, receipts, effects>>

TokenRevoked(t) == tokens[t].status = "ISSUED" /\ tokens' = [tokens EXCEPT ![t].status = "REVOKED"]

RevokeEnrollmentToken(t) ==
    /\ TokenRevoked(t)
    /\ UNCHANGED <<reg, assetOver, creds, attempts, sess, req, calls, held, receipts, effects, wanted>>

RegistrationRoutes ==
    \/ \E a \in Agents : CreateAgentRegistration(a) \/ IssueEnrollmentToken(a) \/ ForceAgentReenrollment(a)
    \/ \E a \in Agents, t \in {"ACTIVE", "DISABLED", "RETIRED"} : TransitionAgentRegistration(a, t)
    \/ \E t \in DOMAIN tokens : RevokeEnrollmentToken(t)
    \/ \E c \in DOMAIN creds : RevokeAgentCredential(c)

-----------------------------------------------------------------------------
(* Enrollment: a device presents token t under the Idempotency-Key k         *)

Call(i, s) == [att |-> i, s |-> s]
InFlight(i) == attempts[i].state = "ISSUING"
PriorEnroll(t, k) == {i \in DOMAIN attempts : attempts[i].op = "ENROLL" /\ attempts[i].token = t /\ attempts[i].key = k}

(* A repeated identity: the finished attempt is read again, an abandoned one *)
(* is leased again, one that is being worked on answers busy.  (A key used   *)
(* before with another token or CSR is a conflict, which changes nothing.)   *)
ResumeEnrollment(t, i) ==
    \/ /\ attempts[i].state = "ISSUED"
       /\ held' = held \cup {attempts[i].cred}
       /\ UNCHANGED <<attempts, calls>>
    \/ /\ InFlight(i) /\ tokens[t].status # "REVOKED" /\ ~attempts[i].leased
       /\ attempts' = [attempts EXCEPT ![i].leased = TRUE]
       /\ calls' = calls \cup {Call(i, "none")}
       /\ UNCHANGED held

NewEnrollment(t, k) ==
    /\ tokens[t].status = "ISSUED" /\ tokens[t].live
    /\ ~\E i \in DOMAIN attempts : attempts[i].op = "ENROLL" /\ attempts[i].token = t /\ InFlight(i)
    /\ Len(attempts) < MaxIssuances
    /\ attempts' = Append(attempts, [op |-> "ENROLL", agent |-> tokens[t].agent, token |-> t, key |-> k,
                                     state |-> "ISSUING", leased |-> TRUE, cred |-> 0])
    /\ calls' = calls \cup {Call(Len(attempts) + 1, "none")}
    /\ UNCHANGED held

ReserveEnrollment(t, k) ==
    /\ LET prior == PriorEnroll(t, k)
       IN  IF prior # {} THEN \E i \in prior : ResumeEnrollment(t, i) ELSE NewEnrollment(t, k)
    /\ UNCHANGED <<reg, assetOver, tokens, creds, sess, req, receipts, effects, wanted>>

(* What every transaction of an agent request checks first.                  *)
Current(s) ==
    LET c == sess[s].cred
    IN  /\ c # 0 /\ ~sess[s].ended /\ ~assetOver
        /\ reg[creds[c].agent] = "ACTIVE"
        /\ Active(c) /\ creds[c].life # "OVER" /\ creds[c].overlap # "OVER"

(* The issuer fails and the lease is given back.                             *)
IssuerFails(k) ==
    /\ calls' = calls \ {k}
    /\ attempts' = [attempts EXCEPT ![k.att].leased = FALSE]
    /\ UNCHANGED <<reg, assetOver, tokens, creds, sess, req, held, receipts, effects, wanted>>

NewCredential(a) == [agent |-> a, status |-> "ACTIVE", life |-> "FRESH", next |-> 0, overlap |-> "NONE"]

(* Fault: the final transaction trusts the checks of the reservation.        *)
MayEnrollUnchecked(i) == InFlight(i) /\ tokens[attempts[i].token].status = "ISSUED"

MayEnroll(i) ==
    LET t == attempts[i].token
        a == attempts[i].agent
    IN  /\ InFlight(i)
        /\ tokens[t].status = "ISSUED" /\ tokens[t].live
        /\ reg[a] = "ACTIVE" /\ ~assetOver
        /\ \A c \in CredsOf(a) : ~Usable(c)

(* The answer reaches the device or is lost.                                 *)
Answer(c) == held' \in {held, held \cup {c}}

FinishEnrollment(k) ==
    LET i == k.att
        new == Len(creds) + 1
    IN  /\ attempts[i].op = "ENROLL"
        /\ calls' = calls \ {k}
        /\ \/ /\ attempts[i].state = "ISSUED" /\ Answer(attempts[i].cred)
              /\ UNCHANGED <<creds, tokens, attempts>>
           \/ /\ MayEnroll(i) /\ Len(creds) < MaxCreds
              /\ creds' = Append(creds, NewCredential(attempts[i].agent))
              /\ tokens' = [tokens EXCEPT ![attempts[i].token].status = "CONSUMED"]
              /\ attempts' = [attempts EXCEPT ![i].state = "ISSUED", ![i].leased = FALSE, ![i].cred = new]
              /\ Answer(new)
           \/ /\ attempts[i].state # "ISSUED" /\ ~MayEnroll(i)
              /\ UNCHANGED <<creds, tokens, attempts, held>>
        /\ UNCHANGED <<reg, assetOver, sess, req, receipts, effects, wanted>>

-----------------------------------------------------------------------------
(* Requests of an enrolled agent                                             *)

Admitted(c) == Active(c) /\ reg[creds[c].agent] = "ACTIVE"

(* A request over socket s with the certificate of c.  A replaced or expired *)
(* credential is marked on the way out; success opens the session or finds   *)
(* it open, and leaves the request to be served by a later transaction.      *)
Authenticate(s, c, what) ==
    /\ req[s] = "none" /\ c \in held /\ sess[s].cred \in {0, c}
    /\ Admitted(c)
    /\ \/ /\ creds[c].overlap = "OVER"
          /\ creds' = [creds EXCEPT ![c].status = "REPLACED", ![c].overlap = "NONE"]
          /\ UNCHANGED <<sess, req>>
       \/ /\ creds[c].overlap # "OVER" /\ ~assetOver /\ creds[c].life = "OVER" /\ MayLeaveActive(c)
          /\ creds' = [creds EXCEPT ![c].status = "EXPIRED"]
          /\ UNCHANGED <<sess, req>>
       \/ /\ creds[c].overlap # "OVER" /\ ~assetOver /\ creds[c].life # "OVER" /\ ~sess[s].ended
          /\ sess' = [sess EXCEPT ![s].cred = c]
          /\ req' = [req EXCEPT ![s] = what]
          /\ UNCHANGED creds
    /\ UNCHANGED <<reg, assetOver, tokens, attempts, calls, held, receipts, effects, wanted>>

(* Fault: the transaction of the message trusts the authentication.          *)
CurrentAtAuthentication(s) == sess[s].cred # 0

ServedPrincipal(s) == Current(s)

MessageEffect(s) == effects' = [effects EXCEPT ![s] = @ + 1]

(* The receipt (session, message) is inserted with the effects and answers a *)
(* repetition.                                                               *)
ProcessAgentMessage(s) ==
    IF s \in receipts THEN UNCHANGED <<receipts, effects>>
    ELSE receipts' = receipts \cup {s} /\ MessageEffect(s)

(* A heartbeat or an inventory report.                                       *)
ServeMessage(s) ==
    /\ req[s] = "message"
    /\ IF ServedPrincipal(s) THEN ProcessAgentMessage(s) ELSE UNCHANGED <<receipts, effects>>
    /\ req' = [req EXCEPT ![s] = "none"]
    /\ UNCHANGED <<reg, assetOver, tokens, creds, attempts, sess, calls, held, wanted>>

(* The first transaction of a rotation: overlaps that have run out become    *)
(* REPLACED, the credential must be due and without successor, no other one  *)
(* valid.  The identity of the request is its session: an unfinished attempt *)
(* of another session answers busy.  (No rotation reads the lease of one.)   *)
Retire(a) == [c \in DOMAIN creds |->
                IF creds[c].agent = a /\ Active(c) /\ creds[c].overlap = "OVER"
                THEN [creds[c] EXCEPT !.status = "REPLACED", !.overlap = "NONE"] ELSE creds[c]]

MayRotate(s) ==
    LET c == sess[s].cred
    IN  /\ Current(s) /\ creds[c].next = 0 /\ creds[c].life = "DUE"
        /\ \A d \in CredsOf(creds[c].agent) \ {c} : ~Usable(d)

RotationsInFlight(a) == {i \in DOMAIN attempts : attempts[i].op = "ROTATE" /\ attempts[i].agent = a /\ InFlight(i)}

ReserveRotation(s) ==
    /\ req[s] = "rotate"
    /\ req' = [req EXCEPT ![s] = "none"]
    /\ LET a == creds[sess[s].cred].agent
           busy == RotationsInFlight(a)
       IN  \/ /\ MayRotate(s) /\ busy = {} /\ Len(attempts) < MaxIssuances
              /\ attempts' = Append(attempts, [op |-> "ROTATE", agent |-> a, token |-> 0, key |-> s,
                                               state |-> "ISSUING", leased |-> FALSE, cred |-> 0])
              /\ calls' = calls \cup {Call(Len(attempts) + 1, s)}
              /\ creds' = Retire(a)
           \/ /\ MayRotate(s) /\ \E i \in busy : busy = {i} /\ attempts[i].key = s
              /\ \E i \in busy : calls' = calls \cup {Call(i, s)}
              /\ creds' = Retire(a) /\ UNCHANGED attempts
           \/ /\ ~MayRotate(s) \/ \E i \in busy : attempts[i].key # s
              /\ UNCHANGED <<attempts, calls, creds>>
    /\ UNCHANGED <<reg, assetOver, tokens, sess, held, receipts, effects, wanted>>

(* The last one.  The expiry is compared with the time of the request, so    *)
(* that only the check of the principal bounds it.                           *)
MayFinishRotation(s) == Current(s) /\ creds[sess[s].cred].next = 0

FinishRotation(k) ==
    LET i == k.att
        c == sess[k.s].cred
        new == Len(creds) + 1
    IN  /\ attempts[i].op = "ROTATE"
        /\ calls' = calls \ {k}
        /\ \/ /\ InFlight(i) /\ MayFinishRotation(k.s) /\ Len(creds) < MaxCreds
              /\ creds' = Append([creds EXCEPT ![c].next = new, ![c].overlap = "OPEN"],
                                 NewCredential(creds[c].agent))
              /\ attempts' = [attempts EXCEPT ![i].state = "ISSUED", ![i].cred = new]
              /\ Answer(new)
           \/ /\ ~(InFlight(i) /\ MayFinishRotation(k.s))
              /\ UNCHANGED <<creds, attempts, held>>
        /\ UNCHANGED <<reg, assetOver, tokens, sess, req, receipts, effects, wanted>>

(* The socket closes and its session is ended: what is still running for it  *)
(* finds the session ended and changes nothing, and the next connection is a *)
(* new session, which no receipt and no rotation identity belongs to.        *)
CloseSocket(s) ==
    /\ sess[s].cred # 0
    /\ sess' = [sess EXCEPT ![s] = NewSession]
    /\ req' = [req EXCEPT ![s] = "none"]
    /\ calls' = {k \in calls : k.s # s}
    /\ attempts' = [i \in DOMAIN attempts |->
                      IF attempts[i].key = s THEN [attempts[i] EXCEPT !.key = "gone"] ELSE attempts[i]]
    /\ receipts' = receipts \ {s} /\ effects' = [effects EXCEPT ![s] = 0]
    /\ UNCHANGED <<reg, assetOver, tokens, creds, held, wanted>>

AgentRequests == \E s \in Sockets, c \in DOMAIN creds, what \in {"message", "rotate"} : Authenticate(s, c, what)

GatewayRoutes ==
    \/ \E t \in DOMAIN tokens, k \in EnrollKeys : ReserveEnrollment(t, k)
    \/ \E k \in calls : IssuerFails(k) \/ FinishEnrollment(k) \/ FinishRotation(k)
    \/ AgentRequests
    \/ \E s \in Sockets : ServeMessage(s) \/ ReserveRotation(s) \/ CloseSocket(s)

-----------------------------------------------------------------------------
(* Time, and faults                                                          *)

(* The process of a request dies, or loses the database, before it finishes. *)
RequestDies(k) ==
    /\ calls' = calls \ {k}
    /\ UNCHANGED <<reg, assetOver, tokens, creds, attempts, sess, req, held, receipts, effects, wanted>>

Later(life) == CASE life = "FRESH" -> "DUE" [] life = "DUE" -> "GRACE" [] OTHER -> "OVER"

TimePasses ==
    /\ \/ /\ \E t \in DOMAIN tokens : tokens[t].status = "ISSUED" /\ tokens[t].live /\ tokens' = [tokens EXCEPT ![t].live = FALSE]
          /\ UNCHANGED <<creds, attempts, assetOver>>
       \/ /\ \E c \in DOMAIN creds : /\ Active(c) /\ creds[c].life # "OVER"
                                     /\ creds' = [creds EXCEPT ![c].life = Later(@)]
          /\ UNCHANGED <<tokens, attempts, assetOver>>
       \/ /\ \E c \in DOMAIN creds : creds[c].overlap = "OPEN" /\ creds' = [creds EXCEPT ![c].overlap = "OVER"]
          /\ UNCHANGED <<tokens, attempts, assetOver>>
       \/ /\ \E i \in DOMAIN attempts : attempts[i].leased /\ attempts' = [attempts EXCEPT ![i].leased = FALSE]
          /\ UNCHANGED <<tokens, creds, assetOver>>
       \/ ~assetOver /\ assetOver' = TRUE /\ UNCHANGED <<tokens, creds, attempts>>
    /\ UNCHANGED <<reg, sess, req, calls, held, receipts, effects, wanted>>

FleetNext == RegistrationRoutes \/ GatewayRoutes \/ TimePasses \/ \E k \in calls : RequestDies(k)

FleetSpec == FleetInit /\ [][FleetNext]_fleetVars

-----------------------------------------------------------------------------
(* Properties                                                                *)

FleetTypeOK ==
    /\ reg \in [Agents -> {"NONE", "ACTIVE", "DISABLED", "RETIRED"}] /\ assetOver \in BOOLEAN
    /\ \A t \in DOMAIN tokens : tokens[t].status \in {"ISSUED", "CONSUMED", "REVOKED"}
    /\ \A c \in DOMAIN creds : creds[c].status \in {"ACTIVE", "REVOKED", "EXPIRED", "REPLACED"}
    /\ \A i \in DOMAIN attempts : attempts[i].state \in {"ISSUING", "ISSUED"}
    /\ held \subseteq DOMAIN creds /\ wanted \subseteq DOMAIN creds

(* Two valid credentials are a predecessor in its overlap and its successor, *)
(* or the younger was rotated out of a credential within the grace after its *)
(* expiry while the older was enrolled.                                      *)
ValidPairs ==
    \A c, d \in DOMAIN creds :
      c < d /\ creds[c].agent = creds[d].agent /\ Usable(c) /\ Usable(d)
        => \/ creds[c].next = d
           \/ \E p \in DOMAIN creds : creds[p].next = d /\ creds[p].life \in {"GRACE", "OVER"}

AtMostTwoUsable == \A a \in Agents : Cardinality({c \in CredsOf(a) : Usable(c)}) <= 2

OneAttemptPerCredential ==
    \A c \in DOMAIN creds : Cardinality({i \in DOMAIN attempts : attempts[i].cred = c}) = 1

OneCredentialPerToken ==
    \A t \in DOMAIN tokens :
      Cardinality({i \in DOMAIN attempts : attempts[i].token = t /\ attempts[i].state = "ISSUED"})
        = IF tokens[t].status = "CONSUMED" THEN 1 ELSE 0

OneRegistrationPerAsset == Cardinality({a \in Agents : reg[a] = "ACTIVE"}) <= 1

(* Whatever requests race, retry, outlive their token or die between the     *)
(* reservation of an attempt and its last transaction (enrollment.ts,        *)
(* credentials.ts): an enrollment token yields at most one credential and a  *)
(* credential belongs to one attempt, a registration never has more than two *)
(* valid credentials, an asset one active registration.                      *)
CredentialsAreAccounted ==
    FleetTypeOK /\ ValidPairs /\ AtMostTwoUsable /\ OneAttemptPerCredential /\ OneCredentialPerToken /\ OneRegistrationPerAsset

(* A revoked credential and a registration that is not ACTIVE have no open   *)
(* session, also when the revocation races the authentication that opens one *)
(* (revokeAgentCredential, transitionAgentRegistration, authenticate).       *)
CutOffEndsSessions ==
    \A s \in Sockets : LET c == sess[s].cred
                       IN  c # 0 /\ (reg[creds[c].agent] # "ACTIVE" \/ creds[c].status = "REVOKED")
                             => sess[s].ended

(* A message takes effect once per session, and never for an agent that was  *)
(* cut off after the gateway authenticated it (assertCurrentAgentPrincipal,  *)
(* processAgentMessage).                                                     *)
NoEffectAfterCutOff ==
    [][\A s \in Sockets : effects'[s] > effects[s] =>
          LET c == creds[sess[s].cred]
          IN  effects'[s] = 1 /\ c.status = "ACTIVE" /\ reg[c.agent] = "ACTIVE" /\ ~assetOver /\ ~sess[s].ended]_fleetVars

(* "revoke the credential immediately [...] deny every later                 *)
(* request/message" (RELEASE-002-R1 contract, section 6): once an operator   *)
(* revoked a credential no message of it takes effect.                       *)
RevocationIsImmediate ==
    [][\A s \in Sockets : effects'[s] > effects[s] => sess[s].cred \notin wanted]_fleetVars
=============================================================================
