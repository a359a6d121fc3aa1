---------------------------- MODULE Idempotency ----------------------------
(***************************************************************************)
(* PostgresIdempotencyStore (packages/messaging/src/idempotency.ts) inside *)
(* PostgresUnitOfWork.run (packages/persistence/src/index.ts).             *)
(*                                                                         *)
(* A request is one HTTP attempt: a client that retries after a lost answer *)
(* is another member of Requests with the same key.  The tuple (tenant,    *)
(* principal, operation, business scope, key) is one member of Keys, the   *)
(* canonical request hash is BodyOf, and the 64-bit value the key is hashed *)
(* to for the advisory lock is SlotOf, which need not be injective.        *)
(* The transaction is READ COMMITTED: a statement sees committed rows, and *)
(* an uncommitted INSERT of the same unique key blocks the second writer.  *)
(***************************************************************************)
EXTENDS Naturals, FiniteSets

CONSTANTS Requests, Keys, Bodies, Slots, KeyOf, BodyOf, SlotOf, None

ASSUME MapAssumption ==
    /\ KeyOf \in [Requests -> Keys]
    /\ BodyOf \in [Requests -> Bodies]
    /\ SlotOf \in [Keys -> Slots]
ASSUME NoneAssumption == None \notin Requests

VARIABLES
    records,  \* committed platform.idempotency_records, per key
    drafts,   \* the row a transaction has inserted and not committed
    locks,    \* holder of each advisory lock
    expired,  \* keys whose expires_at has passed
    effects,  \* requests whose work() is committed
    pc,       \* where a request stands
    answer    \* what its caller got

vars == <<records, drafts, locks, expired, effects, pc, answer>>

NoRow == [state |-> "ABSENT", body |-> None, by |-> None]
Rows == [state : {"ABSENT", "IN_PROGRESS", "SUCCEEDED"},
         body : Bodies \cup {None}, by : Requests \cup {None}]

Waiting == [kind |-> "none", by |-> None]
Ok(s) == [kind |-> "ok", by |-> s]
Error(code) == [kind |-> code, by |-> None]
Lost == [kind |-> "lost", by |-> None]

Codes == {"none", "ok", "lost", "KEY_CONFLICT", "IN_PROGRESS", "WORK_FAILED",
          "UNIQUE_VIOLATION"}
Stages == {"new", "looked", "open", "locked", "absent", "inserted", "worked",
           "marked", "replay", "failing", "done"}
InTransaction == {"open", "locked", "absent", "inserted", "worked", "marked",
                  "replay", "failing"}

Init ==
    /\ records = [k \in Keys |-> NoRow]
    /\ drafts = [r \in Requests |-> NoRow]
    /\ locks = [s \in Slots |-> None]
    /\ expired = {}
    /\ effects = {}
    /\ pc = [r \in Requests |-> "new"]
    /\ answer = [r \in Requests |-> Waiting]

(* Fault: the hash of the stored request is not compared. *)
VerdictIgnoringBody(r) ==
    LET k == KeyOf[r] IN
    IF k \in expired THEN Error("KEY_CONFLICT")
    ELSE IF records[k].state = "SUCCEEDED" THEN Ok(records[k].by)
    ELSE Error("IN_PROGRESS")

(* What a caller is told about an existing row; the tests are in this order. *)
Verdict(r) ==
    LET k == KeyOf[r] IN
    IF k \in expired \/ records[k].body # BodyOf[r] THEN Error("KEY_CONFLICT")
    ELSE IF records[k].state = "SUCCEEDED" THEN Ok(records[k].by)
    ELSE Error("IN_PROGRESS")

(* findPrevious: the routes that do slow work before their transaction look  *)
(* first, in a transaction of its own and with no lock.                      *)
FindPrevious(r) ==
    /\ pc[r] = "new"
    /\ IF records[KeyOf[r]] = NoRow
       THEN /\ pc' = [pc EXCEPT ![r] = "looked"]
            /\ UNCHANGED answer
       ELSE /\ pc' = [pc EXCEPT ![r] = "done"]
            /\ answer' = [answer EXCEPT ![r] = Verdict(r)]
    /\ UNCHANGED <<records, drafts, locks, expired, effects>>

(* PostgresUnitOfWork.run: BEGIN. *)
Begin(r) ==
    /\ pc[r] \in {"new", "looked"}
    /\ pc' = [pc EXCEPT ![r] = "open"]
    /\ UNCHANGED <<records, drafts, locks, expired, effects, answer>>

(* pg_try_advisory_xact_lock on the hash of the scope; it never waits. *)
TryLock(r) ==
    LET s == SlotOf[KeyOf[r]] IN
    /\ pc[r] = "open"
    /\ IF locks[s] = None
       THEN /\ locks' = [locks EXCEPT ![s] = r]
            /\ pc' = [pc EXCEPT ![r] = "locked"]
            /\ UNCHANGED answer
       ELSE /\ pc' = [pc EXCEPT ![r] = "failing"]
            /\ answer' = [answer EXCEPT ![r] = Error("IN_PROGRESS")]
            /\ UNCHANGED locks
    /\ UNCHANGED <<records, drafts, expired, effects>>

(* The SELECT of execute and the tests on the row it returns. *)
ReadRecord(r) ==
    /\ pc[r] = "locked"
    /\ IF records[KeyOf[r]] = NoRow
       THEN /\ pc' = [pc EXCEPT ![r] = "absent"]
            /\ UNCHANGED answer
       ELSE /\ answer' = [answer EXCEPT ![r] = Verdict(r)]
            /\ pc' = [pc EXCEPT ![r] = IF Verdict(r).kind = "ok"
                                       THEN "replay" ELSE "failing"]
    /\ UNCHANGED <<records, drafts, locks, expired, effects>>

(* The INSERT of the IN_PROGRESS row, under the UNIQUE constraint: it waits  *)
(* for an uncommitted row of the same key and fails on a committed one.      *)
InsertRecord(r) ==
    /\ pc[r] = "absent"
    /\ \A q \in Requests : KeyOf[q] = KeyOf[r] => drafts[q] = NoRow
    /\ IF records[KeyOf[r]] = NoRow
       THEN /\ drafts' = [drafts EXCEPT ![r] =
                   [state |-> "IN_PROGRESS", body |-> BodyOf[r], by |-> None]]
            /\ pc' = [pc EXCEPT ![r] = "inserted"]
            /\ UNCHANGED answer
       ELSE /\ pc' = [pc EXCEPT ![r] = "failing"]
            /\ answer' = [answer EXCEPT ![r] = Error("UNIQUE_VIOLATION")]
            /\ UNCHANGED drafts
    /\ UNCHANGED <<records, locks, expired, effects>>

(* Fault: work() runs on a connection of its own and commits by itself. *)
WorkOutsideTransaction(r) ==
    /\ pc[r] = "inserted"
    /\ pc' = [pc EXCEPT ![r] = "worked"]
    /\ effects' = effects \cup {r}
    /\ UNCHANGED <<records, drafts, locks, expired, answer>>

(* work(): the domain command, whose writes are in the same transaction and  *)
(* are not visible until it commits.                                         *)
Work(r) ==
    /\ pc[r] = "inserted"
    /\ \/ /\ pc' = [pc EXCEPT ![r] = "worked"]
          /\ UNCHANGED answer
       \/ /\ pc' = [pc EXCEPT ![r] = "failing"]
          /\ answer' = [answer EXCEPT ![r] = Error("WORK_FAILED")]
    /\ UNCHANGED <<records, drafts, locks, expired, effects>>

(* Fault: the answer is not stored with the row. *)
MarkSucceededLater(r) ==
    /\ pc[r] = "worked"
    /\ pc' = [pc EXCEPT ![r] = "marked"]
    /\ UNCHANGED <<records, drafts, locks, expired, effects, answer>>

(* The UPDATE that stores the answer with the row. *)
MarkSucceeded(r) ==
    /\ pc[r] = "worked"
    /\ drafts' = [drafts EXCEPT ![r].state = "SUCCEEDED", ![r].by = r]
    /\ pc' = [pc EXCEPT ![r] = "marked"]
    /\ UNCHANGED <<records, locks, expired, effects, answer>>

(* Fault: a failing request unlocks everything its session pool holds. *)
ReleasedAll(r) == [s \in Slots |-> IF r \in Requests THEN None ELSE locks[s]]

Released(r) == [s \in Slots |-> IF locks[s] = r THEN None ELSE locks[s]]

(* Fault: a replayed answer leaves its transaction open. *)
CommitOnlyWrites(r) ==
    /\ pc[r] = "marked"
    /\ records' = [records EXCEPT ![KeyOf[r]] = drafts[r]]
    /\ effects' = effects \cup {r}
    /\ answer' = [answer EXCEPT ![r] = Ok(r)]
    /\ drafts' = [drafts EXCEPT ![r] = NoRow]
    /\ locks' = Released(r)
    /\ pc' = [pc EXCEPT ![r] = "done"]
    /\ UNCHANGED expired

(* COMMIT: the row and the effects of work() appear together and the lock is *)
(* released.  The connection can fail before the caller hears of it.         *)
Commit(r) ==
    /\ pc[r] \in {"marked", "replay"}
    /\ IF pc[r] = "marked"
       THEN /\ records' = [records EXCEPT ![KeyOf[r]] = drafts[r]]
            /\ effects' = effects \cup {r}
            /\ \E a \in {Ok(r), Lost} : answer' = [answer EXCEPT ![r] = a]
       ELSE UNCHANGED <<records, effects, answer>>
    /\ drafts' = [drafts EXCEPT ![r] = NoRow]
    /\ locks' = Released(r)
    /\ pc' = [pc EXCEPT ![r] = "done"]
    /\ UNCHANGED expired

(* ROLLBACK after an error. *)
Rollback(r) ==
    /\ pc[r] = "failing"
    /\ drafts' = [drafts EXCEPT ![r] = NoRow]
    /\ locks' = Released(r)
    /\ pc' = [pc EXCEPT ![r] = "done"]
    /\ UNCHANGED <<records, expired, effects, answer>>

(* The process or its connection dies: PostgreSQL rolls the transaction back *)
(* and the caller gets no answer.                                            *)
Crash(r) ==
    /\ pc[r] \in InTransaction
    /\ drafts' = [drafts EXCEPT ![r] = NoRow]
    /\ locks' = Released(r)
    /\ pc' = [pc EXCEPT ![r] = "done"]
    /\ answer' = [answer EXCEPT ![r] = Lost]
    /\ UNCHANGED <<records, expired, effects>>

(* The 24 hours of a committed row pass. *)
Expire(k) ==
    /\ records[k] # NoRow
    /\ k \notin expired
    /\ expired' = expired \cup {k}
    /\ UNCHANGED <<records, drafts, locks, effects, pc, answer>>

Step(r) ==
    \/ FindPrevious(r) \/ Begin(r) \/ TryLock(r) \/ ReadRecord(r)
    \/ InsertRecord(r) \/ Work(r) \/ MarkSucceeded(r) \/ Commit(r)
    \/ Rollback(r)

Next ==
    \/ \E r \in Requests : Step(r) \/ Crash(r)
    \/ \E k \in Keys : Expire(k)

(* A request that has begun is driven to its end by its own process. *)
Fairness == \A r \in Requests : WF_vars(Step(r))

Spec == Init /\ [][Next]_vars
FairSpec == Spec /\ Fairness
-----------------------------------------------------------------------------
TypeOK ==
    /\ records \in [Keys -> Rows]
    /\ drafts \in [Requests -> Rows]
    /\ locks \in [Slots -> Requests \cup {None}]
    /\ expired \subseteq Keys
    /\ effects \subseteq Requests
    /\ pc \in [Requests -> Stages]
    /\ answer \in [Requests -> [kind : Codes, by : Requests \cup {None}]]

(* The command behind a key takes effect at most once, whatever is retried,  *)
(* lost or crashed between the steps of execute.                             *)
EffectAtMostOnce ==
    \A q, r \in effects : KeyOf[q] = KeyOf[r] => q = r

(* A success handed to any caller, the first or a replay, is the answer of a *)
(* request whose work is committed, for the same key and the same body.      *)
AnswersAreOfCommittedWork ==
    \A r \in Requests :
        pc[r] = "done" /\ answer[r].kind = "ok" =>
            /\ answer[r].by \in effects
            /\ KeyOf[answer[r].by] = KeyOf[r]
            /\ BodyOf[answer[r].by] = BodyOf[r]

(* A row is visible only with the answer of the request whose effects were   *)
(* committed with it: "Original operation requires reconciliation" is a      *)
(* branch the code can never reach through this store.                       *)
RowsAreComplete ==
    \A k \in Keys : records[k] # NoRow =>
        /\ records[k].state = "SUCCEEDED"
        /\ records[k].by \in effects
        /\ KeyOf[records[k].by] = k

(* The advisory lock keeps concurrent requests off the UNIQUE constraint:    *)
(* nobody is answered with a raw constraint error.                           *)
NoUniqueViolation ==
    \A r \in Requests : answer[r].kind # "UNIQUE_VIOLATION"

(* A committed row never changes again: expiry does not let a key be reused. *)
RecordsAreFinal ==
    [][\A k \in Keys : records[k] # NoRow => records'[k] = records[k]]_vars

(* No request waits for another one: each is answered or lost. *)
EveryRequestEnds == \A r \in Requests : <>(pc[r] = "done")
-----------------------------------------------------------------------------
(* The strengthening the proofs use. *)

(* Whoever is past the lock holds it. *)
HoldsLock ==
    \A r \in Requests :
        pc[r] \in {"locked", "absent", "inserted", "worked", "marked", "replay"} =>
            locks[SlotOf[KeyOf[r]]] = r

(* Whoever has seen no row still sees none. *)
StillAbsent ==
    \A r \in Requests :
        pc[r] \in {"absent", "inserted", "worked", "marked"} =>
            records[KeyOf[r]] = NoRow

(* The private row of a transaction, stage by stage. *)
DraftsMatchStage ==
    \A r \in Requests :
        /\ pc[r] = "marked" =>
              drafts[r] = [state |-> "SUCCEEDED", body |-> BodyOf[r], by |-> r]
        /\ pc[r] \in {"inserted", "worked"} =>
              drafts[r] = [state |-> "IN_PROGRESS", body |-> BodyOf[r], by |-> None]
        /\ pc[r] \notin {"inserted", "worked", "marked", "failing"} =>
              drafts[r] = NoRow

(* Effects are those of the committed rows, and only finished requests have  *)
(* any.                                                                      *)
EffectsAreRecorded ==
    \A r \in effects :
        /\ pc[r] = "done"
        /\ answer[r] \in {Ok(r), Lost}
        /\ records[KeyOf[r]] = [state |-> "SUCCEEDED", body |-> BodyOf[r], by |-> r]

(* An answer given before the end of the transaction is already right. *)
AnswersMatch ==
    \A r \in Requests :
        /\ answer[r].kind = "ok" =>
            /\ answer[r].by \in effects
            /\ KeyOf[answer[r].by] = KeyOf[r]
            /\ BodyOf[answer[r].by] = BodyOf[r]
        /\ pc[r] \notin {"failing", "replay", "done"} => answer[r] = Waiting

(* What a transaction about to end will tell its caller. *)
EndingsMatch ==
    \A r \in Requests :
        /\ pc[r] = "failing" =>
              answer[r] \in {Error("KEY_CONFLICT"), Error("IN_PROGRESS"),
                             Error("WORK_FAILED")}
        /\ pc[r] = "replay" =>
              /\ records[KeyOf[r]] # NoRow
              /\ answer[r] = Ok(records[KeyOf[r]].by)

IInv ==
    /\ TypeOK
    /\ HoldsLock
    /\ StillAbsent
    /\ DraftsMatchStage
    /\ RowsAreComplete
    /\ EffectsAreRecorded
    /\ AnswersMatch
    /\ EndingsMatch
    /\ NoUniqueViolation
=============================================================================
