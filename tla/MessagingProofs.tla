-------------------------- MODULE MessagingProofs --------------------------
(***************************************************************************)
(* Proofs about the idempotency store, for any number of requests, keys    *)
(* and advisory-lock slots, colliding slots included; and about the inbox, *)
(* for any number of hosts, events, poison events and any batch limit.     *)
(***************************************************************************)
EXTENDS IdempotencyRefinement, EventInbox, WellFoundedInduction, FiniteSetTheorems, TLAPS

-----------------------------------------------------------------------------
(* The idempotency store                                                     *)

USE MapAssumption, NoneAssumption

(* The rows that are ever written are rows.                                  *)
LEMMA RowTypes ==
    /\ NoRow \in Rows
    /\ \A r \in Requests :
          /\ [state |-> "IN_PROGRESS", body |-> BodyOf[r], by |-> None] \in Rows
          /\ [state |-> "SUCCEEDED", body |-> BodyOf[r], by |-> r] \in Rows
  BY DEF NoRow, Rows

(* The inductive invariant holds before the first request.                   *)
LEMMA InitIInv == Init => IInv
  BY RowTypes DEF Init, IInv, TypeOK, HoldsLock, StillAbsent, DraftsMatchStage,
     RowsAreComplete, EffectsAreRecorded, AnswersMatch, EndingsMatch,
       NoUniqueViolation,
     Waiting, Codes, Stages

(* The row of a request that took effect. *)
LEMMA EffectRow ==
    ASSUME EffectsAreRecorded, NEW q \in effects
    PROVE  /\ pc[q] = "done"
           /\ records[KeyOf[q]].state = "SUCCEEDED"
           /\ records[KeyOf[q]].body = BodyOf[q]
           /\ records[KeyOf[q]].by = q
  <1>1. /\ records[KeyOf[q]] = [state |-> "SUCCEEDED", body |-> BodyOf[q], by |-> q]
        /\ pc[q] = "done"
    BY Zenon DEF EffectsAreRecorded
  <1> QED  BY <1>1

(* Verdict only repeats what the committed row says. *)
LEMMA VerdictIsSound ==
    ASSUME IInv, NEW r \in Requests, records[KeyOf[r]] # NoRow
    PROVE  /\ Verdict(r) \in [kind : Codes, by : Requests \cup {None}]
           /\ Verdict(r).kind \in {"ok", "KEY_CONFLICT"}
           /\ Verdict(r).kind # "ok" => Verdict(r) = Error("KEY_CONFLICT")
           /\ Verdict(r).kind = "ok" =>
                /\ Verdict(r) = Ok(records[KeyOf[r]].by)
                /\ Verdict(r).by \in effects
                /\ KeyOf[Verdict(r).by] = KeyOf[r]
                /\ BodyOf[Verdict(r).by] = BodyOf[r]
  <1>1. /\ records[KeyOf[r]].state = "SUCCEEDED"
        /\ records[KeyOf[r]].by \in effects
        /\ KeyOf[records[KeyOf[r]].by] = KeyOf[r]
    BY DEF IInv, RowsAreComplete
  <1> DEFINE w == records[KeyOf[r]].by
  <1>3. records[KeyOf[r]].body = BodyOf[w]
    BY <1>1, EffectRow DEF IInv
  <1>4. w \in Requests
    BY <1>1 DEF IInv, TypeOK
  <1> QED  BY <1>1, <1>3, <1>4 DEF Verdict, Error, Ok, Codes

(* One step of any request, by the action it takes; the conjuncts follow the *)
(* order of IInv.                                                            *)
LEMMA NextIInv == IInv /\ [Next]_vars => IInv'
  <1> SUFFICES ASSUME IInv, [Next]_vars PROVE IInv'
    OBVIOUS
  <1> USE DEF IInv
  <1>1. ASSUME NEW r \in Requests, FindPrevious(r) PROVE IInv'
    <2>1. TypeOK'  BY <1>1, VerdictIsSound, RowTypes DEF FindPrevious, TypeOK, Codes, Stages, Waiting, Ok, Error, Lost
    <2>2. HoldsLock'  BY <1>1, VerdictIsSound, RowTypes DEF FindPrevious, HoldsLock, TypeOK
    <2>3. StillAbsent'  BY <1>1, VerdictIsSound, RowTypes DEF FindPrevious, StillAbsent, TypeOK
    <2>4. DraftsMatchStage'  BY <1>1, VerdictIsSound, RowTypes DEF FindPrevious, DraftsMatchStage, TypeOK
    <2>5. RowsAreComplete'  BY <1>1, VerdictIsSound, RowTypes DEF FindPrevious, RowsAreComplete, TypeOK
    <2>6. EffectsAreRecorded'  BY <1>1, VerdictIsSound, RowTypes DEF FindPrevious, EffectsAreRecorded, Ok, Lost, TypeOK
    <2>7. AnswersMatch'  BY <1>1, VerdictIsSound, RowTypes DEF FindPrevious, AnswersMatch, Ok, Error, Lost, Waiting, TypeOK
    <2>8. NoUniqueViolation'  BY <1>1, VerdictIsSound, RowTypes DEF FindPrevious, NoUniqueViolation, Ok, Error, Lost, TypeOK
    <2>9. EndingsMatch'  BY <1>1, VerdictIsSound, RowTypes DEF FindPrevious, EndingsMatch, Ok, Error, Lost, TypeOK
    <2> QED  BY <2>1, <2>2, <2>3, <2>4, <2>5, <2>6, <2>7, <2>8, <2>9
  <1>2. ASSUME NEW r \in Requests, Begin(r) PROVE IInv'
    <2>1. TypeOK'  BY <1>2, RowTypes DEF Begin, TypeOK, Codes, Stages, Waiting, Ok, Error, Lost
    <2>2. HoldsLock'  BY <1>2, RowTypes DEF Begin, HoldsLock, TypeOK
    <2>3. StillAbsent'  BY <1>2, RowTypes DEF Begin, StillAbsent, TypeOK
    <2>4. DraftsMatchStage'  BY <1>2, RowTypes DEF Begin, DraftsMatchStage, TypeOK
    <2>5. RowsAreComplete'  BY <1>2, RowTypes DEF Begin, RowsAreComplete, TypeOK
    <2>6. EffectsAreRecorded'  BY <1>2, RowTypes DEF Begin, EffectsAreRecorded, Ok, Lost, TypeOK
    <2>7. AnswersMatch'  BY <1>2, RowTypes DEF Begin, AnswersMatch, Ok, Error, Lost, Waiting, TypeOK
    <2>8. NoUniqueViolation'  BY <1>2, RowTypes DEF Begin, NoUniqueViolation, Ok, Error, Lost, TypeOK
    <2>9. EndingsMatch'  BY <1>2, RowTypes DEF Begin, EndingsMatch, Ok, Error, Lost, TypeOK
    <2> QED  BY <2>1, <2>2, <2>3, <2>4, <2>5, <2>6, <2>7, <2>8, <2>9
  <1>3. ASSUME NEW r \in Requests, TryLock(r) PROVE IInv'
    <2>1. TypeOK'
      <3>1. CASE locks[SlotOf[KeyOf[r]]] = None
        BY <1>3, <3>1 DEF TryLock, TypeOK, Stages
      <3>2. CASE locks[SlotOf[KeyOf[r]]] # None
        BY <1>3, <3>2 DEF TryLock, TypeOK, Stages, Codes, Error
      <3> QED  BY <3>1, <3>2
    <2>2. HoldsLock'  BY <1>3, RowTypes DEF TryLock, HoldsLock, TypeOK
    <2>3. StillAbsent'  BY <1>3, RowTypes DEF TryLock, StillAbsent, TypeOK
    <2>4. DraftsMatchStage'  BY <1>3, RowTypes DEF TryLock, DraftsMatchStage, TypeOK
    <2>5. RowsAreComplete'  BY <1>3, RowTypes DEF TryLock, RowsAreComplete, TypeOK
    <2>6. EffectsAreRecorded'  BY <1>3, RowTypes DEF TryLock, EffectsAreRecorded, Ok, Lost, TypeOK
    <2>7. AnswersMatch'  BY <1>3, RowTypes DEF TryLock, AnswersMatch, Ok, Error, Lost, Waiting, TypeOK
    <2>8. NoUniqueViolation'  BY <1>3, RowTypes DEF TryLock, NoUniqueViolation, Ok, Error, Lost, TypeOK
    <2>9. EndingsMatch'  BY <1>3, RowTypes DEF TryLock, EndingsMatch, Ok, Error, Lost, TypeOK
    <2> QED  BY <2>1, <2>2, <2>3, <2>4, <2>5, <2>6, <2>7, <2>8, <2>9
  <1>4. ASSUME NEW r \in Requests, ReadRecord(r) PROVE IInv'
    <2>1. TypeOK'  BY <1>4, VerdictIsSound, RowTypes DEF ReadRecord, TypeOK, Codes, Stages, Waiting, Ok, Error, Lost
    <2>2. HoldsLock'  BY <1>4, VerdictIsSound, RowTypes DEF ReadRecord, HoldsLock, TypeOK
    <2>3. StillAbsent'  BY <1>4, VerdictIsSound, RowTypes DEF ReadRecord, StillAbsent, TypeOK
    <2>4. DraftsMatchStage'  BY <1>4, VerdictIsSound, RowTypes DEF ReadRecord, DraftsMatchStage, TypeOK
    <2>5. RowsAreComplete'  BY <1>4, VerdictIsSound, RowTypes DEF ReadRecord, RowsAreComplete, TypeOK
    <2>6. EffectsAreRecorded'  BY <1>4, VerdictIsSound, RowTypes DEF ReadRecord, EffectsAreRecorded, Ok, Lost, TypeOK
    <2>7. AnswersMatch'  BY <1>4, VerdictIsSound, RowTypes DEF ReadRecord, AnswersMatch, Ok, Error, Lost, Waiting, TypeOK
    <2>8. NoUniqueViolation'  BY <1>4, VerdictIsSound, RowTypes DEF ReadRecord, NoUniqueViolation, Ok, Error, Lost, TypeOK
    <2>9. EndingsMatch'  BY <1>4, VerdictIsSound, RowTypes DEF ReadRecord, EndingsMatch, Ok, Error, Lost, TypeOK
    <2> QED  BY <2>1, <2>2, <2>3, <2>4, <2>5, <2>6, <2>7, <2>8, <2>9
  <1>5. ASSUME NEW r \in Requests, InsertRecord(r) PROVE IInv'
    <2>0. records[KeyOf[r]] = NoRow
      BY <1>5 DEF InsertRecord, StillAbsent
    <2>1. TypeOK'
      <3>1. drafts' \in [Requests -> Rows]
        BY <1>5, <2>0, RowTypes DEF InsertRecord, TypeOK
      <3> QED  BY <1>5, <2>0, <3>1 DEF InsertRecord, TypeOK, Stages
    <2>2. HoldsLock'  BY <1>5, RowTypes DEF InsertRecord, HoldsLock, TypeOK
    <2>3. StillAbsent'  BY <1>5, RowTypes DEF InsertRecord, StillAbsent, TypeOK
    <2>4. DraftsMatchStage'  BY <1>5, RowTypes DEF InsertRecord, DraftsMatchStage, TypeOK
    <2>5. RowsAreComplete'  BY <1>5, RowTypes DEF InsertRecord, RowsAreComplete, TypeOK
    <2>6. EffectsAreRecorded'  BY <1>5, RowTypes DEF InsertRecord, EffectsAreRecorded, Ok, Lost, TypeOK
    <2>7. AnswersMatch'  BY <1>5, RowTypes DEF InsertRecord, AnswersMatch, Ok, Error, Lost, Waiting, TypeOK
    <2>8. NoUniqueViolation'  BY <1>5, <2>0, RowTypes DEF InsertRecord, NoUniqueViolation, Ok, Error, Lost, TypeOK
    <2>9. EndingsMatch'  BY <1>5, <2>0, RowTypes DEF InsertRecord, EndingsMatch, Ok, Error, Lost, TypeOK
    <2> QED  BY <2>1, <2>2, <2>3, <2>4, <2>5, <2>6, <2>7, <2>8, <2>9
  <1>6. ASSUME NEW r \in Requests, Work(r) PROVE IInv'
    <2>1. TypeOK'  BY <1>6, RowTypes DEF Work, TypeOK, Codes, Stages, Waiting, Ok, Error, Lost
    <2>2. HoldsLock'  BY <1>6, RowTypes DEF Work, HoldsLock, TypeOK
    <2>3. StillAbsent'  BY <1>6, RowTypes DEF Work, StillAbsent, TypeOK
    <2>4. DraftsMatchStage'  BY <1>6, RowTypes DEF Work, DraftsMatchStage, TypeOK
    <2>5. RowsAreComplete'  BY <1>6, RowTypes DEF Work, RowsAreComplete, TypeOK
    <2>6. EffectsAreRecorded'  BY <1>6, RowTypes DEF Work, EffectsAreRecorded, Ok, Lost, TypeOK
    <2>7. AnswersMatch'  BY <1>6, RowTypes DEF Work, AnswersMatch, Ok, Error, Lost, Waiting, TypeOK
    <2>8. NoUniqueViolation'  BY <1>6, RowTypes DEF Work, NoUniqueViolation, Ok, Error, Lost, TypeOK
    <2>9. EndingsMatch'  BY <1>6, RowTypes DEF Work, EndingsMatch, Ok, Error, Lost, TypeOK
    <2> QED  BY <2>1, <2>2, <2>3, <2>4, <2>5, <2>6, <2>7, <2>8, <2>9
  <1>7. ASSUME NEW r \in Requests, MarkSucceeded(r) PROVE IInv'
    <2>a. drafts'[r] = [state |-> "SUCCEEDED", body |-> BodyOf[r], by |-> r]
      BY <1>7 DEF MarkSucceeded, DraftsMatchStage, TypeOK
    <2>b. drafts' = [drafts EXCEPT ![r] = drafts'[r]]
      BY <1>7 DEF MarkSucceeded, TypeOK
    <2>c. drafts'[r] \in Rows
      BY <2>a, RowTypes
    <2>0. drafts' \in [Requests -> Rows]
      BY <2>b, <2>c DEF TypeOK
    <2>1. TypeOK'
      BY <1>7, <2>0 DEF MarkSucceeded, TypeOK, Stages
    <2>2. HoldsLock'  BY <1>7, RowTypes DEF MarkSucceeded, HoldsLock, TypeOK
    <2>3. StillAbsent'  BY <1>7, RowTypes DEF MarkSucceeded, StillAbsent, TypeOK
    <2>4. DraftsMatchStage'  BY <1>7, RowTypes DEF MarkSucceeded, DraftsMatchStage, TypeOK
    <2>5. RowsAreComplete'  BY <1>7, RowTypes DEF MarkSucceeded, RowsAreComplete, TypeOK
    <2>6. EffectsAreRecorded'  BY <1>7, RowTypes DEF MarkSucceeded, EffectsAreRecorded, Ok, Lost, TypeOK
    <2>7. AnswersMatch'  BY <1>7, RowTypes DEF MarkSucceeded, AnswersMatch, Ok, Error, Lost, Waiting, TypeOK
    <2>8. NoUniqueViolation'  BY <1>7, RowTypes DEF MarkSucceeded, NoUniqueViolation, Ok, Error, Lost, TypeOK
    <2>9. EndingsMatch'  BY <1>7, RowTypes DEF MarkSucceeded, EndingsMatch, Ok, Error, Lost, TypeOK
    <2> QED  BY <2>1, <2>2, <2>3, <2>4, <2>5, <2>6, <2>7, <2>8, <2>9
  <1>8. ASSUME NEW r \in Requests, Commit(r) PROVE IInv'
    <2>1. TypeOK'
      <3>1. records' \in [Keys -> Rows] /\ drafts' \in [Requests -> Rows]
        BY <1>8, RowTypes DEF Commit, TypeOK
      <3>2. locks' \in [Slots -> Requests \cup {None}]
        BY <1>8 DEF Commit, Released, TypeOK
      <3>3. answer' \in [Requests -> [kind : Codes, by : Requests \cup {None}]]
        BY <1>8 DEF Commit, TypeOK, Codes, Ok, Lost
      <3> QED  BY <1>8, <3>1, <3>2, <3>3 DEF Commit, TypeOK, Stages
    <2>2. HoldsLock'  BY <1>8, RowTypes DEF Commit, Released, InTransaction, HoldsLock, TypeOK
    <2>3. StillAbsent'
      <3> SUFFICES ASSUME NEW q \in Requests,
                          pc'[q] \in {"absent", "inserted", "worked", "marked"}
                   PROVE  records'[KeyOf[q]] = NoRow
        BY DEF StillAbsent
      <3>1. q # r /\ pc[q] = pc'[q]
        BY <1>8 DEF Commit, TypeOK
      <3>2. records[KeyOf[q]] = NoRow
        BY <3>1 DEF StillAbsent
      <3>3. pc[r] = "marked" => KeyOf[q] # KeyOf[r]
        BY <3>1 DEF HoldsLock
      <3> QED  BY <1>8, <3>2, <3>3 DEF Commit, TypeOK
    <2>4. DraftsMatchStage'  BY <1>8, RowTypes DEF Commit, Released, InTransaction, DraftsMatchStage, TypeOK
    <2>a. pc[r] = "marked" =>
             drafts[r] = [state |-> "SUCCEEDED", body |-> BodyOf[r], by |-> r]
      BY DEF DraftsMatchStage
    <2>5. RowsAreComplete'
      <3>1. CASE pc[r] = "marked"
        BY <1>8, <2>a, <3>1 DEF Commit, RowsAreComplete, TypeOK
      <3>2. CASE pc[r] = "replay"
        BY <1>8, <3>2 DEF Commit, RowsAreComplete
      <3> QED  BY <1>8, <3>1, <3>2 DEF Commit
    <2>6. EffectsAreRecorded'
      <3>1. CASE pc[r] = "marked"
        <4>1. records[KeyOf[r]] = NoRow
          BY <3>1 DEF StillAbsent
        <4>2. \A q \in effects : KeyOf[q] # KeyOf[r] /\ q # r
          <5> SUFFICES ASSUME NEW q \in effects PROVE KeyOf[q] # KeyOf[r] /\ q # r
            OBVIOUS
          <5>1. records[KeyOf[q]].state = "SUCCEEDED" /\ pc[q] = "done"
            BY EffectRow
          <5>2. NoRow.state = "ABSENT"
            BY DEF NoRow
          <5> QED  BY <3>1, <4>1, <5>1, <5>2
        <4>3. \A q \in effects : /\ pc'[q] = pc[q]
                                  /\ answer'[q] = answer[q]
                                  /\ records'[KeyOf[q]] = records[KeyOf[q]]
          <5> SUFFICES ASSUME NEW q \in effects
                       PROVE  /\ pc'[q] = pc[q]
                              /\ answer'[q] = answer[q]
                              /\ records'[KeyOf[q]] = records[KeyOf[q]]
            OBVIOUS
          <5>1. q \in Requests /\ KeyOf[q] \in Keys
            BY DEF TypeOK
          <5>2. PICK a \in {Ok(r), Lost} : answer' = [answer EXCEPT ![r] = a]
            BY <1>8, <3>1 DEF Commit
          <5>3. answer'[q] = answer[q]
            BY <4>2, <5>1, <5>2 DEF TypeOK
          <5> QED  BY <1>8, <3>1, <4>2, <5>1, <5>3 DEF Commit, TypeOK
        <4>4. /\ pc'[r] = "done"
              /\ answer'[r] \in {Ok(r), Lost}
              /\ records'[KeyOf[r]] = [state |-> "SUCCEEDED", body |-> BodyOf[r], by |-> r]
          BY <1>8, <2>a, <3>1 DEF Commit, TypeOK
        <4>5. effects' = effects \cup {r}
          BY <1>8, <3>1 DEF Commit
        <4> QED  BY <4>3, <4>4, <4>5 DEF EffectsAreRecorded
      <3>2. CASE pc[r] = "replay"
        BY <1>8, <3>2 DEF Commit, EffectsAreRecorded, TypeOK
      <3> QED  BY <1>8, <3>1, <3>2 DEF Commit
    <2>7. AnswersMatch'  BY <1>8, RowTypes DEF Commit, Released, InTransaction, AnswersMatch, Ok, Error, Lost, Waiting, TypeOK
    <2>8. NoUniqueViolation'  BY <1>8, RowTypes DEF Commit, Released, InTransaction, NoUniqueViolation, Ok, Error, Lost, TypeOK
    <2>9. EndingsMatch'
      <3> SUFFICES ASSUME NEW q \in Requests, pc'[q] \in {"failing", "replay"}
                   PROVE  /\ q # r /\ pc'[q] = pc[q] /\ answer'[q] = answer[q]
                          /\ pc[q] = "replay" => records'[KeyOf[q]] = records[KeyOf[q]]
        BY DEF EndingsMatch
      <3>1. q # r /\ pc[q] = pc'[q]
        BY <1>8 DEF Commit, TypeOK
      <3>2. answer'[q] = answer[q]
        <4>1. CASE pc[r] = "marked"
          <5>1. PICK a \in {Ok(r), Lost} : answer' = [answer EXCEPT ![r] = a]
            BY <1>8, <4>1 DEF Commit
          <5> QED  BY <3>1, <5>1 DEF TypeOK
        <4>2. CASE pc[r] = "replay"
          BY <1>8, <4>2 DEF Commit
        <4> QED  BY <1>8, <4>1, <4>2 DEF Commit
      <3>3. pc[q] = "replay" /\ pc[r] = "marked" => KeyOf[q] # KeyOf[r]
        BY <3>1 DEF HoldsLock
      <3> QED  BY <1>8, <3>1, <3>2, <3>3 DEF Commit, TypeOK
    <2> QED  BY <2>1, <2>2, <2>3, <2>4, <2>5, <2>6, <2>7, <2>8, <2>9
  <1>9. ASSUME NEW r \in Requests, Rollback(r) PROVE IInv'
    <2>1. TypeOK'  BY <1>9, RowTypes DEF Rollback, Released, InTransaction, TypeOK, Codes, Stages, Waiting, Ok, Error, Lost
    <2>2. HoldsLock'  BY <1>9, RowTypes DEF Rollback, Released, InTransaction, HoldsLock, TypeOK
    <2>3. StillAbsent'  BY <1>9, RowTypes DEF Rollback, Released, InTransaction, StillAbsent, TypeOK
    <2>4. DraftsMatchStage'  BY <1>9, RowTypes DEF Rollback, Released, InTransaction, DraftsMatchStage, TypeOK
    <2>5. RowsAreComplete'  BY <1>9, RowTypes DEF Rollback, Released, InTransaction, RowsAreComplete, TypeOK
    <2>6. EffectsAreRecorded'  BY <1>9, RowTypes DEF Rollback, Released, InTransaction, EffectsAreRecorded, Ok, Lost, TypeOK
    <2>7. AnswersMatch'  BY <1>9, RowTypes DEF Rollback, Released, InTransaction, AnswersMatch, Ok, Error, Lost, Waiting, TypeOK
    <2>8. NoUniqueViolation'  BY <1>9, RowTypes DEF Rollback, Released, InTransaction, NoUniqueViolation, Ok, Error, Lost, TypeOK
    <2>9. EndingsMatch'  BY <1>9, RowTypes DEF Rollback, Released, InTransaction, EndingsMatch, Ok, Error, Lost, TypeOK
    <2> QED  BY <2>1, <2>2, <2>3, <2>4, <2>5, <2>6, <2>7, <2>8, <2>9
  <1>10. ASSUME NEW r \in Requests, Crash(r) PROVE IInv'
    <2>1. TypeOK'  BY <1>10, RowTypes DEF Crash, Released, InTransaction, TypeOK, Codes, Stages, Waiting, Ok, Error, Lost
    <2>2. HoldsLock'  BY <1>10, RowTypes DEF Crash, Released, InTransaction, HoldsLock, TypeOK
    <2>3. StillAbsent'  BY <1>10, RowTypes DEF Crash, Released, InTransaction, StillAbsent, TypeOK
    <2>4. DraftsMatchStage'  BY <1>10, RowTypes DEF Crash, Released, InTransaction, DraftsMatchStage, TypeOK
    <2>5. RowsAreComplete'  BY <1>10, RowTypes DEF Crash, Released, InTransaction, RowsAreComplete, TypeOK
    <2>6. EffectsAreRecorded'  BY <1>10, RowTypes DEF Crash, Released, InTransaction, EffectsAreRecorded, Ok, Lost, TypeOK
    <2>7. AnswersMatch'  BY <1>10, RowTypes DEF Crash, Released, InTransaction, AnswersMatch, Ok, Error, Lost, Waiting, TypeOK
    <2>8. NoUniqueViolation'  BY <1>10, RowTypes DEF Crash, Released, InTransaction, NoUniqueViolation, Ok, Error, Lost, TypeOK
    <2>9. EndingsMatch'  BY <1>10, RowTypes DEF Crash, Released, InTransaction, EndingsMatch, Ok, Error, Lost, TypeOK
    <2> QED  BY <2>1, <2>2, <2>3, <2>4, <2>5, <2>6, <2>7, <2>8, <2>9
  <1>11. ASSUME NEW k \in Keys, Expire(k) PROVE IInv'
    BY <1>11 DEF Expire, TypeOK, HoldsLock, StillAbsent, DraftsMatchStage,
       RowsAreComplete, EffectsAreRecorded, AnswersMatch, EndingsMatch,
       NoUniqueViolation
  <1>12. CASE UNCHANGED vars
    BY <1>12 DEF vars, TypeOK, HoldsLock, StillAbsent, DraftsMatchStage,
       RowsAreComplete, EffectsAreRecorded, AnswersMatch, EndingsMatch,
       NoUniqueViolation
  <1> QED  BY <1>1, <1>2, <1>3, <1>4, <1>5, <1>6, <1>7, <1>8, <1>9, <1>10, <1>11, <1>12 DEF Next, Step

(* The inductive invariant holds always. *)
THEOREM Invariance == Spec => []IInv
  <1>1. Init => IInv
    BY InitIInv
  <1>2. IInv /\ [Next]_vars => IInv'
    BY NextIInv
  <1> QED  BY <1>1, <1>2, PTL DEF Spec

(* However often a command is retried, at most one request per key takes     *)
(* effect.                                                                   *)
THEOREM AtMostOnce == Spec => []EffectAtMostOnce
  <1>1. IInv => EffectAtMostOnce
    <2> SUFFICES ASSUME IInv, NEW q \in effects, NEW r \in effects,
                        KeyOf[q] = KeyOf[r]
                 PROVE  q = r
      BY DEF EffectAtMostOnce
    <2>1. records[KeyOf[q]].by = q /\ records[KeyOf[r]].by = r
      BY EffectRow DEF IInv
    <2> QED  BY <2>1
  <1> QED  BY <1>1, Invariance, PTL

(* Every success a caller gets is the answer of committed work for its own   *)
(* key and body.                                                             *)
THEOREM SoundAnswers == Spec => []AnswersAreOfCommittedWork
  <1>1. IInv => AnswersAreOfCommittedWork
    BY DEF IInv, AnswersMatch, AnswersAreOfCommittedWork
  <1> QED  BY <1>1, Invariance, PTL

(* The UNIQUE constraint is never hit. *)
THEOREM UniqueNeverHit == Spec => []NoUniqueViolation
  <1>1. IInv => NoUniqueViolation
    BY DEF IInv
  <1> QED  BY <1>1, Invariance, PTL

(* No step changes a committed record.                                       *)
LEMMA StepKeepsRecords ==
    ASSUME IInv, [Next]_vars, NEW k \in Keys, records[k] # NoRow
    PROVE  records'[k] = records[k]
  <1>1. ASSUME NEW r \in Requests, Commit(r) PROVE records'[k] = records[k]
    <2>1. pc[r] = "marked" => KeyOf[r] # k
      BY <1>1 DEF IInv, StillAbsent
    <2> QED  BY <1>1, <2>1 DEF Commit, IInv, TypeOK
  <1>2. (\A r \in Requests : ~Commit(r)) => records' = records
    BY DEF Next, Step, FindPrevious, Begin, TryLock, ReadRecord, InsertRecord,
       Work, MarkSucceeded, Rollback, Crash, Expire, vars
  <1> QED  BY <1>1, <1>2

(* Committed rows are never changed or removed, expired or not. *)
THEOREM FinalRecords == Spec => RecordsAreFinal
  <1>1. IInv /\ [Next]_vars =>
           [\A k \in Keys : records[k] # NoRow => records'[k] = records[k]]_vars
    BY StepKeepsRecords, Zenon
  <1> QED  BY <1>1, Invariance, PTL DEF Spec, RecordsAreFinal

-----------------------------------------------------------------------------
(* Refinement: a request's steps are invisible to the abstract command until *)
(* its transaction ends.                                                     *)

(* The initial states are initial states of the abstract command.            *)
LEMMA InitRefines == Init => Abstract!Init
  BY DEF Init, Abstract!Init, WinnerOf, ToldTo, NoRow, Waiting,
     Abstract!Unanswered

(* A step that leaves records alone and ends no transaction is a stutter. *)
LEMMA InnerStepStutters ==
    ASSUME IInv, NEW r \in Requests, records' = records,
           pc' \in [Requests -> Stages], pc[r] # "done", pc'[r] # "done",
           \A q \in Requests \ {r} : pc'[q] = pc[q] /\ answer'[q] = answer[q]
    PROVE  UNCHANGED Abstract!vars
  <1>1. WinnerOf' = WinnerOf
    BY DEF WinnerOf
  <1>2. ToldTo' = ToldTo
    BY DEF ToldTo
  <1> QED  BY <1>1, <1>2 DEF Abstract!vars

(* A step that ends r's transaction tells its caller the answer. *)
LEMMA EndingStepTells ==
    ASSUME IInv, NEW r \in Requests, pc[r] # "done",
           pc' = [pc EXCEPT ![r] = "done"],
           \A q \in Requests \ {r} : answer'[q] = answer[q]
    PROVE  /\ ToldTo[r] = Abstract!Unanswered
           /\ ToldTo' = [ToldTo EXCEPT ![r] = answer'[r]]
  BY DEF ToldTo, IInv, TypeOK, Waiting, Abstract!Unanswered

(* Every step is a step of the abstract command or changes nothing it sees.  *)
LEMMA NextRefines ==
    ASSUME IInv, IInv', [Next]_vars
    PROVE  [Abstract!Next]_(Abstract!vars)
  <1>1. ASSUME NEW r \in Requests, FindPrevious(r)
        PROVE  [Abstract!Next]_(Abstract!vars)
    <2>1. CASE records[KeyOf[r]] = NoRow
      BY <1>1, <2>1, InnerStepStutters DEF FindPrevious, IInv, TypeOK
    <2>2. CASE records[KeyOf[r]] # NoRow
      <3>1. /\ ToldTo[r] = Abstract!Unanswered
            /\ ToldTo' = [ToldTo EXCEPT ![r] = answer'[r]]
        BY <1>1, <2>2, EndingStepTells DEF FindPrevious, IInv, TypeOK
      <3>2. answer'[r] = Verdict(r) /\ WinnerOf' = WinnerOf
        BY <1>1, <2>2 DEF FindPrevious, IInv, TypeOK, WinnerOf
      <3>3. CASE Verdict(r).kind = "ok"
        <4>1. /\ WinnerOf[KeyOf[r]] = Verdict(r).by
              /\ Verdict(r) = Abstract!Success(Verdict(r).by)
              /\ BodyOf[Verdict(r).by] = BodyOf[r]
              /\ Verdict(r).by \in Requests
          BY <2>2, <3>3, VerdictIsSound, EffectRow
             DEF WinnerOf, Abstract!Success, IInv, TypeOK, Verdict, Ok, Error
        <4>2. Abstract!Replay(r)
          BY <3>1, <3>2, <4>1 DEF Abstract!Replay
        <4> QED  BY <4>2 DEF Abstract!Next
      <3>4. CASE Verdict(r).kind # "ok"
        <4>1. Verdict(r) \in Abstract!Refusals
          BY <2>2, <3>4, VerdictIsSound DEF Verdict, Ok, Error, Abstract!Refusals
        <4>2. Abstract!Refuse(r)
          BY <3>1, <3>2, <4>1 DEF Abstract!Refuse
        <4> QED  BY <4>2 DEF Abstract!Next
      <3> QED  BY <3>3, <3>4
    <2> QED  BY <2>1, <2>2
  <1>2. ASSUME NEW r \in Requests, Begin(r) \/ TryLock(r) \/ ReadRecord(r)
        PROVE  [Abstract!Next]_(Abstract!vars)
    BY <1>2, InnerStepStutters DEF Begin, TryLock, ReadRecord, IInv, TypeOK
  <1>3. ASSUME NEW r \in Requests, InsertRecord(r) \/ Work(r) \/ MarkSucceeded(r)
        PROVE  [Abstract!Next]_(Abstract!vars)
    BY <1>3, InnerStepStutters DEF InsertRecord, Work, MarkSucceeded, IInv, TypeOK
  <1>4. ASSUME NEW r \in Requests, Commit(r)
        PROVE  [Abstract!Next]_(Abstract!vars)
    <2>1. \A q \in Requests \ {r} : answer'[q] = answer[q]
      <3>1. CASE pc[r] = "marked"
        <4>1. PICK a \in {Ok(r), Lost} : answer' = [answer EXCEPT ![r] = a]
          BY <1>4, <3>1 DEF Commit
        <4> QED  BY <4>1 DEF IInv, TypeOK
      <3>2. CASE pc[r] = "replay"
        BY <1>4, <3>2 DEF Commit
      <3> QED  BY <1>4, <3>1, <3>2 DEF Commit
    <2>2. /\ ToldTo[r] = Abstract!Unanswered
          /\ ToldTo' = [ToldTo EXCEPT ![r] = answer'[r]]
      BY <1>4, <2>1, EndingStepTells DEF Commit
    <2>3. CASE pc[r] = "marked"
      <3>1. records[KeyOf[r]] = NoRow
        BY <2>3 DEF IInv, StillAbsent
      <3>2. records' = [records EXCEPT ![KeyOf[r]] =
                           [state |-> "SUCCEEDED", body |-> BodyOf[r], by |-> r]]
        BY <1>4, <2>3 DEF Commit, IInv, DraftsMatchStage
      <3>3. /\ WinnerOf[KeyOf[r]] = None
            /\ WinnerOf' = [WinnerOf EXCEPT ![KeyOf[r]] = r]
        <4>1. NoRow.by = None
          BY DEF NoRow
        <4>2. \A k \in Keys : records'[k].by = IF k = KeyOf[r] THEN r ELSE records[k].by
          BY <3>2 DEF IInv, TypeOK
        <4> QED  BY <3>1, <4>1, <4>2 DEF WinnerOf
      <3>4. PICK a \in {Ok(r), Lost} : answer' = [answer EXCEPT ![r] = a]
        BY <1>4, <2>3 DEF Commit
      <3>5. answer'[r] \in {Abstract!Success(r), [kind |-> "lost", by |-> None]}
        BY <3>4 DEF Abstract!Success, Ok, Lost, IInv, TypeOK
      <3>6. Abstract!Execute(r)
        BY <2>2, <3>3, <3>5 DEF Abstract!Execute
      <3> QED  BY <3>6 DEF Abstract!Next
    <2>4. CASE pc[r] = "replay"
      <3> DEFINE w == records[KeyOf[r]].by
      <3>1. answer'[r] = Ok(w) /\ records' = records
        BY <1>4, <2>4 DEF Commit, IInv, EndingsMatch
      <3>2. records[KeyOf[r]] # NoRow /\ answer[r] = Ok(w)
        BY <2>4 DEF IInv, EndingsMatch
      <3>3. w \in effects /\ w \in Requests
        BY <3>2 DEF IInv, RowsAreComplete, TypeOK
      <3>4. BodyOf[w] = BodyOf[r]
        <4>1. answer[r].kind = "ok" /\ answer[r].by = w
          BY <3>2 DEF Ok
        <4> QED  BY <4>1 DEF IInv, AnswersMatch
      <3>5. WinnerOf[KeyOf[r]] = w /\ WinnerOf' = WinnerOf
        BY <3>1 DEF WinnerOf
      <3>6. answer'[r] = Abstract!Success(w)
        BY <3>1 DEF Abstract!Success, Ok
      <3>7. Abstract!Replay(r)
        BY <2>2, <3>3, <3>4, <3>5, <3>6 DEF Abstract!Replay
      <3> QED  BY <3>7 DEF Abstract!Next
    <2> QED  BY <1>4, <2>3, <2>4 DEF Commit
  <1>5. ASSUME NEW r \in Requests, Rollback(r) \/ Crash(r)
        PROVE  [Abstract!Next]_(Abstract!vars)
    <2>1. /\ ToldTo[r] = Abstract!Unanswered
          /\ ToldTo' = [ToldTo EXCEPT ![r] = answer'[r]]
      BY <1>5, EndingStepTells DEF Rollback, Crash, InTransaction, IInv, TypeOK
    <2>2. answer'[r] \in Abstract!Refusals
      BY <1>5 DEF Rollback, Crash, IInv, TypeOK, EndingsMatch, Error, Lost,
         Abstract!Refusals
    <2>3. WinnerOf' = WinnerOf
      BY <1>5 DEF Rollback, Crash, WinnerOf
    <2>4. Abstract!Refuse(r)
      BY <2>1, <2>2, <2>3 DEF Abstract!Refuse
    <2> QED  BY <2>4 DEF Abstract!Next
  <1>6. ASSUME NEW k \in Keys, Expire(k)
        PROVE  [Abstract!Next]_(Abstract!vars)
    BY <1>6 DEF Expire, Abstract!vars, WinnerOf, ToldTo
  <1>7. CASE UNCHANGED vars
    BY <1>7 DEF vars, Abstract!vars, WinnerOf, ToldTo
  <1> QED  BY <1>1, <1>2, <1>3, <1>4, <1>5, <1>6, <1>7 DEF Next, Step

(* The store implements the abstract idempotent command: no interleaving,    *)
(* crash, expiry or lost answer shows a caller anything else.                *)
THEOREM Refinement == Spec => ImplementsCommand
  <1>1. Init => Abstract!Init
    BY InitRefines
  <1>2. IInv /\ IInv' /\ [Next]_vars => [Abstract!Next]_(Abstract!vars)
    BY NextRefines
  <1> QED  BY <1>1, <1>2, Invariance, PTL DEF Spec, ImplementsCommand, Abstract!Spec

-----------------------------------------------------------------------------
(* The inbox                                                                 *)

USE EventsAssumption, LimitAssumption, NobodyAssumption

(* A non-empty set of events has an oldest one. *)
LEMMA OldestExists ==
    ASSUME NEW S \in SUBSET Events, S # {}
    PROVE  \E e \in S : \A d \in S : e <= d
  <1> DEFINE R == OpToRel(<, Nat)
  <1>1. \E e \in S : \A d \in S : ~(<<d, e>> \in R)
    <2>1. IsWellFoundedOn(R, Nat)
      BY NatLessThanWellFounded
    <2>2. S \subseteq Nat
      OBVIOUS
    <2> HIDE DEF R
    <2> QED  BY <2>1, <2>2, WFMin
  <1>2. \A d, e \in Nat : ~(<<d, e>> \in R) => e <= d
    BY DEF OpToRel
  <1> QED  BY <1>1, <1>2

(* A busy worker's current event is one of its batch, and published.         *)
LEMMA CurrentInBatch ==
    ASSUME InboxTypeOK, BatchIsPublished, NEW w \in Workers, at[w] # "idle"
    PROVE  Current(w) \in batch[w] /\ Current(w) \in Events /\ Current(w) \in published
  <1>1. batch[w] \in SUBSET Events /\ batch[w] # {} /\ batch[w] \subseteq published
    BY DEF InboxTypeOK, BatchIsPublished
  <1>2. Current(w) \in batch[w]
    BY <1>1, OldestExists DEF Current
  <1> QED  BY <1>1, <1>2

(* The current event depends on the batch alone.                             *)
LEMMA CurrentUnchanged ==
    ASSUME NEW w, batch'[w] = batch[w]
    PROVE  Current(w)' = Current(w)
  BY DEF Current

(* What a step of w leaves to the other hosts. *)
LEMMA OthersKeepRows ==
    ASSUME InboxInv, NEW w \in Workers, NEW e \in Events,
           lock[e] \in {w, Nobody},
           \A d \in Events \ {e} : lock'[d] = lock[d] /\ inbox'[d] = inbox[d],
           NEW q \in Workers \ {w}, at'[q] = at[q], batch'[q] = batch[q],
           at[q] \in {"handling", "handled"}
    PROVE  lock'[Current(q)'] = q /\ inbox'[Current(q)'] # "PROCESSED"
  <1>1. Current(q)' = Current(q)
    BY CurrentUnchanged
  <1>2. Current(q) \in Events
    BY CurrentInBatch DEF InboxInv
  <1>3. lock[Current(q)] = q /\ inbox[Current(q)] # "PROCESSED"
    BY DEF InboxInv, OwnsRow
  <1>4. Current(q) # e
    BY <1>3
  <1> QED  BY <1>1, <1>2, <1>3, <1>4

(* The inductive invariant of the inbox holds before the first event.        *)
LEMMA InboxInitially == InboxInit => InboxInv
  BY DEF InboxInit, InboxInv, InboxTypeOK, AppliedIffProcessed, OwnsRow, BatchIsPublished,
     NotProcessedIsPrivate, Statuses

(* Every step of every host preserves the invariant of the inbox.            *)
LEMMA InboxStepwise == InboxInv /\ [InboxNext]_inboxVars => InboxInv'
  <1> SUFFICES ASSUME InboxInv, [InboxNext]_inboxVars PROVE InboxInv'
    OBVIOUS
  <1> USE DEF InboxInv
  <1>1. ASSUME NEW e \in Events, Append(e) PROVE InboxInv'
    <2>1. \A w \in Workers : Current(w)' = Current(w)
      BY <1>1, CurrentUnchanged DEF Append
    <2> QED
      BY <1>1, <2>1 DEF Append, InboxTypeOK, AppliedIffProcessed, OwnsRow,
         BatchIsPublished, NotProcessedIsPrivate
  <1>2. ASSUME NEW w \in Workers, Poll(w) PROVE InboxInv'
    <2>1. Oldest(Pending) \subseteq published /\ Oldest(Pending) \subseteq Events
      BY DEF Oldest, Pending, InboxTypeOK
    <2>2. InboxTypeOK'
      BY <1>2, <2>1 DEF Poll, InboxTypeOK
    <2>3. Oldest(Pending) # {}
      <3>1. PICK e \in Pending : \A d \in Pending : e <= d
        <4>1. Pending \in SUBSET Events /\ Pending # {}
          BY <1>2 DEF Poll, Pending, InboxTypeOK
        <4> QED  BY <4>1, OldestExists
      <3>2. {d \in Pending : d < e} = {}
        <4>1. \A d \in Pending : d \in Nat /\ e \in Nat /\ e <= d
          BY <3>1 DEF Pending, InboxTypeOK
        <4>2. \A d \in Pending : ~(d < e)
          BY <4>1
        <4> QED  BY <4>2
      <3>3. Cardinality({}) = 0
        BY FS_EmptySet
      <3> QED  BY <3>1, <3>2, <3>3 DEF Oldest
    <2>4. BatchIsPublished'
      BY <1>2, <2>1, <2>3 DEF Poll, BatchIsPublished, InboxTypeOK
    <2>5. OwnsRow'
      <3> SUFFICES ASSUME NEW q \in Workers, at'[q] \in {"handling", "handled"}
                   PROVE  lock'[Current(q)'] = q /\ inbox'[Current(q)'] # "PROCESSED"
        BY DEF OwnsRow
      <3>1. q # w /\ at[q] = at'[q] /\ batch'[q] = batch[q]
        BY <1>2 DEF Poll, InboxTypeOK
      <3>2. Current(q)' = Current(q)
        BY <3>1, CurrentUnchanged
      <3> QED  BY <1>2, <3>1, <3>2 DEF Poll, OwnsRow
    <2> QED  BY <1>2, <2>2, <2>4, <2>5
             DEF Poll, AppliedIffProcessed, NotProcessedIsPrivate
  <1>3. ASSUME NEW w \in Workers, at[w] # "idle",
               Claim(w) \/ Handle(w) \/ HandlerFails(w) \/ CommitEffect(w)
                 \/ RecordFailure(w)
        PROVE  InboxInv'
    <2> DEFINE e == Current(w)
    <2>0. e \in batch[w] /\ e \in Events /\ e \in published
      BY <1>3, CurrentInBatch
    <2>1. lock[e] \in {w, Nobody}
      BY <1>3 DEF Claim, Handle, HandlerFails, CommitEffect, RecordFailure, OwnsRow
    <2> HIDE DEF e
    <2>2. \A d \in Events \ {e} : /\ lock'[d] = lock[d]
                                  /\ inbox'[d] = inbox[d]
                                  /\ applied'[d] = applied[d]
      BY <1>3 DEF Claim, Handle, HandlerFails, CommitEffect, RecordFailure, InboxTypeOK, e
    <2>3. /\ \A q \in Workers \ {w} : at'[q] = at[q] /\ batch'[q] = batch[q]
          /\ batch'[w] \subseteq batch[w]
          /\ at'[w] # "idle" => batch'[w] # {}
          /\ published' = published
          /\ at'[w] \in {"handling", "handled"} => batch'[w] = batch[w]
      BY <1>3, <2>0 DEF Claim, Handle, HandlerFails, CommitEffect, RecordFailure,
         Advance, InboxTypeOK, e
    <2>4. InboxTypeOK'
      <3>1. Claim(w) => InboxTypeOK'
        BY <2>0 DEF Claim, Advance, InboxTypeOK, e
      <3>a. Advance(w) =>
              /\ batch' \in [Workers -> SUBSET Events]
              /\ at' \in [Workers -> {"idle", "next", "handling", "handled", "recording"}]
        BY DEF Advance, InboxTypeOK
      <3>2. Handle(w) => InboxTypeOK'
        BY DEF Handle, InboxTypeOK
      <3>5. HandlerFails(w) => InboxTypeOK'
        <4>1. HandlerFails(w) => faults' \in Nat
          BY DEF HandlerFails, InboxTypeOK
        <4> QED  BY <4>1 DEF HandlerFails, InboxTypeOK
      <3>3. CommitEffect(w) => InboxTypeOK'
        <4>1. CommitEffect(w) => inbox' \in [Events -> Statuses]
          BY <2>0 DEF CommitEffect, InboxTypeOK, Statuses, e
        <4>2. CommitEffect(w) => applied' \in [Events -> Nat]
          <5>1. applied[e] + 1 \in Nat
            BY <2>0 DEF InboxTypeOK
          <5>2. CommitEffect(w) => applied' = [applied EXCEPT ![e] = applied[e] + 1]
            BY DEF CommitEffect, e
          <5> QED  BY <5>1, <5>2 DEF InboxTypeOK
        <4>3. CommitEffect(w) => lock' \in [Events -> Workers \cup {Nobody}]
          BY <2>0 DEF CommitEffect, InboxTypeOK, e
        <4> QED  BY <3>a, <4>1, <4>2, <4>3 DEF CommitEffect, InboxTypeOK
      <3>4. RecordFailure(w) => InboxTypeOK'
        <4>1. RecordFailure(w) => inbox' \in [Events -> Statuses]
          <5> SUFFICES ASSUME RecordFailure(w) PROVE inbox' \in [Events -> Statuses]
            OBVIOUS
          <5>1. \E v \in Statuses : inbox' = [inbox EXCEPT ![e] = v]
            <6>1. inbox[e] \in Statuses /\ "FAILED" \in Statuses
              BY <2>0 DEF InboxTypeOK, Statuses
            <6> QED  BY <2>0, <6>1 DEF RecordFailure, InboxTypeOK, e
          <5> QED  BY <5>1 DEF InboxTypeOK
        <4> QED  BY <3>a, <4>1 DEF RecordFailure, InboxTypeOK
      <3> QED  BY <1>3, <3>1, <3>2, <3>3, <3>4, <3>5
    <2>5. BatchIsPublished'
      BY <2>3 DEF BatchIsPublished, InboxTypeOK
    <2>6. AppliedIffProcessed' /\ NotProcessedIsPrivate'
      <3>1. \/ applied'[e] = applied[e] /\ inbox'[e] = inbox[e]
            \/ applied'[e] = applied[e] /\ inbox'[e] = "FAILED" /\ inbox[e] # "PROCESSED"
            \/ /\ applied'[e] = applied[e] + 1
               /\ inbox'[e] = "PROCESSED"
               /\ inbox[e] # "PROCESSED"
        BY <1>3, <2>0 DEF Claim, Handle, HandlerFails, CommitEffect, RecordFailure,
           OwnsRow, NotProcessedIsPrivate, InboxTypeOK, e
      <3> QED  BY <2>0, <2>2, <3>1 DEF AppliedIffProcessed, NotProcessedIsPrivate, InboxTypeOK
    <2>7. OwnsRow'
      <3> SUFFICES ASSUME NEW q \in Workers, at'[q] \in {"handling", "handled"}
                   PROVE  lock'[Current(q)'] = q /\ inbox'[Current(q)'] # "PROCESSED"
        BY DEF OwnsRow
      <3>1. CASE q # w
        BY <2>0, <2>1, <2>2, <2>3, <3>1, OthersKeepRows
      <3>2. CASE q = w
        <4>1. Current(w)' = e
          BY <2>3, <3>2, CurrentUnchanged DEF e
        <4>2. lock'[e] = w /\ inbox'[e] # "PROCESSED"
          BY <1>3, <2>0, <3>2 DEF Claim, Handle, HandlerFails, CommitEffect,
             RecordFailure, Advance, OwnsRow, InboxTypeOK, e
        <4> QED  BY <3>2, <4>1, <4>2
      <3> QED  BY <3>1, <3>2
    <2> QED  BY <2>4, <2>5, <2>6, <2>7
  <1>4. ASSUME NEW w \in Workers, HostDies(w) PROVE InboxInv'
    <2>1. InboxTypeOK' /\ BatchIsPublished'
      BY <1>4 DEF HostDies, InboxTypeOK, BatchIsPublished
    <2>2. OwnsRow'
      <3> SUFFICES ASSUME NEW q \in Workers, at'[q] \in {"handling", "handled"}
                   PROVE  lock'[Current(q)'] = q /\ inbox'[Current(q)'] # "PROCESSED"
        BY DEF OwnsRow
      <3>1. q # w /\ at[q] = at'[q] /\ batch'[q] = batch[q]
        BY <1>4 DEF HostDies, InboxTypeOK
      <3>2. Current(q)' = Current(q) /\ Current(q) \in Events
        BY <3>1, CurrentUnchanged, CurrentInBatch
      <3> QED  BY <1>4, <3>1, <3>2 DEF HostDies, OwnsRow
    <2> QED  BY <1>4, <2>1, <2>2 DEF HostDies, AppliedIffProcessed, NotProcessedIsPrivate
  <1>5. CASE UNCHANGED inboxVars
    <2>1. \A w \in Workers : Current(w)' = Current(w)
      BY <1>5, CurrentUnchanged DEF inboxVars
    <2> QED
      BY <1>5, <2>1 DEF inboxVars, InboxTypeOK, AppliedIffProcessed, OwnsRow,
         BatchIsPublished, NotProcessedIsPrivate
  <1>6. \A w \in Workers : Claim(w) \/ Handle(w) \/ HandlerFails(w)
             \/ CommitEffect(w) \/ RecordFailure(w) => at[w] # "idle"
    BY DEF Claim, Handle, HandlerFails, CommitEffect, RecordFailure
  <1> QED  BY <1>1, <1>2, <1>3, <1>4, <1>5, <1>6 DEF InboxNext, HostStep

(* The inductive invariant holds always. *)
THEOREM InboxInvariance == InboxSpec => []InboxInv
  <1>1. InboxInit => InboxInv
    BY InboxInitially
  <1>2. InboxInv /\ [InboxNext]_inboxVars => InboxInv'
    BY InboxStepwise
  <1> QED  BY <1>1, <1>2, PTL DEF InboxSpec

(* Effects are committed exactly once, with the PROCESSED row. *)
THEOREM ExactlyOnce == InboxSpec => []AppliedIffProcessed
  <1>1. InboxInv => AppliedIffProcessed
    BY DEF InboxInv
  <1> QED  BY <1>1, InboxInvariance, PTL

(* No step turns a PROCESSED row back.                                       *)
LEMMA StepKeepsProcessed ==
    ASSUME InboxInv, [InboxNext]_inboxVars, NEW e \in Events, inbox[e] = "PROCESSED"
    PROVE  inbox'[e] = "PROCESSED"
  BY DEF InboxNext, HostStep, Append, Poll, Claim, Handle, HandlerFails, CommitEffect,
     RecordFailure, HostDies, inboxVars, InboxInv, InboxTypeOK

(* A PROCESSED row is never overwritten, in particular not by the FAILED     *)
(* marker of another delivery.                                               *)
THEOREM FinalProcessed == InboxSpec => ProcessedIsFinal
  <1>1. InboxInv /\ [InboxNext]_inboxVars =>
          [\A e \in Events : inbox[e] = "PROCESSED" => inbox'[e] = "PROCESSED"]_inboxVars
    BY StepKeepsProcessed, Zenon
  <1> QED  BY <1>1, InboxInvariance, PTL DEF InboxSpec, ProcessedIsFinal
=============================================================================
