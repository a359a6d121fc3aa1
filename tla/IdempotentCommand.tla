------------------------- MODULE IdempotentCommand -------------------------
(***************************************************************************)
(* What an idempotency key promises its callers: one request per key takes *)
(* effect, later ones with the same body are told its answer, and all the  *)
(* others are refused without effect.                                      *)
(***************************************************************************)
CONSTANTS Requests, Keys, KeyOf, BodyOf, None

VARIABLES winner,  \* the request of each key that took effect
          told     \* what each caller was told

vars == <<winner, told>>

Unanswered == [kind |-> "none", by |-> None]
Success(r) == [kind |-> "ok", by |-> r]
Refusals == [kind : {"lost", "KEY_CONFLICT", "IN_PROGRESS", "WORK_FAILED"},
             by : {None}]

Init ==
    /\ winner = [k \in Keys |-> None]
    /\ told = [r \in Requests |-> Unanswered]

(* The request takes effect, and its caller hears of it or loses the answer. *)
Execute(r) ==
    /\ told[r] = Unanswered
    /\ winner[KeyOf[r]] = None
    /\ winner' = [winner EXCEPT ![KeyOf[r]] = r]
    /\ \E a \in {Success(r), [kind |-> "lost", by |-> None]} :
            told' = [told EXCEPT ![r] = a]

(* A repeated request is told what the first one was. *)
Replay(r) ==
    LET w == winner[KeyOf[r]] IN
    /\ told[r] = Unanswered
    /\ w # None
    /\ BodyOf[w] = BodyOf[r]
    /\ told' = [told EXCEPT ![r] = Success(w)]
    /\ UNCHANGED winner

Refuse(r) ==
    /\ told[r] = Unanswered
    /\ \E a \in Refusals : told' = [told EXCEPT ![r] = a]
    /\ UNCHANGED winner

Next == \E r \in Requests : Execute(r) \/ Replay(r) \/ Refuse(r)

Spec == Init /\ [][Next]_vars
=============================================================================
