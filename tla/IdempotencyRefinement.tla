----------------------- MODULE IdempotencyRefinement -----------------------
(***************************************************************************)
(* The store implements the abstract promise: a key's winner is the        *)
(* request named by its committed row, and a caller has been told something *)
(* once its transaction is over.                                           *)
(***************************************************************************)
EXTENDS Idempotency

WinnerOf == [k \in Keys |-> records[k].by]
ToldTo == [r \in Requests |-> IF pc[r] = "done" THEN answer[r] ELSE Waiting]

Abstract == INSTANCE IdempotentCommand WITH winner <- WinnerOf, told <- ToldTo

(* Every step of the store, crashes and lost answers included, is a step of  *)
(* the abstract command or changes nothing it shows.                         *)
ImplementsCommand == Abstract!Spec
=============================================================================
