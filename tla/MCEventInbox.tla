---------------------------- MODULE MCEventInbox ----------------------------
(* Two hosts, one poison event among three, a batch of two. *)
EXTENDS EventInbox
CONSTANTS w1, w2
=============================================================================
