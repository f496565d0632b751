---------------------------- MODULE MCDeliverer -----------------------------
(* A small instance of Deliverer for TLC: two sessions; a payment that two  *)
(* approvals queued.                                                        *)
EXTENDS Deliverer, TLC

CONSTANTS scheduler, pollNow, d1, d2, e1

QueuedTwice == d1 :> e1 @@ d2 :> e1
=============================================================================
