--------------------------- MODULE RemittanceFeed ---------------------------
(***************************************************************************)
(* What the delivery half of the pipeline promises to the accounting       *)
(* backend, with no workers, retries or network in sight: a payment is     *)
(* booked there at most once, only after it was approved here, and the     *)
(* pipeline says "delivered" only of a payment that is booked.             *)
(***************************************************************************)
EXTENDS Naturals

CONSTANT Payments

VARIABLES
  approved,   \* payments that have ever been approved
  bookings,   \* how many times the backend has recorded each payment as new
  reported    \* payments the pipeline has ever reported as delivered

feedVars == <<approved, bookings, reported>>

FeedInit ==
  /\ approved = {}
  /\ bookings = [p \in Payments |-> 0]
  /\ reported = {}

FeedApprove(p) ==
  /\ approved' = approved \cup {p}
  /\ UNCHANGED <<bookings, reported>>

FeedBook(p) ==
  /\ p \in approved
  /\ bookings[p] = 0
  /\ bookings' = [bookings EXCEPT ![p] = 1]
  /\ UNCHANGED <<approved, reported>>

FeedReport(p) ==
  /\ bookings[p] = 1
  /\ reported' = reported \cup {p}
  /\ UNCHANGED <<approved, bookings>>

FeedNext == \E p \in Payments : FeedApprove(p) \/ FeedBook(p) \/ FeedReport(p)

FeedSpec == FeedInit /\ [][FeedNext]_feedVars
=============================================================================
