--------------------------- MODULE MCPaymentKeys ----------------------------
(* Small instances of PaymentKeys for TLC.                                   *)
EXTENDS PaymentKeys, TLC

CONSTANTS scheduler, pollNow, ann, m1, m2, p1, p2, p3, utr1, utr2, soft, text1

States(k, total) == [key |-> k, total |-> total]

\* A message with two payments, one of which may be misread, and another message
\* with the second of them again: the same reference for the same or another total,
\* or no reference at all.
TwoAndOne == m1 :> <<p1, p2>> @@ m2 :> <<p3>>
Misread == p1 :> {States(utr1, 100), States(utr2, 100)}
        @@ p2 :> {States(utr1, 200), States(soft, 200)}
        @@ p3 :> {States(utr1, 200), States(soft, 200)}
Alike == [m \in Messages |-> text1]
RefInText == m1 :> {} @@ m2 :> {utr1}
=============================================================================
