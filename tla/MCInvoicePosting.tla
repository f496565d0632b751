-------------------------- MODULE MCInvoicePosting --------------------------
(* Small instances of InvoicePosting for TLC: two invoices in the books and  *)
(* one that is not, payments that share them.                                *)
EXTENDS InvoicePosting, TLC

CONSTANTS scheduler, pollNow, ann, bob, inv1, inv2, inv3, p1, p2, p3

Pays(k, stated, cash, off) ==
  [kind |-> "invoice", key |-> k, stated |-> stated, cash |-> cash, off |-> off]
Reduces(k, off) == [kind |-> "adjustment", key |-> k, stated |-> 0, cash |-> 0 - off, off |-> off]
InBooks(amount) == [source |-> "books", amount |-> amount, before |-> 0]

\* Two payments of two invoices, named in a different order, that overpay the first
\* together; a historical one of an invoice the books do not have, part of it
\* by an adjustment.
TwoInBooks == inv1 :> InBooks(100) @@ inv2 :> InBooks(100) @@ inv3 :> NoInvoice
Crossing == p1 :> {<<Pays(inv1, 60, 60, 0), Pays(inv2, 100, 45, 5)>>,
                   <<Pays(inv2, 50, 50, 0), Pays(inv1, 41, 41, 0)>>}
         @@ p2 :> {<<Pays(inv2, 50, 50, 0), Pays(inv1, 60, 60, 0)>>}
         @@ p3 :> {<<Reduces(inv3, 10), Pays(inv3, 100, 90, 0)>>}
OneReference == p1 :> "utr1" @@ p2 :> "utr1" @@ p3 :> ""
TwoMessages == {<<p1, p3>>, <<p2>>}
Export == {inv1 :> [amount |-> 90, left |-> 30] @@ inv2 :> [amount |-> 100, left |-> Blank],
           inv2 :> [amount |-> 120, left |-> 20]}
NoFile == {}

\* Two payments in full of one invoice that is not in the ledger.
NoneLoaded == inv1 :> NoInvoice
SameNew == p1 :> {<<Pays(inv1, 100, 100, 0)>>} @@ p2 :> {<<Pays(inv1, 100, 100, 0)>>}
NoReference == p1 :> "" @@ p2 :> ""
OneEach == {<<p1>>, <<p2>>}
=============================================================================
