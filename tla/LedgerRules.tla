---------------------------- MODULE LedgerRules -----------------------------
(***************************************************************************)
(* The rules of the invoice ledger, as functions of a ledger value: what   *)
(* an invoice still owes (ledger/balance.py), what is flagged when a       *)
(* payment is checked against it (ledger/checks.py and the flag of         *)
(* validators.py about a line that pays more than it says), and what an    *)
(* approval writes into it (ledger/posting.py).                            *)
(*                                                                         *)
(* A flag is the text the reviewer is shown: two flags are the same when   *)
(* line, kind and the amounts in them are.  One payer and one currency are *)
(* considered, so the flags about a foreign invoice never arise, and no    *)
(* two invoice numbers are near matches.  Lines carry the number key of an *)
(* invoice; two lines of a payment with one key are two spellings of it.   *)
(* A line without a number is left out: it is neither checked nor posted.  *)
(***************************************************************************)
EXTENDS Integers, Sequences, SequencesExt

CONSTANTS
  Keys,        \* invoice.number_key
  Payments,    \* extraction rows
  NoKey,       \* an adjustment's applies_to that is empty
  Tolerance,   \* TOLERANCE, in the same unit as the amounts
  Reference,   \* header.payment_reference of each payment ("": none)
  Historical,  \* payments from before go-live or from older messages
  Mail         \* the messages, each the sequence of payments read from it

ASSUME RulesAssumption ==
  /\ NoKey \notin Keys
  /\ Tolerance \in Nat
  /\ DOMAIN Reference = Payments
  /\ Historical \subseteq Payments
  /\ Mail \subseteq Seq(Payments) \ {<<>>}
  /\ \A ps, qs \in Mail : \A m \in DOMAIN ps, n \in DOMAIN qs :
       ps[m] = qs[n] => ps = qs /\ m = n

\* A line says what the invoice is for (stated), what is paid in cash and what
\* is deducted.  An adjustment pays back its deductions (cash = -off), and may not
\* say of which invoice.
Line == [kind : {"invoice"}, key : Keys, stated : Int, cash : Int, off : Nat]
   \cup [kind : {"adjustment"}, key : Keys \cup {NoKey}, stated : Int, cash : Int, off : Nat]

Settled(line) == line.cash + line.off

\* invoice rows; a row whose source is "none" does not exist
InvoiceRow == [source : {"none", "books", "email"}, amount : Int, before : Int]
NoInvoice == [source |-> "none", amount |-> 0, before |-> 0]

\* An invoice_payment row, and the amount its invoice is opened with if there is none.
Post == [payment : Payments, line : Nat, kind : {"invoice", "adjustment"}, key : Keys,
         settled : Int, cash : Int, opens : Int]

\* A ledger: the invoice rows and the invoice_payment rows.
Exists(L, k) == L.invoice[k].source # "none"

Known(L) == {k \in Keys : Exists(L, k)}

-----------------------------------------------------------------------------
(* balance.py                                                               *)

\* What earlier postings and the client's books say was paid on invoice k.
Paid(L, k) ==
  L.invoice[k].before
    + MapThenSumSet(LAMBDA r : r.settled, {r \in L.posted : r.key = k})

StatusFor(amount, paid) ==
  LET left == amount - paid IN
  IF left < -Tolerance THEN "overpaid"
  ELSE IF left <= Tolerance THEN "paid"
  ELSE IF paid = 0 THEN "open"
  ELSE "partially_paid"

Overpaid(L, k) == Exists(L, k) /\ StatusFor(L.invoice[k].amount, Paid(L, k)) = "overpaid"

-----------------------------------------------------------------------------
(* checks.py                                                                *)

Flag(i, kind, paid, left) == [line |-> i, kind |-> kind, paid |-> paid, left |-> left]

If(condition, flag) == IF condition THEN {flag} ELSE {}

\* The flags that say that money is paid on an invoice that does not owe it.
OverpayKinds == {"paid", "over", "exceeds"}

\* The line claims an invoice total other than what it settles.
StatesTotal(line) ==
  LET gap == line.stated - Settled(line) IN gap > Tolerance \/ gap < -Tolerance

\* An invoice line whose invoice is in the ledger; `earlier` was settled on it by
\* the lines before.
FoundFlags(L, p, i, line, earlier) ==
  LET inv == L.invoice[line.key]
      paid == Paid(L, line.key) + earlier
      left == inv.amount - paid
      off == line.stated - inv.amount
      full == StatusFor(inv.amount, paid) \in {"paid", "overpaid"}
      over == Settled(line) > left + Tolerance
  IN   If(StatesTotal(line) /\ (off > Tolerance \/ off < -Tolerance),
          Flag(i, "differs", line.stated, inv.amount))
  \cup If(Reference[p] # "" /\ \E r \in L.posted :
            /\ r.key = line.key /\ r.kind = "invoice"
            /\ Reference[r.payment] = Reference[p] /\ r.cash = line.cash,
          Flag(i, "again", line.cash, 0))
  \cup If(full, Flag(i, "paid", 0, 0))
  \cup If(~full /\ over, Flag(i, "over", Settled(line), left))
  \cup If(~full /\ ~over /\ inv.source = "email" /\ Settled(line) < left - Tolerance,
          Flag(i, "partial", Settled(line), left))

\* An invoice line whose invoice is not; `books`: the client's books were loaded.
MissingFlags(books, i, line) ==
       If(books, Flag(i, "unknown", 0, 0))
  \cup If(StatesTotal(line) /\ Settled(line) < line.stated,
          Flag(i, "partial", Settled(line), line.stated))

AdjustmentBalanceFlags(i, amount, paid, off) ==
  LET full == StatusFor(amount, paid) \in {"paid", "overpaid"} IN
       If(full, Flag(i, "paid", 0, 0))
  \cup If(~full /\ off > amount - paid + Tolerance, Flag(i, "over", off, amount - paid))

\* What check_against_ledger carries from line to line: whether the books were
\* loaded when it began, the flags so far, what was settled by earlier lines, and
\* what this payment's lines for a missing invoice first say it is for.
NotStated == -1
FreshCheck(L) ==
  [books |-> \E k \in Keys : L.invoice[k].source = "books", flags |-> {},
   earlier |-> [k \in Keys |-> 0], stated |-> [k \in Keys |-> NotStated]]

\* One line checked; `found` says whether the look-up found its invoice.
CheckLine(L, found, c, p, i, line) ==
  LET k == line.key
      settled == IF line.kind = "invoice" THEN Settled(line) ELSE line.off
      counted(flags) == [c EXCEPT !.flags = @ \cup flags, !.earlier[k] = @ + settled]
  IN CASE line.kind = "invoice" /\ found ->
            counted(FoundFlags(L, p, i, line, c.earlier[k]))
       [] line.kind = "invoice" /\ ~found ->
            [counted(MissingFlags(c.books, i, line)) EXCEPT
               !.stated[k] = IF @ = NotStated THEN line.stated ELSE @]
       [] line.kind = "adjustment" /\ k # NoKey /\ found ->
            counted(AdjustmentBalanceFlags(i, L.invoice[k].amount,
                                           Paid(L, k) + c.earlier[k], line.off))
       [] line.kind = "adjustment" /\ k # NoKey /\ ~found /\ c.stated[k] > 0 ->
            counted(AdjustmentBalanceFlags(i, c.stated[k], c.earlier[k], line.off))
       [] OTHER -> c

\* The numbers of the lines of one kind, in order.
Numbers(lines, kind) ==
  LET upTo[n \in 0..Len(lines)] ==
        IF n = 0 THEN <<>>
        ELSE IF lines[n].kind = kind THEN Append(upTo[n - 1], n) ELSE upTo[n - 1]
  IN upTo[Len(lines)]

\* Invoice lines come first, in checks and in postings.
Ordered(lines) == Numbers(lines, "invoice") \o Numbers(lines, "adjustment")

\* adjustment_flags, and the flags that do not depend on the ledger.
OtherFlags(L, p, lines) ==
  LET own == {lines[i].key : i \in {j \in DOMAIN lines : lines[j].kind = "invoice"}}
      adjusts(i) == lines[i].kind = "adjustment"
      exceeds(i) == ~adjusts(i) /\ Settled(lines[i]) > lines[i].stated + Tolerance
  IN   {Flag(i, "which", 0, 0) : i \in
          {j \in DOMAIN lines : adjusts(j) /\ lines[j].key \notin own \cup Known(L)}}
  \cup {Flag(i, "exceeds", Settled(lines[i]), lines[i].stated) : i \in
          {j \in DOMAIN lines : exceeds(j)}}
  \cup If(p \in Historical, Flag(0, "historical", 0, 0))

\* Every flag a payment carries when it is checked against ledger L in one go.
FlagsOf(L, p, lines) ==
  LET check(c, i) == CheckLine(L, lines[i].key # NoKey /\ Exists(L, lines[i].key),
                               c, p, i, lines[i])
  IN OtherFlags(L, p, lines) \cup FoldLeft(check, FreshCheck(L), Ordered(lines)).flags

-----------------------------------------------------------------------------
(* posting.py                                                               *)

\* The rows whose line is not posted yet for its payment.
Fresh(L, rows) ==
  {r \in rows : \A q \in L.posted : q.payment = r.payment => q.line # r.line}

\* Row q is inserted before row r of the same payment.
InsertedBefore(q, r) ==
  \/ q.kind = "invoice" /\ r.kind = "adjustment"
  \/ q.kind = r.kind /\ q.line < r.line

\* Mutant of Posted: no invoice is opened for a payment.
PostedKnown(L, rows) ==
  [L EXCEPT !.posted = @ \cup {r \in Fresh(L, rows) : Exists(L, r.key)}]

\* The rows of a payment inserted, one after the other; a line already posted is
\* skipped.  The first row of an invoice there is none of creates it.
Posted(L, rows) ==
  LET new == Fresh(L, rows)
      first(k) == CHOOSE r \in new :
                    r.key = k /\ \A q \in new : q.key = k => ~InsertedBefore(q, r)
  IN [invoice |-> [k \in Keys |->
        IF Exists(L, k) \/ \A r \in new : r.key # k THEN L.invoice[k]
        ELSE [source |-> "email", amount |-> first(k).opens, before |-> 0]],
      posted |-> L.posted \cup new]

\* The rows post_extraction inserts for payment p.  An adjustment never invents an
\* invoice: it is dropped unless the ledger, or a line of its own payment, has one.
PostsOf(L, p, lines) ==
  LET own == {lines[i].key : i \in {j \in DOMAIN lines : lines[j].kind = "invoice"}}
      dropped(line) == line.kind = "adjustment"
                         /\ (line.off = 0 \/ line.key \notin own \cup Known(L))
  IN {[payment |-> p, line |-> i, kind |-> lines[i].kind, key |-> lines[i].key,
       settled |-> IF lines[i].kind = "invoice" THEN Settled(lines[i]) ELSE lines[i].off,
       cash |-> IF lines[i].kind = "invoice" THEN lines[i].cash ELSE 0,
       opens |-> IF lines[i].stated > 0 THEN lines[i].stated ELSE Settled(lines[i])] :
        i \in {j \in DOMAIN lines : ~dropped(lines[j])}}
=============================================================================
