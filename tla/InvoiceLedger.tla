--------------------------- MODULE InvoiceLedger ----------------------------
(***************************************************************************)
(* What the ledger design promises of approvals ("Re-check at approval"):  *)
(* an approval checks a payment against the ledger and posts it in one     *)
(* step, so the flags stored with an approved payment are those of the     *)
(* very ledger it was posted to.  No sessions, no locks, no half-done      *)
(* transactions.                                                           *)
(***************************************************************************)
EXTENDS LedgerRules

VARIABLES
  invoice,   \* invoice rows by number key
  posted,    \* invoice_payment rows
  status,    \* extraction.status ("unread": not stored yet)
  content,   \* line items of each payment's canonical form
  flags      \* extraction.validation_flags

ledgerVars == <<invoice, posted, status, content, flags>>

Ledger == [invoice |-> invoice, posted |-> posted]

\* Payment p's row after a decision.
Stores(p, lines, fs, st) ==
  /\ status' = [status EXCEPT ![p] = st]
  /\ content' = [content EXCEPT ![p] = lines]
  /\ flags' = [flags EXCEPT ![p] = fs]

PostsTo(L, posts) ==
  /\ invoice' = Posted(L, posts).invoice
  /\ posted' = Posted(L, posts).posted

\* The ledger after those of the payments ps that are approved in this step, in order.
After(ps) ==
  FoldLeft(LAMBDA L, p : IF status'[p] = "approved" THEN Posted(L, PostsOf(L, p, content'[p]))
                         ELSE L,
           Ledger, ps)

\* The payments of a message are read one after the other: each is approved at once
\* only if nothing at all is flagged, and counts for the next.
Read(ps) ==
  /\ \A n \in DOMAIN ps :
       /\ status[ps[n]] = "unread"
       /\ status'[ps[n]] \in {"pending_review", "approved"}
       /\ flags'[ps[n]] = FlagsOf(After(SubSeq(ps, 1, n - 1)), ps[n], content'[ps[n]])
       /\ status'[ps[n]] = "approved" => flags'[ps[n]] = {}
  /\ \A p \in Payments \ {ps[n] : n \in DOMAIN ps} :
       status'[p] = status[p] /\ content'[p] = content[p] /\ flags'[p] = flags[p]
  /\ invoice' = After(ps).invoice
  /\ posted' = After(ps).posted

\* A reviewer saves the payment, or approves it with no flag it did not carry.
Save(p, lines) ==
  /\ status[p] = "pending_review"
  /\ Stores(p, lines, FlagsOf(Ledger, p, lines), "pending_review")
  /\ UNCHANGED <<invoice, posted>>

Approve(p, lines) ==
  LET fs == FlagsOf(Ledger, p, lines) IN
  /\ status[p] = "pending_review"
  /\ fs \subseteq flags[p]
  /\ Stores(p, lines, fs, "approved")
  /\ PostsTo(Ledger, PostsOf(Ledger, p, lines))

\* A payment the client has in its books is posted unchecked.
Record(p) ==
  /\ status[p] = "pending_review"
  /\ p \in Historical
  /\ status' = [status EXCEPT ![p] = "already_recorded"]
  /\ PostsTo(Ledger, PostsOf(Ledger, p, content[p]))
  /\ UNCHANGED <<content, flags>>

\* The books are imported: invoices may become anything, pending payments are
\* flagged against them.
Import ==
  /\ \A p \in Payments : flags'[p] \in {flags[p], FlagsOf(Ledger', p, content[p])}
  /\ UNCHANGED <<posted, status, content>>

LedgerNext ==
  \/ Import
  \/ \E ps \in Mail : Read(ps)
  \/ \E p \in Payments :
       \/ Save(p, content'[p])
       \/ Approve(p, content'[p])
       \/ Record(p)

LedgerInit ==
  /\ posted = {}
  /\ status = [p \in Payments |-> "unread"]
  /\ flags = [p \in Payments |-> {}]

LedgerSpec == LedgerInit /\ [][LedgerNext]_ledgerVars
=============================================================================
