--------------------------- MODULE InvoicePosting ---------------------------
(***************************************************************************)
(* Approvals against the invoice ledger as the code makes them: sessions   *)
(* that look invoices up line by line, lock them, post and commit          *)
(* (save_edits, use_invoice and mark_already_recorded of review/service.py,*)
(* _route of normalize/service.py, csv_import.py, with LedgerRules for the *)
(* checks and the postings).                                               *)
(*                                                                         *)
(* A session is a worker's transaction that reads one message, or a web    *)
(* request.  At READ COMMITTED it sees what others have committed and what *)
(* it has written itself.  It holds three sorts of locks to its end: rows  *)
(* of the invoice table, advisory locks on the keys of invoices it did not *)
(* find, and rows of the extraction table it has written.                  *)
(*                                                                         *)
(* The row lock of an extraction is taken here with the decision; when a   *)
(* form changes something the code takes it before the first check, which  *)
(* changes who waits first and nothing that is read.  Payment keys, the    *)
(* other messages of a worker's email and the other payments of a bulk     *)
(* recording are left out.                                                 *)
(*                                                                         *)
(* There is one web process, and its event loop is a resource: the `async` *)
(* handlers (edit, import) run their SQL on it, the others in a thread,    *)
(* and the commit of every request (the exit of get_db) is dispatched by   *)
(* it.  Postgres knows nothing of that.                                    *)
(***************************************************************************)
EXTENDS LedgerRules

CONSTANTS
  Workers,     \* transactions of advance_once that read messages
  Requests,    \* web requests that may be in progress at once
  Loaded,      \* the invoices there are at first
  Forms,       \* what each payment's line items may be read or edited to
  Files,       \* open-invoice files that may be imported
  Blank        \* an outstanding_amount that is not given

Sessions == Workers \cup Requests

\* A file says what some invoices are for, and perhaps what is outstanding on them.
FileRow == [amount : Nat, left : Nat \cup {Blank}]

ASSUME PostingAssumption ==
  /\ Workers \cap Requests = {}
  /\ Loaded \in [Keys -> InvoiceRow]
  /\ DOMAIN Forms = Payments
  /\ \A p \in Payments : Forms[p] \subseteq Seq(Line)
  /\ \A f \in Files : DOMAIN f \subseteq Keys /\ \A k \in DOMAIN f : f[k] \in FileRow
  /\ Blank \notin Nat

VARIABLES
  invoice,   \* invoice rows by number key
  posted,    \* invoice_payment rows
  status,    \* extraction.status ("unread": not stored yet)
  content,   \* line items of each payment's canonical form
  flags,     \* extraction.validation_flags
  session    \* what each session is doing, has written and has locked

tables == <<invoice, posted, status, content, flags>>
vars == <<invoice, posted, status, content, flags, session>>

Ledger == [invoice |-> invoice, posted |-> posted]

Idle == [phase |-> "idle"]
Nothing == [x \in {} |-> x]

Init ==
  /\ invoice = Loaded
  /\ posted = {}
  /\ status = [p \in Payments |-> "unread"]
  /\ content = [p \in Payments |-> <<>>]
  /\ flags = [p \in Payments |-> {}]
  /\ session = [s \in Sessions |-> Idle]

-----------------------------------------------------------------------------
(* Sessions.                                                                *)

Busy(s) == session[s].phase # "idle"

Becomes(s, value) == session' = [session EXCEPT ![s] = value]

\* The handlers that run on the event loop, until they return.
OnLoop(s) == Busy(s) /\ session[s].by \in {"edit", "import"} /\ session[s].phase # "returned"

LoopFree == \A s \in Sessions : ~OnLoop(s)

\* Lock x of sort l ("rows", "keys" or "exts") is held by no one else.
Free(s, l, x) == \A t \in Sessions \ {s} : Busy(t) => x \notin session[t][l]

\* The ledger as the session sees it: what is committed, and what it has inserted.
View(s) ==
  [invoice |-> [k \in Keys |->
     IF k \in DOMAIN session[s].opened /\ ~Exists(Ledger, k) THEN session[s].opened[k]
     ELSE invoice[k]],
   posted |-> posted \cup session[s].wrote]

\* Number keys the session has inserted an invoice for: whoever inserts one too
\* waits for its commit.
Inserted(s) ==
  CASE ~Busy(s) -> {}
    [] Busy(s) /\ session[s].by = "import" -> DOMAIN session[s].books
    [] OTHER -> DOMAIN session[s].opened \ Known(Ledger)

MayInsert(s, k) == \A t \in Sessions \ {s} : k \notin Inserted(t)

\* A session at the first line of the first of the payments ps.
Starts(s, by, ps, lines, approve, shown) ==
  /\ ~Busy(s)
  /\ by # "route" => LoopFree
  /\ Becomes(s, [phase |-> "checking", by |-> by, payments |-> ps, lines |-> lines,
                 approve |-> approve, shown |-> shown, nth |-> 1, at |-> 1,
                 check |-> FreshCheck(Ledger), rows |-> {}, keys |-> {}, exts |-> {},
                 decided |-> Nothing, wrote |-> {}, opened |-> Nothing])
  /\ UNCHANGED tables

\* normalize_one comes to a message (that no other session is reading): its payments
\* are what the reading says.
BeginRoute(w) ==
  \E ps \in Mail :
    /\ \A n \in DOMAIN ps : status[ps[n]] = "unread"
    /\ \A v \in Workers : Busy(v) => session[v].payments # ps
    /\ \E lines \in [{ps[n] : n \in DOMAIN ps} -> UNION {Forms[p] : p \in Payments}] :
         /\ \A p \in DOMAIN lines : lines[p] \in Forms[p]
         /\ Starts(w, "route", ps, lines, TRUE, {})

\* save_edits: Save or Save & Approve, or from use_invoice and use_adjustment_target.
BeginEdit(r) ==
  \E p \in Payments : \E form \in Forms[p] :
    /\ status[p] = "pending_review"
    /\ \/ \E approve \in BOOLEAN :
            Starts(r, "edit", <<p>>, [q \in {p} |-> form], approve, flags[p])
       \/ Starts(r, "use", <<p>>, [q \in {p} |-> form], FALSE, flags[p])

-----------------------------------------------------------------------------
(* check_against_ledger, line by line.                                      *)

Current(s) == session[s].payments[session[s].nth]
FormOf(s) == session[s].lines[Current(s)]
LineLeft(s) == session[s].at <= Len(Ordered(FormOf(s)))
LineNo(s) == Ordered(FormOf(s))[session[s].at]
LineOf(s) == FormOf(s)[LineNo(s)]

Found(s) == LineOf(s).key # NoKey /\ Exists(View(s), LineOf(s).key)

\* The session's state once its line is checked.
Checked(s, found) ==
  [session[s] EXCEPT !.phase = "checking", !.at = @ + 1,
     !.check = CheckLine(View(s), found, @, Current(s), LineNo(s), LineOf(s))]

\* Mutant of CheckFound: the invoice is read without locking its row.
CheckUnlocked(s) ==
  /\ session[s].phase = "checking" /\ LineLeft(s) /\ Found(s)
  /\ Becomes(s, Checked(s, TRUE))
  /\ UNCHANGED tables

\* SELECT ... FOR UPDATE finds the invoice, once it gets it, and the line is checked against
\* the row as it then is.  (An Invoice that the session has loaded before, as after a line whose
\* invoice was missing, keeps the amounts it had: this is left out.)
CheckFound(s) ==
  /\ session[s].phase = "checking" /\ LineLeft(s) /\ Found(s)
  /\ Free(s, "rows", LineOf(s).key)
  /\ Becomes(s, [Checked(s, TRUE) EXCEPT !.rows = @ \cup {LineOf(s).key}])
  /\ UNCHANGED tables

\* It finds none; the advisory lock is taken only now.
FindMissing(s) ==
  /\ session[s].phase = "checking" /\ LineLeft(s) /\ ~Found(s)
  /\ LineOf(s).kind = "invoice"
  /\ Becomes(s, [session[s] EXCEPT !.phase = "waiting"])
  /\ UNCHANGED tables

\* The invoice is not looked up again.
LockMissing(s) ==
  /\ session[s].phase = "waiting"
  /\ Free(s, "keys", LineOf(s).key)
  /\ Becomes(s, [Checked(s, FALSE) EXCEPT !.keys = @ \cup {LineOf(s).key}])
  /\ UNCHANGED tables

\* An adjustment without an invoice of its own locks nothing.
CheckLoose(s) ==
  /\ session[s].phase = "checking" /\ LineLeft(s) /\ ~Found(s)
  /\ LineOf(s).kind = "adjustment"
  /\ Becomes(s, Checked(s, FALSE))
  /\ UNCHANGED tables

-----------------------------------------------------------------------------
(* The decision, written into the session and not yet committed.            *)

\* Mutant of MayApprove: a reviewer's approval is not held to the flags shown.
ApproveAnyway(s, fs) == IF session[s].by = "route" THEN fs = {} ELSE session[s].approve

\* _route approves a payment nothing is flagged on (and the model is sure of); a
\* reviewer's approval goes through if no flag is new.
MayApprove(s, fs) ==
  IF session[s].by = "route" THEN fs = {}
  ELSE session[s].approve /\ fs \subseteq session[s].shown

\* The session's state once it has decided on payment p and inserted `rows` for it.
Deciding(s, p, decision, rows) ==
  LET after == Posted(View(s), rows) IN
  [session[s] EXCEPT
     !.exts = @ \cup {p},
     !.decided = [q \in DOMAIN @ \cup {p} |-> IF q = p THEN decision ELSE @[q]],
     !.wrote = @ \cup (after.posted \ View(s).posted),
     !.opened = [k \in Known(after) \ Known(Ledger) |-> after.invoice[k]]]

\* ApprovalBlocked is caught by the handler: the edits and the new flags are kept.
Decide(s) ==
  /\ session[s].phase = "checking" /\ ~LineLeft(s)
  /\ LET p == Current(s)
         fs == session[s].check.flags \cup OtherFlags(View(s), p, FormOf(s))
         next(st, rows) ==
           [Deciding(s, p, [lines |-> FormOf(s), flags |-> fs, status |-> st], rows) EXCEPT
              !.phase = IF session[s].nth = Len(session[s].payments) THEN "returned" ELSE @,
              !.nth = @ + 1, !.at = 1, !.check = FreshCheck(View(s))]
     IN /\ Free(s, "exts", p)
        /\ \/ /\ MayApprove(s, fs)
              /\ Becomes(s, next("approved", PostsOf(View(s), p, FormOf(s))))
           \/ /\ session[s].by = "route"
              /\ Becomes(s, next("pending_review", {}))
           \/ /\ session[s].by # "route" /\ ~MayApprove(s, fs)
              /\ Becomes(s, next("kept", {}))
  /\ UNCHANGED tables

\* mark_already_recorded posts a historical payment without checking it; inserting
\* its rows waits for whoever has locked, or is inserting, their invoices.
BeginRecord(r) ==
  \E p \in Historical :
    /\ status[p] = "pending_review"
    /\ ~Busy(r) /\ LoopFree
    /\ Becomes(r, [phase |-> "recording", by |-> "record", payment |-> p,
                   lines |-> content[p], rows |-> {}, keys |-> {}, exts |-> {},
                   decided |-> Nothing, wrote |-> {}, opened |-> Nothing])
    /\ UNCHANGED tables

PostRecorded(r) ==
  /\ session[r].phase = "recording"
  /\ LET p == session[r].payment
         posts == PostsOf(Ledger, p, session[r].lines)
         ks == {q.key : q \in posts}
         decision == [lines |-> session[r].lines, flags |-> flags[p],
                      status |-> "already_recorded"]
     IN /\ Free(r, "exts", p)
        /\ \A k \in ks : Free(r, "rows", k) /\ MayInsert(r, k)
        /\ Becomes(r, [Deciding(r, p, decision, posts) EXCEPT
             !.phase = "returned", !.rows = ks])
  /\ UNCHANGED tables

-----------------------------------------------------------------------------
(* import_open_invoices and refresh_pending.                                *)

\* The invoice row a file's row becomes.  What an outstanding amount leaves
\* unexplained by our own postings was paid outside.
FromBooks(k, row) ==
  LET outside == row.amount - row.left - (Paid(Ledger, k) - invoice[k].before) IN
  [source |-> "books", amount |-> row.amount,
   before |-> IF row.left = Blank THEN invoice[k].before
              ELSE IF ~Exists(Ledger, k) THEN row.amount - row.left
              ELSE IF outside > 0 THEN outside ELSE 0]

BeginImport(r) ==
  \E f \in Files :
    /\ ~Busy(r) /\ LoopFree
    /\ Becomes(r, [phase |-> "importing", by |-> "import",
                   books |-> [k \in DOMAIN f |-> FromBooks(k, f[k])],
                   created |-> {k \in DOMAIN f : ~Exists(Ledger, k)},
                   refreshed |-> <<>>, rows |-> {}, keys |-> {}, exts |-> {}])
    /\ UNCHANGED tables

WithBooks(books) ==
  [Ledger EXCEPT !.invoice =
     [k \in Keys |-> IF k \in DOMAIN books THEN books[k] ELSE invoice[k]]]

\* The rows are written and every pending payment is checked again.  The locks are
\* taken one by one in the code; here the import waits until it can have them all.
ImportRows(r) ==
  /\ session[r].phase = "importing"
  /\ LET books == session[r].books
         L == WithBooks(books)
         pending == {p \in Payments : status[p] = "pending_review"}
         stale == {p \in pending : FlagsOf(L, p, content[p]) # flags[p]}
         ks == (UNION {{content[p][i].key : i \in DOMAIN content[p]} : p \in pending}) \ {NoKey}
         rows == DOMAIN books \cup (ks \cap Known(L))
     IN /\ \A k \in session[r].created : ~Exists(Ledger, k) /\ MayInsert(r, k)
        /\ \A k \in rows : Free(r, "rows", k)
        /\ \A k \in ks \ Known(L) : Free(r, "keys", k)
        /\ \A p \in stale : Free(r, "exts", p)
        /\ Becomes(r, [session[r] EXCEPT
             !.phase = "returned", !.rows = rows, !.keys = ks \ Known(L), !.exts = stale,
             !.refreshed = [p \in stale |-> FlagsOf(L, p, content[p])]])
  /\ UNCHANGED tables

-----------------------------------------------------------------------------
(* The end of a session.                                                    *)

\* What a session leaves in one column of the extraction table.
Written(s, column, old) ==
  [p \in Payments |-> IF p \in DOMAIN session[s].decided
                      THEN session[s].decided[p][column] ELSE old[p]]

\* Mutant of StatusAfter: what a refused approval, or a plain save, came to is
\* written into the status.
OutcomeAsStatus(s, p) == Written(s, "status", status)[p]

\* A save leaves the status alone.
StatusAfter(s, p) ==
  LET new == Written(s, "status", status)[p] IN IF new = "kept" THEN status[p] ELSE new

\* Recording leaves the flags alone.
Commit(s) ==
  /\ session[s].phase = "returned" /\ session[s].by # "import"
  /\ session[s].by # "route" => LoopFree
  /\ invoice' = View(s).invoice
  /\ posted' = View(s).posted
  /\ status' = [p \in Payments |-> StatusAfter(s, p)]
  /\ content' = Written(s, "lines", content)
  /\ flags' = IF session[s].by = "record" THEN flags ELSE Written(s, "flags", flags)
  /\ Becomes(s, Idle)

CommitImport(r) ==
  /\ session[r].phase = "returned" /\ session[r].by = "import"
  /\ LoopFree
  /\ invoice' = WithBooks(session[r].books).invoice
  /\ flags' = [p \in Payments |->
       IF p \in DOMAIN session[r].refreshed THEN session[r].refreshed[p] ELSE flags[p]]
  /\ Becomes(r, Idle)
  /\ UNCHANGED <<posted, status, content>>

\* A database error, a deadlock Postgres broke, or the end of the process: nothing
\* of the session happened.  (A message that fails can be retried.)
Abort(s) ==
  /\ Busy(s)
  /\ Becomes(s, Idle)
  /\ UNCHANGED tables

Next ==
  \/ \E w \in Workers : BeginRoute(w)
  \/ \E r \in Requests :
       BeginEdit(r) \/ BeginRecord(r) \/ PostRecorded(r)
         \/ BeginImport(r) \/ ImportRows(r) \/ CommitImport(r)
  \/ \E s \in Sessions :
       CheckFound(s) \/ FindMissing(s) \/ LockMissing(s) \/ CheckLoose(s)
         \/ Decide(s) \/ Commit(s) \/ Abort(s)

Spec == Init /\ [][Next]_vars

-----------------------------------------------------------------------------
(* Properties.                                                              *)

TypeOK ==
  /\ invoice \in [Keys -> InvoiceRow]
  /\ posted \subseteq Post
  /\ status \in [Payments -> {"unread", "pending_review", "approved", "already_recorded"}]
  /\ content \in [Payments -> Seq(Line)]
  /\ DOMAIN flags = Payments
  /\ \A s \in Sessions : Busy(s) => /\ session[s].rows \subseteq Keys
                                   /\ session[s].keys \subseteq Keys
                                   /\ session[s].exts \subseteq Payments

\* The rows show payment p as its lines do: each invoice line once, for the amount
\* and the invoice it shows, and adjustments of the invoices they name.
Shows(rows, p, lines) ==
  LET mine == {r \in rows : r.payment = p} IN
  /\ {r.line : r \in {q \in mine : q.kind = "invoice"}}
       = {i \in DOMAIN lines : lines[i].kind = "invoice"}
  /\ \A r \in mine : r.key = lines[r.line].key
  /\ \A q, r \in mine : q.line = r.line => q = r
  /\ \A r \in mine : r.kind = "invoice" => r.settled = Settled(lines[r.line])

Final == {"approved", "already_recorded"}

\* All or nothing: an approved (or recorded) payment has each of its invoice lines in
\* the ledger, once, for the amount and invoice it shows; any other payment has none.
PostedAsApproved ==
  \A p \in Payments :
    IF status[p] \in Final THEN Shows(posted, p, content[p])
    ELSE \A r \in posted : r.payment # p

\* "Two pending installments can each pass on their own and overpay together ... So
\* the ledger check runs again at approval time": no approval leaves an invoice
\* overpaid unless the payment carried a flag that says so.
OverpaymentWasShown ==
  [][\A p \in Payments : status[p] # "approved" /\ status'[p] = "approved" =>
       \A r \in posted' \ posted : r.payment = p /\ Overpaid(Ledger', r.key) =>
         \E f \in flags[p] : /\ f.kind \in OverpayKinds
                             /\ f.line \in DOMAIN content'[p]
                             /\ content'[p][f.line].key = r.key]_vars

\* Sessions, locks and all, implement the ledger in which an approval checks and posts
\* in one step.
Abstract == INSTANCE InvoiceLedger

ImplementsLedger == Abstract!LedgerSpec
=============================================================================
