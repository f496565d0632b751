----------------------------- MODULE PaymentKeys -----------------------------
(***************************************************************************)
(* How the pipeline knows a payment again: payment keys and duplicates     *)
(* (threads/dedupe.py), the memory of messages already recorded            *)
(* (threads/memory.py, _ensure_messages of pipeline/advance.py), and what  *)
(* a reviewer does to keys (save_edits, reject, already recorded and       *)
(* reprocess of review/service.py).                                        *)
(*                                                                         *)
(* A worker reads a message in one transaction and claims a key for each   *)
(* of its payments under an advisory lock it holds until it commits;       *)
(* others see its rows only then.  Rejecting a payment, or editing its     *)
(* reference, frees a key and takes no lock on it.  There is one reviewer  *)
(* request at a time: what two of them do to one row is the business of    *)
(* EmailLifecycle, and so is a message that two workers read at once.      *)
(*                                                                         *)
(* Every message is in an email of its own.  All rows are remittances, and *)
(* all headers have a total.  A row that is superseded has no part in any  *)
(* look-up, so a reprocessed row simply becomes unread again.              *)
(***************************************************************************)
EXTENDS Integers, Sequences, FiniteSets

CONSTANTS
  Workers,     \* sessions that may be reading messages
  Reviewer,    \* the reviewer's session
  Messages,
  Payments,    \* extraction rows
  Strong,      \* keys of a bank reference, a cheque or a document number
  Weak,        \* keys made of payer, amount and date
  NoKey,
  PaysIn,      \* the payments in each message
  Headers,     \* what each payment's header may be read, or edited, to say
  Text,        \* fingerprint of each message
  Skippable,   \* messages with a payment signal of their own and no attachments
  Refs,        \* references that account for all amounts of a message's text
  Historical,  \* payments from before go-live or from older messages
  Tolerance,   \* DUPLICATE_TOLERANCE
  MaxReads     \* bound: no reprocess of a message that was read this often

\* What of a header makes the key, and the total it states.
Header == [key : Strong \cup Weak \cup {NoKey}, total : Nat]

ASSUME KeysAssumption ==
  /\ Reviewer \notin Workers
  /\ Messages # {}
  /\ NoKey \notin Strong \cup Weak
  /\ Strong \cap Weak = {}
  /\ PaysIn \in [Messages -> Seq(Payments)]
  /\ \A m, n \in Messages : \A i \in DOMAIN PaysIn[m] : \A j \in DOMAIN PaysIn[n] :
       PaysIn[m][i] = PaysIn[n][j] => m = n /\ i = j
  /\ Headers \in [Payments -> SUBSET Header]
  /\ DOMAIN Text = Messages
  /\ Skippable \subseteq Messages
  /\ Refs \in [Messages -> SUBSET Strong]
  /\ Historical \subseteq Payments
  /\ Tolerance \in Nat
  /\ MaxReads \in Nat

Sessions == Workers \cup {Reviewer}

VARIABLES
  message,   \* email_message.status ("unsplit": not there yet)
  reads,     \* how often each message was read
  row,       \* the extraction table, as committed
  session    \* what each session is doing, has written and has locked

vars == <<message, reads, row, session>>

Statuses == {"unread", "pending_review", "approved", "rejected", "already_recorded",
             "duplicate"}

\* KEY_LIVE: rows that own their key; RECORDED_FOR_SEEN: rows that count as recorded.
KeyLive == {"pending_review", "approved", "already_recorded"}
RecordedForSeen == KeyLive \cup {"duplicate"}

\* A flag names the payment it is about.
FlagKinds == {"reference", "possible_duplicate", "rejected_before", "historical", "other"}
Flag(kind, p) == [kind |-> kind, of |-> p]
Flags == [kind : FlagKinds, of : Payments]

\* The flags that depend on the key, dropped when the key changes.
KeyFlags == {"reference", "possible_duplicate", "rejected_before"}

Row == [status : Statuses, stated : Header, key : Strong \cup Weak \cup {NoKey},
        linked : BOOLEAN, flags : SUBSET Flags]

Blank == [status |-> "unread", stated |-> [key |-> NoKey, total |-> 0], key |-> NoKey,
          linked |-> FALSE, flags |-> {}]

\* A session: a worker reads the nth payment of a message, the reviewer saves one.
\* `wrote` are the rows it has written, `mine` what it wrote, `locks` the keys it locked.
Session == [phase : {"idle", "reading", "saving"}, message : Messages, nth : Nat \ {0},
            wrote : SUBSET Payments, mine : [Payments -> Row], locks : SUBSET Strong]

Untouched == [p \in Payments |-> Blank]

\* An idle session has written and locked nothing.
Fresh == [phase |-> "idle", message |-> CHOOSE m \in Messages : TRUE, nth |-> 1,
          wrote |-> {}, mine |-> Untouched, locks |-> {}]
Idle(s) == session[s].phase = "idle"
Ends(s) == session' = [session EXCEPT ![s] = Fresh]

Init ==
  /\ message = [m \in Messages |-> "unsplit"]
  /\ reads = [m \in Messages |-> 0]
  /\ row = Untouched
  /\ session = [s \in Sessions |-> Fresh]

PaymentsOf(m) == {PaysIn[m][n] : n \in DOMAIN PaysIn[m]}

-----------------------------------------------------------------------------
(* The extraction table as a session sees it, and its keys.                 *)

View(s) == [p \in Payments |-> IF p \in session[s].wrote THEN session[s].mine[p] ELSE row[p]]

\* The row holds its key against others.
Owns(x, k) == x.key = k /\ x.status \in KeyLive

Owners(rows, p, k) == {q \in Payments \ {p} : Owns(rows[q], k)}

RejectedWith(rows, p, k) ==
  {q \in Payments \ {p} : rows[q].key = k /\ rows[q].status = "rejected"}

\* Key k's advisory lock is not held by another session.
Unlocked(s, k) == \A t \in Sessions \ {s} : k \notin session[t].locks

\* Mutant of MayLook: the key is looked up whoever is claiming it.
LookAnyway(s, k) == TRUE

\* lock_payment_key: only a strong key is locked before it is looked up.
MayLook(s, k) == k \in Strong => Unlocked(s, k)

LocksWith(s, k) == session[s].locks \cup ({k} \cap Strong)

Flagged(x, kind, q) == [x EXCEPT !.flags = @ \cup {Flag(kind, q)}]

Close(a, b) == a - b <= Tolerance /\ b - a <= Tolerance

\* The key of row x is claimed; one of the payments qs is named in a flag, if any.
Claims(x, kind, qs) ==
  LET claimed == [x EXCEPT !.key = x.stated.key] IN
  IF qs = {} THEN {claimed} ELSE {Flagged(claimed, kind, q) : q \in qs}

\* The payment states a key that payment q owns: it stays without one.
Linked(rows, x, q) ==
  LET linked == [x EXCEPT !.linked = TRUE] IN
  IF Close(x.stated.total, rows[q].stated.total)
  THEN [linked EXCEPT !.status = "duplicate"]
  ELSE Flagged(linked, "reference", q)

\* assign_payment_key on row x, payment p: what may become of it.
Assigned(rows, p, x) ==
  LET k == x.stated.key
      owners == Owners(rows, p, k)
  IN IF k = NoKey THEN {x}
     ELSE IF k \in Weak THEN Claims(x, "possible_duplicate", owners)
     ELSE IF owners = {} THEN Claims(x, "rejected_before", RejectedWith(rows, p, k))
     ELSE {Linked(rows, x, q) : q \in owners}

-----------------------------------------------------------------------------
(* Is a message of a new email read at all?  (_ensure_messages)             *)

\* message_is_recorded: it was read, and each of its payments is recorded.
MessageIsRecorded(m) ==
  LET read == {p \in PaymentsOf(m) : row[p].status # "unread"} IN
  read # {} /\ \A p \in read : row[p].status \in RecordedForSeen

SeenByFingerprint(m) ==
  \E n \in Messages \ {m} : Text[n] = Text[m] /\ message[n] = "new" /\ MessageIsRecorded(n)

AllReferencesRecorded(m) ==
  Refs[m] # {} /\ \A k \in Refs[m] : \E q \in Payments : Owns(row[q], k)

Seen(m) == m \in Skippable /\ (SeenByFingerprint(m) \/ AllReferencesRecorded(m))

Split(m) ==
  /\ message[m] = "unsplit"
  /\ message' = [message EXCEPT ![m] = IF Seen(m) THEN "seen" ELSE "new"]
  /\ UNCHANGED <<reads, row, session>>

-----------------------------------------------------------------------------
(* A worker reads a message: _normalize_group and _route.                   *)

\* The LLM has answered; the rows are flushed and not committed.
BeginRead(w, m) ==
  \E h \in [PaymentsOf(m) -> UNION {Headers[p] : p \in PaymentsOf(m)}] :
    /\ Idle(w)
    /\ message[m] = "new"
    /\ \A p \in PaymentsOf(m) : row[p].status = "unread" /\ h[p] \in Headers[p]
    /\ \A v \in Workers : ~Idle(v) => session[v].message # m
    /\ session' = [session EXCEPT ![w] =
         [Fresh EXCEPT !.phase = "reading", !.message = m, !.wrote = PaymentsOf(m),
            !.mine = [p \in Payments |-> IF p \in PaymentsOf(m)
                        THEN [Blank EXCEPT !.status = "pending_review", !.stated = h[p]]
                        ELSE Blank]]]
    /\ UNCHANGED <<message, reads, row>>

\* What routing makes of row x of payment p.  A duplicate is left alone; what is
\* historical, or flagged by another check, waits for a reviewer, and so does
\* whatever the model is not sure of.
Routed(p, x) ==
  LET history == IF p \in Historical THEN {Flag("historical", p)} ELSE {}
      known == [x EXCEPT !.flags = @ \cup history]
  IN IF x.status = "duplicate" THEN {x}
     ELSE {known, Flagged(known, "other", p)}
            \cup (IF known.flags = {} THEN {[known EXCEPT !.status = "approved"]} ELSE {})

\* The next payment of the message gets its key and is routed.
Place(w) ==
  /\ session[w].phase = "reading"
  /\ session[w].nth <= Len(PaysIn[session[w].message])
  /\ LET p == PaysIn[session[w].message][session[w].nth]
         x == session[w].mine[p]
     IN /\ MayLook(w, x.stated.key)
        /\ \E y \in Assigned(View(w), p, x) : \E z \in Routed(p, y) :
             session' = [session EXCEPT ![w].nth = @ + 1, ![w].mine[p] = z,
                                        ![w].locks = LocksWith(w, x.stated.key)]
  /\ UNCHANGED <<message, reads, row>>

CommitRead(w) ==
  /\ session[w].phase = "reading"
  /\ session[w].nth > Len(PaysIn[session[w].message])
  /\ row' = View(w)
  /\ reads' = [reads EXCEPT ![session[w].message] = @ + 1]
  /\ Ends(w)
  /\ UNCHANGED message

\* Any exception: a bad answer, a deadlock that Postgres broke.  The savepoint is
\* rolled back, its locks with it, and the message is listed as failed.
FailRead(w) ==
  /\ session[w].phase = "reading"
  /\ message' = [message EXCEPT ![session[w].message] = "failed"]
  /\ Ends(w)
  /\ UNCHANGED <<reads, row>>

RetryMessage(m) ==
  /\ message[m] = "failed"
  /\ message' = [message EXCEPT ![m] = "new"]
  /\ UNCHANGED <<reads, row, session>>

-----------------------------------------------------------------------------
(* The reviewer.                                                            *)

\* Mutant of Kept: the duplicate warnings go with every save.
KeptHistory(x, changed) == {f \in x.flags : f.kind = "historical"}

\* sticky_flags: what a save keeps of the flags.
Kept(x, changed) ==
  {f \in x.flags : f.kind = "historical" \/ (~changed /\ f.kind \in KeyFlags)}

\* A row whose header changed gives up its key, or its link, and is looked up afresh.
Rekeyed(rows, p, x) == Assigned(rows, p, [x EXCEPT !.key = NoKey, !.linked = FALSE])

\* save_edits: the row of payment p with header h, saved or approved.  A reference
\* that another payment owns is refused.  Approval needs that no flag is new.
BeginSave ==
  \E p \in Payments : \E h \in Headers[p] \cup {row[p].stated} : \E approve \in BOOLEAN :
    LET changed == h # row[p].stated
        saved == [row[p] EXCEPT !.stated = h, !.flags = Kept(row[p], changed)]
    IN /\ Idle(Reviewer)
       /\ row[p].status = "pending_review"
       /\ changed => /\ MayLook(Reviewer, h.key)
                     /\ h.key \in Strong => Owners(row, p, h.key) = {}
       /\ \E x \in {saved, Flagged(saved, "other", p)} :
          \E y \in IF changed THEN Rekeyed(row, p, x) ELSE {x} :
            session' = [session EXCEPT ![Reviewer] =
              [Fresh EXCEPT !.phase = "saving", !.wrote = {p},
                 !.mine = [Untouched EXCEPT ![p] =
                   [y EXCEPT !.status = IF approve /\ y.flags \subseteq row[p].flags
                                        THEN "approved" ELSE @]],
                 !.locks = IF changed THEN {h.key} \cap Strong ELSE {}]]
       /\ UNCHANGED <<message, reads, row>>

CommitSave ==
  /\ session[Reviewer].phase = "saving"
  /\ row' = View(Reviewer)
  /\ Ends(Reviewer)
  /\ UNCHANGED <<message, reads>>

\* The request fails.
DropSave ==
  /\ session[Reviewer].phase = "saving"
  /\ Ends(Reviewer)
  /\ UNCHANGED <<message, reads, row>>

\* reject_extraction: the row keeps its key and does not own it any more.
Reject(p) ==
  /\ Idle(Reviewer)
  /\ row[p].status = "pending_review"
  /\ row' = [row EXCEPT ![p].status = "rejected"]
  /\ UNCHANGED <<message, reads, session>>

\* mark_already_recorded: for historical payments that are linked to no other.
MarkAlreadyRecorded(p) ==
  /\ Idle(Reviewer)
  /\ row[p].status = "pending_review"
  /\ p \in Historical
  /\ ~row[p].linked
  /\ row' = [row EXCEPT ![p].status = "already_recorded"]
  /\ UNCHANGED <<message, reads, session>>

\* reprocess_email: the message has a pending payment and none that is posted.
Reprocess(m) ==
  /\ Idle(Reviewer)
  /\ \E p \in PaymentsOf(m) : row[p].status = "pending_review"
  /\ \A p \in PaymentsOf(m) : row[p].status \notin {"approved", "already_recorded"}
  /\ reads[m] < MaxReads
  /\ row' = [p \in Payments |-> IF p \in PaymentsOf(m) THEN Blank ELSE row[p]]
  /\ UNCHANGED <<message, reads, session>>

-----------------------------------------------------------------------------
Next ==
  \/ \E m \in Messages : Split(m) \/ RetryMessage(m) \/ Reprocess(m)
  \/ \E w \in Workers, m \in Messages : BeginRead(w, m)
  \/ \E w \in Workers : Place(w) \/ CommitRead(w) \/ FailRead(w)
  \/ BeginSave \/ CommitSave \/ DropSave
  \/ \E p \in Payments : Reject(p) \/ MarkAlreadyRecorded(p)

Spec == Init /\ [][Next]_vars

-----------------------------------------------------------------------------
(* Properties.                                                              *)

TypeOK ==
  /\ message \in [Messages -> {"unsplit", "new", "seen", "failed"}]
  /\ reads \in [Messages -> Nat]
  /\ row \in [Payments -> Row]
  /\ session \in [Sessions -> Session]

\* "Lock BEFORE looking up, so two simultaneous arrivals can't both pass": no session
\* ever holds, uncommitted, a strong key that another row owns, so no commit is refused
\* by the unique index ux_extraction_payment_key.
NoClaimCollides ==
  \A s \in Sessions : \A p \in session[s].wrote : \A k \in Strong :
    Owns(session[s].mine[p], k) => Owners(View(s), p, k) = {}

\* The same reference is not paid twice unseen: of two payments that state one strong
\* key and are both approved (or recorded), one was flagged as using a reference that
\* was already taken.
NoUnseenDoublePayment ==
  \A p, q \in Payments :
    /\ p # q
    /\ row[p].stated.key \in Strong
    /\ row[p].stated.key = row[q].stated.key
    /\ {row[p].status, row[q].status} \subseteq {"approved", "already_recorded"}
    => \E f \in row[p].flags \cup row[q].flags : f.kind = "reference"

\* Whatever was read, edited, rejected and read again: the key a row owns is the one its
\* header states, and it has none exactly if it states none or was found taken.
KeyMatchesHeader ==
  \A p \in Payments : row[p].status \in KeyLive =>
    row[p].key = IF row[p].linked THEN NoKey ELSE row[p].stated.key
=============================================================================
