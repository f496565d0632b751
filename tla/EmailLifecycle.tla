--------------------------- MODULE EmailLifecycle ---------------------------
(***************************************************************************)
(* The life of an email from "new" to "done": classify, extract and        *)
(* normalize (pipeline/advance.py, normalize/service.py), routing          *)
(* (pipeline/routing.py) and what a reviewer can do to it and to its       *)
(* payments (review/service.py).                                           *)
(*                                                                         *)
(* Everything lives in one Postgres database at READ COMMITTED and nothing *)
(* locks an email, a message or an extraction row.  So every actor here    *)
(* is a session that first reads and later writes:                         *)
(*                                                                         *)
(*   - a worker is a caller of advance_once: the scheduler job, "Poll now" *)
(*     or the CLI tick.  It reads the statuses of a whole batch first,     *)
(*     then takes one email at a time, reads what that step needs, is busy *)
(*     for as long as the splitter, the extractors or the LLM take, and    *)
(*     commits.                                                            *)
(*   - a reviewer session checks what it is about to change, and commits.  *)
(*                                                                         *)
(* An UPDATE writes only changed columns and has no version check: a late  *)
(* commit overwrites a status it never saw.  Extraction rows are kept in   *)
(* insertion order per message.  What a row is routed to (auto-approved,   *)
(* a duplicate, left for review) is decided by payment keys and ledger     *)
(* checks that are modelled elsewhere; here a reading of a message stores  *)
(* any of the sequences in Readings.  Emails classified before threads     *)
(* existed (sources with no message) are left out.                         *)
(***************************************************************************)
EXTENDS Naturals, Sequences, FiniteSets

CONSTANTS
  Workers,      \* sessions that may be inside advance_once
  Scheduler,    \* the one of them APScheduler starts again and again
  Reviewers,    \* reviewer sessions
  Emails,
  Messages,     \* the messages the splitter finds in the emails' bodies
  EmailOf,      \* email_message.email_id
  Pos,          \* email_message.position; 0 is the newest
  Parts,        \* kinds of message bodies considered, see PartKinds
  Attached,     \* kinds of attachments considered, see AttachmentKinds
  Readings,     \* what one reading of a message may store, see PossibleReadings
  MaxReadings   \* bound: no reprocess of a message that was read this often

\* A message body: nothing a payment can be in; prose; long prose with digits;
\* prose with an amount or a reference; a table with numbers.
PartKinds == {"empty", "plain", "digits", "text", "table"}
AttachmentKinds == {"none", "skipped", "live"}

EmailStatuses == {"new", "classified", "extracted", "review", "done", "error"}
MessageStatuses == {"none", "new", "no_content", "seen", "failed"}
RowStatuses == {"pending_review", "approved", "rejected", "already_recorded",
                "duplicate", "superseded"}

\* A payment; a payment from before go-live or from an older message; or a row
\* that is no remittance (or has an empty canonical form).
RowKinds == {"payment", "historical", "other"}

\* `queued` counts the delivery rows inserted for the extraction; `reading` says
\* which reading of its message it came from.
Row == [kind : RowKinds, status : RowStatuses, queued : Nat, reading : Nat]

Outcome(kind, status) == [kind |-> kind, status |-> status]
Outcomes == {Outcome("payment", s) : s \in {"pending_review", "approved", "duplicate"}}
              \cup {Outcome("historical", s) : s \in {"pending_review", "duplicate"}}
              \cup {Outcome("other", "pending_review")}
PossibleReadings == Seq(Outcomes) \ {<<>>}

ASSUME LifecycleAssumption ==
  /\ Scheduler \in Workers
  /\ EmailOf \in [Messages -> Emails]
  /\ Pos \in [Messages -> Nat]
  /\ \A m, n \in Messages : EmailOf[m] = EmailOf[n] /\ Pos[m] = Pos[n] => m = n
  /\ \A e \in Emails : \E m \in Messages : EmailOf[m] = e /\ Pos[m] = 0
  /\ Parts \subseteq PartKinds /\ Parts # {}
  /\ Attached \subseteq AttachmentKinds /\ Attached # {}
  /\ Readings \subseteq PossibleReadings
  /\ MaxReadings \in Nat

VARIABLES
  part,         \* what each message's body holds; never changes
  att,          \* what each email has attached; never changes
  email,        \* email.status
  message,      \* email_message.status ("none": not split yet)
  live,         \* times a message's extraction sources were inserted
  raw,          \* how many of those sets of sources have been extracted
  placeholder,  \* the email has a skipped "no extractable content" source
  rows,         \* extraction rows of each message, in insertion order
  worker,       \* what each advance_once session holds
  reviewer,     \* what each reviewer session holds
  retried,      \* history: emails a reviewer has retried (whole or a message)
  contended,    \* history: emails changed by one worker while another had them in its
                \* batch, or at one reviewer's request while another's was under way
  crossed       \* history: rows changed by a reviewer's request while another's that
                \* changes them too was under way

content == <<part, att>>
store == <<email, message, live, raw, placeholder, rows>>
history == <<retried, contended, crossed>>
vars == <<part, att, email, message, live, raw, placeholder, rows,
          worker, reviewer, retried, contended, crossed>>

MsgsOf(e) == {m \in Messages : EmailOf[m] = e}

Init ==
  /\ part \in [Messages -> Parts]
  /\ att \in [Emails -> Attached]
  /\ email = [e \in Emails |-> "new"]
  /\ message = [m \in Messages |-> "none"]
  /\ live = [m \in Messages |-> 0]
  /\ raw = [m \in Messages |-> 0]
  /\ placeholder = [e \in Emails |-> FALSE]
  /\ rows = [m \in Messages |-> <<>>]
  /\ worker = [w \in Workers |-> [phase |-> "idle"]]
  /\ reviewer = [r \in Reviewers |-> [act |-> "none"]]
  /\ retried = {} /\ contended = {} /\ crossed = {}

-----------------------------------------------------------------------------
(* Rows of the extraction table.                                           *)

Live == {"pending_review", "approved", "rejected", "already_recorded", "duplicate"}
Posted == {"approved", "already_recorded"}

RowsWith(m, statuses) == {k \in DOMAIN rows[m] : rows[m][k].status \in statuses}

RowsOf(e, statuses) == UNION {{m} \X RowsWith(m, statuses) : m \in MsgsOf(e)}

PendingRows(e) == RowsOf(e, {"pending_review"})

LastReading(m) == IF rows[m] = <<>> THEN 0 ELSE rows[m][Len(rows[m])].reading

-----------------------------------------------------------------------------
(* advance_once: the batch.                                                *)

PendingStatuses == {"new", "classified", "extracted"}

\* The batch is read once; each email in it is later handled by the status it
\* had then.
StartBatch(w) ==
  LET due == {e \in Emails : email[e] \in PendingStatuses} IN
  /\ worker[w].phase = "idle"
  /\ due # {}
  /\ worker' = [worker EXCEPT ![w] =
       [phase |-> "batch", todo |-> {[email |-> e, was |-> email[e]] : e \in due}]]
  /\ UNCHANGED <<content, store, reviewer, history>>

\* What is left of the batch after entry t.
Rest(w, t) ==
  LET rest == worker[w].todo \ {t}
  IN IF rest = {} THEN [phase |-> "idle"] ELSE [phase |-> "batch", todo |-> rest]

\* The entries of worker w's batch that are in status `was` by its reading.
Entries(w, was) ==
  IF worker[w].phase = "batch" THEN {t \in worker[w].todo : t.was = was} ELSE {}

\* Worker w starts on entry t and holds `read`, what it read for the step.
Begin(w, t, read) ==
  /\ worker' = [worker EXCEPT ![w] =
       [phase |-> t.was, todo |-> worker[w].todo, entry |-> t, read |-> read]]
  /\ UNCHANGED <<content, store, reviewer, history>>

\* The emails a worker has yet to finish.
Busy(x) == x.phase \in {"batch"} \cup PendingStatuses
InHand(x) == IF Busy(x) THEN {t.email : t \in x.todo} ELSE {}

\* Worker w commits its step on email e, which leaves it in `status`.
Finish(w, status) ==
  LET e == worker[w].entry.email IN
  /\ email' = [email EXCEPT ![e] = status]
  /\ worker' = [worker EXCEPT ![w] = Rest(w, worker[w].entry)]
  /\ contended' = IF \E v \in Workers \ {w} : e \in InHand(worker[v])
                  THEN contended \cup {e} ELSE contended
  /\ UNCHANGED <<content, reviewer, retried, crossed>>

\* Any exception rolls the savepoint back and leaves the email in error.
StepRaises(w) ==
  /\ worker[w].phase \in PendingStatuses
  /\ Finish(w, "error")
  /\ UNCHANGED <<message, live, raw, placeholder, rows>>

\* The process dies; what was not committed never happened.
Crash(w) ==
  /\ worker[w].phase \notin {"idle", "down"}
  /\ worker' = [worker EXCEPT ![w] = [phase |-> "down"]]
  /\ UNCHANGED <<content, store, reviewer, history>>

Restart(w) ==
  /\ worker[w].phase = "down"
  /\ worker' = [worker EXCEPT ![w] = [phase |-> "idle"]]
  /\ UNCHANGED <<content, store, reviewer, history>>

-----------------------------------------------------------------------------
(* _classify and _ensure_messages.                                         *)

Signalled(m) == part[m] \in {"text", "table"}

\* The message the attachments belong to: the newest with content, else 0.
Carries(m) ==
  LET e == EmailOf[m]
      filled == {n \in MsgsOf(e) : part[n] # "empty"}
  IN /\ att[e] # "none"
     /\ IF filled = {} THEN Pos[m] = 0
        ELSE m \in filled /\ \A n \in filled : Pos[m] <= Pos[n]

\* A message's status when it is split off; `known` are the messages whose
\* fingerprint was recorded before or whose references all were.
SplitStatus(m, known) ==
  IF ~Carries(m) /\ part[m] = "empty" THEN "no_content"
  ELSE IF ~Carries(m) /\ Signalled(m) /\ m \in known THEN "seen"
  ELSE "new"

\* Does the message get a live source: its email's attachments, its table, or
\* (unless the attachments speak for it) a text that may hold a payment.
HasSource(m, status) ==
  LET attached == Carries(m) /\ att[EmailOf[m]] = "live" IN
  \/ attached
  \/ status = "new" /\ part[m] = "table"
  \/ status = "new" /\ ~attached /\ part[m] \in {"text", "digits"}

AlreadySplit(e) == \E m \in MsgsOf(e) : message[m] # "none"

BeginClassify(w) == \E t \in Entries(w, "new") : Begin(w, t, AlreadySplit(t.email))

\* Messages are inserted once and reused afterwards; two sessions that both
\* insert them collide on (email, position) and the second one raises.
EndClassify(w) ==
  /\ worker[w].phase = "new"
  /\ LET e == worker[w].entry.email
         ms == MsgsOf(e)
     IN /\ AlreadySplit(e) => worker[w].read
        /\ \E known \in SUBSET {m \in ms : Signalled(m)} :
             /\ AlreadySplit(e) => known = {}
             /\ LET st == [m \in ms |-> IF AlreadySplit(e) THEN message[m]
                                        ELSE SplitStatus(m, known)]
                    sourced == {m \in ms : HasSource(m, st[m])}
                    nothing == /\ sourced = {} /\ att[e] = "none"
                               /\ \/ \E m \in ms : st[m] = "seen"
                                  \/ \A m \in ms : st[m] = "no_content"
                IN /\ message' = [m \in Messages |-> IF m \in ms THEN st[m] ELSE message[m]]
                   /\ live' = [m \in Messages |-> IF m \in sourced THEN live[m] + 1 ELSE live[m]]
                   /\ placeholder' = [placeholder EXCEPT ![e] = @ \/ (sourced = {} /\ ~nothing)]
                   /\ Finish(w, IF nothing THEN "done" ELSE "classified")
  /\ UNCHANGED <<raw, rows>>

ClassifyCollides(w) ==
  /\ worker[w].phase = "new"
  /\ AlreadySplit(worker[w].entry.email)
  /\ ~worker[w].read
  /\ Finish(w, "error")
  /\ UNCHANGED <<message, live, raw, placeholder, rows>>

-----------------------------------------------------------------------------
(* _extract.                                                               *)

\* Mutant of ToExtract: sources are extracted again whatever is on file.
ExtractAgain(e) == [m \in MsgsOf(e) |-> live[m]]

\* Sets of sources of each message with no raw extraction yet.
ToExtract(e) ==
  [m \in MsgsOf(e) |-> IF raw[m] < live[m] THEN live[m] - raw[m] ELSE 0]

BeginExtract(w) == \E t \in Entries(w, "classified") : Begin(w, t, ToExtract(t.email))

\* Each source is extracted in a savepoint of its own: a failed one errors the
\* email, the others keep what they got.
EndExtract(w) ==
  /\ worker[w].phase = "classified"
  /\ LET e == worker[w].entry.email
         todo == {m \in MsgsOf(e) : worker[w].read[m] > 0}
     IN IF \A m \in MsgsOf(e) : live[m] = 0
        THEN /\ Finish(w, "error")  \* no extractable content
             /\ UNCHANGED raw
        ELSE \E failed \in SUBSET todo :
               /\ raw' = [m \in Messages |-> IF m \in todo \ failed
                                             THEN raw[m] + worker[w].read[m] ELSE raw[m]]
               /\ Finish(w, IF failed = {} THEN "extracted" ELSE "error")
  /\ UNCHANGED <<message, live, placeholder, rows>>

-----------------------------------------------------------------------------
(* normalize_one.                                                          *)

\* Mutant of Groups: no look at the extraction rows a message already has.
NewMessages(e) == {m \in MsgsOf(e) : message[m] = "new" /\ raw[m] > 0}

\* Mutant of Groups: one message of the email, the oldest, is read per run.
OldestGroup(e) ==
  LET groups == {m \in NewMessages(e) : RowsWith(m, Live) = {}}
  IN {m \in groups : \A n \in groups : Pos[n] <= Pos[m]}

\* The messages to read: new, extracted, and with no live extraction row.
Groups(e) ==
  {m \in MsgsOf(e) : message[m] = "new" /\ raw[m] > 0 /\ RowsWith(m, Live) = {}}

BeginNormalize(w) == \E t \in Entries(w, "extracted") : Begin(w, t, Groups(t.email))

\* Mutant of Stored: whatever is not left for review is queued.
QueuedUnlessPending(m, outcome) ==
  [kind |-> outcome.kind, status |-> outcome.status,
   queued |-> IF outcome.status # "pending_review" THEN 1 ELSE 0,
   reading |-> LastReading(m) + 1]

\* The rows one reading stores: an auto-approved one is queued for delivery in
\* the same transaction.
Stored(m, outcome) ==
  [kind |-> outcome.kind, status |-> outcome.status,
   queued |-> IF outcome.status = "approved" THEN 1 ELSE 0,
   reading |-> LastReading(m) + 1]

\* settle_email, as far as a session with rows `rs` of email e sees.
Settled(e, rs) ==
  IF \E m \in MsgsOf(e) : \E k \in DOMAIN rs[m] : rs[m][k].status = "pending_review"
  THEN "review" ELSE "done"

\* Messages fail one by one: each is read in a savepoint of its own.
EndNormalize(w) ==
  /\ worker[w].phase = "extracted"
  /\ worker[w].read # {}
  /\ LET e == worker[w].entry.email
         groups == worker[w].read
     IN \E failed \in SUBSET groups : \E got \in [groups \ failed -> Readings] :
          /\ rows' = [m \in Messages |->
               IF m \in groups \ failed
               THEN rows[m] \o [k \in DOMAIN got[m] |-> Stored(m, got[m][k])]
               ELSE rows[m]]
          /\ message' = [m \in Messages |-> IF m \in failed THEN "failed" ELSE message[m]]
          /\ Finish(w, IF failed = groups THEN "error" ELSE Settled(e, rows'))
  /\ UNCHANGED <<live, raw, placeholder>>

\* Mutant of NothingToNormalize: with nothing to read the email is left alone.
LeftExtracted(w) ==
  /\ worker[w].phase = "extracted"
  /\ worker[w].read = {}
  /\ Finish(w, "extracted")
  /\ UNCHANGED <<message, live, raw, placeholder, rows>>

\* Nothing to read: settle what is there, or say so.
NothingToNormalize(w) ==
  /\ worker[w].phase = "extracted"
  /\ worker[w].read = {}
  /\ LET e == worker[w].entry.email IN
       Finish(w, IF RowsOf(e, Live) # {} THEN Settled(e, rows) ELSE "error")
  /\ UNCHANGED <<message, live, raw, placeholder, rows>>

-----------------------------------------------------------------------------
(* A reviewer's request: the first half reads and checks, the second writes *)
(* and commits.                                                             *)

Free(r) == reviewer[r].act = "none"

Hold(r, request) ==
  /\ Free(r)
  /\ reviewer' = [reviewer EXCEPT ![r] = request]
  /\ UNCHANGED <<content, store, worker, history>>

Done(r) == reviewer' = [reviewer EXCEPT ![r] = [act |-> "none"]]

\* The rows a request changes, and the email it is about.
Targets(y) ==
  CASE y.act = "verdict" -> {y.row} [] y.act = "reprocess" -> y.stale [] OTHER -> {}

About(y, e) ==
  \/ y.act = "verdict" /\ EmailOf[y.row[1]] = e
  \/ y.act \in {"reprocess", "retry_email"} /\ y.email = e
  \/ y.act = "retry_message" /\ EmailOf[y.message] = e

\* The request of r is committed; it may cross those of other reviewers.
Commits(r) ==
  LET y == reviewer[r]
      others == {reviewer[q] : q \in Reviewers \ {r}}
  IN /\ Done(r)
     /\ contended' = contended \cup {e \in Emails : About(y, e) /\ \E z \in others : About(z, e)}
     /\ crossed' = crossed \cup {p \in Targets(y) : \E z \in others : p \in Targets(z)}

Verdicts == {"approved", "rejected", "already_recorded"}

\* What each verdict asks of the row.
Allowed(row, verdict) ==
  /\ row.status = "pending_review"
  /\ verdict = "approved" => row.kind # "other"
  /\ verdict = "already_recorded" => row.kind = "historical"

\* save_edits with approve, reject_extraction (also from the bulk action) and
\* mark_already_recorded check the row and, for settle_email, count what else is
\* pending.
BeginVerdict(r) ==
  \E e \in Emails : \E p \in PendingRows(e) : \E verdict \in Verdicts :
    /\ Allowed(rows[p[1]][p[2]], verdict)
    /\ Hold(r, [act |-> "verdict", verdict |-> verdict, row |-> p, was |-> email[e],
                last |-> PendingRows(e) = {p}])

CommitVerdict(r) ==
  /\ reviewer[r].act = "verdict"
  /\ LET m == reviewer[r].row[1]
         k == reviewer[r].row[2]
         verdict == reviewer[r].verdict
     IN /\ rows' = [rows EXCEPT ![m][k].status = verdict,
                                ![m][k].queued = IF verdict = "approved" THEN @ + 1 ELSE @]
        /\ email' = [email EXCEPT ![EmailOf[m]] =
                       IF reviewer[r].last /\ reviewer[r].was # "done" THEN "done" ELSE @]
  /\ Commits(r)
  /\ UNCHANGED <<content, message, live, raw, placeholder, worker, retried>>

\* Mutant of BeginReprocess: a message with a posted row is read again too.
ReprocessPosted(r) ==
  \E e \in Emails :
    LET groups == {m \in MsgsOf(e) : RowsWith(m, {"pending_review"}) # {}} IN
    /\ groups # {}
    /\ \A m \in groups : LastReading(m) < MaxReadings
    /\ Hold(r, [act |-> "reprocess", email |-> e, was |-> email[e],
                stale |-> UNION {{m} \X RowsWith(m, Live) : m \in groups}])

\* reprocess_email: every message with a pending row is read again, unless one of
\* its rows is posted.
BeginReprocess(r) ==
  \E e \in Emails :
    LET groups == {m \in MsgsOf(e) : RowsWith(m, {"pending_review"}) # {}} IN
    /\ groups # {}
    /\ \A m \in groups : RowsWith(m, Posted) = {}
    /\ \A m \in groups : LastReading(m) < MaxReadings
    /\ Hold(r, [act |-> "reprocess", email |-> e, was |-> email[e],
                stale |-> UNION {{m} \X RowsWith(m, Live \ Posted) : m \in groups}])

CommitReprocess(r) ==
  /\ reviewer[r].act = "reprocess"
  /\ rows' = [m \in Messages |-> [k \in DOMAIN rows[m] |->
       IF <<m, k>> \in reviewer[r].stale THEN [rows[m][k] EXCEPT !.status = "superseded"]
       ELSE rows[m][k]]]
  /\ email' = [email EXCEPT ![reviewer[r].email] =
                 IF reviewer[r].was = "classified" THEN @ ELSE "classified"]
  /\ Commits(r)
  /\ UNCHANGED <<content, message, live, raw, placeholder, worker, retried>>

\* retry_email: back to the first stage that has something to work on.
BeginRetryEmail(r) ==
  \E e \in Emails :
    /\ email[e] = "error"
    /\ Hold(r, [act |-> "retry_email", email |-> e,
                to |-> IF placeholder[e] \/ \E m \in MsgsOf(e) : live[m] > 0
                       THEN "classified" ELSE "new",
                failed |-> {m \in MsgsOf(e) : message[m] = "failed"}])

CommitRetryEmail(r) ==
  /\ reviewer[r].act = "retry_email"
  /\ email' = [email EXCEPT ![reviewer[r].email] = reviewer[r].to]
  /\ message' = [m \in Messages |-> IF m \in reviewer[r].failed THEN "new" ELSE message[m]]
  /\ retried' = retried \cup {reviewer[r].email}
  /\ Commits(r)
  /\ UNCHANGED <<content, live, raw, placeholder, rows, worker>>

\* retry_message: the message is new again and its email waits for normalize.
BeginRetryMessage(r) ==
  \E m \in Messages :
    /\ message[m] = "failed"
    /\ Hold(r, [act |-> "retry_message", message |-> m, was |-> email[EmailOf[m]]])

\* Mutant of CommitRetryMessage: the two statuses are swapped.
RetrySwapped(r) ==
  /\ reviewer[r].act = "retry_message"
  /\ LET m == reviewer[r].message IN
     /\ message' = [message EXCEPT ![m] = "extracted"]
     /\ email' = [email EXCEPT ![EmailOf[m]] = "new"]
     /\ retried' = retried \cup {EmailOf[m]}
  /\ Commits(r)
  /\ UNCHANGED <<content, live, raw, placeholder, rows, worker>>

CommitRetryMessage(r) ==
  /\ reviewer[r].act = "retry_message"
  /\ LET m == reviewer[r].message IN
     /\ message' = [message EXCEPT ![m] = "new"]
     /\ email' = [email EXCEPT ![EmailOf[m]] =
                    IF reviewer[r].was = "extracted" THEN @ ELSE "extracted"]
     /\ retried' = retried \cup {EmailOf[m]}
  /\ Commits(r)
  /\ UNCHANGED <<content, live, raw, placeholder, rows, worker>>

\* The request fails or is refused (ApprovalBlocked, a database error).
Refused(r) ==
  /\ ~Free(r)
  /\ Done(r)
  /\ UNCHANGED <<content, store, worker, history>>

-----------------------------------------------------------------------------
Advance(w) ==
  \/ StartBatch(w)
  \/ BeginClassify(w) \/ EndClassify(w) \/ ClassifyCollides(w)
  \/ BeginExtract(w) \/ EndExtract(w)
  \/ BeginNormalize(w) \/ EndNormalize(w) \/ NothingToNormalize(w)
  \/ StepRaises(w) \/ Crash(w) \/ Restart(w)

Review(r) ==
  \/ BeginVerdict(r) \/ CommitVerdict(r)
  \/ BeginReprocess(r) \/ CommitReprocess(r)
  \/ BeginRetryEmail(r) \/ CommitRetryEmail(r)
  \/ BeginRetryMessage(r) \/ CommitRetryMessage(r)
  \/ Refused(r)

Next == (\E w \in Workers : Advance(w)) \/ (\E r \in Reviewers : Review(r))

Spec == Init /\ [][Next]_vars

(* Fairness: the scheduler job runs again and again and a step of it ends   *)
(* (extractors and the LLM client have timeouts); a process that died is    *)
(* started again, and does not die in every run.  Reviewers owe nothing.    *)
Step(w) ==
  \/ BeginClassify(w) \/ EndClassify(w) \/ ClassifyCollides(w)
  \/ BeginExtract(w) \/ EndExtract(w)
  \/ BeginNormalize(w) \/ EndNormalize(w) \/ NothingToNormalize(w)
  \/ StepRaises(w)

SchedulerFairness ==
  WF_vars(StartBatch(Scheduler)) /\ WF_vars(Step(Scheduler)) /\ WF_vars(Restart(Scheduler))

CrashesEnd == <>[][~\E w \in Workers : Crash(w)]_vars

LiveSpec == Spec /\ SchedulerFairness /\ CrashesEnd

-----------------------------------------------------------------------------
(* Properties.                                                              *)

TypeOK ==
  /\ email \in [Emails -> EmailStatuses]
  /\ message \in [Messages -> MessageStatuses]
  /\ live \in [Messages -> Nat]
  /\ raw \in [Messages -> Nat]
  /\ placeholder \in [Emails -> BOOLEAN]
  /\ rows \in [Messages -> Seq(Row)]
  /\ retried \cup contended \subseteq Emails
  /\ \A p \in crossed : p[1] \in Messages /\ p[2] \in DOMAIN rows[p[1]]

\* normalize_one reads "every new, not-yet-processed message of one email": the rows of
\* a message that count are those of a single reading of it, so a payment is not in the
\* queue, or in the ledger, twice because it was read twice.  Two workers that have the
\* email at once do read it twice; nothing else does, whatever is retried, reprocessed,
\* restarted or fails in part.
OneReading ==
  \A m \in Messages : EmailOf[m] \notin contended =>
    \A j, k \in RowsWith(m, Live) : rows[m][j].reading = rows[m][k].reading

\* No content reaches the LLM twice: a message's sources are inserted once and
\* extracted once, whatever is retried, reprocessed or restarted (with the same
\* exception).
ContentReadOnce ==
  \A m \in Messages : EmailOf[m] \notin contended => live[m] <= 1 /\ raw[m] <= live[m]

\* The ledger design: "nothing in the app moves an approved extraction back out
\* of approved" (its ledger rows and its delivery have no way back).  Two reviewers
\* do: the later of two requests about one payment wins.
ApprovedIsFinal ==
  [][\A m \in Messages : \A k \in RowsWith(m, {"approved"}) : rows'[m][k].status = "approved"]_vars

\* Nothing else does: an approved or recorded payment stays so whatever workers and
\* reviewers do, unless two requests that change that very payment overlapped.
ApprovedUnlessCrossed ==
  [][\A m \in Messages : \A k \in RowsWith(m, Posted) :
       <<m, k>> \notin crossed' => rows'[m][k].status = rows[m][k].status]_vars

\* An approved payment is queued for delivery, whoever approved it; and no payment is
\* queued twice, or rejected, a duplicate, recorded or superseded and still queued,
\* unless two reviewers' requests overlapped on it.
QueuedIffApproved ==
  \A m \in Messages : \A k \in DOMAIN rows[m] :
    /\ rows[m][k].status = "approved" => rows[m][k].queued > 0
    /\ <<m, k>> \notin crossed =>
         rows[m][k].queued = IF rows[m][k].status = "approved" THEN 1 ELSE 0

\* A message that was extracted but of which nothing came: no live row, no error.
Unread(m) == message[m] = "new" /\ raw[m] > 0 /\ RowsWith(m, Live) = {}

\* "Nothing is dropped silently": no email ends done with a message in it that
\* was extracted, never read, and is listed nowhere.
NothingStranded ==
  \A m \in Messages : email[EmailOf[m]] = "done" => ~Unread(m)

\* The same, for the emails that nobody has retried and no two workers or reviewers'
\* requests overlapped on.
FirstPassStrandsNothing ==
  \A m \in Messages :
    email[EmailOf[m]] = "done" /\ EmailOf[m] \notin retried \cup contended => ~Unread(m)

\* Every email that enters the pipeline, or is sent back into it, comes out: for
\* review, done, or on the Errors page.
EmailComesOut ==
  \A e \in Emails : []<>(email[e] \notin PendingStatuses)
=============================================================================
