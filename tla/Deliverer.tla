----------------------------- MODULE Deliverer ------------------------------
(***************************************************************************)
(* Delivery of approved payments to the accounting backend                 *)
(* (ar_pipeline/deliver/deliverer.py and backend_client.py, and            *)
(* resend_delivery of review/service.py).  The backend is not in the       *)
(* repository, which only has a stub of it for demonstrations: it is       *)
(* modelled by what the client asks of it, that a request whose            *)
(* Idempotency-Key it has on file is answered and not recorded again.      *)
(*                                                                         *)
(* run_deliveries reads every pending, due delivery row into its session   *)
(* and then works through that snapshot, one POST and one commit per row.  *)
(* Nothing re-reads a row before its turn, and three callers run the same  *)
(* function: the scheduler job, the reviewer's "Poll now", and the CLI     *)
(* `tick`.  A worker of this model is one such caller.                     *)
(*                                                                         *)
(* The database is READ COMMITTED and an UPDATE writes only the columns    *)
(* the session changed, so a worker's commit is modelled column by column: *)
(* a retry leaves `status` alone, whatever another worker made of it.      *)
(* Row locks are not modelled (a worker may be made to wait by one, which  *)
(* only removes interleavings).  The batch limit of 20 is not modelled:    *)
(* the model's deliveries fit in one batch.                                *)
(***************************************************************************)
EXTENDS Naturals, FiniteSets

CONSTANTS
  Workers,        \* sessions that may be inside run_deliveries
  Scheduler,      \* the one of them APScheduler starts again and again
  Deliveries,     \* delivery rows
  Extractions,    \* extraction rows (payments)
  ExtOf,          \* delivery.extraction_id
  BackoffSteps    \* len(_BACKOFF); 5 in the code

ASSUME DelivererAssumption ==
  /\ Scheduler \in Workers
  /\ ExtOf \in [Deliveries -> Extractions]
  /\ BackoffSteps \in Nat

VARIABLES
  extStatus,  \* extraction.status as far as delivery can tell
  status,     \* delivery.status ("none": the row is not inserted yet)
  attempts,   \* delivery.attempts
  due,        \* next_attempt_at is null or has passed
  worker,     \* what each session holds, see WorkerState
  keys,       \* backend: idempotency keys it has on file
  late,       \* rows whose abandoned request the backend may still get
  bookings,   \* backend: times each payment was recorded as a new remittance
  reported    \* history: payments for which "delivered" was ever committed

backendVars == <<keys, late, bookings>>
rowVars == <<status, attempts, due>>
vars == <<extStatus, status, attempts, due, worker, keys, late, bookings, reported>>

Answers == {"ok", "transient_fail", "permanent_fail", "raised"}

\* A delivery row as a session read it.
RowRead == [id : Deliveries, attempts : Nat]

\* A session between two runs, or dead, holds nothing.  In a run it holds the rows still
\* to do, as it read them; in "posting" and "answered", `row` is the row whose
\* POST is out or back.
Idle == [phase |-> "idle"]
Down == [phase |-> "down"]
WorkerState ==
  {Idle, Down}
    \cup [phase : {"running"}, rows : SUBSET RowRead]
    \cup [phase : {"posting"}, rows : SUBSET RowRead, row : RowRead]
    \cup [phase : {"answered"}, rows : SUBSET RowRead, row : RowRead, answer : Answers]

TypeOK ==
  /\ extStatus \in [Extractions -> {"pending_review", "approved", "withdrawn"}]
  /\ status \in [Deliveries -> {"none", "pending", "delivered", "failed"}]
  /\ attempts \in [Deliveries -> Nat]
  /\ due \in [Deliveries -> BOOLEAN]
  /\ worker \in [Workers -> WorkerState]
  /\ keys \subseteq Extractions
  /\ late \subseteq Deliveries
  /\ bookings \in [Extractions -> Nat]
  /\ reported \subseteq Extractions

Init ==
  /\ extStatus = [e \in Extractions |-> "pending_review"]
  /\ status = [d \in Deliveries |-> "none"]
  /\ attempts = [d \in Deliveries |-> 0]
  /\ due = [d \in Deliveries |-> FALSE]
  /\ worker = [w \in Workers |-> Idle]
  /\ keys = {}
  /\ late = {}
  /\ bookings = [e \in Extractions |-> 0]
  /\ reported = {}

-----------------------------------------------------------------------------
(* The review side, as far as delivery sees it.                            *)

\* approve_and_queue.  An extraction already approved can be queued a second
\* time: two reviewers (or a reviewer and the auto-approve rule) may both have
\* read it as pending_review before either committed.
Queue(d) ==
  /\ status[d] = "none"
  /\ extStatus[ExtOf[d]] # "withdrawn"
  /\ extStatus' = [extStatus EXCEPT ![ExtOf[d]] = "approved"]
  /\ status' = [status EXCEPT ![d] = "pending"]
  /\ due' = [due EXCEPT ![d] = TRUE]
  /\ UNCHANGED <<attempts, worker, backendVars, reported>>

\* A reject or a reprocess that read the extraction while it was pending and
\* commits after the approval: the status is overwritten, the delivery stays.
Withdraw(e) ==
  /\ extStatus[e] = "approved"
  /\ extStatus' = [extStatus EXCEPT ![e] = "withdrawn"]
  /\ UNCHANGED <<rowVars, worker, backendVars, reported>>

\* The reviewer's Resend button: only a failed row, with a fresh retry budget.
Resend(d) ==
  /\ status[d] = "failed"
  /\ status' = [status EXCEPT ![d] = "pending"]
  /\ attempts' = [attempts EXCEPT ![d] = 0]
  /\ due' = [due EXCEPT ![d] = TRUE]
  /\ UNCHANGED <<extStatus, worker, backendVars, reported>>

\* The backoff of a retried row runs out.
BackoffElapses(d) ==
  /\ status[d] = "pending"
  /\ ~due[d]
  /\ due' = [due EXCEPT ![d] = TRUE]
  /\ UNCHANGED <<extStatus, status, attempts, worker, backendVars, reported>>

-----------------------------------------------------------------------------
(* One run of run_deliveries.                                              *)

DueRows == {d \in Deliveries : status[d] = "pending" /\ due[d]}

StartRun(w) ==
  /\ worker[w].phase = "idle"
  /\ DueRows # {}
  /\ worker' = [worker EXCEPT ![w] =
       [phase |-> "running",
        rows |-> {[id |-> d, attempts |-> attempts[d]] : d \in DueRows}]]
  /\ UNCHANGED <<extStatus, rowVars, backendVars, reported>>

\* What is left of worker w's run once it is done with row r.
RunAfter(w, r) ==
  LET rest == worker[w].rows \ {r}
  IN IF rest = {} THEN Idle ELSE [phase |-> "running", rows |-> rest]

\* The extraction is looked up afresh; if it is not approved any more the row
\* fails without a request.
Refuse(w) ==
  /\ worker[w].phase = "running"
  /\ \E r \in worker[w].rows :
       /\ extStatus[ExtOf[r.id]] # "approved"
       /\ status' = [status EXCEPT ![r.id] = "failed"]
       /\ attempts' = [attempts EXCEPT ![r.id] = r.attempts + 1]
       /\ worker' = [worker EXCEPT ![w] = RunAfter(w, r)]
  /\ UNCHANGED <<extStatus, due, backendVars, reported>>

Post(w) ==
  /\ worker[w].phase = "running"
  /\ \E r \in worker[w].rows :
       /\ extStatus[ExtOf[r.id]] = "approved"
       /\ worker' = [worker EXCEPT ![w] =
                       [phase |-> "posting", rows |-> worker[w].rows, row |-> r]]
  /\ UNCHANGED <<extStatus, rowVars, backendVars, reported>>

-----------------------------------------------------------------------------
(* The request, the backend and the answer.                                *)

\* Mutant of IdempotencyKey: the delivery row's own id as the key.
KeyPerDelivery(d) == d

\* send(..., str(ext.id)): the key is the payment's, not the delivery row's.
IdempotencyKey(d) == ExtOf[d]

\* POST /remittances: a key on file is answered without recording again.
Receive(d) ==
  /\ keys' = keys \cup {IdempotencyKey(d)}
  /\ bookings' = IF IdempotencyKey(d) \in keys THEN bookings
                 ELSE [bookings EXCEPT ![ExtOf[d]] = @ + 1]

Answer(w, a) ==
  worker' = [worker EXCEPT ![w] =
               [phase |-> "answered", rows |-> worker[w].rows,
                row |-> worker[w].row, answer |-> a]]

\* Mutant of NotAccepted: any answer at all counts as delivered.
AnyAnswerIsOk(w) ==
  /\ worker[w].phase = "posting"
  /\ Answer(w, "ok")
  /\ UNCHANGED <<extStatus, rowVars, backendVars, reported>>

\* The backend takes the remittance; the client may still fail to learn it:
\* a dropped or unreadable response, or a 5xx on the way back.
Accepted(w) ==
  /\ worker[w].phase = "posting"
  /\ Receive(worker[w].row.id)
  /\ \E a \in {"ok", "transient_fail", "raised"} : Answer(w, a)
  /\ UNCHANGED <<extStatus, rowVars, late, reported>>

\* 429, 5xx, no connection (transient), any other status (permanent), or an
\* exception send does not classify; the backend records nothing.
NotAccepted(w) ==
  /\ worker[w].phase = "posting"
  /\ \E a \in {"transient_fail", "permanent_fail", "raised"} : Answer(w, a)
  /\ UNCHANGED <<extStatus, rowVars, backendVars, reported>>

\* The client's 30 s timeout, with the request still on its way.
TimesOut(w) ==
  /\ worker[w].phase = "posting"
  /\ Answer(w, "transient_fail")
  /\ late' = late \cup {worker[w].row.id}
  /\ UNCHANGED <<extStatus, rowVars, keys, bookings, reported>>

ArrivesLate(d) ==
  /\ d \in late
  /\ Receive(d)
  /\ late' = late \ {d}
  /\ UNCHANGED <<extStatus, rowVars, worker, reported>>

-----------------------------------------------------------------------------
(* The row update and commit after an answer.                              *)

\* Mutant of NewAttempts: an attempt that is to be retried is not counted.
RetryUncounted(w) ==
  IF worker[w].answer = "transient_fail" THEN worker[w].row.attempts
  ELSE worker[w].row.attempts + 1

\* An exception rolls the savepoint back and expires the row, so the count of
\* attempts is read again before it is raised; otherwise it is the one read when
\* the run began.
NewAttempts(w) ==
  1 + (IF worker[w].answer = "raised" THEN attempts[worker[w].row.id]
       ELSE worker[w].row.attempts)

\* A transient failure waits for its next step of the ladder, if there is one.
Retries(w) ==
  /\ worker[w].answer = "transient_fail"
  /\ worker[w].row.attempts + 1 <= BackoffSteps

Commit(w) ==
  /\ worker[w].phase = "answered"
  /\ LET d == worker[w].row.id IN
     /\ attempts' = [attempts EXCEPT ![d] = NewAttempts(w)]
     /\ status' = [status EXCEPT ![d] =
                     IF worker[w].answer = "ok" THEN "delivered"
                     ELSE IF Retries(w) THEN @ ELSE "failed"]
     /\ due' = [due EXCEPT ![d] = @ /\ ~Retries(w)]
     /\ reported' = IF worker[w].answer = "ok" THEN reported \cup {ExtOf[d]} ELSE reported
  /\ worker' = [worker EXCEPT ![w] = RunAfter(w, worker[w].row)]
  /\ UNCHANGED <<extStatus, backendVars>>

\* The process dies, or the session is lost, anywhere in a run: what was not
\* committed is gone, what the backend has it keeps (its store is on disk), and
\* a request already sent may still get there.
Crash(w) ==
  /\ worker[w].phase \notin {"idle", "down"}
  /\ worker' = [worker EXCEPT ![w] = Down]
  /\ late' = IF worker[w].phase = "posting"
             THEN late \cup {worker[w].row.id} ELSE late
  /\ UNCHANGED <<extStatus, rowVars, keys, bookings, reported>>

Restart(w) ==
  /\ worker[w].phase = "down"
  /\ worker' = [worker EXCEPT ![w] = Idle]
  /\ UNCHANGED <<extStatus, rowVars, backendVars, reported>>

-----------------------------------------------------------------------------
Review == \/ \E d \in Deliveries : Queue(d) \/ Resend(d)
          \/ \E e \in Extractions : Withdraw(e)

Run(w) == \/ StartRun(w) \/ Refuse(w) \/ Post(w)
          \/ Accepted(w) \/ NotAccepted(w) \/ TimesOut(w)
          \/ Commit(w) \/ Crash(w) \/ Restart(w)

Next ==
  \/ Review
  \/ \E d \in Deliveries : BackoffElapses(d)
  \/ \E w \in Workers : Run(w)
  \/ \E d \in Deliveries : ArrivesLate(d)

Spec == Init /\ [][Next]_vars

(* Fairness.  The scheduler job is started again on every interval and a     *)
(* started run goes on: the POST has a timeout, and time passes.  A process  *)
(* that died is started again; one killed on every run delivers nothing, so  *)
(* crashes are assumed to end.  Nothing is assumed of the other sessions or  *)
(* of the reviewer.                                                          *)
SchedulerFairness ==
  /\ WF_vars(StartRun(Scheduler))
  /\ WF_vars(Refuse(Scheduler) \/ Post(Scheduler))
  /\ WF_vars(Accepted(Scheduler) \/ NotAccepted(Scheduler) \/ TimesOut(Scheduler))
  /\ WF_vars(Commit(Scheduler))
  /\ WF_vars(Restart(Scheduler))
  /\ \A d \in Deliveries : WF_vars(BackoffElapses(d))

CrashesEnd == <>[][~\E w \in Workers : Crash(w)]_vars

LiveSpec == Spec /\ SchedulerFairness /\ CrashesEnd

-----------------------------------------------------------------------------
(* Properties.                                                              *)

\* However often a payment is sent - retried, resent, raced by another worker,
\* resumed after a crash, or queued twice by two approvals - the backend
\* records it once.
BookedOnce == \A e \in Extractions : bookings[e] <= 1

\* A row marked delivered is a remittance the backend really has.
DeliveredIsBooked ==
  \A d \in Deliveries : status[d] = "delivered" => bookings[ExtOf[d]] > 0

\* A row waiting for a retry has used at most the ladder's steps, also when two
\* workers count its attempts from different snapshots; so the next backoff is
\* always a step of the ladder.
RetryWithinLadder ==
  \A d \in Deliveries : status[d] = "pending" => attempts[d] <= BackoffSteps

\* Every queued delivery is eventually confirmed or given up (and then shown on
\* the Errors page): it does not stay pending for ever.
EveryDeliverySettles == \A d \in Deliveries : []<>(status[d] # "pending")

\* The deliverer implements the feed: booked at most once, only after approval,
\* and reported only when booked.
Feed == INSTANCE RemittanceFeed WITH
  Payments <- Extractions,
  approved <- {e \in Extractions : extStatus[e] # "pending_review"}

ImplementsFeed == Feed!FeedSpec
=============================================================================
