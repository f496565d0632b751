--------------------------- MODULE DelivererProofs ---------------------------
(***************************************************************************)
(* Proofs about the deliverer, for any number of sessions, delivery rows   *)
(* and payments and any backoff ladder: its state is well typed, a payment *)
(* is booked at most once, a row marked delivered is booked, a row waiting *)
(* for a retry is on the ladder, and the deliverer implements the          *)
(* remittance feed.                                                        *)
(***************************************************************************)
EXTENDS Deliverer, TLAPS

\* What each phase of a session lets one say of what it holds.
LEMMA HeldRows ==
  ASSUME TypeOK, NEW w \in Workers
  PROVE  /\ worker[w].phase \in {"idle", "down", "running", "posting", "answered"}
         /\ worker[w].phase \in {"running", "posting", "answered"} =>
              worker[w].rows \in SUBSET RowRead
         /\ worker[w].phase \in {"posting", "answered"} =>
              /\ worker[w].row \in RowRead
              /\ worker[w].row.id \in Deliveries
              /\ worker[w].row.attempts \in Nat
         /\ worker[w].phase = "answered" => worker[w].answer \in Answers
<1>1. worker[w] \in WorkerState
  BY DEF TypeOK
<1>2. CASE worker[w] \in {Idle, Down}
  BY <1>2 DEF Idle, Down
<1>3. CASE worker[w] \in [phase : {"running"}, rows : SUBSET RowRead]
  BY <1>3
<1>4. CASE worker[w] \in [phase : {"posting"}, rows : SUBSET RowRead, row : RowRead]
  BY <1>4 DEF RowRead
<1>5. CASE worker[w] \in [phase : {"answered"}, rows : SUBSET RowRead, row : RowRead,
                          answer : Answers]
  BY <1>5 DEF RowRead
<1>. QED
  BY <1>1, <1>2, <1>3, <1>4, <1>5 DEF WorkerState

\* What is left of a run is a run or nothing.
LEMMA RunAfterType ==
  ASSUME NEW w \in Workers, NEW r, worker[w].rows \in SUBSET RowRead
  PROVE  RunAfter(w, r) \in WorkerState
BY DEF RunAfter, WorkerState

\* Every state of the deliverer is well typed; the base of all that follows.
LEMMA TypeStep ==
  ASSUME TypeOK, [Next]_vars
  PROVE  TypeOK'
<1>. USE DelivererAssumption
<1>1. ASSUME NEW d \in Deliveries, Queue(d)
      PROVE  TypeOK'
  BY <1>1 DEF Queue, TypeOK, backendVars
<1>2. ASSUME NEW d \in Deliveries, Resend(d)
      PROVE  TypeOK'
  BY <1>2 DEF Resend, TypeOK, backendVars
<1>3. ASSUME NEW e \in Extractions, Withdraw(e)
      PROVE  TypeOK'
  BY <1>3 DEF Withdraw, TypeOK, backendVars, rowVars
<1>4. ASSUME NEW d \in Deliveries, BackoffElapses(d)
      PROVE  TypeOK'
  BY <1>4 DEF BackoffElapses, TypeOK, backendVars
<1>5. ASSUME NEW w \in Workers, StartRun(w)
      PROVE  TypeOK'
  <2>. DEFINE read == {[id |-> d, attempts |-> attempts[d]] : d \in DueRows}
  <2>1. read \in SUBSET RowRead
    BY DEF TypeOK, RowRead, DueRows
  <2>2. [phase |-> "running", rows |-> read] \in WorkerState
    BY <2>1 DEF WorkerState
  <2>. QED
    BY <1>5, <2>2 DEF StartRun, TypeOK, backendVars, rowVars
<1>6. ASSUME NEW w \in Workers, Refuse(w)
      PROVE  TypeOK'
  <2>1. worker[w].rows \in SUBSET RowRead
    BY <1>6, HeldRows DEF Refuse
  <2>2. PICK r \in worker[w].rows :
          /\ status' = [status EXCEPT ![r.id] = "failed"]
          /\ attempts' = [attempts EXCEPT ![r.id] = r.attempts + 1]
          /\ worker' = [worker EXCEPT ![w] = RunAfter(w, r)]
    BY <1>6 DEF Refuse
  <2>3. r.id \in Deliveries /\ r.attempts \in Nat
    BY <2>1 DEF RowRead
  <2>4. RunAfter(w, r) \in WorkerState
    BY <2>1, RunAfterType
  <2>5. status' \in [Deliveries -> {"none", "pending", "delivered", "failed"}]
    BY <2>2 DEF TypeOK
  <2>6. attempts' \in [Deliveries -> Nat]
    BY <2>2, <2>3 DEF TypeOK
  <2>7. worker' \in [Workers -> WorkerState]
    BY <2>2, <2>4 DEF TypeOK
  <2>. QED
    BY <1>6, <2>5, <2>6, <2>7 DEF Refuse, TypeOK, backendVars
<1>7. ASSUME NEW w \in Workers, Post(w)
      PROVE  TypeOK'
  <2>1. worker[w].rows \in SUBSET RowRead
    BY <1>7, HeldRows DEF Post
  <2>2. PICK r \in worker[w].rows :
          worker' = [worker EXCEPT ![w] =
                       [phase |-> "posting", rows |-> worker[w].rows, row |-> r]]
    BY <1>7 DEF Post
  <2>3. [phase |-> "posting", rows |-> worker[w].rows, row |-> r] \in WorkerState
    BY <2>1, <2>2 DEF WorkerState
  <2>. QED
    BY <1>7, <2>2, <2>3 DEF Post, TypeOK, backendVars, rowVars
<1>8. ASSUME NEW w \in Workers, NEW a \in Answers, worker[w].phase = "posting", Answer(w, a)
      PROVE  worker' \in [Workers -> WorkerState]
  <2>1. /\ worker[w].rows \in SUBSET RowRead
        /\ worker[w].row \in RowRead
    BY <1>8, HeldRows
  <2>2. [phase |-> "answered", rows |-> worker[w].rows, row |-> worker[w].row, answer |-> a]
          \in WorkerState
    BY <1>8, <2>1 DEF WorkerState
  <2>. QED
    BY <1>8, <2>2 DEF Answer, TypeOK
<1>9. ASSUME NEW d \in Deliveries, Receive(d)
      PROVE  keys' \subseteq Extractions /\ bookings' \in [Extractions -> Nat]
  BY <1>9 DEF Receive, IdempotencyKey, TypeOK
<1>10. ASSUME NEW w \in Workers, Accepted(w)
       PROVE  TypeOK'
  <2>1. worker[w].row.id \in Deliveries
    BY <1>10, HeldRows DEF Accepted
  <2>2. keys' \subseteq Extractions /\ bookings' \in [Extractions -> Nat]
    BY <1>9, <1>10, <2>1 DEF Accepted
  <2>3. worker' \in [Workers -> WorkerState]
    BY <1>8, <1>10 DEF Accepted, Answers
  <2>. QED
    BY <1>10, <2>2, <2>3 DEF Accepted, TypeOK, rowVars
<1>11. ASSUME NEW w \in Workers, NotAccepted(w)
       PROVE  TypeOK'
  <2>1. worker' \in [Workers -> WorkerState]
    BY <1>8, <1>11 DEF NotAccepted, Answers
  <2>. QED
    BY <1>11, <2>1 DEF NotAccepted, TypeOK, rowVars, backendVars
<1>12. ASSUME NEW w \in Workers, TimesOut(w)
       PROVE  TypeOK'
  <2>1. worker[w].row.id \in Deliveries
    BY <1>12, HeldRows DEF TimesOut
  <2>2. worker' \in [Workers -> WorkerState]
    BY <1>8, <1>12 DEF TimesOut, Answers
  <2>. QED
    BY <1>12, <2>1, <2>2 DEF TimesOut, TypeOK, rowVars
<1>13. ASSUME NEW w \in Workers, Commit(w)
       PROVE  TypeOK'
  <2>1. /\ worker[w].rows \in SUBSET RowRead
        /\ worker[w].row.id \in Deliveries
        /\ worker[w].row.attempts \in Nat
    BY <1>13, HeldRows DEF Commit
  <2>2. NewAttempts(w) \in Nat
    BY <2>1 DEF NewAttempts, TypeOK
  <2>3. RunAfter(w, worker[w].row) \in WorkerState
    BY <2>1, RunAfterType
  <2>4. status' \in [Deliveries -> {"none", "pending", "delivered", "failed"}]
    BY <1>13 DEF Commit, TypeOK
  <2>5. due' \in [Deliveries -> BOOLEAN]
    BY <1>13 DEF Commit, TypeOK
  <2>6. attempts' \in [Deliveries -> Nat]
    BY <1>13, <2>2 DEF Commit, TypeOK
  <2>7. reported' \subseteq Extractions
    BY <1>13, <2>1 DEF Commit, TypeOK
  <2>8. worker' \in [Workers -> WorkerState]
    BY <1>13, <2>3 DEF Commit, TypeOK
  <2>. QED
    BY <1>13, <2>4, <2>5, <2>6, <2>7, <2>8 DEF Commit, TypeOK, backendVars
<1>14. ASSUME NEW w \in Workers, Crash(w)
       PROVE  TypeOK'
  <2>1. Down \in WorkerState
    BY DEF WorkerState
  <2>2. worker[w].phase = "posting" => worker[w].row.id \in Deliveries
    BY HeldRows
  <2>. QED
    BY <1>14, <2>1, <2>2 DEF Crash, TypeOK, rowVars
<1>15. ASSUME NEW d \in Deliveries, ArrivesLate(d)
       PROVE  TypeOK'
  <2>1. keys' \subseteq Extractions /\ bookings' \in [Extractions -> Nat]
    BY <1>9, <1>15 DEF ArrivesLate
  <2>. QED
    BY <1>15, <2>1 DEF ArrivesLate, TypeOK, rowVars
<1>16. ASSUME NEW w \in Workers, Restart(w)
       PROVE  TypeOK'
  <2>1. Idle \in WorkerState
    BY DEF WorkerState
  <2>. QED
    BY <1>16, <2>1 DEF Restart, TypeOK, rowVars, backendVars
<1>17. CASE UNCHANGED vars
  BY <1>17 DEF vars, TypeOK
<1>. QED
  BY <1>1, <1>2, <1>3, <1>4, <1>5, <1>6, <1>7, <1>10, <1>11, <1>12, <1>13, <1>14, <1>15,
     <1>16, <1>17 DEF Next, Review, Run

LEMMA TypeInit == Init => TypeOK
BY DEF Init, TypeOK, WorkerState

\* The types of the deliverer's state, whatever the sessions, crashes and
\* answers of the backend.
THEOREM TypeCorrect == Spec => []TypeOK
<1>1. TypeOK /\ [Next]_vars => TypeOK'
  BY TypeStep
<1>. QED
  BY TypeInit, <1>1, PTL DEF Spec

-----------------------------------------------------------------------------
(* Booked once.  The bookings of a payment are 1 or 0 as its idempotency   *)
(* key is on file or not, and whoever has been told "ok" finds it there.   *)

\* The payment whose request session w has out, or whose answer it has.
Posted(w) == ExtOf[worker[w].row.id]

OnFile ==
  /\ \A e \in Extractions : bookings[e] = IF e \in keys THEN 1 ELSE 0
  /\ \A w \in Workers :
       worker[w].phase = "answered" /\ worker[w].answer = "ok" => Posted(w) \in keys
  /\ \A d \in Deliveries : status[d] = "delivered" => ExtOf[d] \in keys
  /\ reported \subseteq keys

\* A payment reaches the backend, now or later, only once it was approved.
SentIsApproved ==
  /\ \A w \in Workers :
       worker[w].phase \in {"posting", "answered"} => extStatus[Posted(w)] # "pending_review"
  /\ \A d \in late : extStatus[ExtOf[d]] # "pending_review"

\* A row that still counts attempts has used at most the ladder's steps.
OnLadder ==
  \A d \in Deliveries : status[d] \in {"none", "pending"} => attempts[d] <= BackoffSteps

IInv == TypeOK /\ OnFile /\ SentIsApproved /\ OnLadder

LEMMA IInvInit == Init => IInv
<1>1. SUFFICES ASSUME Init PROVE IInv
  OBVIOUS
<1>2. TypeOK
  BY <1>1, TypeInit
<1>3. OnFile /\ SentIsApproved
  BY <1>1 DEF Init, OnFile, SentIsApproved, Idle
<1>4. OnLadder
  BY <1>1, DelivererAssumption DEF Init, OnLadder
<1>. QED
  BY <1>2, <1>3, <1>4 DEF IInv

\* Receiving a request, now or late, files its key and counts it if it is new.
LEMMA ReceiveFiles ==
  ASSUME TypeOK, OnFile, NEW d \in Deliveries, Receive(d)
  PROVE  /\ keys' = keys \cup {ExtOf[d]}
         /\ \A e \in Extractions : bookings'[e] = IF e \in keys' THEN 1 ELSE 0
BY DelivererAssumption DEF Receive, IdempotencyKey, OnFile, TypeOK

LEMMA OnFileStep ==
  ASSUME TypeOK, OnFile, [Next]_vars
  PROVE  OnFile'
<1>. USE DelivererAssumption
<1>1. ASSUME NEW d \in Deliveries, Queue(d) \/ Resend(d)
      PROVE  OnFile'
  BY <1>1 DEF Queue, Resend, TypeOK, OnFile, Posted, backendVars
<1>2. ASSUME NEW e \in Extractions, Withdraw(e)
      PROVE  OnFile'
  BY <1>2 DEF Withdraw, OnFile, Posted, backendVars, rowVars
<1>3. ASSUME NEW d \in Deliveries, BackoffElapses(d)
      PROVE  OnFile'
  BY <1>3 DEF BackoffElapses, OnFile, Posted, backendVars
<1>4. ASSUME NEW w \in Workers, StartRun(w)
      PROVE  OnFile'
  BY <1>4 DEF StartRun, TypeOK, OnFile, Posted, backendVars, rowVars
<1>5. ASSUME NEW w \in Workers, NEW r
      PROVE  RunAfter(w, r).phase \in {"idle", "running"}
  BY DEF RunAfter, Idle
<1>6. ASSUME NEW w \in Workers, Refuse(w)
      PROVE  OnFile'
  <2>1. PICK r \in worker[w].rows :
          /\ status' = [status EXCEPT ![r.id] = "failed"]
          /\ worker' = [worker EXCEPT ![w] = RunAfter(w, r)]
    BY <1>6 DEF Refuse
  <2>2. \A v \in Workers : worker'[v].phase = "answered" => worker'[v] = worker[v]
    BY <1>5, <2>1 DEF TypeOK
  <2>3. \A d \in Deliveries : status'[d] = "delivered" => status[d] = "delivered"
    BY <2>1 DEF TypeOK
  <2>. QED
    BY <1>6, <2>2, <2>3 DEF Refuse, OnFile, Posted, backendVars
<1>7. ASSUME NEW w \in Workers, Post(w)
      PROVE  OnFile'
  <2>1. \A v \in Workers : worker'[v].phase = "answered" => worker'[v] = worker[v]
    BY <1>7 DEF Post, TypeOK
  <2>. QED
    BY <1>7, <2>1 DEF Post, OnFile, Posted, backendVars, rowVars
<1>8. ASSUME NEW w \in Workers, Accepted(w)
      PROVE  OnFile'
  <2>1. worker[w].row.id \in Deliveries
    BY <1>8, HeldRows DEF Accepted
  <2>2. /\ keys' = keys \cup {Posted(w)}
        /\ \A e \in Extractions : bookings'[e] = IF e \in keys' THEN 1 ELSE 0
    BY <1>8, <2>1, ReceiveFiles DEF Accepted, Posted
  <2>3. \A v \in Workers : worker'[v].row = worker[v].row /\ (v # w => worker'[v] = worker[v])
    BY <1>8 DEF Accepted, Answer, TypeOK
  <2>4. \A v \in Workers : worker'[v].phase = "answered" /\ worker'[v].answer = "ok"
                             => ExtOf[worker'[v].row.id] \in keys'
    BY <2>2, <2>3 DEF OnFile, Posted
  <2>. QED
    BY <1>8, <2>2, <2>4 DEF Accepted, OnFile, Posted, rowVars
<1>9. ASSUME NEW w \in Workers, NotAccepted(w) \/ TimesOut(w)
      PROVE  OnFile'
  <2>1. \A v \in Workers : worker'[v].phase = "answered" /\ worker'[v].answer = "ok"
                             => worker'[v] = worker[v]
    BY <1>9 DEF NotAccepted, TimesOut, Answer, TypeOK
  <2>. QED
    BY <1>9, <2>1 DEF NotAccepted, TimesOut, OnFile, Posted, backendVars, rowVars
<1>10. ASSUME NEW w \in Workers, Commit(w)
       PROVE  OnFile'
  <2>1. worker[w].row.id \in Deliveries
    BY <1>10, HeldRows DEF Commit
  <2>2. \A v \in Workers : worker'[v].phase = "answered" => worker'[v] = worker[v]
    BY <1>5, <1>10 DEF Commit, TypeOK
  <2>3. worker[w].answer = "ok" => ExtOf[worker[w].row.id] \in keys
    BY <1>10 DEF Commit, OnFile, Posted
  <2>4. \A d \in Deliveries : status'[d] = "delivered" => ExtOf[d] \in keys
    BY <1>10, <2>1, <2>3 DEF Commit, OnFile, TypeOK
  <2>5. reported' \subseteq keys
    BY <1>10, <2>3 DEF Commit, OnFile
  <2>. QED
    BY <1>10, <2>2, <2>4, <2>5 DEF Commit, OnFile, Posted, backendVars
<1>11. ASSUME NEW w \in Workers, Crash(w) \/ Restart(w)
       PROVE  OnFile'
  <2>1. \A v \in Workers : worker'[v].phase = "answered" => worker'[v] = worker[v]
    BY <1>11 DEF Crash, Restart, Down, Idle, TypeOK
  <2>. QED
    BY <1>11, <2>1 DEF Crash, Restart, OnFile, Posted, rowVars, backendVars
<1>12. ASSUME NEW d \in Deliveries, ArrivesLate(d)
       PROVE  OnFile'
  BY <1>12, ReceiveFiles DEF ArrivesLate, OnFile, Posted, rowVars
<1>13. CASE UNCHANGED vars
  BY <1>13 DEF vars, OnFile, Posted
<1>. QED
  BY <1>1, <1>2, <1>3, <1>4, <1>6, <1>7, <1>8, <1>9, <1>10, <1>11, <1>12, <1>13
     DEF Next, Review, Run

LEMMA SentIsApprovedStep ==
  ASSUME TypeOK, SentIsApproved, [Next]_vars
  PROVE  SentIsApproved'
<1>. USE DelivererAssumption
<1>1. ASSUME NEW d \in Deliveries, Queue(d)
      PROVE  SentIsApproved'
  BY <1>1 DEF Queue, TypeOK, SentIsApproved, Posted, backendVars
<1>2. ASSUME NEW e \in Extractions, Withdraw(e)
      PROVE  SentIsApproved'
  BY <1>2 DEF Withdraw, TypeOK, SentIsApproved, Posted, backendVars
<1>3. ASSUME NEW d \in Deliveries, Resend(d) \/ BackoffElapses(d)
      PROVE  SentIsApproved'
  BY <1>3 DEF Resend, BackoffElapses, SentIsApproved, Posted, backendVars
<1>4. ASSUME NEW w \in Workers, NEW r
      PROVE  RunAfter(w, r).phase \in {"idle", "running"}
  BY DEF RunAfter, Idle
<1>5. ASSUME NEW w \in Workers, StartRun(w) \/ Refuse(w) \/ Commit(w)
      PROVE  SentIsApproved'
  <2>1. \A v \in Workers : worker'[v].phase \in {"posting", "answered"} => worker'[v] = worker[v]
    BY <1>4, <1>5 DEF StartRun, Refuse, Commit, TypeOK
  <2>2. UNCHANGED <<extStatus, late>>
    BY <1>5 DEF StartRun, Refuse, Commit, backendVars
  <2>. QED
    BY <2>1, <2>2 DEF SentIsApproved, Posted
<1>6. ASSUME NEW w \in Workers, Post(w)
      PROVE  SentIsApproved'
  <2>1. PICK r \in worker[w].rows :
          /\ extStatus[ExtOf[r.id]] = "approved"
          /\ worker' = [worker EXCEPT ![w] =
                          [phase |-> "posting", rows |-> worker[w].rows, row |-> r]]
    BY <1>6 DEF Post
  <2>2. \A v \in Workers : IF v = w THEN worker'[v].row = r ELSE worker'[v] = worker[v]
    BY <2>1 DEF TypeOK
  <2>. QED
    BY <1>6, <2>1, <2>2 DEF Post, SentIsApproved, Posted, backendVars
<1>7. ASSUME NEW w \in Workers, Accepted(w) \/ NotAccepted(w) \/ TimesOut(w)
      PROVE  SentIsApproved'
  <2>1. /\ worker[w].phase = "posting"
        /\ late' \subseteq late \cup {worker[w].row.id}
        /\ extStatus' = extStatus
    BY <1>7 DEF Accepted, NotAccepted, TimesOut, backendVars
  <2>2. \A v \in Workers : worker'[v].row = worker[v].row /\ (v # w => worker'[v] = worker[v])
    BY <1>7 DEF Accepted, NotAccepted, TimesOut, Answer, TypeOK
  <2>. QED
    BY <2>1, <2>2 DEF SentIsApproved, Posted
<1>8. ASSUME NEW w \in Workers, Crash(w) \/ Restart(w)
      PROVE  SentIsApproved'
  <2>1. \A v \in Workers : worker'[v].phase \in {"posting", "answered"} => worker'[v] = worker[v]
    BY <1>8 DEF Crash, Restart, Down, Idle, TypeOK
  <2>2. \A d \in late' : d \in late \/ \E v \in Workers :
          worker[v].phase = "posting" /\ d = worker[v].row.id
    BY <1>8 DEF Crash, Restart, backendVars
  <2>. QED
    BY <1>8, <2>1, <2>2 DEF Crash, Restart, SentIsApproved, Posted
<1>9. ASSUME NEW d \in Deliveries, ArrivesLate(d)
      PROVE  SentIsApproved'
  BY <1>9 DEF ArrivesLate, SentIsApproved, Posted
<1>10. CASE UNCHANGED vars
  BY <1>10 DEF vars, SentIsApproved, Posted
<1>. QED
  BY <1>1, <1>2, <1>3, <1>5, <1>6, <1>7, <1>8, <1>9, <1>10 DEF Next, Review, Run

LEMMA OnLadderStep ==
  ASSUME TypeOK, OnLadder, [Next]_vars
  PROVE  OnLadder'
<1>. USE DelivererAssumption
<1>1. ASSUME NEW d \in Deliveries, Queue(d) \/ Resend(d)
      PROVE  OnLadder'
  BY <1>1 DEF Queue, Resend, TypeOK, OnLadder
<1>2. ASSUME NEW w \in Workers, Refuse(w)
      PROVE  OnLadder'
  <2>1. worker[w].rows \in SUBSET RowRead
    BY <1>2, HeldRows DEF Refuse
  <2>2. PICK r \in worker[w].rows :
          /\ status' = [status EXCEPT ![r.id] = "failed"]
          /\ attempts' = [attempts EXCEPT ![r.id] = r.attempts + 1]
    BY <1>2 DEF Refuse
  <2>. QED
    BY <2>1, <2>2 DEF TypeOK, OnLadder, RowRead
<1>3. ASSUME NEW w \in Workers, Commit(w)
      PROVE  OnLadder'
  <2>. DEFINE d == worker[w].row.id
  <2>1. d \in Deliveries /\ worker[w].row.attempts \in Nat
    BY <1>3, HeldRows DEF Commit
  <2>2. CASE Retries(w)
    <3>1. worker[w].answer = "transient_fail"
      BY <2>2 DEF Retries
    <3>2. \A c \in Deliveries : status'[c] = status[c]
      <4>1. status' = [status EXCEPT ![d] = IF worker[w].answer = "ok" THEN "delivered"
                                            ELSE IF Retries(w) THEN @ ELSE "failed"]
        BY <1>3 DEF Commit
      <4>2. status' = [status EXCEPT ![d] = @]
        BY <2>2, <3>1, <4>1
      <4>. QED
        BY <4>2 DEF TypeOK
    <3>3. attempts' = [attempts EXCEPT ![d] = worker[w].row.attempts + 1]
      <4>1. attempts' = [attempts EXCEPT ![d] = NewAttempts(w)]
        BY <1>3 DEF Commit
      <4>2. NewAttempts(w) = worker[w].row.attempts + 1
        BY <2>1, <3>1 DEF NewAttempts
      <4>. QED
        BY <4>1, <4>2
    <3>. QED
      BY <2>1, <2>2, <3>2, <3>3 DEF Retries, OnLadder, TypeOK
  <2>3. CASE ~Retries(w)
    <3>1. status'[d] \in {"delivered", "failed"}
      BY <1>3, <2>1, <2>3 DEF Commit, TypeOK
    <3>2. \A c \in Deliveries \ {d} : status'[c] = status[c] /\ attempts'[c] = attempts[c]
      BY <1>3, <2>1 DEF Commit, TypeOK
    <3>. QED
      BY <3>1, <3>2 DEF OnLadder
  <2>. QED
    BY <2>2, <2>3
<1>4. CASE UNCHANGED <<status, attempts>>
  BY <1>4 DEF OnLadder
<1>. QED
  BY <1>1, <1>2, <1>3, <1>4
     DEF Next, Review, Run, Withdraw, BackoffElapses, StartRun, Post, Accepted, NotAccepted,
         TimesOut, Crash, Restart, ArrivesLate, rowVars, vars

LEMMA IInvStep == IInv /\ [Next]_vars => IInv'
BY TypeStep, OnFileStep, SentIsApprovedStep, OnLadderStep DEF IInv

\* The invariant of the deliverer.
THEOREM Invariance == Spec => []IInv
BY IInvInit, IInvStep, PTL DEF Spec

\* A payment is recorded by the backend once, for any number of sessions running
\* deliveries at the same time, rows queued for it, retries, resends and crashes.
THEOREM BookedOnceHolds == Spec => []BookedOnce
<1>1. IInv => BookedOnce
  BY DEF IInv, OnFile, BookedOnce
<1>. QED
  BY <1>1, Invariance, PTL

\* What the pipeline shows as delivered, the backend has.
THEOREM DeliveredIsBookedHolds == Spec => []DeliveredIsBooked
<1>1. IInv => DeliveredIsBooked
  BY DelivererAssumption DEF IInv, OnFile, DeliveredIsBooked
<1>. QED
  BY <1>1, Invariance, PTL

\* The backoff table is never indexed past its end, for a ladder of any length.
THEOREM RetryWithinLadderHolds == Spec => []RetryWithinLadder
<1>1. IInv => RetryWithinLadder
  BY DEF IInv, OnLadder, RetryWithinLadder
<1>. QED
  BY <1>1, Invariance, PTL

-----------------------------------------------------------------------------
(* The deliverer implements the remittance feed.                           *)

Approved == {e \in Extractions : extStatus[e] # "pending_review"}

\* A received request books its payment in the feed, or changes nothing there.
LEMMA ReceiveBooks ==
  ASSUME IInv, NEW d \in Deliveries, Receive(d), ExtOf[d] \in Approved,
         UNCHANGED <<extStatus, reported>>
  PROVE  [Feed!FeedNext]_Feed!feedVars
<1>1. ExtOf[d] \in Extractions
  BY DelivererAssumption
<1>2. CASE ExtOf[d] \in keys
  BY <1>2 DEF Receive, IdempotencyKey, Feed!feedVars
<1>3. CASE ExtOf[d] \notin keys
  <2>1. bookings[ExtOf[d]] = 0
    BY <1>1, <1>3 DEF IInv, OnFile
  <2>2. bookings' = [bookings EXCEPT ![ExtOf[d]] = 1]
    BY <1>3, <2>1, <1>1 DEF Receive, IdempotencyKey, IInv, TypeOK
  <2>. QED
    BY <1>1, <2>1, <2>2 DEF Feed!FeedNext, Feed!FeedBook, Approved
<1>. QED
  BY <1>2, <1>3

LEMMA FeedStep ==
  ASSUME IInv, [Next]_vars
  PROVE  [Feed!FeedNext]_Feed!feedVars
<1>. USE DelivererAssumption
<1>1. ASSUME NEW d \in Deliveries, Queue(d)
      PROVE  [Feed!FeedNext]_Feed!feedVars
  <2>1. Approved' = Approved \cup {ExtOf[d]}
    BY <1>1 DEF Queue, Approved, IInv, TypeOK
  <2>. QED
    BY <1>1, <2>1 DEF Queue, Approved, backendVars, Feed!FeedNext, Feed!FeedApprove
<1>2. ASSUME NEW e \in Extractions, Withdraw(e)
      PROVE  [Feed!FeedNext]_Feed!feedVars
  <2>1. Approved' = Approved
    BY <1>2 DEF Withdraw, Approved, IInv, TypeOK
  <2>. QED
    BY <1>2, <2>1 DEF Withdraw, Approved, backendVars, Feed!feedVars
<1>3. ASSUME NEW w \in Workers, Accepted(w)
      PROVE  [Feed!FeedNext]_Feed!feedVars
  <2>1. worker[w].row.id \in Deliveries
    BY <1>3, HeldRows DEF Accepted, IInv
  <2>2. ExtOf[worker[w].row.id] \in Approved
    BY <1>3, <2>1 DEF Accepted, Approved, IInv, SentIsApproved, Posted
  <2>. QED
    BY <1>3, <2>1, <2>2, ReceiveBooks DEF Accepted
<1>4. ASSUME NEW d \in Deliveries, ArrivesLate(d)
      PROVE  [Feed!FeedNext]_Feed!feedVars
  <2>1. ExtOf[d] \in Approved
    BY <1>4 DEF ArrivesLate, Approved, IInv, SentIsApproved
  <2>. QED
    BY <1>4, <2>1, ReceiveBooks DEF ArrivesLate
<1>5. ASSUME NEW w \in Workers, Commit(w)
      PROVE  [Feed!FeedNext]_Feed!feedVars
  <2>. DEFINE e == ExtOf[worker[w].row.id]
  <2>1. e \in Extractions
    BY <1>5, HeldRows DEF Commit, IInv
  <2>2. worker[w].answer = "ok" => bookings[e] = 1
    BY <1>5, <2>1 DEF Commit, IInv, OnFile, Posted
  <2>3. CASE worker[w].answer = "ok"
    BY <1>5, <2>1, <2>2, <2>3 DEF Commit, backendVars, Feed!FeedNext, Feed!FeedReport
  <2>4. CASE worker[w].answer # "ok"
    BY <1>5, <2>4 DEF Commit, backendVars, Feed!feedVars
  <2>. QED
    BY <2>3, <2>4
<1>6. CASE UNCHANGED <<extStatus, bookings, reported>>
  BY <1>6 DEF Feed!feedVars
<1>. QED
  BY <1>1, <1>2, <1>3, <1>4, <1>5, <1>6
     DEF Next, Review, Run, Resend, BackoffElapses, StartRun, Refuse, Post, NotAccepted,
         TimesOut, Crash, Restart, rowVars, backendVars, vars

LEMMA FeedInitially == Init => Feed!FeedInit
BY DEF Init, Feed!FeedInit

\* Deliveries, retries, resends, crashes and late requests are, to the backend,
\* a feed: approved payments, each booked at most once and reported only then.
THEOREM Refinement == Spec => ImplementsFeed
<1>1. IInv /\ [Next]_vars => [Feed!FeedNext]_Feed!feedVars
  BY FeedStep
<1>. QED
  BY FeedInitially, <1>1, Invariance, PTL DEF Spec, ImplementsFeed, Feed!FeedSpec
=============================================================================
