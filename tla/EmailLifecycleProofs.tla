------------------------ MODULE EmailLifecycleProofs ------------------------
(***************************************************************************)
(* Proofs about EmailLifecycle, for any workers and reviewers, emails,     *)
(* messages and readings: types; what an approval comes to; that content   *)
(* is read once; and that the first pass strands nothing.  What sessions   *)
(* that overlap may break is said row by row and email by email, by the    *)
(* histories `crossed` and `contended`.                                    *)
(***************************************************************************)
EXTENDS EmailLifecycle, TLAPS

-----------------------------------------------------------------------------
(* Types, for any workers and reviewers.                                   *)

\* What a worker holds; each email is in a batch once.
WorkerOK(x) ==
  /\ x.phase \in {"idle", "down", "batch"} \cup PendingStatuses
  /\ Busy(x) => /\ x.todo \subseteq [email : Emails, was : PendingStatuses]
               /\ \A t, u \in x.todo : u.email = t.email => u = t
  /\ x.phase \in PendingStatuses => x.entry \in x.todo /\ x.entry.was = x.phase
  /\ x.phase = "classified" => x.read \in [MsgsOf(x.entry.email) -> Nat]
  /\ x.phase = "extracted" => x.read \subseteq MsgsOf(x.entry.email)

\* What a reviewer's request holds.
RequestOK(y) ==
  /\ y.act \in {"none", "verdict", "reprocess", "retry_email", "retry_message"}
  /\ y.act = "verdict" => /\ y.verdict \in Verdicts
                          /\ y.row[1] \in Messages
                          /\ y.row[2] \in DOMAIN rows[y.row[1]]
                          /\ y.row = <<y.row[1], y.row[2]>>
  /\ y.act = "reprocess" => \A p \in y.stale : /\ p[1] \in MsgsOf(y.email) /\ p[2] \in DOMAIN rows[p[1]]
                                              /\ p = <<p[1], p[2]>>
  /\ y.act \in {"reprocess", "retry_email"} => y.email \in Emails
  /\ y.act = "retry_email" => y.to \in {"new", "classified"} /\ y.failed \subseteq MsgsOf(y.email)
  /\ y.act = "retry_message" => y.message \in Messages

TInv ==
  /\ TypeOK
  /\ worker = [w \in Workers |-> worker[w]] /\ \A w \in Workers : WorkerOK(worker[w])
  /\ reviewer = [r \in Reviewers |-> reviewer[r]] /\ \A r \in Reviewers : RequestOK(reviewer[r])
  /\ \A p \in crossed : EmailOf[p[1]] \in contended

\* Rows are only added at the end of a message's.
RowsLast == \A m \in Messages : DOMAIN rows[m] \subseteq DOMAIN rows'[m]

LEMMA RequestsLast ==
  ASSUME TInv, RowsLast, UNCHANGED reviewer
  PROVE  (reviewer = [r \in Reviewers |-> reviewer[r]] /\ \A r \in Reviewers : RequestOK(reviewer[r]))'
<1>1. ASSUME NEW r \in Reviewers PROVE RequestOK(reviewer[r])'
  <2>. PICK y : y = reviewer[r]
    OBVIOUS
  <2>1. RequestOK(y)
    BY DEF TInv
  <2>2. RequestOK(y)'
    BY <2>1 DEF RequestOK, RowsLast, MsgsOf, Verdicts
  <2>. QED
    BY <2>2 DEF RequestOK
<1>. QED
  BY <1>1 DEF TInv

LEMMA WorkersLast ==
  ASSUME TInv, UNCHANGED worker
  PROVE  (worker = [w \in Workers |-> worker[w]] /\ \A w \in Workers : WorkerOK(worker[w]))'
BY DEF TInv, WorkerOK, Busy, MsgsOf

\* One worker goes on, and holds a sound x.
LEMMA WorkerTurns ==
  ASSUME TInv, NEW w \in Workers, NEW x, WorkerOK(x), worker' = [worker EXCEPT ![w] = x]
  PROVE  (worker = [v \in Workers |-> worker[v]] /\ \A v \in Workers : WorkerOK(worker[v]))'
<1>1. worker' = [v \in Workers |-> IF v = w THEN x ELSE worker[v]]
  BY DEF TInv
<1>2. \A v \in Workers : WorkerOK(worker'[v])
  BY <1>1 DEF TInv
<1>. QED
  BY <1>1, <1>2 DEF WorkerOK, Busy, MsgsOf

\* One reviewer goes on, and holds a sound y.
LEMMA ReviewerTurns ==
  ASSUME TInv, RowsLast, NEW r \in Reviewers, NEW y, RequestOK(y)',
         reviewer' = [reviewer EXCEPT ![r] = y]
  PROVE  (reviewer = [q \in Reviewers |-> reviewer[q]] /\ \A q \in Reviewers : RequestOK(reviewer[q]))'
<1>1. reviewer' = [q \in Reviewers |-> IF q = r THEN y ELSE reviewer[q]]
  BY DEF TInv
<1>2. ASSUME NEW q \in Reviewers, q # r PROVE RequestOK(reviewer[q])'
  <2>. PICK z : z = reviewer[q]
    OBVIOUS
  <2>1. RequestOK(z)'
    BY DEF TInv, RequestOK, RowsLast, MsgsOf, Verdicts
  <2>. QED
    BY <1>1, <1>2, <2>1 DEF RequestOK
<1>3. RequestOK(reviewer[r])'
  BY <1>1 DEF RequestOK
<1>. QED
  BY <1>1, <1>2, <1>3

LEMMA RestOK ==
  ASSUME NEW w \in Workers, NEW t, WorkerOK(worker[w]), Busy(worker[w])
  PROVE  WorkerOK(Rest(w, t))
BY DEF WorkerOK, Rest, Busy, PendingStatuses

LEMMA RequestNone == RequestOK([act |-> "none"])'
BY DEF RequestOK

\* The worker keeps or takes its entry: only it changes.
LEMMA HoldsStep ==
  ASSUME TInv, NEW w \in Workers, NEW x, WorkerOK(x), worker' = [worker EXCEPT ![w] = x],
         UNCHANGED <<content, store, reviewer, history>>
  PROVE  TInv'
<1>1. UNCHANGED <<email, message, live, raw, placeholder, rows, reviewer, retried, contended, crossed>>
  BY DEF store, history
<1>2. TypeOK' /\ RowsLast
  BY <1>1 DEF TInv, TypeOK, RowsLast
<1>. QED
  BY <1>1, <1>2, WorkerTurns, RequestsLast DEF TInv

\* A worker ends a step: what it wrote must be well typed.
LEMMA FinishStep ==
  ASSUME TInv, NEW w \in Workers, worker[w].phase \in PendingStatuses, NEW st \in EmailStatuses,
         Finish(w, st), RowsLast,
         message' \in [Messages -> MessageStatuses], live' \in [Messages -> Nat],
         raw' \in [Messages -> Nat], placeholder' \in [Emails -> BOOLEAN], rows' \in [Messages -> Seq(Row)]
  PROVE  TInv'
<1>1. WorkerOK(Rest(w, worker[w].entry))
  BY RestOK DEF TInv, Busy
<1>2. worker[w].entry.email \in Emails
  BY DEF TInv, WorkerOK, Busy
<1>3. contended \subseteq contended' /\ contended' \subseteq Emails
  BY <1>2 DEF Finish, TInv, TypeOK
<1>4. TypeOK'
  BY <1>2, <1>3 DEF TInv, TypeOK, Finish, RowsLast
<1>5. \A q \in crossed' : EmailOf[q[1]] \in contended'
  BY <1>3 DEF TInv, Finish
<1>. QED
  BY <1>1, <1>4, <1>5, WorkerTurns, RequestsLast DEF TInv, Finish

-----------------------------------------------------------------------------
(* What a step does to the rows.                                           *)

LEMMA Concat ==
  ASSUME NEW s \in Seq(Row), NEW u \in Seq(Row)
  PROVE  /\ s \o u \in Seq(Row) /\ DOMAIN s \subseteq DOMAIN (s \o u)
         /\ u # <<>> => \E k \in DOMAIN (s \o u) : k \notin DOMAIN s
         /\ \A k \in DOMAIN s : (s \o u)[k] = s[k]
         /\ \A k \in DOMAIN (s \o u) : k \in DOMAIN s \/ \E j \in DOMAIN u : (s \o u)[k] = u[j]
<1>1. /\ s \o u \in Seq(Row) /\ Len(s) \in Nat /\ Len(u) \in Nat
      /\ DOMAIN s = 1 .. Len(s) /\ DOMAIN u = 1 .. Len(u)
      /\ DOMAIN (s \o u) = 1 .. Len(s) + Len(u)
  OBVIOUS
<1>2. \A k \in 1 .. Len(s) : (s \o u)[k] = s[k]
  BY <1>1
<1>3. \A k \in 1 .. Len(s) + Len(u) : k > Len(s) => k - Len(s) \in 1 .. Len(u) /\ (s \o u)[k] = u[k - Len(s)]
  BY <1>1
<1>4. u # <<>> => Len(s) + 1 \in DOMAIN (s \o u) /\ Len(s) + 1 \notin DOMAIN s
  BY <1>1
<1>. QED
  BY <1>1, <1>2, <1>3, <1>4

LEMMA ReadRows ==
  ASSUME NEW got \in Readings, NEW m \in Messages, LastReading(m) \in Nat
  PROVE  LET u == [k \in DOMAIN got |-> Stored(m, got[k])]
         IN u \in Seq(Row) /\ u # <<>> /\ \A j \in DOMAIN u : \E outcome \in Outcomes : u[j] = Stored(m, outcome)
<1>. DEFINE n == Len(got)
<1>1. got \in Seq(Outcomes) /\ got # <<>>
  BY LifecycleAssumption DEF PossibleReadings
<1>2. n \in Nat /\ n > 0 /\ DOMAIN got = 1 .. n /\ \A k \in 1 .. n : got[k] \in Outcomes
  BY <1>1
<1>3. \A outcome \in Outcomes : Stored(m, outcome) \in Row
  <2>. TAKE outcome \in Outcomes
  <2>1. outcome.kind \in RowKinds /\ outcome.status \in RowStatuses
    BY DEF Outcomes, Outcome, RowKinds, RowStatuses
  <2>. QED
    BY <2>1 DEF Stored, Row
<1>. HIDE DEF n
<1>4. \A k \in 1 .. n : Stored(m, got[k]) \in Row
  BY <1>2, <1>3
<1>5. [k \in 1 .. n |-> Stored(m, got[k])] \in Seq(Row)
  BY <1>2, <1>4
<1>6. [k \in 1 .. n |-> Stored(m, got[k])] # <<>>
  <2>1. 1 \in DOMAIN [k \in 1 .. n |-> Stored(m, got[k])]
    BY <1>2
  <2>. QED
    BY <2>1
<1>. QED
  BY <1>2, <1>5, <1>6

LEMMA LastReadingNat == ASSUME TypeOK, NEW m \in Messages PROVE LastReading(m) \in Nat
<1>1. rows[m] \in Seq(Row)
  BY DEF TypeOK
<1>2. rows[m] # <<>> => Len(rows[m]) \in DOMAIN rows[m]
  BY <1>1
<1>3. rows[m] # <<>> => rows[m][Len(rows[m])] \in Row
  BY <1>1, <1>2
<1>. QED
  BY <1>3 DEF LastReading, Row

\* The messages of the set `read` were read: each has a row more than before; the others' stay.
RowsAdded(read) ==
  /\ \A m \in read : m \in Messages => \E k \in DOMAIN rows'[m] : k \notin DOMAIN rows[m]
  /\ \A m \in Messages \ read : rows'[m] = rows[m]

LEMMA NormalizedRows ==
  ASSUME TInv, NEW w \in Workers, NEW failed, NEW got \in [worker[w].read \ failed -> Readings],
         worker[w].phase = "extracted",
         rows' = [m \in Messages |->
           IF m \in worker[w].read \ failed
           THEN rows[m] \o [k \in DOMAIN got[m] |-> Stored(m, got[m][k])]
           ELSE rows[m]]
  PROVE  /\ rows' \in [Messages -> Seq(Row)] /\ RowsLast
         /\ \A m \in Messages \ worker[w].read : rows'[m] = rows[m]
         /\ RowsAdded(worker[w].read \ failed)
         /\ \A m \in Messages : \A k \in DOMAIN rows[m] : rows'[m][k] = rows[m][k]
         /\ \A m \in Messages : \A k \in DOMAIN rows'[m] \ DOMAIN rows[m] :
              \E outcome \in Outcomes : rows'[m][k] = Stored(m, outcome)
<1>1. ASSUME NEW m \in Messages
      PROVE  /\ rows'[m] \in Seq(Row) /\ DOMAIN rows[m] \subseteq DOMAIN rows'[m]
             /\ m \notin worker[w].read \ failed => rows'[m] = rows[m]
             /\ m \in worker[w].read \ failed => \E k \in DOMAIN rows'[m] : k \notin DOMAIN rows[m]
             /\ \A k \in DOMAIN rows[m] : rows'[m][k] = rows[m][k]
             /\ \A k \in DOMAIN rows'[m] \ DOMAIN rows[m] :
                  \E outcome \in Outcomes : rows'[m][k] = Stored(m, outcome)
  <2>0. rows[m] \in Seq(Row)
    BY DEF TInv, TypeOK
  <2>1. CASE m \in worker[w].read \ failed
    <3>1. PICK g \in Readings : g = got[m]
      BY <2>1
    <3>2. LastReading(m) \in Nat
      BY LastReadingNat DEF TInv
    <3>. PICK s \in Seq(Row) : s = rows[m]
      BY <2>0
    <3>3. PICK u \in Seq(Row) : /\ rows'[m] = s \o u /\ u # <<>>
                                /\ \A j \in DOMAIN u : \E outcome \in Outcomes : u[j] = Stored(m, outcome)
      <4>1. rows'[m] = s \o [k \in DOMAIN g |-> Stored(m, g[k])]
        BY <2>1, <3>1
      <4>. QED
        BY <3>2, <4>1, ReadRows
    <3>4. u \in Seq(Row) /\ u # <<>> /\ \A j \in DOMAIN u : \E outcome \in Outcomes : u[j] = Stored(m, outcome)
      BY <3>3
    <3>11. /\ s \o u \in Seq(Row) /\ DOMAIN s \subseteq DOMAIN (s \o u)
           /\ u # <<>> => \E k \in DOMAIN (s \o u) : k \notin DOMAIN s
           /\ \A k \in DOMAIN s : (s \o u)[k] = s[k]
           /\ \A k \in DOMAIN (s \o u) : k \in DOMAIN s \/ \E j \in DOMAIN u : (s \o u)[k] = u[j]
      BY Concat, Zenon
    <3>. PICK t : t = s \o u
      OBVIOUS
    <3>5. /\ t \in Seq(Row) /\ DOMAIN s \subseteq DOMAIN t
          /\ \E k \in DOMAIN t : k \notin DOMAIN s
          /\ \A k \in DOMAIN s : t[k] = s[k]
          /\ \A k \in DOMAIN t : k \in DOMAIN s \/ \E j \in DOMAIN u : t[k] = u[j]
      BY <3>4, <3>11, Zenon
    <3>6. \A k \in DOMAIN t \ DOMAIN s : \E outcome \in Outcomes : t[k] = Stored(m, outcome)
      BY <3>4, <3>5
    <3>7. rows'[m] = t
      BY <3>3
    <3>8. \A k \in DOMAIN rows[m] : rows'[m][k] = rows[m][k]
      BY <3>5, <3>7
    <3>9. \A k \in DOMAIN rows'[m] \ DOMAIN rows[m] : \E outcome \in Outcomes : rows'[m][k] = Stored(m, outcome)
      BY <3>6, <3>7
    <3>10. rows'[m] \in Seq(Row) /\ DOMAIN rows[m] \subseteq DOMAIN rows'[m] /\ \E k \in DOMAIN rows'[m] : k \notin DOMAIN rows[m]
      BY <3>5, <3>7
    <3>. QED
      BY <2>1, <3>8, <3>9, <3>10, Zenon
  <2>2. CASE m \notin worker[w].read \ failed
    BY <2>0, <2>2
  <2>. QED
    BY <2>1, <2>2
<1>2. rows' \in [Messages -> Seq(Row)]
  BY <1>1
<1>3. RowsLast
  BY <1>1 DEF RowsLast
<1>4. RowsAdded(worker[w].read \ failed)
  BY <1>1 DEF RowsAdded
<1>. QED
  BY <1>1, <1>2, <1>3, <1>4

\* What a verdict on the k-th row of m does to the rows.
Decided(m, k, verdict) ==
  /\ rows' \in [Messages -> Seq(Row)] /\ \A n \in Messages : DOMAIN rows'[n] = DOMAIN rows[n]
  /\ \A n \in Messages : \A j \in DOMAIN rows[n] : n # m \/ j # k => rows'[n][j] = rows[n][j]
  /\ rows'[m][k].status = verdict /\ rows'[m][k].reading = rows[m][k].reading
  /\ verdict = "approved" => rows'[m][k].queued = rows[m][k].queued + 1
  /\ verdict # "approved" => rows'[m][k].queued = rows[m][k].queued

LEMMA VerdictRows ==
  ASSUME TypeOK, NEW m \in Messages, NEW k \in DOMAIN rows[m], NEW verdict \in Verdicts,
         rows' = [rows EXCEPT ![m][k].status = verdict,
                              ![m][k].queued = IF verdict = "approved" THEN @ + 1 ELSE @]
  PROVE  Decided(m, k, verdict)
<1>. DEFINE row == [rows[m][k] EXCEPT !.status = verdict,
                      !.queued = IF verdict = "approved" THEN rows[m][k].queued + 1 ELSE rows[m][k].queued]
<1>1. rows[m] \in Seq(Row) /\ rows[m][k] \in Row
  BY DEF TypeOK
<1>2. verdict \in RowStatuses
  BY DEF Verdicts, RowStatuses
<1>3. row \in Row
  <2>. PICK r \in Row : r = rows[m][k]
    BY <1>1
  <2>. PICK q \in Nat : q = IF verdict = "approved" THEN r.queued + 1 ELSE r.queued
    BY DEF Row
  <2>1. [r EXCEPT !.status = verdict, !.queued = q] \in Row
    BY <1>2 DEF Row
  <2>. QED
    BY <2>1
<1>4. rows' = [rows EXCEPT ![m] = [rows[m] EXCEPT ![k] = row]]
  BY <1>1 DEF TypeOK
<1>10. /\ row.status = verdict /\ row.reading = rows[m][k].reading
       /\ verdict = "approved" => row.queued = rows[m][k].queued + 1
       /\ verdict # "approved" => row.queued = rows[m][k].queued
  <2>. PICK r \in Row : r = rows[m][k]
    BY <1>1
  <2>. QED
    BY DEF Row
<1>. PICK r \in Row : r = row
  BY <1>3
<1>. PICK s : s = [rows[m] EXCEPT ![k] = r]
  OBVIOUS
<1>5. s \in Seq(Row) /\ DOMAIN s = DOMAIN rows[m] /\ s[k] = r /\ \A j \in DOMAIN rows[m] : j # k => s[j] = rows[m][j]
  BY <1>1
<1>6. rows' = [n \in Messages |-> IF n = m THEN s ELSE rows[n]]
  BY <1>4 DEF TypeOK
<1>7. rows' \in [Messages -> Seq(Row)]
  BY <1>5, <1>6 DEF TypeOK
<1>8. \A n \in Messages : DOMAIN rows'[n] = DOMAIN rows[n]
  BY <1>5, <1>6
<1>9. rows'[m][k] = r /\ \A n \in Messages : \A j \in DOMAIN rows[n] : n # m \/ j # k => rows'[n][j] = rows[n][j]
  BY <1>5, <1>6
<1>. QED
  BY <1>7, <1>8, <1>9, <1>10 DEF Decided

LEMMA ReprocessedRows ==
  ASSUME TypeOK, NEW stale,
         rows' = [m \in Messages |-> [k \in DOMAIN rows[m] |->
           IF <<m, k>> \in stale THEN [rows[m][k] EXCEPT !.status = "superseded"] ELSE rows[m][k]]]
  PROVE  /\ rows' \in [Messages -> Seq(Row)]
         /\ \A m \in Messages : DOMAIN rows'[m] = DOMAIN rows[m]
         /\ \A m \in Messages : \A k \in DOMAIN rows[m] :
              /\ rows[m][k] \in Row
              /\ rows'[m][k] = IF <<m, k>> \in stale THEN [rows[m][k] EXCEPT !.status = "superseded"]
                               ELSE rows[m][k]
<1>1. ASSUME NEW m \in Messages PROVE rows'[m] \in Seq(Row)
  <2>1. rows[m] \in Seq(Row)
    BY DEF TypeOK
  <2>2. \A k \in DOMAIN rows[m] : rows[m][k] \in Row /\ [rows[m][k] EXCEPT !.status = "superseded"] \in Row
    <3>1. \A k \in DOMAIN rows[m] : rows[m][k] \in Row
      BY <2>1
    <3>2. "superseded" \in RowStatuses
      BY DEF RowStatuses
    <3>. QED
      BY <3>1, <3>2 DEF Row
  <2>3. Len(rows[m]) \in Nat /\ DOMAIN rows[m] = 1 .. Len(rows[m])
    BY <2>1
  <2>. DEFINE new(k) == IF <<m, k>> \in stale THEN [rows[m][k] EXCEPT !.status = "superseded"] ELSE rows[m][k]
  <2>4. \A k \in 1 .. Len(rows[m]) : new(k) \in Row
    BY <2>2, <2>3
  <2>5. rows'[m] = [k \in 1 .. Len(rows[m]) |-> new(k)]
    BY <2>3
  <2>. HIDE DEF new
  <2>6. [k \in 1 .. Len(rows[m]) |-> new(k)] \in Seq(Row)
    BY <2>3, <2>4
  <2>. QED
    BY <2>5, <2>6
<1>2. \A m \in Messages : \A k \in DOMAIN rows[m] : rows[m][k] \in Row
  BY DEF TypeOK
<1>. QED
  BY <1>1, <1>2

-----------------------------------------------------------------------------
LEMMA TInvInit == Init => TInv
<1>. SUFFICES ASSUME Init PROVE TInv
  OBVIOUS
<1>1. TypeOK
  BY DEF Init, TypeOK, EmailStatuses, MessageStatuses
<1>2. worker = [w \in Workers |-> worker[w]] /\ \A w \in Workers : WorkerOK(worker[w])
  BY DEF Init, WorkerOK, Busy, PendingStatuses
<1>3. reviewer = [r \in Reviewers |-> reviewer[r]] /\ \A r \in Reviewers : RequestOK(reviewer[r])
  BY DEF Init, RequestOK
<1>4. \A p \in crossed : EmailOf[p[1]] \in contended
  BY DEF Init
<1>. QED
  BY <1>1, <1>2, <1>3, <1>4 DEF TInv

LEMMA BeginOK ==
  ASSUME TInv, NEW w \in Workers, NEW was \in PendingStatuses, NEW t \in Entries(w, was), NEW read,
         was = "classified" => read \in [MsgsOf(t.email) -> Nat],
         was = "extracted" => read \subseteq MsgsOf(t.email),
         Begin(w, t, read)
  PROVE  TInv'
<1>. DEFINE x == [phase |-> t.was, todo |-> worker[w].todo, entry |-> t, read |-> read]
<1>1. t.was = was /\ t \in worker[w].todo /\ worker[w].phase = "batch"
  BY DEF Entries
<1>2. /\ worker[w].todo \subseteq [email : Emails, was : PendingStatuses]
      /\ \A u, v \in worker[w].todo : v.email = u.email => v = u
  BY <1>1 DEF TInv, WorkerOK, Busy
<1>3. WorkerOK(x)
  BY <1>1, <1>2 DEF WorkerOK, Busy
<1>. QED
  BY <1>3, HoldsStep DEF Begin

LEMMA AdvanceTInv ==
  ASSUME TInv, NEW w \in Workers, Advance(w)
  PROVE  TInv'
<1>0. /\ message \in [Messages -> MessageStatuses] /\ live \in [Messages -> Nat]
      /\ raw \in [Messages -> Nat] /\ placeholder \in [Emails -> BOOLEAN] /\ rows \in [Messages -> Seq(Row)]
      /\ email \in [Emails -> EmailStatuses]
      /\ {"error", "done", "review", "classified", "extracted"} \subseteq EmailStatuses
  BY DEF TInv, TypeOK, EmailStatuses
<1>1. CASE StartBatch(w)
  <2>. DEFINE x == [phase |-> "batch", todo |-> {[email |-> e, was |-> email[e]] :
                      e \in {f \in Emails : email[f] \in PendingStatuses}}]
  <2>1. WorkerOK(x)
    BY DEF WorkerOK, Busy, PendingStatuses
  <2>. QED
    BY <1>1, <2>1, HoldsStep DEF StartBatch
<1>2. CASE BeginClassify(w)
  BY <1>2, BeginOK DEF BeginClassify, PendingStatuses
<1>3. CASE BeginExtract(w)
  <2>1. \A e : ToExtract(e) \in [MsgsOf(e) -> Nat]
    BY <1>0 DEF ToExtract, MsgsOf
  <2>. QED
    BY <1>3, <2>1, BeginOK DEF BeginExtract, PendingStatuses
<1>4. CASE BeginNormalize(w)
  <2>1. \A e : Groups(e) \subseteq MsgsOf(e)
    BY DEF Groups
  <2>. QED
    BY <1>4, <2>1, BeginOK DEF BeginNormalize, PendingStatuses
<1>5. CASE EndClassify(w)
  <2>. DEFINE e == worker[w].entry.email
  <2>0. PICK known :
          LET ms == MsgsOf(e)
              st == [m \in ms |-> IF AlreadySplit(e) THEN message[m] ELSE SplitStatus(m, known)]
              sourced == {m \in ms : HasSource(m, st[m])}
              nothing == /\ sourced = {} /\ att[e] = "none"
                         /\ \/ \E m \in ms : st[m] = "seen"
                            \/ \A m \in ms : st[m] = "no_content"
          IN /\ message' = [m \in Messages |-> IF m \in ms THEN st[m] ELSE message[m]]
             /\ live' = [m \in Messages |-> IF m \in sourced THEN live[m] + 1 ELSE live[m]]
             /\ placeholder' = [placeholder EXCEPT ![e] = @ \/ (sourced = {} /\ ~nothing)]
             /\ Finish(w, IF nothing THEN "done" ELSE "classified")
    BY <1>5 DEF EndClassify
  <2>. DEFINE st == [m \in MsgsOf(e) |-> IF AlreadySplit(e) THEN message[m] ELSE SplitStatus(m, known)]
              sourced == {m \in MsgsOf(e) : HasSource(m, st[m])}
              nothing == /\ sourced = {} /\ att[e] = "none"
                         /\ \/ \E m \in MsgsOf(e) : st[m] = "seen"
                            \/ \A m \in MsgsOf(e) : st[m] = "no_content"
  <2>1. /\ message' = [m \in Messages |-> IF m \in MsgsOf(e) THEN st[m] ELSE message[m]]
        /\ live' = [m \in Messages |-> IF m \in sourced THEN live[m] + 1 ELSE live[m]]
        /\ placeholder' = [placeholder EXCEPT ![e] = @ \/ (sourced = {} /\ ~nothing)]
        /\ Finish(w, IF nothing THEN "done" ELSE "classified")
    BY <2>0, Zenon
  <2>7. \A m \in MsgsOf(e) : st[m] = message[m] \/ st[m] = SplitStatus(m, known)
    OBVIOUS
  <2>8. (sourced = {} /\ ~nothing) \in BOOLEAN
    OBVIOUS
  <2>. HIDE DEF st, sourced, nothing
  <2>9. placeholder' \in [Emails -> BOOLEAN]
    BY <1>0, <2>1
  <2>10. PICK status \in EmailStatuses : Finish(w, status)
    BY <1>0, <2>1
  <2>2. message' \in [Messages -> MessageStatuses]
    <3>1. \A m \in MsgsOf(e) : st[m] \in MessageStatuses
      BY <1>0, <2>7 DEF SplitStatus, MessageStatuses, MsgsOf
    <3>. QED
      BY <1>0, <2>1, <3>1
  <2>3. live' \in [Messages -> Nat]
    BY <1>0, <2>1
  <2>4. UNCHANGED <<raw, rows>> /\ worker[w].phase \in PendingStatuses
    BY <1>5 DEF EndClassify, PendingStatuses
  <2>5. RowsLast
    BY <2>4 DEF RowsLast
  <2>. QED
    BY <1>0, <2>2, <2>3, <2>4, <2>5, <2>9, <2>10, FinishStep
<1>6. CASE EndExtract(w)
  <2>. DEFINE e == worker[w].entry.email
  <2>0. worker[w].phase = "classified" /\ UNCHANGED <<message, live, placeholder, rows>>
    BY <1>6 DEF EndExtract
  <2>1. worker[w].phase \in PendingStatuses /\ RowsLast
    BY <2>0 DEF PendingStatuses, RowsLast
  <2>2. worker[w].read \in [MsgsOf(e) -> Nat]
    BY <2>0 DEF TInv, WorkerOK
  <2>3. CASE Finish(w, "error") /\ UNCHANGED raw
    BY <1>0, <2>0, <2>1, <2>3, FinishStep
  <2>4. CASE \E failed \in SUBSET {m \in MsgsOf(e) : worker[w].read[m] > 0} :
               /\ raw' = [m \in Messages |-> IF m \in {n \in MsgsOf(e) : worker[w].read[n] > 0} \ failed
                                             THEN raw[m] + worker[w].read[m] ELSE raw[m]]
               /\ Finish(w, IF failed = {} THEN "extracted" ELSE "error")
    <3>1. raw' \in [Messages -> Nat]
      BY <1>0, <2>2, <2>4
    <3>2. PICK status \in EmailStatuses : Finish(w, status)
      BY <1>0, <2>4
    <3>. QED
      BY <1>0, <2>0, <2>1, <3>1, <3>2, FinishStep
  <2>. QED
    BY <1>6, <2>3, <2>4 DEF EndExtract
<1>7. CASE EndNormalize(w)
  <2>0. worker[w].phase = "extracted" /\ UNCHANGED <<live, raw, placeholder>>
    BY <1>7 DEF EndNormalize
  <2>. DEFINE Normalized(failed, got) ==
          /\ rows' = [m \in Messages |->
               IF m \in worker[w].read \ failed
               THEN rows[m] \o [k \in DOMAIN got[m] |-> Stored(m, got[m][k])]
               ELSE rows[m]]
          /\ message' = [m \in Messages |-> IF m \in failed THEN "failed" ELSE message[m]]
          /\ Finish(w, IF failed = worker[w].read THEN "error" ELSE Settled(worker[w].entry.email, rows'))
  <2>6. PICK failed \in SUBSET worker[w].read :
          \E got \in [worker[w].read \ failed -> Readings] : Normalized(failed, got)
    BY <1>7 DEF EndNormalize
  <2>1. PICK got \in [worker[w].read \ failed -> Readings] : Normalized(failed, got)
    BY <2>6
  <2>2. rows' \in [Messages -> Seq(Row)] /\ RowsLast
    BY <2>0, <2>1, NormalizedRows
  <2>3. message' \in [Messages -> MessageStatuses]
    BY <1>0, <2>1 DEF MessageStatuses
  <2>4. PICK status \in EmailStatuses : Finish(w, status)
    BY <1>0, <2>1 DEF Settled
  <2>5. worker[w].phase \in PendingStatuses
    BY <2>0 DEF PendingStatuses
  <2>. QED
    BY <1>0, <2>0, <2>2, <2>3, <2>4, <2>5, FinishStep
<1>8. CASE NothingToNormalize(w) \/ ClassifyCollides(w) \/ StepRaises(w)
  <2>1. UNCHANGED <<message, live, raw, placeholder, rows>> /\ worker[w].phase \in PendingStatuses
    BY <1>8 DEF NothingToNormalize, ClassifyCollides, StepRaises, PendingStatuses
  <2>2. PICK status \in EmailStatuses : Finish(w, status)
    BY <1>0, <1>8 DEF NothingToNormalize, ClassifyCollides, StepRaises, Settled
  <2>. QED
    BY <1>0, <2>1, <2>2, FinishStep DEF RowsLast
<1>9. CASE Crash(w)
  <2>1. WorkerOK([phase |-> "down"])
    BY DEF WorkerOK, Busy, PendingStatuses
  <2>. QED
    BY <1>9, <2>1, HoldsStep DEF Crash
<1>10. CASE Restart(w)
  <2>1. WorkerOK([phase |-> "idle"])
    BY DEF WorkerOK, Busy, PendingStatuses
  <2>. QED
    BY <1>10, <2>1, HoldsStep DEF Restart
<1>. QED
  BY <1>1, <1>2, <1>3, <1>4, <1>5, <1>6, <1>7, <1>8, <1>9, <1>10 DEF Advance

\* A reviewer takes up a request, or drops it.
LEMMA HoldStep ==
  ASSUME TInv, NEW r \in Reviewers, NEW y, RequestOK(y), reviewer' = [reviewer EXCEPT ![r] = y],
         UNCHANGED <<content, store, worker, history>>
  PROVE  TInv'
<1>1. UNCHANGED <<email, message, live, raw, placeholder, rows, worker, retried, contended, crossed>>
  BY DEF store, history
<1>2. TypeOK' /\ RowsLast
  BY <1>1 DEF TInv, TypeOK, RowsLast
<1>3. RequestOK(y)'
  BY <1>1 DEF RequestOK
<1>. QED
  BY <1>1, <1>2, <1>3, WorkersLast, ReviewerTurns DEF TInv

\* What a request changes is of the email it is about.
LEMMA TargetsOK ==
  ASSUME NEW y, RequestOK(y), NEW p \in Targets(y)
  PROVE  /\ p[1] \in Messages /\ p[2] \in DOMAIN rows[p[1]] /\ p = <<p[1], p[2]>>
         /\ About(y, EmailOf[p[1]])
BY DEF RequestOK, Targets, About, MsgsOf

\* What the histories say of a commit.
LEMMA CommitsHistory ==
  ASSUME TInv, NEW r \in Reviewers, Commits(r)
  PROVE  /\ contended \subseteq contended' /\ contended' \subseteq Emails
         /\ \A e \in Emails \ contended' : \A q \in Reviewers \ {r} :
              About(reviewer[r], e) => ~About(reviewer[q], e)
         /\ crossed \subseteq crossed'
         /\ \A p \in Targets(reviewer[r]) : \A q \in Reviewers \ {r} :
              p \in Targets(reviewer[q]) => p \in crossed'
         /\ \A p \in crossed' : /\ p[1] \in Messages /\ p[2] \in DOMAIN rows[p[1]]
                               /\ EmailOf[p[1]] \in contended'
<1>. DEFINE others == {reviewer[q] : q \in Reviewers \ {r}}
<1>0. /\ contended \subseteq Emails /\ \A q \in Reviewers : RequestOK(reviewer[q])
      /\ \A p \in crossed : /\ p[1] \in Messages /\ p[2] \in DOMAIN rows[p[1]]
                            /\ EmailOf[p[1]] \in contended
  BY DEF TInv, TypeOK
<1>1. contended' = contended \cup {e \in Emails : About(reviewer[r], e) /\ \E z \in others : About(z, e)}
  BY Zenon DEF Commits
<1>2. crossed' = crossed \cup {p \in Targets(reviewer[r]) : \E z \in others : p \in Targets(z)}
  BY Zenon DEF Commits
<1>3. \A q \in Reviewers \ {r} : reviewer[q] \in others
  OBVIOUS
<1>4. \A z \in others : RequestOK(z)
  BY <1>0
<1>. HIDE DEF others
<1>5. ASSUME NEW p \in crossed', p \notin crossed
      PROVE  p[1] \in Messages /\ p[2] \in DOMAIN rows[p[1]] /\ EmailOf[p[1]] \in contended'
  <2>1. p \in Targets(reviewer[r])
    BY <1>2, <1>5
  <2>2. PICK z \in others : p \in Targets(z)
    BY <1>2, <1>5
  <2>3. /\ p[1] \in Messages /\ p[2] \in DOMAIN rows[p[1]]
        /\ About(reviewer[r], EmailOf[p[1]]) /\ About(z, EmailOf[p[1]])
    BY <1>0, <1>4, <2>1, <2>2, TargetsOK
  <2>. QED
    BY <1>1, <2>3, LifecycleAssumption
<1>. QED
  BY <1>0, <1>1, <1>2, <1>3, <1>5

LEMMA CommitStep ==
  ASSUME TInv, NEW r \in Reviewers, Commits(r), RowsLast, UNCHANGED worker,
         email' \in [Emails -> EmailStatuses], message' \in [Messages -> MessageStatuses],
         live' \in [Messages -> Nat], raw' \in [Messages -> Nat],
         placeholder' \in [Emails -> BOOLEAN], rows' \in [Messages -> Seq(Row)], retried' \subseteq Emails
  PROVE  TInv'
<1>1. /\ contended' \subseteq Emails
      /\ \A p \in crossed' : /\ p[1] \in Messages /\ p[2] \in DOMAIN rows[p[1]]
                            /\ EmailOf[p[1]] \in contended'
  BY CommitsHistory
<1>2. TypeOK'
  BY <1>1 DEF TypeOK, RowsLast
<1>3. Done(r)
  BY DEF Commits
<1>. QED
  BY <1>1, <1>2, <1>3, WorkersLast, ReviewerTurns, RequestNone DEF TInv, Done

LEMMA ReviewTInv ==
  ASSUME TInv, NEW r \in Reviewers, Review(r)
  PROVE  TInv'
<1>0. /\ message \in [Messages -> MessageStatuses] /\ live \in [Messages -> Nat]
      /\ raw \in [Messages -> Nat] /\ placeholder \in [Emails -> BOOLEAN] /\ rows \in [Messages -> Seq(Row)]
      /\ email \in [Emails -> EmailStatuses] /\ retried \subseteq Emails
      /\ {"new", "error", "done", "review", "classified", "extracted"} \subseteq EmailStatuses
      /\ "new" \in MessageStatuses /\ EmailOf \in [Messages -> Emails]
  BY LifecycleAssumption DEF TInv, TypeOK, EmailStatuses, MessageStatuses
<1>1. CASE BeginVerdict(r)
  <2>0. PICK e \in Emails : \E p \in PendingRows(e) : \E verdict \in Verdicts :
          Hold(r, [act |-> "verdict", verdict |-> verdict, row |-> p, was |-> email[e],
                   last |-> PendingRows(e) = {p}])
    BY <1>1 DEF BeginVerdict
  <2>1. PICK p \in PendingRows(e), verdict \in Verdicts :
          Hold(r, [act |-> "verdict", verdict |-> verdict, row |-> p, was |-> email[e],
                   last |-> PendingRows(e) = {p}])
    BY <2>0
  <2>2. p[1] \in Messages /\ p[2] \in DOMAIN rows[p[1]]
    BY DEF PendingRows, RowsOf, RowsWith, MsgsOf
  <2>. PICK y : y = [act |-> "verdict", verdict |-> verdict, row |-> p, was |-> email[e],
                     last |-> PendingRows(e) = {p}]
    OBVIOUS
  <2>3. y.act = "verdict" /\ y.verdict = verdict /\ y.row = p
    OBVIOUS
  <2>5. p = <<p[1], p[2]>>
    BY DEF PendingRows, RowsOf
  <2>4. RequestOK(y)
    BY <2>2, <2>3, <2>5 DEF RequestOK
  <2>. QED
    BY <2>1, <2>4, HoldStep DEF Hold
<1>2. CASE BeginReprocess(r)
  <2>. DEFINE Stale(e) == UNION {{m} \X RowsWith(m, Live \ Posted) :
                            m \in {n \in MsgsOf(e) : RowsWith(n, {"pending_review"}) # {}}}
  <2>1. PICK e \in Emails :
          Hold(r, [act |-> "reprocess", email |-> e, was |-> email[e], stale |-> Stale(e)])
    BY <1>2, Zenon DEF BeginReprocess
  <2>2. \A p \in Stale(e) : p[1] \in MsgsOf(e) /\ p[2] \in DOMAIN rows[p[1]] /\ p = <<p[1], p[2]>>
    BY DEF RowsWith
  <2>. HIDE DEF Stale
  <2>. PICK y : y = [act |-> "reprocess", email |-> e, was |-> email[e], stale |-> Stale(e)]
    OBVIOUS
  <2>3. y.act = "reprocess" /\ y.email = e /\ y.stale = Stale(e) /\ Hold(r, y)
    BY <2>1
  <2>4. RequestOK(y)
    BY <2>2, <2>3 DEF RequestOK
  <2>. QED
    BY <2>3, <2>4, HoldStep DEF Hold
<1>3. CASE BeginRetryEmail(r)
  <2>1. PICK e, y : /\ e \in Emails /\ y.act = "retry_email" /\ y.email = e /\ y.to \in {"new", "classified"}
                    /\ y.failed \subseteq MsgsOf(e) /\ Hold(r, y)
    BY <1>3 DEF BeginRetryEmail
  <2>2. RequestOK(y)
    BY <2>1 DEF RequestOK
  <2>. QED
    BY <2>1, <2>2, HoldStep DEF Hold
<1>4. CASE BeginRetryMessage(r)
  <2>1. PICK m, y : m \in Messages /\ y.act = "retry_message" /\ y.message = m /\ Hold(r, y)
    BY <1>4 DEF BeginRetryMessage
  <2>2. RequestOK(y)
    BY <2>1 DEF RequestOK
  <2>. QED
    BY <2>1, <2>2, HoldStep DEF Hold
<1>5. CASE CommitVerdict(r)
  <2>. PICK m \in Messages : m = reviewer[r].row[1]
    BY <1>5 DEF CommitVerdict, TInv, RequestOK
  <2>. PICK k \in DOMAIN rows[m], verdict \in Verdicts : k = reviewer[r].row[2] /\ verdict = reviewer[r].verdict
    BY <1>5 DEF CommitVerdict, TInv, RequestOK
  <2>1. /\ rows' = [rows EXCEPT ![m][k].status = verdict,
                                ![m][k].queued = IF verdict = "approved" THEN @ + 1 ELSE @]
        /\ email' \in [Emails -> EmailStatuses]
        /\ Commits(r) /\ UNCHANGED <<message, live, raw, placeholder, worker, retried>>
    BY <1>0, <1>5 DEF CommitVerdict
  <2>2. rows' \in [Messages -> Seq(Row)] /\ RowsLast
    <3>1. TypeOK
      BY DEF TInv
    <3>2. Decided(m, k, verdict)
      BY <2>1, <3>1, VerdictRows
    <3>. QED
      BY <3>2 DEF Decided, RowsLast
  <2>. QED
    BY <1>0, <2>1, <2>2, CommitStep
<1>6. CASE CommitReprocess(r)
  <2>1. /\ email' \in [Emails -> EmailStatuses]
        /\ Commits(r) /\ UNCHANGED <<message, live, raw, placeholder, worker, retried>>
    BY <1>0, <1>6 DEF CommitReprocess
  <2>2. rows' \in [Messages -> Seq(Row)] /\ RowsLast
    BY <1>6, ReprocessedRows DEF CommitReprocess, TInv, RowsLast
  <2>. QED
    BY <1>0, <2>1, <2>2, CommitStep
<1>7. CASE CommitRetryEmail(r)
  <2>1. reviewer[r].email \in Emails /\ reviewer[r].to \in {"new", "classified"}
    BY <1>7 DEF CommitRetryEmail, TInv, RequestOK
  <2>2. /\ Commits(r) /\ UNCHANGED <<live, raw, placeholder, rows, worker>>
        /\ email' \in [Emails -> EmailStatuses] /\ message' \in [Messages -> MessageStatuses]
        /\ retried' \subseteq Emails /\ RowsLast
    BY <1>0, <1>7, <2>1 DEF CommitRetryEmail, RowsLast
  <2>. QED
    BY <1>0, <2>2, CommitStep
<1>8. CASE CommitRetryMessage(r)
  <2>1. reviewer[r].message \in Messages
    BY <1>8 DEF CommitRetryMessage, TInv, RequestOK
  <2>2. /\ Commits(r) /\ UNCHANGED <<live, raw, placeholder, rows, worker>>
        /\ email' \in [Emails -> EmailStatuses] /\ message' \in [Messages -> MessageStatuses]
        /\ retried' \subseteq Emails /\ RowsLast
    BY <1>0, <1>8, <2>1 DEF CommitRetryMessage, RowsLast
  <2>. QED
    BY <1>0, <2>2, CommitStep
<1>9. CASE Refused(r)
  <2>1. RequestOK([act |-> "none"])
    BY DEF RequestOK
  <2>. QED
    BY <1>9, <2>1, HoldStep DEF Refused, Done
<1>. QED
  BY <1>1, <1>2, <1>3, <1>4, <1>5, <1>6, <1>7, <1>8, <1>9 DEF Review

LEMMA TInvNext == ASSUME TInv, [Next]_vars PROVE TInv'
<1>1. CASE Next
  BY <1>1, AdvanceTInv, ReviewTInv DEF Next
<1>2. CASE UNCHANGED vars
  <2>1. UNCHANGED <<email, message, live, raw, placeholder, rows, worker, reviewer, retried, contended, crossed>>
    BY <1>2 DEF vars
  <2>2. TypeOK' /\ RowsLast
    BY <2>1 DEF TInv, TypeOK, RowsLast
  <2>. QED
    BY <2>1, <2>2, WorkersLast, RequestsLast DEF TInv
<1>. QED
  BY <1>1, <1>2

\* The email tables, and what workers and reviewers hold, keep to their types for any number of
\* them, whatever they overwrite of each other's (advance_once, review/service.py).
THEOREM LifecycleInvariance == Spec => []TInv
<1>1. Init => TInv
  BY TInvInit
<1>2. TInv /\ [Next]_vars => TInv'
  BY TInvNext
<1>. QED
  BY <1>1, <1>2, PTL DEF Spec

THEOREM LifecycleTypeCorrect == Spec => []TypeOK
<1>1. TInv => TypeOK
  BY DEF TInv
<1>. QED
  BY <1>1, LifecycleInvariance, PTL

-----------------------------------------------------------------------------
(* What a verdict finds, for any workers and reviewers.                    *)

\* What a request is about has not been decided since it began, except for rows that another
\* reviewer's request has crossed.
StillOpen(y) ==
  \A p \in Targets(y) \ crossed :
    /\ y.act = "verdict" => rows[p[1]][p[2]].status = "pending_review"
    /\ y.act = "reprocess" => rows[p[1]][p[2]].status \notin Posted

\* QueuedIffApproved, of one row.
QueuedRight(m, k) ==
  /\ rows[m][k].status = "approved" => rows[m][k].queued > 0
  /\ <<m, k>> \notin crossed => rows[m][k].queued = IF rows[m][k].status = "approved" THEN 1 ELSE 0

VInv ==
  /\ \A m \in Messages : \A k \in DOMAIN rows[m] : QueuedRight(m, k)
  /\ \A r \in Reviewers : StillOpen(reviewer[r])

Final ==
  \A m \in Messages : \A k \in RowsWith(m, Posted) :
    <<m, k>> \notin crossed' => rows'[m][k].status = rows[m][k].status

\* Workers only add rows, queued if they are approved.
RowsGrow ==
  \A m \in Messages :
    /\ DOMAIN rows[m] \subseteq DOMAIN rows'[m]
    /\ \A k \in DOMAIN rows[m] : rows'[m][k] = rows[m][k]
    /\ \A k \in DOMAIN rows'[m] \ DOMAIN rows[m] : \E outcome \in Outcomes : rows'[m][k] = Stored(m, outcome)

LEMMA AdvanceRows ==
  ASSUME TInv, NEW w \in Workers, Advance(w)
  PROVE  RowsGrow /\ UNCHANGED <<reviewer, crossed>>
<1>1. CASE EndNormalize(w)
  <2>. DEFINE Normalized(failed, got) ==
          rows' = [m \in Messages |->
               IF m \in worker[w].read \ failed
               THEN rows[m] \o [k \in DOMAIN got[m] |-> Stored(m, got[m][k])]
               ELSE rows[m]]
  <2>1. PICK failed \in SUBSET worker[w].read :
          \E got \in [worker[w].read \ failed -> Readings] : Normalized(failed, got)
    BY <1>1 DEF EndNormalize
  <2>2. PICK got \in [worker[w].read \ failed -> Readings] : Normalized(failed, got)
    BY <2>1
  <2>3. worker[w].phase = "extracted" /\ UNCHANGED <<reviewer, crossed>>
    BY <1>1 DEF EndNormalize, Finish
  <2>4. /\ RowsLast
        /\ \A m \in Messages : \A k \in DOMAIN rows[m] : rows'[m][k] = rows[m][k]
        /\ \A m \in Messages : \A k \in DOMAIN rows'[m] \ DOMAIN rows[m] :
             \E outcome \in Outcomes : rows'[m][k] = Stored(m, outcome)
    BY <2>2, <2>3, NormalizedRows
  <2>. QED
    BY <2>3, <2>4 DEF RowsGrow, RowsLast
<1>2. CASE ~EndNormalize(w)
  <2>1. UNCHANGED <<rows, reviewer, crossed>>
    BY <1>2 DEF Advance, StartBatch, BeginClassify, EndClassify, ClassifyCollides, BeginExtract, EndExtract,
                BeginNormalize, NothingToNormalize, StepRaises, Crash, Restart, Begin, Finish, store, history
  <2>. QED
    BY <2>1 DEF RowsGrow
<1>. QED
  BY <1>1, <1>2

LEMMA AdvanceVInv ==
  ASSUME TInv, VInv, NEW w \in Workers, Advance(w)
  PROVE  VInv' /\ Final
<1>1. RowsGrow /\ UNCHANGED <<reviewer, crossed>>
  BY AdvanceRows
<1>2. ASSUME NEW m \in Messages, NEW k \in (DOMAIN rows[m])' PROVE QueuedRight(m, k)'
  <2>1. CASE k \in DOMAIN rows[m]
    BY <1>1, <2>1 DEF VInv, QueuedRight, RowsGrow
  <2>2. CASE k \notin DOMAIN rows[m]
    <3>1. PICK outcome \in Outcomes : rows'[m][k] = Stored(m, outcome)
      BY <1>1, <2>2 DEF RowsGrow
    <3>2. rows'[m][k].status = outcome.status /\ rows'[m][k].queued = IF outcome.status = "approved" THEN 1 ELSE 0
      BY <3>1 DEF Stored
    <3>. QED
      BY <3>2 DEF QueuedRight
  <2>. QED
    BY <2>1, <2>2
<1>3. ASSUME NEW r \in Reviewers PROVE StillOpen(reviewer[r])'
  <2>. PICK y : y = reviewer[r]
    OBVIOUS
  <2>1. StillOpen(y) /\ RequestOK(y)
    BY DEF VInv, TInv
  <2>2. \A p \in Targets(y) : p[1] \in Messages /\ p[2] \in DOMAIN rows[p[1]]
    BY <2>1, TargetsOK
  <2>3. StillOpen(y)'
    BY <1>1, <2>1, <2>2 DEF StillOpen, RowsGrow, Targets
  <2>. QED
    BY <1>1, <2>3 DEF StillOpen, Targets
<1>4. Final
  BY <1>1 DEF Final, RowsWith, RowsGrow
<1>. QED
  BY <1>2, <1>3, <1>4 DEF VInv

\* The request of r, if it is committed, changes rows that no open request changes, or that are
\* crossed from then on.
LEMMA ClosedStep ==
  ASSUME TInv, VInv, NEW r \in Reviewers, Commits(r),
         \A m \in Messages : DOMAIN rows'[m] = DOMAIN rows[m],
         \A m \in Messages : \A k \in DOMAIN rows[m] : <<m, k>> \notin Targets(reviewer[r]) =>
           rows'[m][k] = rows[m][k],
         \A m \in Messages : \A k \in DOMAIN rows[m] : <<m, k>> \in Targets(reviewer[r]) =>
           /\ QueuedRight(m, k)'
           /\ rows[m][k].status \in Posted => <<m, k>> \in crossed
  PROVE  VInv' /\ Final
<1>1. /\ crossed \subseteq crossed'
      /\ \A p \in Targets(reviewer[r]) : \A q \in Reviewers \ {r} :
           p \in Targets(reviewer[q]) => p \in crossed'
  BY CommitsHistory
<1>2. reviewer' = [q \in Reviewers |-> IF q = r THEN [act |-> "none"] ELSE reviewer[q]]
  BY DEF Commits, Done, TInv
<1>3. ASSUME NEW m \in Messages, NEW k \in (DOMAIN rows[m])' PROVE QueuedRight(m, k)'
  <2>1. CASE <<m, k>> \in Targets(reviewer[r])
    BY <2>1
  <2>2. CASE <<m, k>> \notin Targets(reviewer[r])
    <3>1. rows'[m][k] = rows[m][k] /\ QueuedRight(m, k)
      BY <2>2 DEF VInv
    <3>. QED
      BY <1>1, <3>1 DEF QueuedRight
  <2>. QED
    BY <2>1, <2>2
<1>4. StillOpen(reviewer[r])'
  BY <1>2 DEF StillOpen, Targets
<1>5. ASSUME NEW q \in Reviewers, q # r PROVE StillOpen(reviewer[q])'
  <2>. PICK y : y = reviewer[q]
    OBVIOUS
  <2>1. StillOpen(y) /\ RequestOK(y)
    BY DEF VInv, TInv
  <2>2. \A p \in Targets(y) : p[1] \in Messages /\ p[2] \in DOMAIN rows[p[1]] /\ p = <<p[1], p[2]>>
    BY <2>1, TargetsOK
  <2>3. \A p \in Targets(y) \ crossed' : p \notin crossed /\ rows'[p[1]][p[2]] = rows[p[1]][p[2]]
    BY <1>1, <1>5, <2>2
  <2>4. StillOpen(y)'
    BY <2>1, <2>3 DEF StillOpen, Targets
  <2>. QED
    BY <1>2, <1>5, <2>4 DEF StillOpen, Targets
<1>6. Final
  BY <1>1 DEF Final, RowsWith
<1>. QED
  BY <1>3, <1>4, <1>5, <1>6 DEF VInv

LEMMA OpenStep ==
  ASSUME TInv, VInv, NEW r \in Reviewers, NEW y, StillOpen(y), reviewer' = [reviewer EXCEPT ![r] = y],
         UNCHANGED <<rows, crossed>>
  PROVE  VInv' /\ Final
<1>1. (\A m \in Messages : \A k \in DOMAIN rows[m] : QueuedRight(m, k))' /\ Final
  BY DEF VInv, QueuedRight, Final, RowsWith
<1>2. ASSUME NEW q \in Reviewers PROVE StillOpen(reviewer[q])'
  <2>. PICK z : z = reviewer'[q]
    OBVIOUS
  <2>1. z = y \/ z = reviewer[q]
    BY DEF TInv
  <2>2. StillOpen(z)
    BY <2>1 DEF VInv
  <2>3. StillOpen(z)'
    BY <2>2 DEF StillOpen, Targets
  <2>. QED
    BY <2>3 DEF StillOpen, Targets
<1>. QED
  BY <1>1, <1>2 DEF VInv

LEMMA ReviewVInv ==
  ASSUME TInv, VInv, NEW r \in Reviewers, Review(r)
  PROVE  VInv' /\ Final
<1>1. CASE BeginVerdict(r)
  <2>1. PICK e \in Emails : \E p \in PendingRows(e) : \E verdict \in Verdicts :
          Hold(r, [act |-> "verdict", verdict |-> verdict, row |-> p, was |-> email[e],
                   last |-> PendingRows(e) = {p}])
    BY <1>1 DEF BeginVerdict
  <2>2. PICK p, y : p \in PendingRows(e) /\ y.act = "verdict" /\ y.row = p /\ Hold(r, y)
    BY <2>1
  <2>3. rows[p[1]][p[2]].status = "pending_review"
    BY <2>2 DEF PendingRows, RowsOf, RowsWith
  <2>4. StillOpen(y)
    BY <2>2, <2>3 DEF StillOpen, Targets
  <2>. QED
    BY <2>2, <2>4, OpenStep DEF Hold, store, history
<1>2. CASE BeginReprocess(r)
  <2>. DEFINE Stale(e) == UNION {{m} \X RowsWith(m, Live \ Posted) :
                            m \in {n \in MsgsOf(e) : RowsWith(n, {"pending_review"}) # {}}}
  <2>4. PICK e \in Emails :
          Hold(r, [act |-> "reprocess", email |-> e, was |-> email[e], stale |-> Stale(e)])
    BY <1>2, Zenon DEF BeginReprocess
  <2>5. \A p \in Stale(e) : p[2] \in RowsWith(p[1], Live \ Posted)
    BY DEF MsgsOf
  <2>. HIDE DEF Stale
  <2>. PICK y : y = [act |-> "reprocess", email |-> e, was |-> email[e], stale |-> Stale(e)]
    OBVIOUS
  <2>1. y.act = "reprocess" /\ y.stale = Stale(e) /\ Hold(r, y)
    BY <2>4
  <2>2. \A p \in y.stale : rows[p[1]][p[2]].status \notin Posted
    BY <2>1, <2>5 DEF RowsWith
  <2>3. StillOpen(y)
    BY <2>1, <2>2 DEF StillOpen, Targets
  <2>. QED
    BY <2>1, <2>3, OpenStep DEF Hold, store, history
<1>3. CASE BeginRetryEmail(r) \/ BeginRetryMessage(r)
  <2>1. PICK y : y.act \in {"retry_email", "retry_message"} /\ Hold(r, y)
    <3>1. CASE BeginRetryEmail(r)
      <4>1. PICK e, y : e \in Emails /\ y.act = "retry_email" /\ y.email = e /\ Hold(r, y)
        BY <3>1 DEF BeginRetryEmail
      <4>. QED
        BY <4>1
    <3>2. CASE BeginRetryMessage(r)
      <4>1. PICK m, y : m \in Messages /\ y.act = "retry_message" /\ y.message = m /\ Hold(r, y)
        BY <3>2 DEF BeginRetryMessage
      <4>. QED
        BY <4>1
    <3>. QED
      BY <1>3, <3>1, <3>2
  <2>2. StillOpen(y)
    BY <2>1 DEF StillOpen, Targets
  <2>. QED
    BY <2>1, <2>2, OpenStep DEF Hold, store, history
<1>4. CASE CommitVerdict(r)
  <2>. PICK m \in Messages : m = reviewer[r].row[1]
    BY <1>4 DEF CommitVerdict, TInv, RequestOK
  <2>. PICK k \in DOMAIN rows[m], verdict \in Verdicts : k = reviewer[r].row[2] /\ verdict = reviewer[r].verdict
    BY <1>4 DEF CommitVerdict, TInv, RequestOK
  <2>1. /\ rows' = [rows EXCEPT ![m][k].status = verdict,
                                ![m][k].queued = IF verdict = "approved" THEN @ + 1 ELSE @]
        /\ Commits(r) /\ reviewer[r].act = "verdict" /\ reviewer[r].row = <<m, k>>
    BY <1>4 DEF CommitVerdict, TInv, RequestOK
  <2>2. Decided(m, k, verdict)
    BY <2>1, VerdictRows DEF TInv
  <2>3. Targets(reviewer[r]) = {<<m, k>>}
    BY <2>1 DEF Targets
  <2>4. <<m, k>> \notin crossed => rows[m][k].status = "pending_review"
    BY <2>1, <2>3 DEF VInv, StillOpen
  <2>5. crossed \subseteq crossed'
    BY <2>1, CommitsHistory
  <2>6. rows[m][k].queued \in Nat /\ QueuedRight(m, k)
    <3>1. rows[m] \in Seq(Row)
      BY DEF TInv, TypeOK
    <3>2. rows[m][k] \in Row
      BY <3>1
    <3>. QED
      BY <3>2 DEF Row, VInv
  <2>7. QueuedRight(m, k)'
    <3>0. /\ rows'[m][k].status = verdict
          /\ verdict = "approved" => rows'[m][k].queued = rows[m][k].queued + 1
      BY <2>2 DEF Decided
    <3>1. rows'[m][k].status = "approved" => rows'[m][k].queued > 0
      BY <2>6, <3>0
    <3>2. <<m, k>> \notin crossed' => rows[m][k].queued = 0
      BY <2>4, <2>5, <2>6 DEF QueuedRight
    <3>3. <<m, k>> \notin crossed' => rows'[m][k].queued = IF rows'[m][k].status = "approved" THEN 1 ELSE 0
      BY <2>2, <3>2 DEF Decided
    <3>. QED
      BY <3>1, <3>3 DEF QueuedRight
  <2>8. \A n \in Messages : \A j \in DOMAIN rows[n] :
          /\ <<n, j>> \in Targets(reviewer[r]) => n = m /\ j = k
          /\ <<n, j>> \notin Targets(reviewer[r]) => n # m \/ j # k
    BY <2>3
  <2>9. rows[m][k].status \in Posted => <<m, k>> \in crossed
    BY <2>4 DEF Posted
  <2>. QED
    <3>1. \A n \in Messages : \A j \in DOMAIN rows[n] : <<n, j>> \notin Targets(reviewer[r]) =>
            rows'[n][j] = rows[n][j]
      BY <2>2, <2>8 DEF Decided
    <3>2. \A n \in Messages : \A j \in DOMAIN rows[n] : <<n, j>> \in Targets(reviewer[r]) =>
            /\ QueuedRight(n, j)'
            /\ rows[n][j].status \in Posted => <<n, j>> \in crossed
      BY <2>7, <2>8, <2>9
    <3>3. \A n \in Messages : DOMAIN rows'[n] = DOMAIN rows[n]
      BY <2>2 DEF Decided
    <3>. QED
      BY <2>1, <3>1, <3>2, <3>3, ClosedStep
<1>5. CASE CommitReprocess(r)
  <2>. PICK stale : stale = reviewer[r].stale
    OBVIOUS
  <2>1. /\ rows' = [m \in Messages |-> [k \in DOMAIN rows[m] |->
             IF <<m, k>> \in stale THEN [rows[m][k] EXCEPT !.status = "superseded"] ELSE rows[m][k]]]
        /\ Commits(r) /\ reviewer[r].act = "reprocess" /\ Targets(reviewer[r]) = stale
    BY <1>5 DEF CommitReprocess, Targets
  <2>2. /\ \A m \in Messages : DOMAIN rows'[m] = DOMAIN rows[m]
        /\ \A m \in Messages : \A k \in DOMAIN rows[m] :
             /\ rows[m][k] \in Row
             /\ rows'[m][k] = IF <<m, k>> \in stale THEN [rows[m][k] EXCEPT !.status = "superseded"]
                              ELSE rows[m][k]
    <3>1. TypeOK
      BY DEF TInv
    <3>. QED
      BY <2>1, <3>1, ReprocessedRows, Zenon
  <2>3. \A p \in stale \ crossed : rows[p[1]][p[2]].status \notin Posted
    BY <2>1 DEF VInv, StillOpen
  <2>4. crossed \subseteq crossed'
    BY <2>1, CommitsHistory
  <2>5. ASSUME NEW m \in Messages, NEW k \in DOMAIN rows[m], <<m, k>> \in stale
        PROVE  QueuedRight(m, k)' /\ (rows[m][k].status \in Posted => <<m, k>> \in crossed)
    <3>. PICK row \in Row : row = rows[m][k]
      BY <2>2
    <3>1. <<m, k>> \notin crossed => row.status \notin Posted
      BY <2>3, <2>5
    <3>2. rows'[m][k] = [row EXCEPT !.status = "superseded"]
      BY <2>2, <2>5
    <3>3. rows'[m][k].status = "superseded" /\ rows'[m][k].queued = row.queued
      BY <3>2 DEF Row
    <3>4. <<m, k>> \notin crossed => row.queued = IF row.status = "approved" THEN 1 ELSE 0
      BY DEF VInv, QueuedRight
    <3>. QED
      BY <2>4, <3>1, <3>3, <3>4 DEF QueuedRight, Posted
  <2>. QED
    BY <2>1, <2>2, <2>5, ClosedStep
<1>6. CASE CommitRetryEmail(r) \/ CommitRetryMessage(r)
  <2>1. UNCHANGED rows /\ Commits(r) /\ Targets(reviewer[r]) = {}
    BY <1>6 DEF CommitRetryEmail, CommitRetryMessage, Targets
  <2>. QED
    BY <2>1, ClosedStep
<1>7. CASE Refused(r)
  <2>1. StillOpen([act |-> "none"])
    BY DEF StillOpen, Targets
  <2>. QED
    BY <1>7, <2>1, OpenStep DEF Refused, Done, store, history
<1>. QED
  BY <1>1, <1>2, <1>3, <1>4, <1>5, <1>6, <1>7 DEF Review

LEMMA VInvNext == ASSUME TInv, VInv, [Next]_vars PROVE VInv' /\ Final
<1>1. CASE Next
  BY <1>1, AdvanceVInv, ReviewVInv DEF Next
<1>2. CASE UNCHANGED vars
  <2>1. UNCHANGED <<rows, reviewer, crossed>>
    BY <1>2 DEF vars
  <2>2. (\A m \in Messages : \A k \in DOMAIN rows[m] : QueuedRight(m, k))' /\ Final
    BY <2>1 DEF VInv, QueuedRight, Final, RowsWith
  <2>3. \A r \in Reviewers : StillOpen(reviewer[r])'
    BY <2>1 DEF VInv, StillOpen, Targets
  <2>. QED
    BY <2>2, <2>3 DEF VInv
<1>. QED
  BY <1>1, <1>2

LEMMA VInvInit == Init => VInv
BY DEF Init, VInv, StillOpen, Targets

\* What a reviewer's request is about stays open until it commits, whatever the workers store and
\* the other reviewers decide meanwhile, unless one of their requests crossed it (save_edits,
\* reprocess_email).
THEOREM ReviewInvariance == Spec => []VInv
<1>1. Init => VInv
  BY VInvInit
<1>2. TInv /\ VInv /\ [Next]_vars => VInv'
  BY VInvNext
<1>. QED
  BY <1>1, <1>2, LifecycleInvariance, PTL DEF Spec

\* An approved payment is queued for delivery; and one that is not is not, and none is queued
\* twice, unless two reviewers' requests crossed on it: for any number of reviewers and workers
\* (approve_and_queue, reject_extraction, reprocess_email).
THEOREM QueuedIffApprovedHolds == Spec => []QueuedIffApproved
<1>1. VInv => QueuedIffApproved
  BY DEF VInv, QueuedRight, QueuedIffApproved
<1>. QED
  BY <1>1, ReviewInvariance, PTL

\* Nothing but two requests that cross on it moves an approved or recorded payment out of its
\* status: for any number of reviewers and workers (review/service.py).
THEOREM ApprovedUnlessCrossedHolds == Spec => ApprovedUnlessCrossed
<1>1. TInv /\ VInv /\ [Next]_vars
      => [\A m \in Messages : \A k \in RowsWith(m, Posted) :
            <<m, k>> \notin crossed' => rows'[m][k].status = rows[m][k].status]_vars
  BY VInvNext DEF Final
<1>. QED
  BY <1>1, ReviewInvariance, LifecycleInvariance, PTL DEF Spec, ApprovedUnlessCrossed

-----------------------------------------------------------------------------
(* What holds of an email on which no two sessions have overlapped.        *)

\* Until its turn comes, a new email in a batch stays new, and none is in error.  What the worker
\* read of it for a step is still so.
StillTrue(x, e) ==
  /\ Busy(x) => \A t \in x.todo : t.email = e => /\ t.was = "new" => email[e] = "new"
                                                 /\ email[e] # "error"
  /\ x.phase = "classified" /\ x.entry.email = e => \A m \in MsgsOf(e) : x.read[m] = live[m] - raw[m]
  /\ x.phase = "extracted" /\ x.entry.email = e =>
       \A m \in MsgsOf(e) : m \in x.read => raw[m] > 0 /\ RowsWith(m, Live) = {}

\* A request is about an email that has been extracted, or is in error and waits for the request.
Warranted(y, e) ==
  /\ y.act = "reprocess" /\ y.email = e => \E m \in MsgsOf(e) : raw[m] > 0
  /\ y.act = "retry_message" /\ y.message \in MsgsOf(e) => raw[y.message] > 0
  /\ y.act = "retry_email" /\ y.email = e => /\ email[e] = "error"
                                             /\ y.to = "new" => \A m \in MsgsOf(e) : live[m] = 0

\* Its sources are read once, and its messages: what has been read or has failed was extracted,
\* and while it is new it has no sources yet.
Sound(e) ==
  \A m \in MsgsOf(e) :
    /\ live[m] <= 1 /\ raw[m] <= live[m]
    /\ \A j, k \in RowsWith(m, Live) : rows[m][j].reading = rows[m][k].reading
    /\ DOMAIN rows[m] # {} \/ message[m] = "failed" => raw[m] > 0
    /\ email[e] = "new" => live[m] = 0

Steady(e) ==
  /\ Sound(e)
  /\ \A w \in Workers : StillTrue(worker[w], e)
  /\ \A r \in Reviewers : Warranted(reviewer[r], e)

CInv == \A e \in Emails \ contended : Steady(e)

\* The rows of message m are as they were.
RowsSame(m) ==
  DOMAIN rows'[m] = DOMAIN rows[m] /\ \A k \in DOMAIN rows[m] : rows'[m][k] = rows[m][k]

\* Email e is as it was.
Kept(e) ==
  /\ email'[e] = email[e]
  /\ \A m \in MsgsOf(e) : RowsSame(m) /\ message'[m] = message[m] /\ live'[m] = live[m] /\ raw'[m] = raw[m]

LEMMA KeptLive == ASSUME NEW e, Kept(e) PROVE \A m \in MsgsOf(e) : RowsWith(m, Live)' = RowsWith(m, Live)
BY DEF Kept, RowsSame, RowsWith

\* An email that is as it was is sound as it was, and so is what sessions hold about it.
LEMMA KeptSteady ==
  ASSUME NEW e, Kept(e), Sound(e),
         \A w \in Workers : StillTrue(worker'[w], e), \A r \in Reviewers : Warranted(reviewer'[r], e)
  PROVE  Steady(e)'
<1>0. \A m \in MsgsOf(e) : RowsWith(m, Live)' = RowsWith(m, Live)
  BY KeptLive
<1>1. Sound(e)'
  <2>1. ASSUME NEW m \in MsgsOf(e)
        PROVE  /\ live'[m] <= 1 /\ raw'[m] <= live'[m]
               /\ \A j, k \in RowsWith(m, Live)' : rows'[m][j].reading = rows'[m][k].reading
               /\ DOMAIN rows'[m] # {} \/ message'[m] = "failed" => raw'[m] > 0
               /\ email'[e] = "new" => live'[m] = 0
    <3>1. \A k \in RowsWith(m, Live) : rows'[m][k] = rows[m][k]
      BY DEF Kept, RowsSame, RowsWith
    <3>. QED
      BY <1>0, <3>1 DEF Sound, Kept, RowsSame
  <2>. QED
    BY <2>1 DEF Sound, MsgsOf
<1>2. ASSUME NEW w \in Workers PROVE StillTrue(worker[w], e)'
  <2>. PICK x : x = worker'[w]
    OBVIOUS
  <2>1. StillTrue(x, e)
    OBVIOUS
  <2>2. StillTrue(x, e)'
    BY <1>0, <2>1 DEF StillTrue, Kept, MsgsOf, Busy
  <2>. QED
    BY <2>2 DEF StillTrue, Busy, MsgsOf, RowsWith
<1>3. ASSUME NEW r \in Reviewers PROVE Warranted(reviewer[r], e)'
  <2>. PICK y : y = reviewer'[r]
    OBVIOUS
  <2>1. Warranted(y, e)
    OBVIOUS
  <2>2. Warranted(y, e)'
    BY <2>1 DEF Warranted, Kept, MsgsOf
  <2>. QED
    BY <2>2 DEF Warranted, MsgsOf
<1>. QED
  BY <1>1, <1>2, <1>3 DEF Steady

\* A worker takes an entry, or crashes, or a reviewer takes up a request: nothing is written.
LEMMA HoldsTrue ==
  ASSUME TInv, CInv, UNCHANGED <<content, store, history>>,
         \A e \in Emails \ contended : \A w \in Workers : worker'[w] = worker[w] \/ StillTrue(worker'[w], e),
         \A e \in Emails \ contended : \A r \in Reviewers : reviewer'[r] = reviewer[r] \/ Warranted(reviewer'[r], e)
  PROVE  CInv'
<1>1. UNCHANGED <<email, message, live, raw, rows, contended>>
  BY DEF store, history
<1>2. ASSUME NEW e \in Emails \ contended PROVE Steady(e)'
  <2>1. Kept(e)
    BY <1>1 DEF Kept, RowsSame
  <2>2. /\ Sound(e) /\ \A w \in Workers : StillTrue(worker[w], e)
        /\ \A r \in Reviewers : Warranted(reviewer[r], e)
    BY DEF CInv, Steady
  <2>3. ASSUME NEW w \in Workers PROVE StillTrue(worker'[w], e)
    BY <2>2
  <2>4. ASSUME NEW r \in Reviewers PROVE Warranted(reviewer'[r], e)
    BY <2>2
  <2>. QED
    BY <2>1, <2>2, <2>3, <2>4, KeptSteady
<1>. QED
  BY <1>1, <1>2 DEF CInv

LEMMA WorkerHolds ==
  ASSUME TInv, CInv, NEW w \in Workers, NEW x, worker' = [worker EXCEPT ![w] = x],
         UNCHANGED <<content, store, reviewer, history>>, \A e \in Emails \ contended : StillTrue(x, e)
  PROVE  CInv'
<1>1. \A v \in Workers : worker'[v] = worker[v] \/ worker'[v] = x
  BY DEF TInv
<1>. QED
  BY <1>1, HoldsTrue

LEMMA ReviewerHolds ==
  ASSUME TInv, CInv, NEW r \in Reviewers, NEW y, reviewer' = [reviewer EXCEPT ![r] = y],
         UNCHANGED <<content, store, worker, history>>, \A e \in Emails \ contended : Warranted(y, e)
  PROVE  CInv'
<1>1. \A q \in Reviewers : reviewer'[q] = reviewer[q] \/ reviewer'[q] = y
  BY DEF TInv
<1>. QED
  BY <1>1, HoldsTrue

\* Worker w is done with email f, and goes on with z; nobody else has the email, unless it is
\* contended from then on.
Leaves(w, f, z) ==
  /\ f \in Emails /\ f \in InHand(worker[w])
  /\ contended \subseteq contended'
  /\ z.phase \notin PendingStatuses
  /\ Busy(z) => z.todo \subseteq worker[w].todo /\ Busy(worker[w])
  /\ InHand(z) \subseteq InHand(worker[w]) \ {f}
  /\ f \notin contended' => \A v \in Workers \ {w} : f \notin InHand(worker[v])

LEMMA FinishLeaves ==
  ASSUME TInv, NEW w \in Workers, worker[w].phase \in PendingStatuses, NEW st, Finish(w, st)
  PROVE  Leaves(w, worker[w].entry.email, Rest(w, worker[w].entry))
<1>. PICK f : f = worker[w].entry.email
  OBVIOUS
<1>. PICK t, todo : t = worker[w].entry /\ todo = worker[w].todo
  OBVIOUS
<1>1. /\ WorkerOK(worker[w]) /\ Busy(worker[w]) /\ t \in todo /\ t.email \in Emails
      /\ \A u \in todo \ {t} : u.email # t.email
  BY DEF TInv, WorkerOK, Busy
<1>2. Rest(w, t) = [phase |-> "idle"] \/ Rest(w, t) = [phase |-> "batch", todo |-> todo \ {t}]
  BY DEF Rest
<1>3. Rest(w, t).phase \notin PendingStatuses /\ (Busy(Rest(w, t)) => Rest(w, t).todo = todo \ {t})
  BY <1>2 DEF Busy, PendingStatuses
<1>4. InHand(Rest(w, t)) \subseteq InHand(worker[w]) \ {f}
  BY <1>1, <1>3 DEF InHand
<1>5. f \in InHand(worker[w])
  BY <1>1 DEF InHand
<1>6. /\ f \notin contended' => \A v \in Workers \ {w} : f \notin InHand(worker[v])
      /\ contended \subseteq contended'
  BY DEF Finish
<1>. QED
  BY <1>1, <1>3, <1>4, <1>5, <1>6 DEF Leaves

\* What a worker has left of its batch is as true as what it had.
LEMMA LeftTrue ==
  ASSUME NEW x, NEW z, NEW e, StillTrue(x, e), InHand(z) \subseteq InHand(x), z.phase \notin PendingStatuses,
         Busy(z) => z.todo \subseteq x.todo /\ Busy(x)
  PROVE  StillTrue(z, e)
BY DEF StillTrue, PendingStatuses

\* The worker commits a step on email f, and changes no other.
LEMMA FinishTrue ==
  ASSUME TInv, TInv', CInv, NEW w \in Workers, worker[w].phase \in PendingStatuses,
         NEW st \in EmailStatuses \ {"new"}, Finish(w, st), NEW f, f = worker[w].entry.email,
         \A e \in Emails \ {f} : \A m \in MsgsOf(e) :
           RowsSame(m) /\ message'[m] = message[m] /\ live'[m] = live[m] /\ raw'[m] = raw[m],
         \A m \in MsgsOf(f) : raw[m] > 0 => raw'[m] > 0,
         f \notin contended => Sound(f)'
  PROVE  CInv'
<1>. PICK z : z = Rest(w, worker[w].entry)
  OBVIOUS
<1>0. Leaves(w, f, z) /\ worker' = [worker EXCEPT ![w] = z] /\ email' = [email EXCEPT ![f] = st]
  BY FinishLeaves DEF Finish
<1>1. /\ f \in Emails /\ f \in InHand(worker[w]) /\ email' = [email EXCEPT ![f] = st] /\ UNCHANGED reviewer
      /\ contended \subseteq contended' /\ worker' = [worker EXCEPT ![w] = z]
      /\ z.phase \notin PendingStatuses
      /\ Busy(z) => z.todo \subseteq worker[w].todo /\ Busy(worker[w])
      /\ InHand(z) \subseteq InHand(worker[w]) \ {f}
      /\ f \notin contended' => \A v \in Workers \ {w} : f \notin InHand(worker[v])
  BY <1>0 DEF Leaves, Finish
<1>2. email \in [Emails -> EmailStatuses] /\ \A v \in Workers : WorkerOK(worker[v]) /\ WorkerOK(worker'[v])
  <2>1. \A v \in Workers : WorkerOK(worker[v])'
    BY DEF TInv
  <2>. QED
    BY <2>1 DEF TInv, TypeOK, WorkerOK, Busy, MsgsOf
<1>3. \A v \in Workers : worker'[v] = IF v = w THEN z ELSE worker[v]
  BY <1>1 DEF TInv
<1>4. ASSUME NEW e \in Emails \ contended', e # f PROVE Steady(e)'
  <2>1. Kept(e)
    BY <1>1, <1>2, <1>4 DEF Kept
  <2>2. /\ Sound(e) /\ \A v \in Workers : StillTrue(worker[v], e)
        /\ \A r \in Reviewers : Warranted(reviewer[r], e)
    BY <1>1, <1>4 DEF CInv, Steady
  <2>3. StillTrue(z, e)
    <3>1. StillTrue(worker[w], e)
      BY <2>2
    <3>. QED
      BY <1>1, <3>1, LeftTrue
  <2>4. ASSUME NEW v \in Workers PROVE StillTrue(worker'[v], e)
    BY <1>3, <2>2, <2>3
  <2>5. ASSUME NEW r \in Reviewers PROVE Warranted(reviewer'[r], e)
    BY <1>1, <2>2
  <2>. QED
    BY <2>1, <2>2, <2>4, <2>5, KeptSteady
<1>5. ASSUME f \notin contended' PROVE Steady(f)'
  <2>1. Steady(f) /\ Sound(f)'
    BY <1>1, <1>5 DEF CInv
  <2>2. ASSUME NEW v \in Workers PROVE StillTrue(worker[v], f)'
    <3>. PICK x : x = worker'[v]
      OBVIOUS
    <3>1. f \notin InHand(x) /\ WorkerOK(x)
      BY <1>1, <1>2, <1>3, <1>5
    <3>2. StillTrue(x, f)'
      BY <3>1 DEF InHand, StillTrue, WorkerOK, Busy
    <3>. QED
      BY <3>2 DEF StillTrue, Busy, MsgsOf, RowsWith
  <2>3. email[f] # "error"
    BY <1>1, <2>1 DEF Steady, StillTrue, InHand
  <2>4. ASSUME NEW r \in Reviewers PROVE Warranted(reviewer[r], f)'
    <3>. PICK y : y = reviewer[r]
      OBVIOUS
    <3>1. Warranted(y, f)
      BY <2>1 DEF Steady
    <3>2. Warranted(y, f)'
      BY <2>3, <3>1 DEF Warranted, MsgsOf
    <3>. QED
      BY <1>1, <3>2 DEF Warranted, MsgsOf
  <2>. QED
    BY <2>1, <2>2, <2>4 DEF Steady
<1>. QED
  BY <1>4, <1>5 DEF CInv

\* Nothing but the worker's email changed.
LEMMA FinishPlain ==
  ASSUME TInv, TInv', CInv, NEW w \in Workers, worker[w].phase \in PendingStatuses,
         NEW st \in EmailStatuses \ {"new"}, Finish(w, st), UNCHANGED <<message, live, raw, rows>>
  PROVE  CInv'
<1>. PICK f : f = worker[w].entry.email
  OBVIOUS
<1>1. \A m : RowsSame(m) /\ message'[m] = message[m] /\ live'[m] = live[m] /\ raw'[m] = raw[m]
  BY DEF RowsSame
<1>2. f \in Emails /\ email' = [email EXCEPT ![f] = st] /\ email \in [Emails -> EmailStatuses]
  BY FinishLeaves DEF Leaves, Finish, TInv, TypeOK
<1>3. f \notin contended => Sound(f)'
  BY <1>2 DEF CInv, Steady, Sound, MsgsOf, RowsWith
<1>. QED
  BY <1>1, <1>3, FinishTrue

LEMMA BeginTrue ==
  ASSUME TInv, CInv, NEW w \in Workers, NEW was \in PendingStatuses, NEW t \in Entries(w, was), NEW read,
         t.email \notin contended =>
           /\ was = "classified" => \A m \in MsgsOf(t.email) : read[m] = live[m] - raw[m]
           /\ was = "extracted" => \A m \in read : raw[m] > 0 /\ RowsWith(m, Live) = {},
         Begin(w, t, read)
  PROVE  CInv'
<1>. PICK x : x = [phase |-> t.was, todo |-> worker[w].todo, entry |-> t, read |-> read]
  OBVIOUS
<1>1. x.phase = t.was /\ x.todo = worker[w].todo /\ x.entry = t /\ x.read = read
  OBVIOUS
<1>2. t.was = was /\ t \in worker[w].todo /\ worker[w].phase = "batch"
  BY DEF Entries
<1>3. ASSUME NEW e \in Emails \ contended PROVE StillTrue(x, e)
  <2>1. StillTrue(worker[w], e) /\ Busy(worker[w])
    BY <1>2 DEF CInv, Steady, Busy
  <2>. QED
    BY <1>1, <1>2, <2>1 DEF StillTrue, Busy
<1>. QED
  BY <1>3, WorkerHolds DEF Begin

LEMMA ExtractTrue ==
  ASSUME TInv, TInv', CInv, NEW w \in Workers, EndExtract(w)
  PROVE  CInv'
<1>. PICK e, read : e = worker[w].entry.email /\ read = worker[w].read
  OBVIOUS
<1>. PICK todo : todo = {m \in MsgsOf(e) : worker[w].read[m] > 0}
  OBVIOUS
<1>0. /\ worker[w].phase = "classified" /\ worker[w].phase \in PendingStatuses /\ UNCHANGED <<message, live, rows>>
      /\ live \in [Messages -> Nat] /\ raw \in [Messages -> Nat] /\ email \in [Emails -> EmailStatuses]
      /\ {"error", "extracted"} \subseteq EmailStatuses \ {"new"}
  BY DEF EndExtract, PendingStatuses, TInv, TypeOK, EmailStatuses
<1>1. CASE Finish(w, "error") /\ UNCHANGED raw
  BY <1>0, <1>1, FinishPlain
<1>2. CASE \E failed \in SUBSET todo :
             /\ raw' = [m \in Messages |-> IF m \in todo \ failed THEN raw[m] + worker[w].read[m] ELSE raw[m]]
             /\ Finish(w, IF failed = {} THEN "extracted" ELSE "error")
  <2>1. PICK failed \in SUBSET todo :
             /\ raw' = [m \in Messages |-> IF m \in todo \ failed THEN raw[m] + worker[w].read[m] ELSE raw[m]]
             /\ Finish(w, IF failed = {} THEN "extracted" ELSE "error")
    BY <1>2
  <2>2. PICK status \in EmailStatuses \ {"new"} : Finish(w, status)
    BY <1>0, <2>1
  <2>3. e \in Emails /\ email' = [email EXCEPT ![e] = status] /\ e \in InHand(worker[w])
    BY <1>0, <2>2, FinishLeaves DEF Leaves, Finish
  <2>4. read \in [MsgsOf(e) -> Nat]
    BY <1>0 DEF TInv, WorkerOK
  <2>5. \A m \in MsgsOf(e) : raw[m] > 0 => raw'[m] > 0
    BY <1>0, <2>1, <2>4 DEF MsgsOf
  <2>6. \A f \in Emails \ {e} : \A m \in MsgsOf(f) :
          RowsSame(m) /\ message'[m] = message[m] /\ live'[m] = live[m] /\ raw'[m] = raw[m]
    BY <1>0, <2>1 DEF RowsSame, MsgsOf
  <2>7. ASSUME e \notin contended PROVE Sound(e)'
    <3>1. Sound(e) /\ StillTrue(worker[w], e)
      BY <2>3, <2>7 DEF CInv, Steady
    <3>2. \A m \in MsgsOf(e) : read[m] = live[m] - raw[m]
      BY <1>0, <3>1 DEF StillTrue
    <3>3. \A m \in MsgsOf(e) : raw'[m] = raw[m] \/ raw'[m] = live[m]
      BY <1>0, <2>1, <3>2 DEF MsgsOf
    <3>. QED
      BY <1>0, <2>3, <2>5, <3>1, <3>3 DEF Sound, MsgsOf, RowsWith
  <2>. QED
    BY <1>0, <2>2, <2>5, <2>6, <2>7, FinishTrue
<1>. QED
  BY <1>1, <1>2, Zenon DEF EndExtract

LEMMA NormalizeTrue ==
  ASSUME TInv, TInv', CInv, NEW w \in Workers, EndNormalize(w)
  PROVE  CInv'
<1>. PICK e, read : e = worker[w].entry.email /\ read = worker[w].read
  OBVIOUS
<1>. DEFINE Normalized(failed, got) ==
        /\ rows' = [m \in Messages |->
             IF m \in worker[w].read \ failed
             THEN rows[m] \o [k \in DOMAIN got[m] |-> Stored(m, got[m][k])]
             ELSE rows[m]]
        /\ message' = [m \in Messages |-> IF m \in failed THEN "failed" ELSE message[m]]
        /\ Finish(w, IF failed = worker[w].read THEN "error" ELSE Settled(worker[w].entry.email, rows'))
<1>0. /\ worker[w].phase = "extracted" /\ worker[w].phase \in PendingStatuses /\ UNCHANGED <<live, raw>>
      /\ email \in [Emails -> EmailStatuses] /\ read \subseteq MsgsOf(e)
      /\ {"error", "done", "review"} \subseteq EmailStatuses \ {"new"}
  BY DEF EndNormalize, PendingStatuses, TInv, TypeOK, WorkerOK, EmailStatuses
<1>1. PICK failed \in SUBSET worker[w].read :
        \E got \in [worker[w].read \ failed -> Readings] : Normalized(failed, got)
  BY DEF EndNormalize
<1>2. PICK got \in [worker[w].read \ failed -> Readings] : Normalized(failed, got)
  BY <1>1
<1>3. /\ \A m \in Messages \ worker[w].read : rows'[m] = rows[m]
      /\ \A m \in Messages : \A k \in DOMAIN rows[m] : rows'[m][k] = rows[m][k]
      /\ \A m \in Messages : \A k \in DOMAIN rows'[m] \ DOMAIN rows[m] :
           \E outcome \in Outcomes : rows'[m][k] = Stored(m, outcome)
  BY <1>0, <1>2, NormalizedRows
<1>4. PICK status \in EmailStatuses \ {"new"} : Finish(w, status)
  BY <1>0, <1>2 DEF Settled
<1>5. e \in Emails /\ email' = [email EXCEPT ![e] = status] /\ e \in InHand(worker[w])
  BY <1>0, <1>4, FinishLeaves DEF Leaves, Finish
<1>6. \A f \in Emails \ {e} : \A m \in MsgsOf(f) :
        RowsSame(m) /\ message'[m] = message[m] /\ live'[m] = live[m] /\ raw'[m] = raw[m]
  BY <1>0, <1>1, <1>2, <1>3 DEF RowsSame, MsgsOf
<1>7. ASSUME e \notin contended PROVE Sound(e)'
  <2>1. Sound(e) /\ StillTrue(worker[w], e)
    BY <1>5, <1>7 DEF CInv, Steady
  <2>2. \A m \in read : m \in MsgsOf(e) /\ raw[m] > 0 /\ RowsWith(m, Live) = {}
    BY <1>0, <2>1 DEF StillTrue
  <2>3. ASSUME NEW m \in MsgsOf(e), NEW j \in RowsWith(m, Live)', NEW k \in RowsWith(m, Live)'
        PROVE  rows'[m][j].reading = rows'[m][k].reading
    <3>0. /\ j \in DOMAIN rows'[m] /\ k \in DOMAIN rows'[m] /\ m \in Messages
          /\ rows'[m][j].status \in Live /\ rows'[m][k].status \in Live
      BY DEF RowsWith, MsgsOf
    <3>1. CASE m \in read
      <4>1. \A i \in DOMAIN rows'[m] : rows'[m][i].status \in Live => rows'[m][i].reading = LastReading(m) + 1
        <5>. TAKE i \in DOMAIN rows'[m]
        <5>. HAVE rows'[m][i].status \in Live
        <5>1. i \notin DOMAIN rows[m]
          BY <1>3, <2>2, <3>0, <3>1 DEF RowsWith
        <5>2. PICK outcome \in Outcomes : rows'[m][i] = Stored(m, outcome)
          BY <1>3, <3>0, <5>1
        <5>. QED
          BY <5>2 DEF Stored
      <4>. QED
        BY <3>0, <4>1
    <3>2. CASE m \notin read
      <4>1. rows'[m] = rows[m]
        BY <1>3, <3>0, <3>2
      <4>. QED
        BY <2>1, <3>0, <4>1 DEF Sound, RowsWith
    <3>. QED
      BY <3>1, <3>2
  <2>4. \A m \in MsgsOf(e) : DOMAIN rows'[m] # {} \/ message'[m] = "failed" => raw'[m] > 0
    <3>1. \A m \in MsgsOf(e) \ read : rows'[m] = rows[m] /\ message'[m] = message[m]
      BY <1>1, <1>2, <1>3 DEF MsgsOf
    <3>. QED
      BY <1>0, <2>1, <2>2, <3>1 DEF Sound
  <2>5. email'[e] # "new"
    BY <1>0, <1>5
  <2>6. \A m \in MsgsOf(e) : live'[m] <= 1 /\ raw'[m] <= live'[m]
    BY <1>0, <2>1 DEF Sound
  <2>. QED
    BY <2>3, <2>4, <2>5, <2>6 DEF Sound, MsgsOf
<1>. QED
  BY <1>0, <1>4, <1>6, <1>7, FinishTrue

LEMMA ClassifyTrue ==
  ASSUME TInv, TInv', CInv, NEW w \in Workers, EndClassify(w)
  PROVE  CInv'
<1>. DEFINE e == worker[w].entry.email
<1>0. /\ worker[w].phase = "new" /\ worker[w].phase \in PendingStatuses /\ UNCHANGED <<raw, rows>>
      /\ live \in [Messages -> Nat] /\ raw \in [Messages -> Nat] /\ email \in [Emails -> EmailStatuses]
      /\ {"done", "classified"} \subseteq EmailStatuses \ {"new"}
  BY DEF EndClassify, PendingStatuses, TInv, TypeOK, EmailStatuses
<1>1. PICK known :
        LET ms == MsgsOf(e)
            st == [m \in ms |-> IF AlreadySplit(e) THEN message[m] ELSE SplitStatus(m, known)]
            sourced == {m \in ms : HasSource(m, st[m])}
            nothing == /\ sourced = {} /\ att[e] = "none"
                       /\ \/ \E m \in ms : st[m] = "seen"
                          \/ \A m \in ms : st[m] = "no_content"
        IN /\ message' = [m \in Messages |-> IF m \in ms THEN st[m] ELSE message[m]]
           /\ live' = [m \in Messages |-> IF m \in sourced THEN live[m] + 1 ELSE live[m]]
           /\ placeholder' = [placeholder EXCEPT ![e] = @ \/ (sourced = {} /\ ~nothing)]
           /\ Finish(w, IF nothing THEN "done" ELSE "classified")
  BY DEF EndClassify
<1>. DEFINE st == [m \in MsgsOf(e) |-> IF AlreadySplit(e) THEN message[m] ELSE SplitStatus(m, known)]
            sourced == {m \in MsgsOf(e) : HasSource(m, st[m])}
            nothing == /\ sourced = {} /\ att[e] = "none"
                       /\ \/ \E m \in MsgsOf(e) : st[m] = "seen"
                          \/ \A m \in MsgsOf(e) : st[m] = "no_content"
<1>2. /\ message' = [m \in Messages |-> IF m \in MsgsOf(e) THEN st[m] ELSE message[m]]
      /\ live' = [m \in Messages |-> IF m \in sourced THEN live[m] + 1 ELSE live[m]]
      /\ Finish(w, IF nothing THEN "done" ELSE "classified")
  BY <1>1, Zenon
<1>3. \A m \in MsgsOf(e) : st[m] = message[m] \/ st[m] = SplitStatus(m, known)
  OBVIOUS
<1>4. sourced \subseteq MsgsOf(e)
  OBVIOUS
<1>. HIDE DEF st, sourced, nothing
<1>5. PICK status \in EmailStatuses \ {"new"} : Finish(w, status)
  BY <1>0, <1>2
<1>. PICK f : f = e
  OBVIOUS
<1>. HIDE DEF e
<1>6. f \in Emails /\ email' = [email EXCEPT ![f] = status] /\ f \in InHand(worker[w])
  BY <1>0, <1>5, FinishLeaves DEF Leaves, Finish, e
<1>7. \A g \in Emails \ {f} : \A m \in MsgsOf(g) :
        RowsSame(m) /\ message'[m] = message[m] /\ live'[m] = live[m] /\ raw'[m] = raw[m]
  BY <1>0, <1>2, <1>4 DEF RowsSame, MsgsOf
<1>8. ASSUME f \notin contended PROVE Sound(f)'
  <2>1. Sound(f) /\ StillTrue(worker[w], f)
    BY <1>6, <1>8 DEF CInv, Steady
  <2>2. worker[w].entry \in worker[w].todo /\ worker[w].entry.was = "new" /\ Busy(worker[w])
    BY <1>0 DEF TInv, WorkerOK, Busy
  <2>3. email[f] = "new"
    BY <2>1, <2>2 DEF StillTrue, e
  <2>4. \A m \in MsgsOf(f) : live[m] = 0 /\ raw[m] = 0 /\ message[m] # "failed" /\ DOMAIN rows[m] = {}
    BY <1>0, <2>1, <2>3 DEF Sound, MsgsOf
  <2>5. \A m \in MsgsOf(f) : message'[m] # "failed"
    BY <1>2, <1>3, <2>4 DEF SplitStatus, MsgsOf
  <2>6. \A m \in MsgsOf(f) : live'[m] <= 1 /\ raw'[m] = 0 /\ raw'[m] <= live'[m] /\ DOMAIN rows'[m] = {}
    BY <1>0, <1>2, <2>4 DEF MsgsOf
  <2>7. email'[f] # "new"
    BY <1>0, <1>6
  <2>. QED
    BY <2>5, <2>6, <2>7 DEF Sound, MsgsOf, RowsWith
<1>9. \A m \in MsgsOf(f) : raw[m] > 0 => raw'[m] > 0
  BY <1>0
<1>. QED
  BY <1>0, <1>5, <1>7, <1>8, <1>9, FinishTrue DEF e

LEMMA AdvanceCInv ==
  ASSUME TInv, TInv', CInv, NEW w \in Workers, Advance(w)
  PROVE  CInv'
<1>1. CASE StartBatch(w)
  <2>. PICK x : x = [phase |-> "batch", todo |-> {[email |-> e, was |-> email[e]] :
                       e \in {f \in Emails : email[f] \in PendingStatuses}}]
    OBVIOUS
  <2>1. x.phase = "batch" /\ \A t \in x.todo : t.was = email[t.email] /\ t.was \in PendingStatuses
    OBVIOUS
  <2>2. \A e \in Emails \ contended : StillTrue(x, e)
    BY <2>1 DEF StillTrue, Busy, PendingStatuses
  <2>. QED
    BY <1>1, <2>2, WorkerHolds DEF StartBatch
<1>2. CASE BeginClassify(w)
  BY <1>2, BeginTrue DEF BeginClassify, PendingStatuses
<1>3. CASE BeginExtract(w)
  <2>1. PICK t \in Entries(w, "classified") : Begin(w, t, ToExtract(t.email))
    BY <1>3 DEF BeginExtract
  <2>2. t.email \in Emails
    BY DEF Entries, TInv, WorkerOK, Busy
  <2>3. t.email \notin contended => \A m \in MsgsOf(t.email) : ToExtract(t.email)[m] = live[m] - raw[m]
    <3>1. t.email \notin contended => \A m \in MsgsOf(t.email) : live[m] \in Nat /\ raw[m] \in Nat /\ raw[m] <= live[m]
      BY <2>2 DEF CInv, Steady, Sound, TInv, TypeOK, MsgsOf
    <3>. QED
      BY <3>1 DEF ToExtract
  <2>. QED
    BY <2>1, <2>3, BeginTrue DEF PendingStatuses
<1>4. CASE BeginNormalize(w)
  <2>1. \A e : \A m \in Groups(e) : raw[m] > 0 /\ RowsWith(m, Live) = {}
    BY DEF Groups
  <2>. QED
    BY <1>4, <2>1, BeginTrue DEF BeginNormalize, PendingStatuses
<1>5. CASE EndClassify(w)
  BY <1>5, ClassifyTrue
<1>6. CASE EndExtract(w)
  BY <1>6, ExtractTrue
<1>7. CASE EndNormalize(w)
  BY <1>7, NormalizeTrue
<1>8. CASE NothingToNormalize(w) \/ ClassifyCollides(w) \/ StepRaises(w)
  <2>0. {"error", "done", "review"} \subseteq EmailStatuses \ {"new"}
    BY DEF EmailStatuses
  <2>1. UNCHANGED <<message, live, raw, placeholder, rows>> /\ worker[w].phase \in PendingStatuses
    BY <1>8 DEF NothingToNormalize, ClassifyCollides, StepRaises, PendingStatuses
  <2>2. PICK status \in EmailStatuses \ {"new"} : Finish(w, status)
    BY <1>8, <2>0 DEF NothingToNormalize, ClassifyCollides, StepRaises, Settled
  <2>. QED
    BY <2>1, <2>2, FinishPlain
<1>9. CASE Crash(w)
  <2>1. \A e : StillTrue([phase |-> "down"], e)
    BY DEF StillTrue, Busy, PendingStatuses
  <2>. QED
    BY <1>9, <2>1, WorkerHolds DEF Crash
<1>10. CASE Restart(w)
  <2>1. \A e : StillTrue([phase |-> "idle"], e)
    BY DEF StillTrue, Busy, PendingStatuses
  <2>. QED
    BY <1>10, <2>1, WorkerHolds DEF Restart
<1>. QED
  BY <1>1, <1>2, <1>3, <1>4, <1>5, <1>6, <1>7, <1>8, <1>9, <1>10 DEF Advance

\* A reviewer commits a request about email f, and changes no other.
LEMMA CommitTrue ==
  ASSUME TInv, CInv, NEW r \in Reviewers, Commits(r), NEW f \in Emails, About(reviewer[r], f), NEW st,
         UNCHANGED <<worker, live, raw>>, email' = [email EXCEPT ![f] = st],
         \A e \in Emails \ {f} : \A m \in MsgsOf(e) : RowsSame(m) /\ message'[m] = message[m],
         f \notin contended' =>
           /\ email[f] # "new" /\ (st # "error" \/ st = email[f])
           /\ st = "new" => \A m \in MsgsOf(f) : live[m] = 0
           /\ \A m \in MsgsOf(f) :
                /\ message'[m] = "failed" => message[m] = "failed"
                /\ DOMAIN rows'[m] = DOMAIN rows[m]
                /\ \A k \in DOMAIN rows[m] : rows'[m][k].status \in Live =>
                     rows[m][k].status \in Live /\ rows'[m][k].reading = rows[m][k].reading
  PROVE  CInv'
<1>0. /\ email \in [Emails -> EmailStatuses]
      /\ email' = [e \in Emails |-> IF e = f THEN st ELSE email[e]]
      /\ reviewer' = [q \in Reviewers |-> IF q = r THEN [act |-> "none"] ELSE reviewer[q]]
  BY DEF TInv, TypeOK, Commits, Done
<1>1. /\ contended \subseteq contended'
      /\ f \notin contended' => \A q \in Reviewers \ {r} : ~About(reviewer[q], f)
  BY CommitsHistory
<1>2. \A e : Warranted([act |-> "none"], e)
  BY DEF Warranted
<1>3. ASSUME NEW e \in Emails \ contended', e # f PROVE Steady(e)'
  <2>1. Kept(e)
    BY <1>0, <1>3 DEF Kept
  <2>2. /\ Sound(e) /\ \A v \in Workers : StillTrue(worker[v], e)
        /\ \A q \in Reviewers : Warranted(reviewer[q], e)
    BY <1>1, <1>3 DEF CInv, Steady
  <2>3. \A q \in Reviewers : Warranted(reviewer'[q], e)
    BY <1>0, <1>2, <2>2
  <2>. QED
    BY <2>1, <2>2, <2>3, KeptSteady
<1>4. ASSUME f \notin contended' PROVE Steady(f)'
  <2>0. Steady(f) /\ Sound(f)
    BY <1>1, <1>4 DEF CInv, Steady
  <2>1. \A m \in MsgsOf(f) : \A k \in RowsWith(m, Live)' :
          k \in RowsWith(m, Live) /\ rows'[m][k].reading = rows[m][k].reading
    BY <1>4 DEF RowsWith
  <2>2. Sound(f)'
    BY <1>0, <1>4, <2>0, <2>1 DEF Sound, MsgsOf
  <2>3. ASSUME NEW w \in Workers PROVE StillTrue(worker[w], f)'
    <3>. PICK x : x = worker[w]
      OBVIOUS
    <3>1. StillTrue(x, f)
      BY <2>0 DEF Steady
    <3>2. \A m \in MsgsOf(f) : RowsWith(m, Live) = {} => RowsWith(m, Live)' = {}
      BY <2>1
    <3>3. /\ Busy(x) => \A t \in x.todo : t.email = f => (t.was = "new" => st = "new") /\ st # "error"
          /\ x.phase = "classified" /\ x.entry.email = f => \A m \in MsgsOf(f) : x.read[m] = live'[m] - raw'[m]
          /\ x.phase = "extracted" /\ x.entry.email = f =>
               \A m \in MsgsOf(f) : m \in x.read => raw'[m] > 0 /\ RowsWith(m, Live)' = {}
      BY <1>4, <3>1, <3>2 DEF StillTrue
    <3>4. StillTrue(x, f)'
      BY <1>0, <3>3 DEF StillTrue, Busy, MsgsOf
    <3>. QED
      BY <3>4 DEF StillTrue, Busy, MsgsOf, RowsWith
  <2>4. ASSUME NEW q \in Reviewers PROVE Warranted(reviewer[q], f)'
    <3>. PICK y : y = reviewer'[q]
      OBVIOUS
    <3>1. y = [act |-> "none"] \/ (RequestOK(y) /\ ~About(y, f))
      BY <1>0, <1>1, <1>4 DEF TInv
    <3>2. Warranted(y, f)'
      BY <3>1 DEF Warranted, About, RequestOK, MsgsOf
    <3>. QED
      BY <3>2 DEF Warranted, MsgsOf
  <2>. QED
    BY <2>2, <2>3, <2>4 DEF Steady
<1>. QED
  BY <1>3, <1>4 DEF CInv

\* An email one of whose messages was extracted is not new.
LEMMA NotNew ==
  ASSUME TInv, NEW m \in Messages, Sound(EmailOf[m]), raw[m] > 0
  PROVE  email[EmailOf[m]] # "new"
<1>1. live[m] \in Nat /\ raw[m] \in Nat /\ m \in MsgsOf(EmailOf[m])
  BY DEF TInv, TypeOK, MsgsOf
<1>. QED
  BY <1>1 DEF Sound

LEMMA VerdictTrue ==
  ASSUME TInv, VInv, CInv, NEW r \in Reviewers, CommitVerdict(r)
  PROVE  CInv'
<1>. PICK m \in Messages : m = reviewer[r].row[1]
  BY DEF CommitVerdict, TInv, RequestOK
<1>. PICK k \in DOMAIN rows[m], verdict \in Verdicts : k = reviewer[r].row[2] /\ verdict = reviewer[r].verdict
  BY DEF CommitVerdict, TInv, RequestOK
<1>. PICK f : f = EmailOf[m]
  OBVIOUS
<1>1. /\ rows' = [rows EXCEPT ![m][k].status = verdict,
                              ![m][k].queued = IF verdict = "approved" THEN @ + 1 ELSE @]
      /\ email' = [email EXCEPT ![f] = IF reviewer[r].last /\ reviewer[r].was # "done" THEN "done" ELSE @]
      /\ Commits(r) /\ UNCHANGED <<message, live, raw, worker>>
      /\ reviewer[r].act = "verdict" /\ reviewer[r].row = <<m, k>>
  BY DEF CommitVerdict, TInv, RequestOK
<1>2. f \in Emails /\ m \in MsgsOf(f) /\ email \in [Emails -> EmailStatuses] /\ About(reviewer[r], f)
  BY <1>1, LifecycleAssumption DEF MsgsOf, TInv, TypeOK, About
<1>3. Decided(m, k, verdict)
  BY <1>1, VerdictRows DEF TInv
<1>4. \A e \in Emails \ {f} : \A n \in MsgsOf(e) : RowsSame(n) /\ message'[n] = message[n]
  BY <1>1, <1>3 DEF Decided, RowsSame, MsgsOf
<1>5. PICK st : /\ st = "done" \/ st = email[f]
                /\ email' = [email EXCEPT ![f] = st]
  BY <1>1, <1>2
<1>6. ASSUME f \notin contended'
      PROVE  /\ email[f] # "new"
             /\ \A n \in MsgsOf(f) :
                  /\ DOMAIN rows'[n] = DOMAIN rows[n]
                  /\ \A j \in DOMAIN rows[n] : rows'[n][j].status \in Live =>
                       rows[n][j].status \in Live /\ rows'[n][j].reading = rows[n][j].reading
  <2>1. f \notin contended
    BY <1>1, <1>6, CommitsHistory
  <2>2. <<m, k>> \notin crossed
    BY <2>1 DEF TInv
  <2>3. rows[m][k].status = "pending_review"
    BY <1>1, <2>2 DEF VInv, StillOpen, Targets
  <2>4. Sound(f)
    BY <1>2, <2>1 DEF CInv, Steady
  <2>5. raw[m] > 0
    BY <1>2, <2>4 DEF Sound
  <2>6. email[f] # "new"
    BY <2>4, <2>5, NotNew
  <2>. QED
    BY <1>3, <2>3, <2>6 DEF Decided, Live, MsgsOf
<1>7. f \notin contended' =>
        /\ email[f] # "new" /\ (st # "error" \/ st = email[f])
        /\ st = "new" => \A n \in MsgsOf(f) : live[n] = 0
        /\ \A n \in MsgsOf(f) :
             /\ message'[n] = "failed" => message[n] = "failed"
             /\ DOMAIN rows'[n] = DOMAIN rows[n]
             /\ \A j \in DOMAIN rows[n] : rows'[n][j].status \in Live =>
                  rows[n][j].status \in Live /\ rows'[n][j].reading = rows[n][j].reading
  BY <1>1, <1>5, <1>6
<1>8. f \in Emails /\ About(reviewer[r], f) /\ Commits(r) /\ UNCHANGED <<worker, live, raw>> /\ email' = [email EXCEPT ![f] = st]
  BY <1>1, <1>2, <1>5
<1>. QED
  BY <1>4, <1>7, <1>8, CommitTrue

LEMMA ReprocessTrue ==
  ASSUME TInv, CInv, NEW r \in Reviewers, CommitReprocess(r)
  PROVE  CInv'
<1>. PICK y : y = reviewer[r]
  OBVIOUS
<1>. PICK f : f = y.email
  OBVIOUS
<1>0. y.act = "reprocess" /\ f \in Emails /\ RequestOK(y) /\ About(y, f) /\ email \in [Emails -> EmailStatuses]
  BY DEF CommitReprocess, TInv, TypeOK, RequestOK, About
<1>1. /\ rows' = [m \in Messages |-> [k \in DOMAIN rows[m] |->
           IF <<m, k>> \in y.stale THEN [rows[m][k] EXCEPT !.status = "superseded"] ELSE rows[m][k]]]
      /\ email' = [email EXCEPT ![f] = IF y.was = "classified" THEN @ ELSE "classified"]
      /\ Commits(r) /\ UNCHANGED <<message, live, raw, worker>>
  BY DEF CommitReprocess
<1>2. TypeOK
  BY DEF TInv
<1>3. /\ \A m \in Messages : DOMAIN rows'[m] = DOMAIN rows[m]
      /\ \A m \in Messages : \A k \in DOMAIN rows[m] :
            /\ rows[m][k] \in Row
            /\ rows'[m][k] = IF <<m, k>> \in y.stale THEN [rows[m][k] EXCEPT !.status = "superseded"]
                             ELSE rows[m][k]
  BY <1>1, <1>2, ReprocessedRows, Zenon
<1>4. ASSUME NEW m \in Messages, NEW k \in DOMAIN rows[m], rows'[m][k].status \in Live
      PROVE  rows[m][k].status \in Live /\ rows'[m][k].reading = rows[m][k].reading
  <2>. PICK row \in Row : row = rows[m][k]
    BY <1>3
  <2>1. rows'[m][k] # [row EXCEPT !.status = "superseded"]
    BY <1>4 DEF Row, Live
  <2>. QED
    BY <1>3, <1>4, <2>1
<1>5. \A e \in Emails \ {f} : \A n \in MsgsOf(e) : RowsSame(n) /\ message'[n] = message[n]
  <2>1. \A n \in Messages : EmailOf[n] # f => \A k : <<n, k>> \notin y.stale
    BY <1>0 DEF RequestOK, MsgsOf
  <2>. QED
    BY <1>1, <1>3, <2>1 DEF RowsSame, MsgsOf
<1>6. f \notin contended' => email[f] # "new"
  <2>. SUFFICES ASSUME f \notin contended' PROVE email[f] # "new"
    OBVIOUS
  <2>1. f \notin contended
    BY <1>1, CommitsHistory
  <2>2. Sound(f) /\ Warranted(y, f)
    BY <1>0, <2>1 DEF CInv, Steady
  <2>3. PICK m \in Messages : EmailOf[m] = f /\ raw[m] > 0
    BY <1>0, <2>2 DEF Warranted, MsgsOf
  <2>. QED
    BY <2>2, <2>3, NotNew
<1>7. PICK st : /\ st = "classified" \/ st = email[f]
                /\ email' = [email EXCEPT ![f] = st]
  BY <1>0, <1>1
<1>8. \A m \in MsgsOf(f) : m \in Messages
  BY DEF MsgsOf
<1>9. f \notin contended' =>
        /\ email[f] # "new" /\ (st # "error" \/ st = email[f])
        /\ st = "new" => \A n \in MsgsOf(f) : live[n] = 0
        /\ \A n \in MsgsOf(f) :
             /\ message'[n] = "failed" => message[n] = "failed"
             /\ DOMAIN rows'[n] = DOMAIN rows[n]
             /\ \A k \in DOMAIN rows[n] : rows'[n][k].status \in Live =>
                  rows[n][k].status \in Live /\ rows'[n][k].reading = rows[n][k].reading
  BY <1>1, <1>3, <1>4, <1>6, <1>7, <1>8
<1>10. f \in Emails /\ About(reviewer[r], f) /\ Commits(r) /\ UNCHANGED <<worker, live, raw>> /\ email' = [email EXCEPT ![f] = st]
  BY <1>0, <1>1, <1>7
<1>. QED
  BY <1>5, <1>9, <1>10, CommitTrue

LEMMA RetryEmailTrue ==
  ASSUME TInv, CInv, NEW r \in Reviewers, CommitRetryEmail(r)
  PROVE  CInv'
<1>. PICK y : y = reviewer[r]
  OBVIOUS
<1>. PICK f, st : f = y.email /\ st = y.to
  OBVIOUS
<1>0. /\ y.act = "retry_email" /\ f \in Emails /\ st \in {"new", "classified"} /\ y.failed \subseteq MsgsOf(f)
      /\ About(y, f)
  BY DEF CommitRetryEmail, TInv, RequestOK, About
<1>1. /\ email' = [email EXCEPT ![f] = st] /\ Commits(r) /\ UNCHANGED <<live, raw, rows, worker>>
      /\ \A m \in Messages : message'[m] = IF m \in y.failed THEN "new" ELSE message[m]
  BY DEF CommitRetryEmail
<1>2. \A e \in Emails \ {f} : \A n \in MsgsOf(e) : RowsSame(n) /\ message'[n] = message[n]
  BY <1>0, <1>1 DEF RowsSame, MsgsOf
<1>3. f \notin contended' =>
        /\ email[f] = "error" /\ (st = "new" => \A m \in MsgsOf(f) : live[m] = 0)
  <2>1. f \notin contended' => f \notin contended
    BY <1>1, CommitsHistory
  <2>. QED
    BY <1>0, <2>1 DEF CInv, Steady, Warranted
<1>4. \A m \in MsgsOf(f) :
        /\ message'[m] = "failed" => message[m] = "failed"
        /\ rows'[m] = rows[m]
  BY <1>1 DEF MsgsOf
<1>. QED
  BY <1>0, <1>1, <1>2, <1>3, <1>4, CommitTrue

LEMMA RetryMessageTrue ==
  ASSUME TInv, CInv, NEW r \in Reviewers, CommitRetryMessage(r)
  PROVE  CInv'
<1>. PICK m \in Messages : m = reviewer[r].message
  BY DEF CommitRetryMessage, TInv, RequestOK
<1>. PICK f : f = EmailOf[m]
  OBVIOUS
<1>0. /\ f \in Emails /\ About(reviewer[r], f) /\ m \in MsgsOf(f)
      /\ email \in [Emails -> EmailStatuses] /\ message \in [Messages -> MessageStatuses]
  BY LifecycleAssumption DEF CommitRetryMessage, About, TInv, TypeOK, MsgsOf
<1>1. /\ email' = [email EXCEPT ![f] = IF reviewer[r].was = "extracted" THEN @ ELSE "extracted"]
      /\ message' = [message EXCEPT ![m] = "new"]
      /\ Commits(r) /\ UNCHANGED <<live, raw, rows, worker>> /\ reviewer[r].act = "retry_message"
  BY DEF CommitRetryMessage
<1>2. \A e \in Emails \ {f} : \A n \in MsgsOf(e) : RowsSame(n) /\ message'[n] = message[n]
  BY <1>0, <1>1 DEF RowsSame, MsgsOf
<1>3. f \notin contended' => email[f] # "new"
  <2>1. f \notin contended' => f \notin contended
    BY <1>1, CommitsHistory
  <2>2. f \notin contended' => Sound(f) /\ raw[m] > 0
    BY <1>0, <1>1, <2>1 DEF CInv, Steady, Warranted
  <2>. QED
    BY <2>2, NotNew
<1>4. PICK st : /\ st = "extracted" \/ st = email[f]
                /\ email' = [email EXCEPT ![f] = st]
  BY <1>0, <1>1
<1>5. \A n \in MsgsOf(f) :
        /\ message'[n] = "failed" => message[n] = "failed"
        /\ rows'[n] = rows[n]
  BY <1>0, <1>1 DEF MsgsOf
<1>6. f \notin contended' =>
        /\ email[f] # "new" /\ (st # "error" \/ st = email[f])
        /\ st = "new" => \A n \in MsgsOf(f) : live[n] = 0
        /\ \A n \in MsgsOf(f) :
             /\ message'[n] = "failed" => message[n] = "failed"
             /\ DOMAIN rows'[n] = DOMAIN rows[n]
             /\ \A k \in DOMAIN rows[n] : rows'[n][k].status \in Live =>
                  rows[n][k].status \in Live /\ rows'[n][k].reading = rows[n][k].reading
  BY <1>3, <1>4, <1>5
<1>7. f \in Emails /\ About(reviewer[r], f) /\ Commits(r) /\ UNCHANGED <<worker, live, raw>> /\ email' = [email EXCEPT ![f] = st]
  BY <1>0, <1>1, <1>4
<1>. QED
  BY <1>2, <1>6, <1>7, CommitTrue

LEMMA ReviewCInv ==
  ASSUME TInv, VInv, CInv, NEW r \in Reviewers, Review(r)
  PROVE  CInv'
<1>1. CASE BeginVerdict(r)
  <2>1. PICK e \in Emails : \E p \in PendingRows(e) : \E verdict \in Verdicts :
          Hold(r, [act |-> "verdict", verdict |-> verdict, row |-> p, was |-> email[e],
                   last |-> PendingRows(e) = {p}])
    BY <1>1 DEF BeginVerdict
  <2>2. PICK y : y.act = "verdict" /\ Hold(r, y)
    BY <2>1
  <2>3. \A f : Warranted(y, f)
    BY <2>2 DEF Warranted
  <2>. QED
    BY <2>2, <2>3, ReviewerHolds DEF Hold
<1>2. CASE BeginReprocess(r)
  <2>. DEFINE Groups0(e) == {m \in MsgsOf(e) : RowsWith(m, {"pending_review"}) # {}}
              Stale(e) == UNION {{m} \X RowsWith(m, Live \ Posted) : m \in Groups0(e)}
  <2>1. PICK e \in Emails :
          Groups0(e) # {} /\ Hold(r, [act |-> "reprocess", email |-> e, was |-> email[e], stale |-> Stale(e)])
    BY <1>2, Zenon DEF BeginReprocess
  <2>2. e \notin contended => \E m \in MsgsOf(e) : raw[m] > 0
    BY <2>1 DEF RowsWith, CInv, Steady, Sound
  <2>. HIDE DEF Stale
  <2>. PICK y : y = [act |-> "reprocess", email |-> e, was |-> email[e], stale |-> Stale(e)]
    OBVIOUS
  <2>3. y.act = "reprocess" /\ y.email = e /\ Hold(r, y)
    BY <2>1
  <2>4. \A g \in Emails \ contended : Warranted(y, g)
    BY <2>2, <2>3 DEF Warranted
  <2>. QED
    BY <2>3, <2>4, ReviewerHolds DEF Hold
<1>3. CASE BeginRetryEmail(r)
  <2>1. PICK e \in Emails :
          /\ email[e] = "error"
          /\ Hold(r, [act |-> "retry_email", email |-> e,
                to |-> IF placeholder[e] \/ \E m \in MsgsOf(e) : live[m] > 0
                       THEN "classified" ELSE "new",
                failed |-> {m \in MsgsOf(e) : message[m] = "failed"}])
    BY <1>3 DEF BeginRetryEmail
  <2>. PICK to : to = IF placeholder[e] \/ \E m \in MsgsOf(e) : live[m] > 0 THEN "classified" ELSE "new"
    OBVIOUS
  <2>2. to = "new" => \A m \in MsgsOf(e) : live[m] = 0
    BY DEF TInv, TypeOK, MsgsOf
  <2>. PICK y : y = [act |-> "retry_email", email |-> e, to |-> to,
                     failed |-> {m \in MsgsOf(e) : message[m] = "failed"}]
    OBVIOUS
  <2>3. y.act = "retry_email" /\ y.email = e /\ y.to = to /\ Hold(r, y)
    BY <2>1
  <2>4. \A g : Warranted(y, g)
    BY <2>1, <2>2, <2>3 DEF Warranted
  <2>. QED
    BY <2>3, <2>4, ReviewerHolds DEF Hold
<1>4. CASE BeginRetryMessage(r)
  <2>1. PICK m, y : m \in Messages /\ message[m] = "failed" /\ y.act = "retry_message" /\ y.message = m /\ Hold(r, y)
    BY <1>4 DEF BeginRetryMessage
  <2>2. \A g \in Emails \ contended : Warranted(y, g)
    BY <2>1 DEF Warranted, CInv, Steady, Sound
  <2>. QED
    BY <2>1, <2>2, ReviewerHolds DEF Hold
<1>5. CASE CommitVerdict(r)
  BY <1>5, VerdictTrue
<1>6. CASE CommitReprocess(r)
  BY <1>6, ReprocessTrue
<1>7. CASE CommitRetryEmail(r)
  BY <1>7, RetryEmailTrue
<1>8. CASE CommitRetryMessage(r)
  BY <1>8, RetryMessageTrue
<1>9. CASE Refused(r)
  <2>1. \A e : Warranted([act |-> "none"], e)
    BY DEF Warranted
  <2>. QED
    BY <1>9, <2>1, ReviewerHolds DEF Refused, Done
<1>. QED
  BY <1>1, <1>2, <1>3, <1>4, <1>5, <1>6, <1>7, <1>8, <1>9 DEF Review

LEMMA CInvNext == ASSUME TInv, TInv', VInv, CInv, [Next]_vars PROVE CInv'
<1>1. CASE Next
  BY <1>1, AdvanceCInv, ReviewCInv DEF Next
<1>2. CASE UNCHANGED vars
  <2>1. UNCHANGED <<content, store, history, worker, reviewer>>
    BY <1>2 DEF vars, content, store, history
  <2>. QED
    BY <2>1, HoldsTrue
<1>. QED
  BY <1>1, <1>2

LEMMA CInvInit == Init => CInv
<1>. SUFFICES ASSUME Init PROVE CInv
  OBVIOUS
<1>1. \A e : Sound(e)
  BY DEF Init, Sound, MsgsOf, RowsWith
<1>2. \A w \in Workers : \A e : StillTrue(worker[w], e)
  BY DEF Init, StillTrue, Busy, PendingStatuses
<1>3. \A r \in Reviewers : \A e : Warranted(reviewer[r], e)
  BY DEF Init, Warranted
<1>. QED
  BY <1>1, <1>2, <1>3 DEF CInv, Steady

\* Of an email on which no two workers or reviewers' requests have overlapped: a new one has no
\* sources, a request keeps its warrant, and what a worker read for a step is still so when the
\* step ends; for any number of workers and reviewers.
THEOREM PipelineInvariance == Spec => []CInv
<1>1. Init => CInv
  BY CInvInit
<1>2. TInv /\ TInv' /\ VInv /\ CInv /\ [Next]_vars => CInv'
  BY CInvNext
<1>. QED
  BY <1>1, <1>2, ReviewInvariance, LifecycleInvariance, PTL DEF Spec

\* No message's sources are inserted or extracted twice, whatever is retried, reprocessed or
\* restarted, by any workers and reviewers, unless two of them overlapped on its email
\* (retry_email, _extract).
THEOREM ContentReadOnceHolds == Spec => []ContentReadOnce
<1>1. CInv => ContentReadOnce
  BY LifecycleAssumption DEF CInv, Steady, Sound, ContentReadOnce, MsgsOf
<1>. QED
  BY <1>1, PipelineInvariance, PTL

\* The payments of a message that count are of one reading of it, for any workers and reviewers,
\* unless two of them overlapped on its email (normalize_one).
THEOREM OneReadingHolds == Spec => []OneReading
<1>1. CInv => OneReading
  BY LifecycleAssumption DEF CInv, Steady, Sound, OneReading, MsgsOf
<1>. QED
  BY <1>1, PipelineInvariance, PTL

-----------------------------------------------------------------------------
(* Nothing is stranded on the first pass (FirstPassStrandsNothing): what   *)
(* holds of an email that nobody has retried, and on which no two sessions *)
(* have overlapped.                                                        *)

Tainted == retried \cup contended

\* The email lists what is pending in it, and has read the rest.
Listed(e) ==
  /\ PendingRows(e) # {} => email[e] = "review"
  /\ email[e] \in {"review", "done"} => \A m \in MsgsOf(e) : ~Unread(m)

\* A worker does not have the email while a payment of it is pending; reading it, it reads all
\* that is unread.
Sees(x, e) ==
  /\ PendingRows(e) # {} => e \notin InHand(x)
  /\ x.phase = "extracted" /\ x.entry.email = e => \A m \in MsgsOf(e) : Unread(m) => m \in x.read

\* What a request read of the email's pending payments is still so.
InForce(y, e) ==
  /\ y.act = "verdict" /\ EmailOf[y.row[1]] = e =>
       y.was = "review" /\ y.row \in PendingRows(e) /\ (y.last <=> PendingRows(e) = {y.row})
  /\ y.act = "reprocess" /\ y.email = e =>
       y.was = "review" /\ PendingRows(e) # {} /\ PendingRows(e) \subseteq y.stale

FirstPass(e) ==
  /\ Listed(e)
  /\ \A w \in Workers : Sees(worker[w], e)
  /\ \A r \in Reviewers : InForce(reviewer[r], e)

FInv == \A e \in Emails \ Tainted : FirstPass(e)

-----------------------------------------------------------------------------
(* What a step leaves as it was.                                           *)

LEMMA PendingRowsAre ==
  ASSUME NEW e
  PROVE  \A p : p \in PendingRows(e) <=>
           \E m \in MsgsOf(e) : \E k \in DOMAIN rows[m] : p = <<m, k>> /\ rows[m][k].status = "pending_review"
BY DEF PendingRows, RowsOf, RowsWith

LEMMA PendingRowsWill ==
  ASSUME NEW e
  PROVE  \A p : p \in PendingRows(e)' <=>
           \E m \in MsgsOf(e) : \E k \in DOMAIN rows'[m] : p = <<m, k>> /\ rows'[m][k].status = "pending_review"
BY DEF PendingRows, RowsOf, RowsWith, MsgsOf

LEMMA SameRows ==
  ASSUME NEW e, \A m \in MsgsOf(e) : RowsSame(m)
  PROVE  /\ PendingRows(e)' = PendingRows(e)
         /\ \A m \in MsgsOf(e) : RowsWith(m, Live)' = RowsWith(m, Live)
<1>1. \A p : p \in PendingRows(e)' <=> p \in PendingRows(e)
  BY PendingRowsAre, PendingRowsWill DEF RowsSame
<1>2. \A m \in MsgsOf(e) : RowsWith(m, Live)' = RowsWith(m, Live)
  BY DEF RowsSame, RowsWith
<1>. QED
  BY <1>1, <1>2

\* Email e is as it was, as far as FirstPass looks at it.
Same(e) ==
  /\ email'[e] = email[e] /\ PendingRows(e)' = PendingRows(e)
  /\ \A m \in MsgsOf(e) : Unread(m)' => Unread(m)

LEMMA SameEmail ==
  ASSUME NEW e, email'[e] = email[e],
         \A m \in MsgsOf(e) : RowsSame(m) /\ message'[m] = message[m] /\ raw'[m] = raw[m]
  PROVE  Same(e)
<1>1. /\ PendingRows(e)' = PendingRows(e)
      /\ \A m \in MsgsOf(e) : RowsWith(m, Live)' = RowsWith(m, Live)
  BY SameRows
<1>. QED
  BY <1>1 DEF Same, Unread

LEMMA ListedSame == ASSUME NEW e, Listed(e), Same(e) PROVE Listed(e)'
BY DEF Listed, Same, MsgsOf

\* An email that is as it was stays so listed, if what sessions hold of it from now on was true.
LEMMA FirstPassSame ==
  ASSUME NEW e, Same(e), Listed(e),
         \A w \in Workers : Sees(worker'[w], e), \A r \in Reviewers : InForce(reviewer'[r], e)
  PROVE  FirstPass(e)'
<1>1. Listed(e)'
  BY ListedSame
<1>2. ASSUME NEW w \in Workers PROVE Sees(worker[w], e)'
  <2>. PICK x : x = worker'[w]
    OBVIOUS
  <2>1. Sees(x, e)
    OBVIOUS
  <2>2. Sees(x, e)'
    BY <2>1 DEF Sees, Same, MsgsOf, InHand, Busy
  <2>. QED
    BY <2>2 DEF Sees, InHand, Busy
<1>3. ASSUME NEW r \in Reviewers PROVE InForce(reviewer[r], e)'
  <2>. PICK y : y = reviewer'[r]
    OBVIOUS
  <2>1. InForce(y, e)
    OBVIOUS
  <2>2. InForce(y, e)'
    BY <2>1 DEF InForce, Same
  <2>. QED
    BY <2>2 DEF InForce
<1>. QED
  BY <1>1, <1>2, <1>3 DEF FirstPass

-----------------------------------------------------------------------------
(* How a worker's turn and a reviewer's request keep FInv.                 *)

\* A worker takes an entry, or crashes, or a reviewer takes up a request: nothing is written.
LEMMA HoldsFirst ==
  ASSUME TInv, FInv, UNCHANGED <<content, store, history>>,
         \A e \in Emails \ Tainted : \A w \in Workers : worker'[w] = worker[w] \/ Sees(worker'[w], e),
         \A e \in Emails \ Tainted : \A r \in Reviewers : reviewer'[r] = reviewer[r] \/ InForce(reviewer'[r], e)
  PROVE  FInv'
<1>1. UNCHANGED <<email, message, raw, rows, Tainted>>
  BY DEF store, history, Tainted
<1>2. ASSUME NEW e \in Emails \ Tainted PROVE FirstPass(e)'
  <2>1. Same(e)
    BY <1>1, SameEmail DEF RowsSame
  <2>2. /\ Listed(e) /\ \A w \in Workers : Sees(worker[w], e)
        /\ \A r \in Reviewers : InForce(reviewer[r], e)
    BY DEF FInv, FirstPass
  <2>3. ASSUME NEW w \in Workers PROVE Sees(worker'[w], e)
    BY <2>2
  <2>4. ASSUME NEW r \in Reviewers PROVE InForce(reviewer'[r], e)
    BY <2>2
  <2>. QED
    BY <2>1, <2>2, <2>3, <2>4, FirstPassSame
<1>. QED
  BY <1>1, <1>2 DEF FInv

LEMMA WorkerHoldsFirst ==
  ASSUME TInv, FInv, NEW w \in Workers, NEW x, worker' = [worker EXCEPT ![w] = x],
         UNCHANGED <<content, store, reviewer, history>>, \A e \in Emails \ Tainted : Sees(x, e)
  PROVE  FInv'
<1>1. \A v \in Workers : worker'[v] = worker[v] \/ worker'[v] = x
  BY DEF TInv
<1>. QED
  BY <1>1, HoldsFirst

LEMMA ReviewerHoldsFirst ==
  ASSUME TInv, FInv, NEW r \in Reviewers, NEW y, reviewer' = [reviewer EXCEPT ![r] = y],
         UNCHANGED <<content, store, worker, history>>, \A e \in Emails \ Tainted : InForce(y, e)
  PROVE  FInv'
<1>1. \A q \in Reviewers : reviewer'[q] = reviewer[q] \/ reviewer'[q] = y
  BY DEF TInv
<1>. QED
  BY <1>1, HoldsFirst

\* What a worker has at hand has nothing pending, and it reads all that is unread.
LEMMA NonePending ==
  ASSUME TInv, FInv, NEW w \in Workers, worker[w].phase \in PendingStatuses, worker[w].entry.email \notin Tainted
  PROVE  /\ PendingRows(worker[w].entry.email) = {}
         /\ worker[w].phase = "extracted" =>
              \A m \in MsgsOf(worker[w].entry.email) : Unread(m) => m \in worker[w].read
<1>1. worker[w].entry \in worker[w].todo /\ worker[w].entry.email \in Emails /\ Busy(worker[w])
  BY DEF TInv, WorkerOK, Busy
<1>. QED
  BY <1>1 DEF FInv, FirstPass, Sees, InHand

\* The worker commits a step on email f: it changes no other.
LEMMA FinishFirst ==
  ASSUME TInv, TInv', FInv, NEW w \in Workers, worker[w].phase \in PendingStatuses,
         NEW st, Finish(w, st), NEW f, f = worker[w].entry.email,
         \A m \in Messages : m \notin MsgsOf(f) =>
           RowsSame(m) /\ message'[m] = message[m] /\ raw'[m] = raw[m],
         f \notin Tainted => Listed(f)'
  PROVE  FInv'
<1>. PICK z : z = Rest(w, worker[w].entry)
  OBVIOUS
<1>0. /\ Leaves(w, f, z) /\ worker' = [worker EXCEPT ![w] = z] /\ email' = [email EXCEPT ![f] = st]
      /\ UNCHANGED <<reviewer, retried>>
  BY FinishLeaves DEF Finish
<1>1. /\ f \in Emails /\ contended \subseteq contended'
      /\ z.phase \notin PendingStatuses
      /\ InHand(z) \subseteq InHand(worker[w]) \ {f}
      /\ f \notin contended' => \A v \in Workers \ {w} : f \notin InHand(worker[v])
  BY <1>0 DEF Leaves
<1>2. email \in [Emails -> EmailStatuses] /\ \A v \in Workers : WorkerOK(worker'[v])
  <2>1. \A v \in Workers : WorkerOK(worker[v])'
    BY DEF TInv
  <2>. QED
    BY <2>1 DEF TInv, TypeOK, WorkerOK, Busy, MsgsOf
<1>3. \A v \in Workers : worker'[v] = IF v = w THEN z ELSE worker[v]
  BY <1>0 DEF TInv
<1>4. Tainted' = retried \cup contended' /\ Tainted \subseteq Tainted'
  BY <1>0, <1>1 DEF Tainted
<1>5. ASSUME NEW e \in Emails \ Tainted', e # f PROVE FirstPass(e)'
  <2>1. Same(e)
    BY <1>0, <1>2, <1>5, SameEmail DEF MsgsOf
  <2>2. /\ Listed(e) /\ \A v \in Workers : Sees(worker[v], e)
        /\ \A r \in Reviewers : InForce(reviewer[r], e)
    BY <1>4, <1>5 DEF FInv, FirstPass
  <2>3. Sees(z, e)
    BY <1>1, <2>2 DEF Sees, PendingStatuses
  <2>4. \A v \in Workers : Sees(worker'[v], e)
    BY <1>3, <2>2, <2>3
  <2>5. \A r \in Reviewers : InForce(reviewer'[r], e)
    BY <1>0, <2>2
  <2>. QED
    BY <2>1, <2>2, <2>4, <2>5, FirstPassSame
<1>6. ASSUME f \notin Tainted' PROVE FirstPass(f)'
  <2>0. f \notin Tainted /\ f \notin contended' /\ FirstPass(f)
    BY <1>1, <1>4, <1>6 DEF FInv
  <2>1. PendingRows(f) = {} /\ Listed(f)'
    BY <2>0, NonePending
  <2>2. ASSUME NEW v \in Workers PROVE Sees(worker[v], f)'
    <3>. PICK x : x = worker'[v]
      OBVIOUS
    <3>1. f \notin InHand(x) /\ WorkerOK(x)
      BY <1>1, <1>2, <1>3, <2>0
    <3>2. Sees(x, f)'
      BY <3>1 DEF InHand, Sees, WorkerOK, Busy
    <3>. QED
      BY <3>2 DEF Sees, InHand, Busy
  <2>3. ASSUME NEW r \in Reviewers PROVE InForce(reviewer[r], f)'
    <3>. PICK y : y = reviewer[r]
      OBVIOUS
    <3>1. InForce(y, f)
      BY <2>0 DEF FirstPass
    <3>2. InForce(y, f)'
      BY <2>1, <3>1 DEF InForce
    <3>. QED
      BY <1>0, <3>2 DEF InForce
  <2>. QED
    BY <2>1, <2>2, <2>3 DEF FirstPass
<1>. QED
  BY <1>5, <1>6 DEF FInv

\* The reviewer commits a request about email f, which no worker has while a payment is pending.
LEMMA CommitFirst ==
  ASSUME TInv, FInv, NEW r \in Reviewers, Commits(r), UNCHANGED worker,
         NEW f \in Emails, About(reviewer[r], f), retried \subseteq retried',
         \A e \in Emails \ {f} : email'[e] = email[e],
         \A e \in Emails \ {f} : \A m \in MsgsOf(e) : RowsSame(m) /\ message'[m] = message[m] /\ raw'[m] = raw[m],
         f \notin Tainted' => Listed(f)' /\ PendingRows(f) # {}
  PROVE  FInv'
<1>0. reviewer' = [q \in Reviewers |-> IF q = r THEN [act |-> "none"] ELSE reviewer[q]]
  BY DEF TInv, Commits, Done
<1>1. /\ contended \subseteq contended'
      /\ f \notin contended' => \A q \in Reviewers \ {r} : ~About(reviewer[q], f)
  BY CommitsHistory
<1>2. Tainted \subseteq Tainted' /\ contended' \subseteq Tainted'
  BY <1>1 DEF Tainted
<1>3. ASSUME NEW e \in Emails \ Tainted', e # f PROVE FirstPass(e)'
  <2>1. Same(e)
    BY <1>3, SameEmail
  <2>2. /\ Listed(e) /\ \A v \in Workers : Sees(worker[v], e)
        /\ \A q \in Reviewers : InForce(reviewer[q], e)
    BY <1>2, <1>3 DEF FInv, FirstPass
  <2>3. InForce([act |-> "none"], e)
    BY DEF InForce
  <2>4. \A q \in Reviewers : InForce(reviewer'[q], e)
    BY <1>0, <2>2, <2>3
  <2>. QED
    BY <2>1, <2>2, <2>4, FirstPassSame
<1>4. ASSUME f \notin Tainted' PROVE FirstPass(f)'
  <2>0. f \notin contended' /\ FirstPass(f) /\ Listed(f)' /\ PendingRows(f) # {}
    BY <1>2, <1>4 DEF FInv
  <2>1. ASSUME NEW v \in Workers PROVE Sees(worker[v], f)'
    <3>. PICK x : x = worker[v]
      OBVIOUS
    <3>1. f \notin InHand(x) /\ WorkerOK(x)
      BY <2>0 DEF FirstPass, Sees, TInv
    <3>2. Sees(x, f)'
      BY <3>1 DEF InHand, Sees, WorkerOK, Busy
    <3>. QED
      BY <3>2 DEF Sees, InHand, Busy
  <2>2. ASSUME NEW q \in Reviewers PROVE InForce(reviewer[q], f)'
    <3>. PICK y : y = reviewer'[q]
      OBVIOUS
    <3>1. y = [act |-> "none"] \/ ~About(y, f)
      BY <1>0, <1>1, <2>0
    <3>2. InForce(y, f)'
      BY <3>1 DEF InForce, About
    <3>. QED
      BY <3>2 DEF InForce
  <2>. QED
    BY <2>0, <2>1, <2>2 DEF FirstPass
<1>. QED
  BY <1>3, <1>4 DEF FInv

-----------------------------------------------------------------------------
\* A worker starts on an entry of its batch.
LEMMA BeginFirst ==
  ASSUME TInv, FInv, NEW w \in Workers, NEW was \in PendingStatuses, NEW t \in Entries(w, was), NEW read,
         was = "extracted" => \A m \in MsgsOf(t.email) : Unread(m) => m \in read,
         Begin(w, t, read)
  PROVE  FInv'
<1>. PICK x : x = [phase |-> t.was, todo |-> worker[w].todo, entry |-> t, read |-> read]
  OBVIOUS
<1>1. x.phase = t.was /\ x.todo = worker[w].todo /\ x.entry = t /\ x.read = read
  OBVIOUS
<1>2. t.was = was /\ t \in worker[w].todo /\ worker[w].phase = "batch"
  BY DEF Entries
<1>3. InHand(x) = InHand(worker[w])
  BY <1>1, <1>2 DEF InHand, Busy
<1>4. \A e \in Emails \ Tainted : Sees(x, e)
  BY <1>1, <1>2, <1>3 DEF FInv, FirstPass, Sees
<1>. QED
  BY <1>4, WorkerHoldsFirst DEF Begin

\* A step that writes nothing but its email's status, and leaves it in error.
LEMMA ErrorFirst ==
  ASSUME TInv, TInv', FInv, NEW w \in Workers, worker[w].phase \in PendingStatuses,
         Finish(w, "error"), UNCHANGED <<message, raw, rows>>
  PROVE  FInv'
<1>. PICK f : f = worker[w].entry.email
  OBVIOUS
<1>1. email'[f] = "error"
  BY DEF Finish, TInv, TypeOK, WorkerOK, Busy
<1>2. \A m \in Messages : RowsSame(m) /\ message'[m] = message[m] /\ raw'[m] = raw[m]
  BY DEF RowsSame
<1>3. PendingRows(f)' = PendingRows(f)
  BY <1>2, SameRows DEF MsgsOf
<1>4. f \notin Tainted => Listed(f)'
  BY <1>1, <1>3, NonePending DEF Listed
<1>. QED
  BY <1>2, <1>4, FinishFirst

LEMMA NormalizeFirst ==
  ASSUME TInv, TInv', FInv, NEW w \in Workers, EndNormalize(w)
  PROVE  FInv'
<1>. PICK f, groups : f = worker[w].entry.email /\ groups = worker[w].read
  OBVIOUS
<1>. DEFINE Normalized(failed, got) ==
        /\ rows' = [m \in Messages |->
             IF m \in worker[w].read \ failed
             THEN rows[m] \o [k \in DOMAIN got[m] |-> Stored(m, got[m][k])]
             ELSE rows[m]]
        /\ message' = [m \in Messages |-> IF m \in failed THEN "failed" ELSE message[m]]
        /\ Finish(w, IF failed = worker[w].read THEN "error" ELSE Settled(worker[w].entry.email, rows'))
<1>0. /\ worker[w].phase = "extracted" /\ worker[w].phase \in PendingStatuses /\ UNCHANGED raw
      /\ groups \subseteq MsgsOf(f) /\ f \in Emails
  BY DEF EndNormalize, PendingStatuses, TInv, WorkerOK, Busy
<1>1. PICK failed \in SUBSET worker[w].read :
        \E got \in [worker[w].read \ failed -> Readings] : Normalized(failed, got)
  BY DEF EndNormalize
<1>2. PICK got \in [worker[w].read \ failed -> Readings] : Normalized(failed, got)
  BY <1>1
<1>3. /\ RowsAdded(groups \ failed)
      /\ \A m \in Messages : \A k \in DOMAIN rows'[m] \ DOMAIN rows[m] :
           \E outcome \in Outcomes : rows'[m][k] = Stored(m, outcome)
  BY <1>0, <1>2, NormalizedRows
<1>4. /\ Finish(w, IF failed = groups THEN "error" ELSE Settled(f, rows'))
      /\ \A m \in Messages : message'[m] = IF m \in failed THEN "failed" ELSE message[m]
  BY <1>2
<1>5. email'[f] = IF failed = groups THEN "error" ELSE Settled(f, rows')
  BY <1>0, <1>4 DEF Finish, TInv, TypeOK
<1>6. \A m \in Messages : m \notin MsgsOf(f) => RowsSame(m) /\ message'[m] = message[m] /\ raw'[m] = raw[m]
  BY <1>0, <1>1, <1>3, <1>4 DEF RowsSame, RowsAdded
<1>7. ASSUME f \notin Tainted PROVE Listed(f)'
  <2>1. PendingRows(f) = {} /\ \A m \in MsgsOf(f) : Unread(m) => m \in groups
    BY <1>0, <1>7, NonePending
  <2>2. CASE failed = groups
    <3>1. \A m \in MsgsOf(f) : RowsSame(m)
      BY <1>3, <2>2 DEF RowsSame, RowsAdded, MsgsOf
    <3>. QED
      BY <1>5, <2>1, <2>2, <3>1, SameRows DEF Listed
  <2>3. CASE failed # groups
    <3>1. email'[f] = Settled(f, rows')
      BY <1>5, <2>3
    <3>2. PendingRows(f)' # {} => email'[f] = "review"
      BY <3>1, PendingRowsWill DEF Settled
    <3>3. ASSUME NEW m \in MsgsOf(f), Unread(m)' PROVE FALSE
      <4>1. m \in Messages /\ message'[m] = "new" /\ raw[m] > 0 /\ RowsWith(m, Live)' = {}
        BY <1>0, <3>3 DEF Unread, MsgsOf
      <4>2. m \notin failed
        BY <1>4, <4>1
      <4>3. CASE m \in groups
        <5>1. PICK k \in DOMAIN rows'[m] : k \notin DOMAIN rows[m]
          BY <1>3, <4>1, <4>2, <4>3 DEF RowsAdded
        <5>2. PICK outcome \in Outcomes : rows'[m][k] = Stored(m, outcome)
          BY <1>3, <4>1, <5>1
        <5>3. rows'[m][k].status \in Live
          BY <5>2 DEF Stored, Outcomes, Outcome, Live
        <5>. QED
          BY <4>1, <5>3 DEF RowsWith
      <4>4. CASE m \notin groups
        <5>1. Unread(m)
          BY <1>3, <1>4, <4>1, <4>2, <4>4 DEF Unread, RowsAdded, RowsWith
        <5>. QED
          BY <2>1, <4>4, <5>1
      <4>. QED
        BY <4>3, <4>4
    <3>. QED
      BY <3>2, <3>3 DEF Listed, MsgsOf
  <2>. QED
    BY <2>2, <2>3
<1>. QED
  BY <1>0, <1>4, <1>6, <1>7, FinishFirst

LEMMA AdvanceFInv ==
  ASSUME TInv, TInv', CInv, FInv, NEW w \in Workers, Advance(w)
  PROVE  FInv'
<1>0. email \in [Emails -> EmailStatuses] /\ \A e \in Emails \ Tainted : FirstPass(e)
  BY DEF TInv, TypeOK, FInv
<1>. PICK f : f = worker[w].entry.email
  OBVIOUS
<1>1. CASE StartBatch(w)
  <2>. PICK x : x = [phase |-> "batch", todo |-> {[email |-> e, was |-> email[e]] :
                       e \in {g \in Emails : email[g] \in PendingStatuses}}]
    OBVIOUS
  <2>1. x.phase = "batch" /\ \A t \in x.todo : email[t.email] \in PendingStatuses
    OBVIOUS
  <2>2. \A e \in Emails \ Tainted : Sees(x, e)
    BY <1>0, <2>1 DEF FirstPass, Listed, Sees, InHand, PendingStatuses
  <2>. QED
    BY <1>1, <2>2, WorkerHoldsFirst DEF StartBatch
<1>2. CASE BeginClassify(w) \/ BeginExtract(w)
  BY <1>2, BeginFirst DEF BeginClassify, BeginExtract, PendingStatuses
<1>3. CASE BeginNormalize(w)
  <2>1. \A e : \A m \in MsgsOf(e) : Unread(m) => m \in Groups(e)
    BY DEF Groups, Unread
  <2>. QED
    BY <1>3, <2>1, BeginFirst DEF BeginNormalize, PendingStatuses
<1>4. CASE EndClassify(w)
  <2>1. /\ worker[w].phase = "new" /\ worker[w].phase \in PendingStatuses /\ UNCHANGED <<raw, rows>>
        /\ \E st : Finish(w, st)
        /\ \A m \in Messages : m \notin MsgsOf(f) => message'[m] = message[m]
    BY <1>4 DEF EndClassify, PendingStatuses
  <2>2. \A m \in Messages : RowsSame(m)
    BY <2>1 DEF RowsSame
  <2>3. ASSUME f \notin Tainted PROVE Listed(f)'
    <3>1. PendingRows(f)' = {}
      BY <2>1, <2>2, <2>3, SameRows, NonePending DEF MsgsOf
    <3>2. worker[w].entry \in worker[w].todo /\ worker[w].entry.was = "new" /\ Busy(worker[w]) /\ f \in Emails
      BY <2>1 DEF TInv, WorkerOK, Busy
    <3>3. email[f] = "new" /\ Sound(f)
      BY <2>3, <3>2 DEF Tainted, CInv, Steady, StillTrue
    <3>4. \A m \in MsgsOf(f) : raw[m] \in Nat /\ live[m] = 0 /\ raw[m] <= live[m]
      BY <3>3 DEF Sound, TInv, TypeOK, MsgsOf
    <3>5. \A m \in MsgsOf(f) : ~(raw[m] > 0)
      BY <3>4
    <3>. QED
      BY <2>1, <3>1, <3>5 DEF Listed, Unread, MsgsOf
  <2>. QED
    BY <2>1, <2>2, <2>3, FinishFirst
<1>5. CASE EndExtract(w)
  <2>1. /\ worker[w].phase \in PendingStatuses /\ UNCHANGED <<message, rows>>
        /\ \E st \in {"extracted", "error"} : Finish(w, st)
        /\ \A m \in Messages : m \notin MsgsOf(f) => raw'[m] = raw[m]
    <3>1. raw \in [Messages -> Nat]
      BY DEF TInv, TypeOK
    <3>. QED
      BY <1>5, <3>1 DEF EndExtract, PendingStatuses
  <2>2. PICK st \in {"extracted", "error"} : Finish(w, st)
    BY <2>1
  <2>3. email'[f] = st
    BY <1>0, <2>1, <2>2 DEF Finish, TInv, WorkerOK, Busy
  <2>4. \A m \in Messages : RowsSame(m)
    BY <2>1 DEF RowsSame
  <2>5. f \notin Tainted => PendingRows(f)' = {}
    BY <2>1, <2>4, SameRows, NonePending DEF MsgsOf
  <2>6. f \notin Tainted => Listed(f)'
    BY <2>3, <2>5 DEF Listed
  <2>. QED
    BY <2>1, <2>2, <2>4, <2>6, FinishFirst
<1>6. CASE EndNormalize(w)
  BY <1>6, NormalizeFirst
<1>7. CASE NothingToNormalize(w)
  <2>1. /\ worker[w].phase = "extracted" /\ worker[w].phase \in PendingStatuses /\ worker[w].read = {}
        /\ UNCHANGED <<message, raw, rows>> /\ \E st : Finish(w, st)
    BY <1>7 DEF NothingToNormalize, PendingStatuses
  <2>2. \A m \in Messages : RowsSame(m) /\ message'[m] = message[m] /\ raw'[m] = raw[m]
    BY <2>1 DEF RowsSame
  <2>3. f \notin Tainted => PendingRows(f) = {} /\ \A m \in MsgsOf(f) : ~Unread(m)
    BY <2>1, NonePending
  <2>4. \A m \in MsgsOf(f) : Unread(m)' => Unread(m)
    BY <2>1 DEF Unread, RowsWith
  <2>5. f \notin Tainted => Listed(f)'
    BY <2>2, <2>3, <2>4, SameRows DEF Listed, MsgsOf
  <2>. QED
    BY <2>1, <2>2, <2>5, FinishFirst
<1>8. CASE ClassifyCollides(w) \/ StepRaises(w)
  <2>1. /\ Finish(w, "error") /\ UNCHANGED <<message, raw, rows>>
        /\ worker[w].phase \in PendingStatuses
    BY <1>8 DEF ClassifyCollides, StepRaises, PendingStatuses
  <2>. QED
    BY <2>1, ErrorFirst
<1>9. CASE Crash(w)
  <2>1. \A e : Sees([phase |-> "down"], e)
    BY DEF Sees, InHand, Busy, PendingStatuses
  <2>. QED
    BY <1>9, <2>1, WorkerHoldsFirst DEF Crash
<1>10. CASE Restart(w)
  <2>1. \A e : Sees([phase |-> "idle"], e)
    BY DEF Sees, InHand, Busy, PendingStatuses
  <2>. QED
    BY <1>10, <2>1, WorkerHoldsFirst DEF Restart
<1>. QED
  BY <1>1, <1>2, <1>3, <1>4, <1>5, <1>6, <1>7, <1>8, <1>9, <1>10 DEF Advance

-----------------------------------------------------------------------------
\* A verdict takes its payment off the pending ones, and off none of the live ones.
LEMMA VerdictFirst ==
  ASSUME TInv, FInv, NEW r \in Reviewers, CommitVerdict(r)
  PROVE  FInv'
<1>. PICK m \in Messages : m = reviewer[r].row[1]
  BY DEF CommitVerdict, TInv, RequestOK
<1>. PICK k \in DOMAIN rows[m], verdict \in Verdicts : k = reviewer[r].row[2] /\ verdict = reviewer[r].verdict
  BY DEF CommitVerdict, TInv, RequestOK
<1>. PICK f, y : f = EmailOf[m] /\ y = reviewer[r]
  OBVIOUS
<1>1. /\ rows' = [rows EXCEPT ![m][k].status = verdict,
                              ![m][k].queued = IF verdict = "approved" THEN @ + 1 ELSE @]
      /\ email' = [email EXCEPT ![f] = IF y.last /\ y.was # "done" THEN "done" ELSE @]
      /\ Commits(r) /\ UNCHANGED <<message, raw, worker, retried>> /\ y.act = "verdict" /\ y.row = <<m, k>>
  BY DEF CommitVerdict, TInv, RequestOK
<1>2. Decided(m, k, verdict)
  BY <1>1, VerdictRows DEF TInv
<1>3. f \in Emails /\ m \in MsgsOf(f) /\ email \in [Emails -> EmailStatuses] /\ About(y, f)
  BY <1>1, LifecycleAssumption DEF MsgsOf, TInv, TypeOK, About
<1>4. /\ \A e \in Emails \ {f} : email'[e] = email[e]
      /\ \A e \in Emails \ {f} : \A n \in MsgsOf(e) : RowsSame(n) /\ message'[n] = message[n] /\ raw'[n] = raw[n]
  BY <1>1, <1>2, <1>3 DEF Decided, RowsSame, MsgsOf
<1>5. ASSUME f \notin Tainted' PROVE Listed(f)' /\ PendingRows(f) # {}
  <2>0. f \notin Tainted
    BY <1>1, <1>5, CommitsHistory DEF Tainted
  <2>1. /\ y.was = "review" /\ y.row \in PendingRows(f) /\ (y.last <=> PendingRows(f) = {y.row})
        /\ Listed(f)
    BY <1>1, <1>3, <2>0 DEF FInv, FirstPass, InForce
  <2>3. email[f] = "review" /\ \A n \in MsgsOf(f) : ~Unread(n)
    BY <2>1 DEF Listed
  <2>4. \A p : p \in PendingRows(f)' => p \in PendingRows(f) /\ p # <<m, k>>
    <3>. TAKE p
    <3>. HAVE p \in PendingRows(f)'
    <3>1. PICK n \in MsgsOf(f) : \E j \in DOMAIN rows'[n] : p = <<n, j>> /\ rows'[n][j].status = "pending_review"
      BY PendingRowsWill
    <3>2. PICK j \in DOMAIN rows'[n] : p = <<n, j>> /\ rows'[n][j].status = "pending_review"
      BY <3>1
    <3>3. n \in Messages /\ j \in DOMAIN rows[n]
      BY <1>2 DEF Decided, MsgsOf
    <3>4. ~(n = m /\ j = k)
      BY <1>2, <3>2 DEF Decided, Verdicts
    <3>5. rows'[n][j] = rows[n][j]
      BY <1>2, <3>3, <3>4 DEF Decided
    <3>. QED
      BY <3>2, <3>3, <3>4, <3>5, PendingRowsAre
  <2>5. PendingRows(f)' # {} => email'[f] = "review"
    <3>1. PendingRows(f)' # {} => PendingRows(f) # {y.row}
      BY <1>1, <2>4
    <3>. QED
      BY <1>1, <1>3, <2>1, <2>3, <3>1
  <2>6. ASSUME NEW n \in MsgsOf(f), Unread(n)' PROVE FALSE
    <3>1. PICK j \in DOMAIN rows[n] : rows[n][j].status \in Live
      BY <1>1, <2>3, <2>6 DEF Unread, RowsWith
    <3>2. j \in DOMAIN rows'[n] /\ rows'[n][j].status \in Live
      BY <1>2, <3>1 DEF Decided, MsgsOf, Verdicts, Live
    <3>. QED
      BY <2>6, <3>2 DEF Unread, RowsWith
  <2>. QED
    BY <2>1, <2>5, <2>6 DEF Listed, MsgsOf
<1>. QED
  BY <1>1, <1>3, <1>4, <1>5, CommitFirst

\* A reprocess leaves none pending, and its email to be read again.
LEMMA ReprocessFirst ==
  ASSUME TInv, FInv, NEW r \in Reviewers, CommitReprocess(r)
  PROVE  FInv'
<1>. PICK y : y = reviewer[r]
  OBVIOUS
<1>. PICK f : f = y.email
  OBVIOUS
<1>1. /\ rows' = [m \in Messages |-> [k \in DOMAIN rows[m] |->
           IF <<m, k>> \in y.stale THEN [rows[m][k] EXCEPT !.status = "superseded"] ELSE rows[m][k]]]
      /\ email' = [email EXCEPT ![f] = IF y.was = "classified" THEN @ ELSE "classified"]
      /\ Commits(r) /\ UNCHANGED <<message, raw, worker, retried>> /\ y.act = "reprocess"
  BY DEF CommitReprocess
<1>2. f \in Emails /\ email \in [Emails -> EmailStatuses] /\ TypeOK /\ RequestOK(y) /\ About(y, f)
  BY <1>1 DEF TInv, TypeOK, RequestOK, About
<1>3. /\ \A m \in Messages : DOMAIN rows'[m] = DOMAIN rows[m]
      /\ \A m \in Messages : \A k \in DOMAIN rows[m] :
            /\ rows[m][k] \in Row
            /\ rows'[m][k] = IF <<m, k>> \in y.stale THEN [rows[m][k] EXCEPT !.status = "superseded"]
                             ELSE rows[m][k]
  BY <1>1, <1>2, ReprocessedRows, Zenon
<1>4. /\ \A e \in Emails \ {f} : email'[e] = email[e]
      /\ \A e \in Emails \ {f} : \A n \in MsgsOf(e) : RowsSame(n) /\ message'[n] = message[n] /\ raw'[n] = raw[n]
  <2>1. \A n \in Messages : EmailOf[n] # f => \A k : <<n, k>> \notin y.stale
    BY <1>1, <1>2 DEF RequestOK, MsgsOf
  <2>. QED
    BY <1>1, <1>2, <1>3, <2>1 DEF RowsSame, MsgsOf
<1>5. ASSUME f \notin Tainted' PROVE Listed(f)' /\ PendingRows(f) # {}
  <2>0. f \notin Tainted
    BY <1>1, <1>5, CommitsHistory DEF Tainted
  <2>1. y.was = "review" /\ PendingRows(f) # {} /\ PendingRows(f) \subseteq y.stale
    BY <1>1, <1>2, <2>0 DEF FInv, FirstPass, InForce
  <2>2. email'[f] = "classified"
    BY <1>1, <1>2, <2>1
  <2>3. ASSUME NEW n \in MsgsOf(f), NEW j \in DOMAIN rows'[n], rows'[n][j].status = "pending_review" PROVE FALSE
    <3>1. n \in Messages /\ j \in DOMAIN rows[n]
      BY <1>3 DEF MsgsOf
    <3>. PICK row \in Row : row = rows[n][j]
      BY <1>3, <3>1
    <3>2. CASE <<n, j>> \in y.stale
      <4>1. rows'[n][j] = [row EXCEPT !.status = "superseded"]
        BY <1>3, <3>1, <3>2
      <4>. QED
        BY <2>3, <4>1 DEF Row
    <3>3. CASE <<n, j>> \notin y.stale
      <4>1. rows'[n][j] = rows[n][j]
        BY <1>3, <3>1, <3>3
      <4>2. <<n, j>> \in PendingRows(f)
        BY <2>3, <3>1, <4>1, PendingRowsAre
      <4>. QED
        BY <2>1, <3>3, <4>2
    <3>. QED
      BY <3>2, <3>3
  <2>4. PendingRows(f)' = {}
    BY <2>3, PendingRowsWill
  <2>. QED
    BY <2>1, <2>2, <2>4 DEF Listed
<1>. QED
  BY <1>1, <1>2, <1>4, <1>5, CommitFirst

LEMMA ReviewFInv ==
  ASSUME TInv, FInv, NEW r \in Reviewers, Review(r)
  PROVE  FInv'
<1>0. \A e \in Emails \ Tainted : FirstPass(e)
  BY DEF FInv
<1>1. CASE BeginVerdict(r)
  <2>1. PICK e \in Emails : \E p \in PendingRows(e) : \E verdict \in Verdicts :
          Hold(r, [act |-> "verdict", verdict |-> verdict, row |-> p, was |-> email[e],
                   last |-> PendingRows(e) = {p}])
    BY <1>1 DEF BeginVerdict
  <2>2. PICK p \in PendingRows(e), verdict \in Verdicts :
          Hold(r, [act |-> "verdict", verdict |-> verdict, row |-> p, was |-> email[e],
                   last |-> PendingRows(e) = {p}])
    BY <2>1
  <2>. PICK last \in BOOLEAN : last = (PendingRows(e) = {p})
    OBVIOUS
  <2>. PICK y : y = [act |-> "verdict", verdict |-> verdict, row |-> p, was |-> email[e], last |-> last]
    OBVIOUS
  <2>3. y.act = "verdict" /\ y.row = p /\ y.was = email[e] /\ (y.last <=> PendingRows(e) = {p}) /\ Hold(r, y)
    BY <2>2
  <2>4. EmailOf[p[1]] = e
    BY PendingRowsAre DEF MsgsOf
  <2>5. \A g \in Emails \ Tainted : InForce(y, g)
    BY <1>0, <2>3, <2>4 DEF InForce, FirstPass, Listed
  <2>. QED
    BY <2>3, <2>5, ReviewerHoldsFirst DEF Hold
<1>2. CASE BeginReprocess(r)
  <2>. DEFINE Groups0(e) == {m \in MsgsOf(e) : RowsWith(m, {"pending_review"}) # {}}
              Stale(e) == UNION {{m} \X RowsWith(m, Live \ Posted) : m \in Groups0(e)}
  <2>1. PICK e \in Emails :
          Groups0(e) # {} /\ Hold(r, [act |-> "reprocess", email |-> e, was |-> email[e], stale |-> Stale(e)])
    BY <1>2, Zenon DEF BeginReprocess
  <2>2. PICK m \in MsgsOf(e) : RowsWith(m, {"pending_review"}) # {}
    BY <2>1
  <2>3. PendingRows(e) # {}
    BY <2>2, PendingRowsAre DEF RowsWith
  <2>4. \A p \in PendingRows(e) : p \in Stale(e)
    <3>. TAKE p \in PendingRows(e)
    <3>1. PICK n \in MsgsOf(e) : \E k \in DOMAIN rows[n] : p = <<n, k>> /\ rows[n][k].status = "pending_review"
      BY PendingRowsAre
    <3>2. PICK k \in DOMAIN rows[n] : p = <<n, k>> /\ rows[n][k].status = "pending_review"
      BY <3>1
    <3>3. k \in RowsWith(n, {"pending_review"}) /\ k \in RowsWith(n, Live \ Posted)
      BY <3>2 DEF RowsWith, Live, Posted
    <3>4. n \in Groups0(e) /\ p \in {n} \X RowsWith(n, Live \ Posted)
      BY <3>2, <3>3
    <3>. QED
      BY <3>4
  <2>. HIDE DEF Stale
  <2>. PICK stale : stale = Stale(e)
    OBVIOUS
  <2>. PICK y : y = [act |-> "reprocess", email |-> e, was |-> email[e], stale |-> stale]
    OBVIOUS
  <2>6. y.act = "reprocess" /\ y.email = e /\ y.was = email[e] /\ y.stale = stale /\ Hold(r, y)
    BY <2>1
  <2>7. \A g \in Emails \ Tainted : InForce(y, g)
    BY <1>0, <2>3, <2>4, <2>6 DEF InForce, FirstPass, Listed
  <2>. QED
    BY <2>6, <2>7, ReviewerHoldsFirst DEF Hold
<1>3. CASE BeginRetryEmail(r)
  <2>1. PICK e, y : y.act = "retry_email" /\ y.email = e /\ Hold(r, y)
    BY <1>3 DEF BeginRetryEmail
  <2>2. \A g : InForce(y, g)
    BY <2>1 DEF InForce
  <2>. QED
    BY <2>1, <2>2, ReviewerHoldsFirst DEF Hold
<1>4. CASE BeginRetryMessage(r)
  <2>1. PICK m, y : y.act = "retry_message" /\ y.message = m /\ Hold(r, y)
    BY <1>4 DEF BeginRetryMessage
  <2>2. \A g : InForce(y, g)
    BY <2>1 DEF InForce
  <2>. QED
    BY <2>1, <2>2, ReviewerHoldsFirst DEF Hold
<1>5. CASE CommitVerdict(r)
  BY <1>5, VerdictFirst
<1>6. CASE CommitReprocess(r)
  BY <1>6, ReprocessFirst
<1>7. CASE CommitRetryEmail(r)
  <2>. PICK y : y = reviewer[r]
    OBVIOUS
  <2>. PICK f : f = y.email
    OBVIOUS
  <2>1. /\ y.act = "retry_email" /\ f \in Emails /\ y.failed \subseteq MsgsOf(f) /\ About(y, f)
        /\ email' = [email EXCEPT ![f] = y.to] /\ retried' = retried \cup {f}
        /\ message' = [m \in Messages |-> IF m \in y.failed THEN "new" ELSE message[m]]
        /\ Commits(r) /\ UNCHANGED <<raw, rows, worker>> /\ email \in [Emails -> EmailStatuses]
    BY <1>7 DEF CommitRetryEmail, TInv, TypeOK, RequestOK, About
  <2>2. /\ \A e \in Emails \ {f} : email'[e] = email[e]
        /\ \A e \in Emails \ {f} : \A n \in MsgsOf(e) : RowsSame(n) /\ message'[n] = message[n] /\ raw'[n] = raw[n]
    BY <2>1 DEF RowsSame, MsgsOf
  <2>3. f \in Tainted'
    BY <2>1 DEF Tainted
  <2>. QED
    BY <2>1, <2>2, <2>3, CommitFirst
<1>8. CASE CommitRetryMessage(r)
  <2>. PICK m : m = reviewer[r].message
    OBVIOUS
  <2>. PICK f : f = EmailOf[m]
    OBVIOUS
  <2>1. /\ m \in Messages /\ f \in Emails /\ About(reviewer[r], f) /\ retried' = retried \cup {f}
        /\ email' = [email EXCEPT ![f] = IF reviewer[r].was = "extracted" THEN @ ELSE "extracted"]
        /\ message' = [message EXCEPT ![m] = "new"]
        /\ Commits(r) /\ UNCHANGED <<raw, rows, worker>>
        /\ email \in [Emails -> EmailStatuses] /\ message \in [Messages -> MessageStatuses]
    BY <1>8, LifecycleAssumption DEF CommitRetryMessage, TInv, TypeOK, RequestOK, About
  <2>2. /\ \A e \in Emails \ {f} : email'[e] = email[e]
        /\ \A e \in Emails \ {f} : \A n \in MsgsOf(e) : RowsSame(n) /\ message'[n] = message[n] /\ raw'[n] = raw[n]
    BY <2>1 DEF RowsSame, MsgsOf
  <2>3. f \in Tainted'
    BY <2>1 DEF Tainted
  <2>. QED
    BY <2>1, <2>2, <2>3, CommitFirst
<1>9. CASE Refused(r)
  <2>1. \A g : InForce([act |-> "none"], g)
    BY DEF InForce
  <2>. QED
    BY <1>9, <2>1, ReviewerHoldsFirst DEF Refused, Done
<1>. QED
  BY <1>1, <1>2, <1>3, <1>4, <1>5, <1>6, <1>7, <1>8, <1>9 DEF Review

-----------------------------------------------------------------------------
LEMMA FInvNext == ASSUME TInv, TInv', CInv, FInv, [Next]_vars PROVE FInv'
<1>1. CASE Next
  BY <1>1, AdvanceFInv, ReviewFInv DEF Next
<1>2. CASE UNCHANGED vars
  <2>1. UNCHANGED <<content, store, history, worker, reviewer>>
    BY <1>2 DEF vars, content, store, history
  <2>. QED
    BY <2>1, HoldsFirst
<1>. QED
  BY <1>1, <1>2

LEMMA FInvInit == Init => FInv
<1>. SUFFICES ASSUME Init PROVE FInv
  OBVIOUS
<1>1. \A r \in Reviewers : \A e : InForce(reviewer[r], e)
  BY DEF Init, InForce
<1>2. \A w \in Workers : \A e : Sees(worker[w], e)
  BY DEF Init, Sees, InHand, Busy, PendingStatuses
<1>3. \A e : PendingRows(e) = {}
  BY PendingRowsAre DEF Init, MsgsOf
<1>4. \A e \in Emails : Listed(e)
  BY <1>3 DEF Init, Listed
<1>. QED
  BY <1>1, <1>2, <1>4 DEF FInv, FirstPass

\* The emails that nobody has retried, and on which no two workers or reviewers' requests have
\* overlapped, list what is pending in them, and what a worker or a request read of them is still
\* so when it commits.
THEOREM FirstPassInvariance == Spec => []FInv
<1>1. Init => FInv
  BY FInvInit
<1>2. TInv /\ TInv' /\ CInv /\ FInv /\ [Next]_vars => FInv'
  BY FInvNext
<1>. QED
  BY <1>1, <1>2, LifecycleInvariance, PipelineInvariance, PTL DEF Spec

\* No email ends done with a message in it that was extracted and never read, unless a reviewer
\* has retried it or two sessions have overlapped on it (normalize_one, settle_email): for any
\* workers and reviewers.
THEOREM FirstPassStrandsNothingHolds == Spec => []FirstPassStrandsNothing
<1>1. FInv => FirstPassStrandsNothing
  <2>1. \A m \in Messages : EmailOf[m] \in Emails /\ m \in MsgsOf(EmailOf[m])
    BY LifecycleAssumption DEF MsgsOf
  <2>. QED
    BY <2>1 DEF FInv, Tainted, FirstPass, Listed, FirstPassStrandsNothing
<1>. QED
  BY <1>1, FirstPassInvariance, PTL
=============================================================================
