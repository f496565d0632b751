-------------------------- MODULE MailboxPollProofs --------------------------
(***************************************************************************)
(* Proofs about MailboxPoll for any sessions, messages and providers: no   *)
(* poll moves the cursor past a message of the inbox that nobody stored or *)
(* counted as failed.                                                      *)
(***************************************************************************)
EXTENDS MailboxPoll, TLAPS

\* Up to position n, what is still in the inbox is known.
Settled(n) == \A i \in 1 .. n : arrived[i] \in inbox => Known(arrived[i])

\* A session's two cursors are positions of the log.
InLog(x) == x.loaded \in {NoRow} \cup 0 .. Len(arrived) /\ x.link \in 0 .. Len(arrived)

\* What a session has listed and not yet known to others, it holds.
Holds(x, m) ==
  CASE x.phase = "listed" -> m \in x.fetch
    [] x.phase = "storing" -> m \in x.todo \cup x.gaveUp \/ MessageId[m] \in x.wrote
    [] OTHER -> TRUE

Covers(x) == \A i \in 1 .. x.link : arrived[i] \in inbox => Known(arrived[i]) \/ Holds(x, arrived[i])

Sound(x) == InLog(x) /\ Settled(x.loaded) /\ Covers(x)

PollInv == TypeOK /\ CursorLeavesNothing /\ \A s \in Sessions : Sound(session[s])

-----------------------------------------------------------------------------
(* What lasts.                                                             *)

\* The log only grows, nothing comes back into the inbox, and what is known stays known.
Lasting ==
  /\ Len(arrived') \in Nat /\ Len(arrived) <= Len(arrived')
  /\ \A i \in 1 .. Len(arrived) : arrived'[i] = arrived[i] /\ (arrived[i] \in inbox' => arrived[i] \in inbox)
  /\ emails \subseteq emails' /\ failed \subseteq failed'

LEMMA SettledLasts ==
  ASSUME TypeOK, Lasting, NEW n \in {NoRow} \cup 0 .. Len(arrived), Settled(n)
  PROVE  Settled(n)'
<1>1. \A i \in 1 .. n : i \in 1 .. Len(arrived)
  BY DEF TypeOK, NoRow
<1>. QED
  BY <1>1 DEF Settled, Lasting, Known

LEMMA SoundLasts ==
  ASSUME TypeOK, Lasting, NEW x, Sound(x)
  PROVE  Sound(x)'
<1>1. InLog(x)'
  BY DEF Sound, InLog, Lasting, TypeOK
<1>2. Settled(x.loaded)'
  BY SettledLasts DEF Sound, InLog
<1>3. \A i \in 1 .. x.link : i \in 1 .. Len(arrived)
  BY DEF Sound, InLog, TypeOK
<1>4. Covers(x)'
  BY <1>3 DEF Sound, Covers, Holds, Lasting, Known
<1>. QED
  BY <1>1, <1>2, <1>4 DEF Sound

\* The mailbox changes.
LEMMA WorldStep ==
  ASSUME PollInv, Lasting, TypeOK', UNCHANGED <<tables, session>>
  PROVE  PollInv'
<1>1. cursor' = cursor /\ session' = session
  BY DEF tables
<1>2. CursorLeavesNothing'
  <2>1. Settled(cursor)
    BY DEF PollInv, CursorLeavesNothing, Settled
  <2>2. Settled(cursor)'
    BY <1>1, <2>1, SettledLasts DEF PollInv, TypeOK, Settled
  <2>. QED
    BY <2>2 DEF CursorLeavesNothing, Settled
<1>3. ASSUME NEW s \in Sessions PROVE Sound(session[s])'
  <2>. PICK x : x = session[s]
    OBVIOUS
  <2>1. Sound(x)'
    BY SoundLasts DEF PollInv
  <2>2. session'[s] = x
    BY <1>1
  <2>. QED
    BY <2>1, <2>2 DEF Sound, InLog, Settled, Covers, Holds
<1>. QED
  BY <1>2, <1>3 DEF PollInv

\* A session goes on, and is then y.
LEMMA SessionStep ==
  ASSUME PollInv, NEW s \in Sessions, NEW y \in SessionState, Sound(y), faults' \in 0 .. MaxFaults,
         session' = [session EXCEPT ![s] = y], UNCHANGED <<mailbox, tables>>
  PROVE  PollInv'
<1>1. TypeOK'
  BY DEF PollInv, TypeOK, mailbox, tables
<1>2. CursorLeavesNothing'
  BY DEF PollInv, CursorLeavesNothing, Known, mailbox, tables
<1>3. ASSUME NEW t \in Sessions PROVE Sound(session[t])'
  <2>1. Sound(session'[t])
    BY DEF PollInv, TypeOK
  <2>2. /\ arrived' = arrived /\ inbox' = inbox /\ emails' = emails /\ failed' = failed
    BY DEF mailbox, tables
  <2>. QED
    BY <2>1, <2>2 DEF Sound, InLog, Settled, Covers, Holds, Known
<1>. QED
  BY <1>1, <1>2, <1>3 DEF PollInv

LEMMA IdleSound == TypeOK => Idle \in SessionState /\ Sound(Idle)
BY DEF TypeOK, Idle, SessionState, Sound, InLog, Settled, Covers, Cursors, NoRow

\* A session is about to commit, and what it held is known by then.
LEMMA CommitStep ==
  ASSUME PollInv, NEW s \in Sessions, session' = [session EXCEPT ![s] = Idle],
         Lasting, TypeOK', UNCHANGED <<mailbox, faults>>, Settled(cursor)'
  PROVE  PollInv'
<1>1. CursorLeavesNothing'
  BY DEF CursorLeavesNothing, Settled
<1>2. ASSUME NEW t \in Sessions PROVE Sound(session[t])'
  <2>. PICK x : x = session'[t]
    OBVIOUS
  <2>1. Sound(x)
    BY IdleSound DEF PollInv, TypeOK
  <2>2. Sound(x)'
    BY <2>1, SoundLasts DEF PollInv
  <2>. QED
    BY <2>2 DEF Sound, InLog, Settled, Covers, Holds
<1>. QED
  BY <1>1, <1>2 DEF PollInv

-----------------------------------------------------------------------------
(* The mailbox.                                                            *)

LEMMA MailboxSteps ==
  ASSUME PollInv, CursorsExpire \/ \E m \in Messages : Arrive(m) \/ Leave(m)
  PROVE  PollInv'
<1>. USE DEF PollInv
<1>1. ASSUME NEW m \in Messages, Arrive(m) PROVE PollInv'
  <2>1. /\ arrived' = Append(arrived, m) /\ inbox' = inbox \cup {m} /\ \A i \in 1 .. Len(arrived) : arrived[i] # m
        /\ UNCHANGED <<provider, horizon, cursor, emails, failed, session, faults>>
    BY <1>1 DEF Arrive, tables, TypeOK
  <2>2. /\ Len(arrived') = Len(arrived) + 1 /\ arrived' \in Seq(Messages) /\ Len(arrived) \in Nat
        /\ \A i \in 1 .. Len(arrived) : arrived'[i] = arrived[i]
    BY <2>1 DEF TypeOK
  <2>3. TypeOK'
    BY <2>1, <2>2 DEF TypeOK
  <2>4. Lasting
    BY <2>1, <2>2 DEF Lasting
  <2>. QED
    BY <2>1, <2>3, <2>4, WorldStep DEF tables
<1>2. ASSUME NEW m \in Messages, Leave(m) PROVE PollInv'
  <2>1. TypeOK' /\ Lasting
    BY <1>2 DEF Leave, tables, TypeOK, Lasting
  <2>. QED
    BY <1>2, <2>1, WorldStep DEF Leave
<1>3. CASE CursorsExpire
  <2>1. TypeOK' /\ Lasting
    BY <1>3 DEF CursorsExpire, tables, TypeOK, Lasting
  <2>. QED
    BY <1>3, <2>1, WorldStep DEF CursorsExpire
<1>. QED
  BY <1>1, <1>2, <1>3

-----------------------------------------------------------------------------
(* Sessions.                                                               *)

LEMMA SessionTyped ==
  ASSUME PollInv, NEW s \in Sessions
  PROVE  session[s] \in SessionState /\ Sound(session[s])
BY DEF PollInv, TypeOK

LEMMA StartSound ==
  ASSUME PollInv, NEW s \in Sessions, StartPoll(s)
  PROVE  PollInv'
<1>. DEFINE y == [Idle EXCEPT !.phase = "fetching", !.loaded = cursor]
<1>1. cursor \in Cursors /\ cursor \in {NoRow} \cup 0 .. Len(arrived) /\ Settled(cursor)
  BY DEF PollInv, TypeOK, Cursors, CursorLeavesNothing, Settled
<1>2. y \in SessionState /\ y.loaded = cursor /\ y.link = 0
  BY <1>1 DEF Idle, SessionState, Cursors
<1>3. Sound(y)
  <2>. HIDE DEF y
  <2>. QED
    BY <1>1, <1>2 DEF PollInv, Sound, InLog, Covers, TypeOK
<1>4. faults' \in 0 .. MaxFaults
  BY DEF StartPoll, PollInv, TypeOK
<1>. HIDE DEF y
<1>. QED
  BY <1>2, <1>3, <1>4, SessionStep DEF StartPoll, y

LEMMA FetchingSteps ==
  ASSUME PollInv, NEW s \in Sessions, Fetching(s)
  PROVE  PollInv'
<1>. DEFINE x == session[s]
<1>1. x \in SessionState /\ Sound(x)
  BY SessionTyped
<1>2. UNCHANGED <<mailbox, tables, faults>>
  BY DEF Fetching, ReadProfile, List, Fetch, Resync
<1>3. faults' \in 0 .. MaxFaults
  BY <1>2 DEF PollInv, TypeOK
<1>4. SUFFICES \E y \in SessionState : Sound(y) /\ session' = [session EXCEPT ![s] = y]
  BY <1>2, <1>3, SessionStep
<1>5. Len(arrived) \in Nat /\ inbox \subseteq Messages /\ \A i \in 1 .. Len(arrived) : arrived[i] \in Messages
  BY DEF PollInv, TypeOK
<1>6. CASE ReadProfile(s)
  <2>. DEFINE y == [x EXCEPT !.phase = "listing", !.link = Len(arrived)]
  <2>1. session' = [session EXCEPT ![s] = y]
    BY <1>6 DEF ReadProfile
  <2>2. y \in SessionState /\ y.loaded = x.loaded /\ y.link = Len(arrived) /\ y.phase = "listing"
    BY <1>1, <1>5 DEF SessionState
  <2>3. Sound(y)
    <3>. HIDE DEF y
    <3>. QED
      BY <1>1, <1>5, <2>2 DEF Sound, InLog, Covers, Holds
  <2>. QED
    BY <2>1, <2>2, <2>3
<1>7. CASE List(s)
  <2>. DEFINE y == [x EXCEPT !.phase = "listed", !.fetch = Listed(s), !.link = LinkAfter(s)]
  <2>1. session' = [session EXCEPT ![s] = y]
    BY <1>7 DEF List
  <2>2. LinkAfter(s) \in 0 .. Len(arrived) /\ LinkAfter(s) \in Nat
    BY <1>1, <1>5 DEF LinkAfter, Sound, InLog
  <2>3. Listed(s) \subseteq Messages
    <3>1. \A i \in x.loaded + 1 .. Len(arrived) : FullSync(s) \/ i \in 1 .. Len(arrived)
      BY <1>1, <1>5 DEF FullSync, Sound, InLog
    <3>. QED
      BY <1>5, <3>1 DEF Listed, After
  <2>4. \A i \in 1 .. LinkAfter(s) : arrived[i] \in inbox => Known(arrived[i]) \/ arrived[i] \in Listed(s)
    <3>. TAKE i \in 1 .. LinkAfter(s)
    <3>1. i \in 1 .. Len(arrived)
      BY <1>5, <2>2
    <3>2. CASE FullSync(s)
      BY <3>2 DEF Listed
    <3>3. CASE ~FullSync(s)
      <4>1. x.loaded \in 0 .. Len(arrived) /\ Settled(x.loaded)
        BY <1>1, <3>3 DEF FullSync, Sound, InLog
      <4>2. CASE i <= x.loaded
        BY <3>1, <4>1, <4>2 DEF Settled
      <4>3. CASE i > x.loaded
        <5>1. i \in (x.loaded + 1) .. Len(arrived)
          BY <1>5, <3>1, <4>1, <4>3
        <5>2. arrived[i] \in After(x.loaded)
          BY <5>1 DEF After
        <5>. QED
          BY <3>3, <5>2 DEF Listed
      <4>. QED
        BY <3>1, <4>1, <4>2, <4>3
    <3>. QED
      BY <3>2, <3>3
  <2>5. y \in SessionState
    BY <1>1, <2>2, <2>3 DEF SessionState
  <2>6. Sound(y)
    BY <1>1, <2>2, <2>4 DEF SessionState, Sound, InLog, Covers, Holds
  <2>. QED
    BY <2>1, <2>5, <2>6
<1>8. CASE Fetch(s)
  <2>. DEFINE y == [x EXCEPT !.phase = "storing", !.fetch = {}, !.todo = x.fetch]
  <2>1. session' = [session EXCEPT ![s] = y] /\ x.phase = "listed"
    BY <1>8 DEF Fetch
  <2>2. y \in SessionState /\ Sound(y)
    BY <1>1, <2>1 DEF SessionState, Sound, InLog, Covers, Holds
  <2>. QED
    BY <2>1, <2>2
<1>9. CASE Resync(s)
  <2>. DEFINE y == [x EXCEPT !.phase = "fetching", !.resync = TRUE, !.fetch = {}, !.link = 0]
  <2>1. session' = [session EXCEPT ![s] = y]
    BY <1>9 DEF Resync
  <2>2. y \in SessionState /\ y.loaded = x.loaded /\ y.link = 0
    BY <1>1, <1>5 DEF SessionState
  <2>3. Sound(y)
    <3>. HIDE DEF y
    <3>. QED
      BY <1>1, <1>5, <2>2 DEF Sound, InLog, Covers
  <2>. QED
    BY <2>1, <2>2, <2>3
<1>. QED
  BY <1>6, <1>7, <1>8, <1>9 DEF Fetching

\* The messages of a session, one by one.
LEMMA StoringSteps ==
  ASSUME PollInv, NEW s \in Sessions, NEW m \in Messages,
         Duplicate(s, m) \/ Store(s, m) \/ GiveUp(s, m) \/ InsertFails(s, m)
  PROVE  PollInv'
<1>. DEFINE x == session[s]
<1>1. x \in SessionState /\ Sound(x) /\ MessageId[m] \in Ids
  BY SessionTyped, MailboxAssumption
<1>2. UNCHANGED <<mailbox, tables>> /\ x.phase \in {"storing", "importing"}
  BY DEF Duplicate, Store, GiveUp, InsertFails, MayInsert, Ingesting
<1>3. faults' \in 0 .. MaxFaults
  BY MailboxAssumption DEF Duplicate, Store, GiveUp, InsertFails, Fails, PollInv, TypeOK
<1>4. SUFFICES \E y \in SessionState : Sound(y) /\ session' = [session EXCEPT ![s] = y]
  BY <1>2, <1>3, SessionStep
<1>5. ASSUME NEW y \in SessionState, y.phase = x.phase, y.link = x.link, y.loaded = x.loaded,
             \A n \in x.todo : n \in y.todo \cup y.gaveUp \/ Known(n) \/ MessageId[n] \in y.wrote,
             x.gaveUp \subseteq y.gaveUp, x.wrote \subseteq y.wrote
      PROVE  Sound(y)
  <2>1. InLog(y) /\ Settled(y.loaded)
    BY <1>1, <1>5 DEF Sound, InLog
  <2>2. Covers(y)
    <3>. SUFFICES ASSUME NEW i \in 1 .. x.link, arrived[i] \in inbox, ~Known(arrived[i])
                  PROVE  Holds(y, arrived[i])
      BY <1>5 DEF Covers
    <3>1. Holds(x, arrived[i])
      BY <1>1 DEF Sound, Covers
    <3>. QED
      BY <1>2, <1>5, <3>1 DEF Holds
  <2>. QED
    BY <2>1, <2>2 DEF Sound
<1>6. CASE Duplicate(s, m)
  <2>. DEFINE y == [x EXCEPT !.todo = @ \ {m}]
  <2>1. session' = [session EXCEPT ![s] = y] /\ (Known(m) \/ MessageId[m] \in x.wrote)
    BY <1>6 DEF Duplicate, Known
  <2>2. y \in SessionState
    BY <1>1 DEF SessionState
  <2>3. Sound(y)
    BY <1>1, <1>5, <2>1, <2>2 DEF SessionState
  <2>. QED
    BY <2>1, <2>2, <2>3
<1>7. CASE Store(s, m)
  <2>. DEFINE y == [x EXCEPT !.todo = @ \ {m}, !.wrote = @ \cup {MessageId[m]}]
  <2>1. session' = [session EXCEPT ![s] = y]
    BY <1>7 DEF Store
  <2>2. y \in SessionState
    BY <1>1 DEF SessionState
  <2>3. Sound(y)
    BY <1>1, <1>5, <2>2 DEF SessionState
  <2>. QED
    BY <2>1, <2>2, <2>3
<1>8. CASE GiveUp(s, m) \/ InsertFails(s, m)
  <2>. DEFINE y == [x EXCEPT !.todo = @ \ {m}, !.gaveUp = @ \cup {m}]
  <2>1. session' = [session EXCEPT ![s] = y]
    BY <1>8 DEF GiveUp, InsertFails
  <2>2. y \in SessionState
    BY <1>1 DEF SessionState
  <2>3. Sound(y)
    BY <1>1, <1>5, <2>2 DEF SessionState
  <2>. QED
    BY <2>1, <2>2, <2>3
<1>. QED
  BY <1>6, <1>7, <1>8

LEMMA ImportSound ==
  ASSUME PollInv, NEW s \in Others, NEW m \in Messages, Import(s, m)
  PROVE  PollInv'
<1>. DEFINE y == [Idle EXCEPT !.phase = "importing", !.todo = {m}]
<1>1. y \in SessionState /\ y.loaded = NoRow /\ y.link = 0
  BY DEF Idle, SessionState, Cursors, NoRow
<1>2. Sound(y)
  <2>. HIDE DEF y
  <2>. QED
    BY <1>1 DEF PollInv, Sound, InLog, Covers, Settled, TypeOK, NoRow
<1>3. faults' \in 0 .. MaxFaults /\ s \in Sessions
  BY DEF Import, PollInv, TypeOK, Sessions
<1>. HIDE DEF y
<1>. QED
  BY <1>1, <1>2, <1>3, SessionStep DEF Import, y

\* A session ends with nothing committed.
LEMMA FailingSteps ==
  ASSUME PollInv, NEW s \in Sessions, FailPoll(s) \/ Crash(s)
  PROVE  PollInv'
<1>1. session' = [session EXCEPT ![s] = Idle] /\ UNCHANGED <<mailbox, tables>>
  BY DEF FailPoll, Crash, EndsWithout
<1>2. faults' \in 0 .. MaxFaults
  BY MailboxAssumption DEF FailPoll, Crash, Fails, PollInv, TypeOK
<1>3. Idle \in SessionState /\ Sound(Idle)
  BY IdleSound DEF PollInv
<1>. QED
  BY <1>1, <1>2, <1>3, SessionStep

\* What was stored or given up is known once it is committed.
LEMMA CommitSteps ==
  ASSUME PollInv, NEW s \in Sessions, CommitPoll(s) \/ CommitImport(s)
  PROVE  PollInv'
<1>. DEFINE x == session[s]
<1>1. x \in SessionState /\ Sound(x)
  BY SessionTyped
<1>2. session' = [session EXCEPT ![s] = Idle] /\ UNCHANGED <<mailbox, faults>>
      /\ emails' = emails \cup x.wrote
  BY DEF CommitPoll, CommitImport
<1>3. /\ arrived' = arrived /\ inbox' = inbox
  BY <1>2 DEF mailbox
<1>4. failed \subseteq failed' /\ failed' \subseteq failed \cup x.gaveUp
  BY DEF CommitPoll, CommitImport
<1>5. Lasting
  BY <1>2, <1>3, <1>4 DEF Lasting, PollInv, TypeOK
<1>6. Settled(cursor) /\ cursor \in {NoRow} \cup 0 .. Len(arrived)
  BY DEF PollInv, TypeOK, CursorLeavesNothing, Settled
<1>7. Settled(cursor)' /\ cursor' \in {NoRow} \cup 0 .. Len(arrived)
  <2>1. CASE cursor' = cursor
    BY <1>3, <1>5, <1>6, <2>1, SettledLasts DEF PollInv, Settled
  <2>2. CASE cursor' # cursor
    <3>1. /\ cursor' = x.link /\ x.phase = "storing" /\ x.todo = {} /\ failed' = failed \cup x.gaveUp
      BY <2>2 DEF CommitPoll, CommitImport, NewCursor, Stored
    <3>2. \A i \in 1 .. x.link : arrived[i] \in inbox => Known(arrived[i])'
      BY <1>1, <1>2, <1>3, <3>1 DEF Sound, Covers, Holds, Known
    <3>. QED
      BY <1>1, <1>3, <3>1, <3>2 DEF Settled, Sound, InLog
  <2>. QED
    BY <2>1, <2>2
<1>8. TypeOK'
  BY <1>1, <1>2, <1>3, <1>4, <1>7, IdleSound DEF PollInv, TypeOK, SessionState, mailbox
<1>. QED
  BY <1>2, <1>5, <1>7, <1>8, CommitStep

LEMMA PollStep == PollInv /\ [Next]_vars => PollInv'
<1>. SUFFICES ASSUME PollInv, [Next]_vars PROVE PollInv'
  OBVIOUS
<1>1. CASE UNCHANGED vars
  BY <1>1 DEF vars, mailbox, tables, PollInv, TypeOK, CursorLeavesNothing, Known, Sound, InLog, Settled, Covers, Holds
<1>2. CASE CursorsExpire \/ \E m \in Messages : Arrive(m) \/ Leave(m)
  BY <1>2, MailboxSteps
<1>3. ASSUME NEW s \in Sessions, StartPoll(s) \/ Work(s) \/ Crash(s) PROVE PollInv'
  BY <1>3, StartSound, FetchingSteps, StoringSteps, CommitSteps, FailingSteps DEF Work, Storing
<1>4. ASSUME NEW s \in Sessions, NEW m \in Messages, GiveUp(s, m) PROVE PollInv'
  BY <1>4, StoringSteps
<1>5. ASSUME NEW s \in Others, NEW m \in Messages, Import(s, m) PROVE PollInv'
  BY <1>5, ImportSound
<1>. QED
  BY <1>1, <1>2, <1>3, <1>4, <1>5 DEF Next

-----------------------------------------------------------------------------
(* The theorems.                                                           *)

\* The inductive invariant: the cursor and the cursors that sessions have read leave nothing behind,
\* and what a session has listed it still has to fetch or to store, or has stored or given up.
THEOREM PollInvariance == Spec => []PollInv
<1>1. Init => PollInv
  <2>. SUFFICES ASSUME Init PROVE PollInv
    OBVIOUS
  <2>1. TypeOK
    BY MailboxAssumption DEF Init, TypeOK, Idle, SessionState, Cursors, NoRow
  <2>2. CursorLeavesNothing
    BY DEF Init, CursorLeavesNothing, NoRow
  <2>. QED
    BY <2>1, <2>2, IdleSound DEF Init, PollInv
<1>. QED
  BY <1>1, PollStep, PTL DEF Spec

\* The mailbox, the tables and the sessions keep to their types (poll_once, PollState, Email).
THEOREM PollTypeCorrect == Spec => []TypeOK
<1>1. PollInv => TypeOK
  BY DEF PollInv
<1>. QED
  BY <1>1, PollInvariance, PTL

\* Whatever polls and imports run at once, fail, resync or deadlock, a message behind the committed
\* cursor that is still in the inbox has its row or was counted as failed (poll_once, GmailClient).
THEOREM CursorLeavesNothingHolds == Spec => []CursorLeavesNothing
<1>1. PollInv => CursorLeavesNothing
  BY DEF PollInv
<1>. QED
  BY <1>1, PollInvariance, PTL
=============================================================================
