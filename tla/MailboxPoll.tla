----------------------------- MODULE MailboxPoll -----------------------------
(***************************************************************************)
(* Polling the mailbox (ingest/poller.py, client.py, gmail_client.py,      *)
(* service.py) and the import of .eml files (ingest/eml.py, cli.py).       *)
(*                                                                         *)
(* A poll is one transaction: it reads the cursor, fetches what came after *)
(* it, stores each message in a savepoint of its own, and commits with the *)
(* new cursor.  The scheduler and "Poll now" may poll at once.  A message  *)
(* is known by its Message-Id, which is unique in the email table: who     *)
(* inserts one that another session has inserted and not yet committed     *)
(* waits for that session.                                                 *)
(*                                                                         *)
(* The mailbox is external: a log of arrivals whose positions are its      *)
(* cursors, messages that leave the inbox for good, and old positions that *)
(* expire.  What a message says and what is attached to it is left out,    *)
(* pages of results are not told apart, and the order of a listing is left *)
(* open.                                                                   *)
(***************************************************************************)
EXTENDS Integers, Sequences, FiniteSets

CONSTANTS
  Scheduler,    \* the poll_inbox job
  Others,       \* "Poll now" requests and ingest-eml commands
  Messages,     \* messages
  EmlFiles,     \* those there is an .eml file of
  Removable,    \* bound: those that somebody may delete or move
  Malformed,    \* those a client can never fetch or parse
  Ids,          \* Message-Ids
  MessageId,    \* the Message-Id of each message
  Providers,    \* the values of MAILBOX_PROVIDER
  MaxFaults     \* bound: how many polls and messages fail by accident

ASSUME MailboxAssumption ==
  /\ Scheduler \notin Others
  /\ Removable \subseteq Messages
  /\ Malformed \subseteq Messages
  /\ EmlFiles \subseteq Messages \ Malformed
  /\ MessageId \in [Messages -> Ids]
  /\ Providers \subseteq {"graph", "gmail"}
  /\ MaxFaults \in Nat

Sessions == {Scheduler} \cup Others

VARIABLES
  provider,   \* MAILBOX_PROVIDER
  arrived,    \* the mailbox's log: every message that came, in order
  inbox,      \* the messages that are in the inbox now
  horizon,    \* cursors before this position have expired
  cursor,     \* poll_state.delta_token: a position in the log, or NoRow
  emails,     \* the Message-Ids of the committed email rows
  failed,     \* messages that a committed poll skipped or gave up (counted and logged)
  session,    \* what each session is doing
  faults      \* how many polls and messages have failed by accident

mailbox == <<provider, arrived, inbox, horizon>>
tables == <<cursor, emails, failed>>
vars == <<mailbox, tables, session, faults>>

NoRow == -1
Cursors == Nat \cup {NoRow}

\* A session: the cursor it read and the one it will write, whether it resyncs, the
\* messages it still has to fetch and to store, the rows it stored, and the messages
\* it skipped or gave up.
SessionState ==
  [phase : {"idle", "fetching", "listing", "listed", "storing", "importing"}, resync : BOOLEAN,
   loaded : Cursors, link : Nat, fetch : SUBSET Messages, todo : SUBSET Messages,
   wrote : SUBSET Ids, gaveUp : SUBSET Messages]

Idle == [phase |-> "idle", resync |-> FALSE, loaded |-> NoRow, link |-> 0,
         fetch |-> {}, todo |-> {}, wrote |-> {}, gaveUp |-> {}]

TypeOK ==
  /\ provider \in Providers
  /\ arrived \in Seq(Messages)
  /\ inbox \subseteq Messages
  /\ horizon \in 0 .. Len(arrived)
  /\ cursor \in {NoRow} \cup 0 .. Len(arrived)
  /\ emails \subseteq Ids
  /\ failed \subseteq Messages
  /\ session \in [Sessions -> SessionState]
  /\ faults \in 0 .. MaxFaults

Init ==
  /\ provider \in Providers
  /\ arrived = <<>> /\ inbox = {} /\ horizon = 0
  /\ cursor = NoRow /\ emails = {} /\ failed = {}
  /\ session = [s \in Sessions |-> Idle]
  /\ faults = 0

-----------------------------------------------------------------------------
(* The mailbox.                                                             *)

Arrive(m) ==
  /\ \A i \in DOMAIN arrived : arrived[i] # m
  /\ arrived' = Append(arrived, m)
  /\ inbox' = inbox \cup {m}
  /\ UNCHANGED <<provider, horizon, tables, session, faults>>

\* A message is deleted, or moved to another folder and never back.
Leave(m) ==
  /\ m \in inbox \cap Removable
  /\ inbox' = inbox \ {m}
  /\ UNCHANGED <<provider, arrived, horizon, tables, session, faults>>

CursorsExpire ==
  /\ horizon' \in (horizon + 1) .. Len(arrived)
  /\ UNCHANGED <<provider, arrived, inbox, tables, session, faults>>

After(position) == {arrived[i] : i \in (position + 1) .. Len(arrived)}

-----------------------------------------------------------------------------
(* Waiting, and the two ways to fail.                                       *)

Ingesting(s) == session[s].phase \in {"storing", "importing"}

\* Who created the row of poll_state, or flushed the discarded cursor to it before
\* its first savepoint, has it until the end of its transaction.
HoldsRow(s) == \/ session[s].phase \notin {"idle", "importing"} /\ session[s].loaded = NoRow
               \/ session[s].phase = "storing" /\ session[s].resync

RowIsFree(s) == \A t \in Sessions \ {s} : ~HoldsRow(t)

Stored(s) == Ingesting(s) /\ session[s].todo = {}

WritesRow(s) == \/ session[s].phase = "storing" /\ Stored(s)
                \/ session[s].phase = "listed" /\ session[s].resync

WaitsFor(s, t) ==
  /\ s # t
  /\ \/ WritesRow(s) /\ HoldsRow(t)
     \/ Ingesting(s) /\ \E m \in session[s].todo : MessageId[m] \in session[t].wrote

\* Sessions that wait for each other.  Postgres fails the statement of one of them.
Deadlocked(s) ==
  \E D \in SUBSET Sessions : s \in D /\ \A t \in D : \E u \in D : WaitsFor(t, u)

Fails == faults < MaxFaults /\ faults' = faults + 1

\* The session ends by an exception or a crash and commits nothing.
EndsWithout(s) ==
  /\ session' = [session EXCEPT ![s] = Idle]
  /\ UNCHANGED <<mailbox, tables>>

-----------------------------------------------------------------------------
(* Fetching.                                                                *)

\* session.get(PollState, 1).  A poll that finds no row creates it, and another that
\* does so at the same time waits for it; if the first commits, the other fails on the
\* primary key with nothing done, which is left out.
StartPoll(s) ==
  /\ session[s].phase = "idle"
  /\ cursor = NoRow => RowIsFree(s)
  /\ session' = [session EXCEPT ![s] = [Idle EXCEPT !.phase = "fetching", !.loaded = cursor]]
  /\ UNCHANGED <<mailbox, tables, faults>>

\* Mutant of FullSync: after DeltaExpired the discarded cursor is used again.
FullSyncIfNew(s) == session[s].loaded = NoRow

FullSync(s) == session[s].resync \/ session[s].loaded = NoRow
FromProfile(s) == FullSync(s) /\ provider = "gmail"

\* Gmail's full sync reads the account's historyId before it lists the inbox; its
\* incremental one lists what was added, also what has left the inbox since.  Graph's
\* delta query returns the messages of the folder with the link that follows them.
ReadProfile(s) ==
  /\ session[s].phase = "fetching" /\ FromProfile(s)
  /\ session' = [session EXCEPT ![s].phase = "listing", ![s].link = Len(arrived)]
  /\ UNCHANGED <<mailbox, tables, faults>>

Listed(s) ==
  IF FullSync(s) THEN inbox
  ELSE IF provider = "gmail" THEN After(session[s].loaded)
  ELSE After(session[s].loaded) \cap inbox

LinkAfter(s) == IF FromProfile(s) THEN session[s].link ELSE Len(arrived)

Expired(s) == ~FullSync(s) /\ session[s].loaded < horizon

List(s) ==
  /\ session[s].phase = IF FromProfile(s) THEN "listing" ELSE "fetching"
  /\ ~Expired(s)
  /\ session' = [session EXCEPT ![s].phase = "listed", ![s].fetch = Listed(s),
                                ![s].link = LinkAfter(s)]
  /\ UNCHANGED <<mailbox, tables, faults>>

\* Every listed message is fetched (Gmail) or taken from the page (Graph) and parsed
\* before the first is stored; then a discarded cursor is flushed.
Fetch(s) ==
  /\ session[s].phase = "listed"
  /\ session[s].fetch \cap Malformed = {}
  /\ session[s].resync => RowIsFree(s)
  /\ session' = [session EXCEPT ![s].phase = "storing", ![s].fetch = {},
                                ![s].todo = session[s].fetch]
  /\ UNCHANGED <<mailbox, tables, faults>>

\* Gmail answers 404 for a cursor that is too old, and for a message that has been
\* deleted; Graph answers 410 for the former.
NotFound(s) ==
  \/ session[s].phase = "fetching" /\ Expired(s)
  \/ /\ session[s].phase = "listed" /\ provider = "gmail"
     /\ session[s].fetch \ inbox # {}

\* DeltaExpired: the cursor is discarded and the poll starts over, once.
Resync(s) ==
  /\ NotFound(s) /\ ~session[s].resync
  /\ session' = [session EXCEPT ![s].phase = "fetching", ![s].resync = TRUE,
                                ![s].fetch = {}, ![s].link = 0]
  /\ UNCHANGED <<mailbox, tables, faults>>

\* DeltaExpired again, a message that cannot be parsed, or a deadlock over the row of
\* poll_state: nothing of the poll is committed.
FailPoll(s) ==
  /\ \/ NotFound(s) /\ session[s].resync
     \/ session[s].phase = "listed" /\ session[s].fetch \cap Malformed # {}
     \/ WritesRow(s) /\ Deadlocked(s)
  /\ EndsWithout(s)
  /\ UNCHANGED faults

\* A request fails for good, the database is lost or the process dies.
Crash(s) ==
  /\ session[s].phase # "idle"
  /\ Fails
  /\ EndsWithout(s)

-----------------------------------------------------------------------------
(* Storing.                                                                 *)

\* Found by the query, or by the unique constraint once the session that had inserted
\* it has committed.
Duplicate(s, m) ==
  /\ Ingesting(s) /\ m \in session[s].todo
  /\ MessageId[m] \in emails \cup session[s].wrote
  /\ session' = [session EXCEPT ![s].todo = @ \ {m}]
  /\ UNCHANGED <<mailbox, tables, faults>>

\* The unique index of Message-Ids lets the insert through.
MayInsert(s, m) ==
  /\ Ingesting(s) /\ m \in session[s].todo
  /\ MessageId[m] \notin emails
  /\ \A t \in Sessions : MessageId[m] \notin session[t].wrote

\* The row and its attachments are stored in one savepoint, which nobody sees half done;
\* blobs are outside of it, under keys of the row's own that nobody names if it goes.
Store(s, m) ==
  /\ MayInsert(s, m)
  /\ session' = [session EXCEPT ![s].todo = @ \ {m}, ![s].wrote = @ \cup {MessageId[m]}]
  /\ UNCHANGED <<mailbox, tables, faults>>

\* A download, a write or a statement fails while a message is being stored: its
\* savepoint is rolled back, and the poll goes on.  A message without a Message-Id is
\* always skipped, and counted like these.
GiveUp(s, m) ==
  /\ MayInsert(s, m)
  /\ Fails
  /\ session' = [session EXCEPT ![s].todo = @ \ {m}, ![s].gaveUp = @ \cup {m}]
  /\ UNCHANGED <<mailbox, tables>>

\* The insert is the statement that Postgres fails to end a deadlock.
InsertFails(s, m) ==
  /\ Ingesting(s) /\ m \in session[s].todo
  /\ Deadlocked(s) /\ \E t \in Sessions \ {s} : MessageId[m] \in session[t].wrote
  /\ session' = [session EXCEPT ![s].todo = @ \ {m}, ![s].gaveUp = @ \cup {m}]
  /\ UNCHANGED <<mailbox, tables, faults>>

\* ingest-eml: one file, in a savepoint and then a commit of its own.
Import(s, m) ==
  /\ s \in Others /\ session[s].phase = "idle"
  /\ m \in EmlFiles
  /\ session' = [session EXCEPT ![s] = [Idle EXCEPT !.phase = "importing", !.todo = {m}]]
  /\ UNCHANGED <<mailbox, tables, faults>>

CommitImport(s) ==
  /\ session[s].phase = "importing" /\ Stored(s)
  /\ emails' = emails \cup session[s].wrote
  /\ session' = [session EXCEPT ![s] = Idle]
  /\ UNCHANGED <<mailbox, cursor, failed, faults>>

\* Mutant of NewCursor: the position after the last one listed.
NextPosition(s) == session[s].link + 1

\* Mutant of NewCursor: where the mailbox is when the poll ends.
CursorAtCommit(s) == Len(arrived)

\* The UPDATE names the column only if its value is not the one that was read.
NewCursor(s) == IF session[s].link = session[s].loaded THEN cursor ELSE session[s].link

CommitPoll(s) ==
  /\ session[s].phase = "storing" /\ Stored(s)
  /\ RowIsFree(s)
  /\ cursor' = NewCursor(s)
  /\ emails' = emails \cup session[s].wrote
  /\ failed' = failed \cup session[s].gaveUp
  /\ session' = [session EXCEPT ![s] = Idle]
  /\ UNCHANGED <<mailbox, faults>>

-----------------------------------------------------------------------------
Fetching(s) == ReadProfile(s) \/ List(s) \/ Fetch(s) \/ Resync(s)

Storing(s) ==
  \/ \E m \in Messages : Duplicate(s, m) \/ Store(s, m) \/ InsertFails(s, m)
  \/ CommitPoll(s) \/ CommitImport(s)

Work(s) == Fetching(s) \/ Storing(s) \/ FailPoll(s)

Next ==
  \/ \E m \in Messages : Arrive(m) \/ Leave(m)
  \/ CursorsExpire
  \/ \E s \in Sessions : StartPoll(s) \/ Work(s) \/ Crash(s)
  \/ \E s \in Sessions, m \in Messages : GiveUp(s, m)
  \/ \E s \in Others, m \in Messages : Import(s, m)

Spec == Init /\ [][Next]_vars

(* Fairness.  The scheduler starts the job again on every interval, and a    *)
(* session that has started goes on: requests have timeouts, Postgres gives  *)
(* a lock to the session that has waited for it (so the fairness is strong)  *)
(* and ends deadlocks.  Accidents are bounded by MaxFaults: a mailbox that   *)
(* fails every poll yields nothing.                                          *)
LiveSpec ==
  /\ Spec
  /\ SF_vars(StartPoll(Scheduler))
  /\ \A s \in Sessions : SF_vars(Work(s))

-----------------------------------------------------------------------------
(* Properties.                                                              *)

Known(m) == m \in failed \/ MessageId[m] \in emails

\* Two polls, resyncs, rollbacks and a cursor that an older poll sets back leave no gap
\* behind the cursor: every message at or before it that is still in the inbox has
\* its row, or was counted as failed by a poll that committed.
CursorLeavesNothing ==
  \A i \in 1 .. cursor : arrived[i] \in inbox => Known(arrived[i])

\* Once the mailbox is quiet (Messages are finitely many), every message that is still
\* in the inbox comes in or is counted as failed, in spite of expired cursors, deleted
\* neighbours, deadlocks and polls that failed.
EveryMessageComesIn == []<>(inbox \subseteq {m \in Messages : Known(m)})
=============================================================================
