# TLA+ models of the AR settlement pipeline and of live mode

The repository holds two programs. The pipeline (`src/ar_pipeline`) reads settlement
emails from a mailbox, splits a forwarded chain into messages, classifies and extracts
their content, has an LLM read each message into payments, checks the payments against
an invoice ledger, approves them by rule or by a reviewer, and delivers the approved
ones to an accounting backend. Live mode (`src/.github/skills/impeccable/scripts`) is the
browser side of a design tool: a script in the developer's page lets the user pick an
element, has an agent write variants of it into the source, shows them, and has the
agent accept one or discard all.

This directory holds the TLA+ modules that model their state machines, the TLC
configurations that check them on small instances, and TLAPS proofs. `PROJECT.json`
lists components, runs, mutants, the map from definitions to source lines,
findings, hazards and theorems. Source paths below are relative to `src/ar_pipeline`
for the pipeline, and to `src/.github/skills/impeccable/scripts` for live mode, where
LB is `live-browser.js`.

    tlc -config Deliverer.cfg MCDeliverer           # a run
    tlapm DelivererProofs.tla                       # the proofs of a module

## The pipeline

One Postgres database holds all state. Four kinds of actors change it:

- the scheduler (`worker.py`), three jobs of one in-process APScheduler: `poll_inbox`,
  `advance_pipeline`, `run_deliveries`. `max_instances=1` keeps a job from
  overlapping itself, not from overlapping the others or the two callers below;
- "Poll now" of the review pages, which calls the same three functions in a web
  thread;
- the command line (`ingest-eml`, `tick`, back-fills), in another process;
- reviewers, through web requests. `async` handlers run their SQL on the event
  loop, the others in a thread pool; every request's commit is the exit of the
  dependency `get_db` and is dispatched by the event loop.

Every actor is a session at READ COMMITTED that reads first, computes (calls the LLM,
the extractors, the backend), writes, and commits. An UPDATE writes the columns that
changed and carries no version check. The only locks the code takes on purpose are
those of the invoice ledger (`SELECT ... FOR UPDATE` and advisory locks on number
keys) and of payment keys. Nearly every hazard below comes from that shape.

### Inventory

| component | state | operations | interacts with | hard | must hold |
|---|---|---|---|---|---|
| delivery (`deliver/`, `routing.approve_and_queue`, `review.resend_delivery`) | `delivery` rows: status, attempts, next attempt | queue, read due batch, POST, update row, resend | extraction status, backend | two sessions with one batch, lost answers, late requests, crash between POST and commit, a retry ladder counted in three places | booked once, delivered means booked, settled in the end |
| email lifecycle (`pipeline/`, `classify/`, `normalize/service.py`) | `email.status`, `email_message.status`, extraction sources, raw extractions, extraction rows | split and classify, extract, normalize, route, settle | LLM, extractors, ledger, payment keys | stale batches, savepoints per source and message, errors and retries, concurrent workers | each message read once, nothing stranded, each email comes out |
| review actions (`review/service.py`, `review/app.py`) | extraction rows and edits | save, approve, reject, already recorded, reprocess, retry email or message, bulk actions | everything above | two reviewers, reviewer against worker | an approval is final but for two requests on one payment, queued iff approved |
| invoice ledger (`ledger/checks`, `posting`, `balance`, `csv_import`, `normalize/recheck`) | `invoice`, `invoice_payment`, flags of payments | check, post, import the client's books, re-check | approvals of both kinds | check-then-post races, lock order, half-made postings, the event loop | no unseen overpayment, all or nothing |
| payment keys and thread memory (`threads/dedupe`, `memory`, `references`, `backfill`) | payment key and strength, duplicate links, message fingerprints | claim a key, mark duplicate or seen, back-fill | normalize, edits | two arrivals at once, owner rejected later, key changed by an edit | one live owner of a strong key, no payment lost to a dead owner |
| mailbox polling (`ingest/`) | cursor, emails, attachments | delta or history page, store message, move cursor, resync, import a file | Graph or Gmail | two polls at once, one message failing, expired cursor, deadlocks | nothing left behind the cursor, every message comes in |
| tables and learned mappings (`tables/`) | `column_mapping` | find table, map columns, copy rows, check totals, learn | normalize | two readers learning one layout | rows copied once, totals agree |
| matching, adjustments, validators (`ledger/matching`, `adjustments`, `normalize/validators`) | none | pure functions | ledger checks, normalize | thresholds, rounding | agree with their definitions |
| thread splitter, extractors, LLM client, storage, settings, pages, stub backend | none, or files | conversions and I/O | | | |

## Live mode

One script per tab; the tab talks to a live server on the developer's machine by POSTs
and one stream of server events, the server to an agent that edits the source, and a dev
server's hot reload (or a reload of the page) brings the source into the page. Handlers
run to completion, so what interleaves are handlers: clicks and keys, answers to
requests, server events, mutation observers, timers, and what follows an `await`.
Nothing orders answers and events against each other, the stream breaks, the page is
reloaded at any moment, and what must survive is in `localStorage`, in wrapper nodes in the
source, or in the server's journal.

| component | state | operations | hard | must hold |
|---|---|---|---|---|
| a tab's session (LB 5900-9600, `live-browser-session.js`) | mode, session id, variants arrived, requests under way, record in localStorage, list of handled sessions | go, accept, discard, checkpoint, reload and resume, reconnect and reconcile, adopt a foreign session, read the source | late and lost answers, events of an older session, reloads, wrappers that come and go | work survives a reload, the dead stay dead, nothing alive is given up, a complete generation is shown |
| compiled components (LB 5300-5900) | manifest, mounted component, error card, memory of what was reported | import, unmount, mount, switch, retry, report a failure | overlapping calls between awaits | failures are reported, no silent wait |
| copy edits by hand (LB 3900-4450) | staged count, lock, open decision | stage, apply, decide, roll back, discard | answers and events in any order | locked for a reason, count is true |
| clean-up after a session (LB 6640-6900, 8780-8900, 9420-9500) | timers, observers, hidden wrappers, reload stamps | sweep, hide, release, reload | timers that outlive their session | no reload over new work, no reload loop, nothing hidden for ever |
| modes and pickers (LB 1100-1400, 3700-3900, 11600-11700) | mode, picker, inline draft, insert placeholder | pick, insert, configure, edit, save, leave, toggle | a dozen ways out of every mode | no draft and no placeholder left |
| steer chat and voice (LB 7700-7800, 10500-10800) | field, lock, timer, recognition | submit, speak, done, fail, time out | one field, three ways to be answered | nothing typed is lost |
| shader and scroll lock (LB 8200-8700) | shader, builds, epoch, lock | capture, build, tear down | builds over several awaits | no shader frozen over the page |
| detector (LB 11680-11800, `live-browser-ignores.js`) | toggle, script, scan; waivers | toggle, scan, filter | scans that answer late, a file guessed from a URL | count of this scan, overlay hides what the CLI hides |
| review pages' script (`review/static/review.js`, `review/forms.py`) | fields of the form, lists | add, copy, remove, renumber, parse; poll and swap | names that pair by index, stale answers | the server reads what is seen |

## Parts and modules

| module | models |
|---|---|
| `RemittanceFeed` | abstract: what the pipeline promises the accounting backend |
| `Deliverer`, `MCDeliverer`, `DelivererProofs` | delivery rows, sessions, backend, network |
| `EmailLifecycle`, `MCEmailLifecycle`, `EmailLifecycleProofs` | emails, messages, extraction rows, workers, reviewers |
| `LedgerRules` | checks, flags, balances and postings as functions of a ledger |
| `InvoiceLedger` | abstract: an approval checks and posts in one step |
| `InvoicePosting`, `MCInvoicePosting`, `InvoicePostingProofs` | approvals as sessions with locks, aborts, imports |
| `PaymentKeys`, `MCPaymentKeys`, `PaymentKeysProofs` | payment keys, duplicates, messages seen before |
| `MailboxPoll`, `MCMailboxPoll`, `MailboxPollProofs` | polls of the mailbox, imports of .eml files, the email table |
| `LivePage` | what one tab keeps, its handlers as operators from tab to tab |
| `LiveSession`, `MCLiveSession`, `LiveSessionProofs` | the tab with user, server, agent and hot reload |
| `LiveMount` | mounting variants that are compiled components |
| `LiveManualApply` | copy edits by hand, staged and applied |
| `LiveSweep` | timers and observers that clean up after a session |
| `LiveModes` | picking, inserting, configuring, editing in place |
| `LiveSteer` | the steer field, its lock and timer, speech |
| `LiveOverlay` | shader and scroll lock |
| `LiveIgnores`, `LiveDetect` | which waivers apply to a page; the detect toggle |
| `ReviewForm`, `ReviewLists` | lines and deductions of a payment's form; self-updating lists |
| `MCLivePanels` | small instances of all parts of live mode but the session, and of the review pages |
| `LivePanelsProofs` | proofs about `LiveSweep`, `LiveOverlay`, `LiveSteer`, `LiveMount`, `LiveDetect`, `LiveIgnores`, `LiveManualApply`, `LiveModes`, `ReviewForm` |
| `DataLemmas` | least numbers, recursive functions, sums and removal from a sequence, for the proofs |

`Deliverer` and `InvoicePosting` both stand for an approval where it matters to them:
the first for the delivery row it inserts, the second for the ledger rows;
`EmailLifecycle` for the status it leaves behind, and it counts the delivery rows. What
becomes of a payment's key when it is read, and which messages are seen, is nondeterministic
in `EmailLifecycle`; `PaymentKeys` says what they can be.

The parts of live mode share one `state` variable in the code. `LiveSession` has it with the
whole life of a session; `LiveModes`, `LiveSweep`, `LiveMount` and `LiveOverlay` keep their own
shadow of it, with the steps of a session reduced to what they see of them.

## Deliverer

A worker is one call of `run_deliveries`. `StartRun` reads all pending due rows with
their attempt counts; `Refuse`/`Post` take any row of that snapshot (`_deliver_one`
re-reads the extraction, not the row); `Accepted`, `NotAccepted` and `TimesOut` are the
request's possible fates; `Commit` writes the row, column by column: a retry leaves
`status` as another session may have set it, a result overwrites it. An exception that
`send` does not classify expires the row, so its count is then re-read (`NewAttempts`).
`Crash` loses what was not committed and may leave a request on its way (`late`);
`ArrivesLate` is that request reaching the backend. `Queue`, `Withdraw`, `Resend` are the
review side, including two approvals of one payment (two rows for it) and a reject
that commits over an approval.

The backend is external: `Receive` records a remittance unless its Idempotency-Key,
the extraction's id, is on file. The repository's stub looks the key up and records in
two unguarded steps; the model takes the key for atomic, which is what the client's
protocol needs.

- `deliverer` (two rows of one payment, two sessions, ladder of one step): `BookedOnce`,
  `ImplementsFeed`, `EveryDeliverySettles`. Two rows of one payment are the worst case for
  the idempotency key: everything about rows of different payments is independent but
  for the order in which a session takes them. One step of the ladder gives a first
  attempt, a retry and a giving up; the code's ladder has five, which add attempts of the
  same kind (`RetryWithinLadder` is proved for any number). `DeliveredIsBooked` and
  `RetryWithinLadder` have no run of their own.

Fairness: the scheduler's session starts again whenever something is due (interval job,
`coalesce`, `max_instances=1`, `worker.py:57-69`), its steps go on (the POST has a 30 s
timeout), back-offs elapse, a dead process is restarted. `CrashesEnd` is assumed: a
process killed in every run delivers nothing. Nothing is assumed of the second session,
of reviewers, or of the backend answering anything in particular.

## EmailLifecycle

A worker is one call of `advance_once`: `StartBatch` reads the statuses of all emails in
the pipeline once; each email is later handled by the status it had then, whatever it
is by now. Each stage is a `Begin` (what the stage reads) and an `End` (what it commits),
with the splitter, extractors or LLM in between. `StepRaises` is any exception (the
savepoint is rolled back, the email goes to `error`), `ClassifyCollides` the unique
constraint on (email, position). Sources are extracted, and messages read, each in a
savepoint of its own, so any subset may fail. Reviewer requests are likewise a `Begin`
that checks and a `Commit` that writes: verdicts (approve, reject, already recorded),
reprocess, retry email, retry message.

The data is abstracted to what the control flow tells apart: five kinds of message
body, three kinds of attachments, and for a reading any of a set of row sequences
(`Readings`): what an LLM answers, and how keys and ledger route it, is nondeterministic
here. A message's sources are extracted as one unit. Emails classified before threads
existed are left out, and so is a reading that stores nothing: normalize always stores a
row, if only an empty one.

Two things the code does spoil an email or a payment: two workers that have one email at once, and
two reviewers' requests that overlap on one. The second is a finding, below; the first is among the known limits. What the
other properties say is that nothing else does, so the model has to know where it happened.
Three history variables do; no guard reads them:

- `contended`: emails changed by a worker while another had them in its batch, or by a reviewer's
  request while another's about the same email was under way (`Finish`, `Commits`);
- `crossed`: rows changed by a reviewer's request while another's that changes them too was under way;
- `retried`: emails a reviewer has retried.

Runs:

- `lifecycle` (one email of two messages, all body and attachment kinds, two workers, two
  reviewers): `TypeOK`, `OneReading`, `ContentReadOnce`, `FirstPassStrandsNothing`, `QueuedIffApproved`,
  `ApprovedUnlessCrossed`. Two messages are what savepoints,
  the choice of the message that carries the attachments, and settling with a sibling pending need;
  emails do not interact. Each message may be reprocessed once (`MaxReadings = 2`). The product of
  everything is too large, so `CONSTRAINT AloneOrSmallest` explores two parts of it. In `Alone`, which is for the
  first four, workers take turns on the email, and meet on it, and requests come one at a time; once two have
  met, those properties exempt the email for good (`contended` never shrinks). In `Smallest`, which is for the last two, the
  requests of both reviewers overlap freely on an email that is one text of up to two payments: on one payment,
  on two, with a reprocess, with a retry of the email, and go on after they changed the same payment.
  Workers and reviewers are interchangeable in `Spec`, hence the symmetry; `Scheduler` matters to fairness only.
- `lifecycle_live` (two workers, a reviewer): `EmailComesOut`. Fairness as for the deliverer:
  the scheduler's own steps only, each stage ends (timeouts), crashes end. Ending in `error` counts as
  coming out: that two workers' classifications collide (`ClassifyCollides`) and leave a classified
  email in `error` is allowed by it, and no property says otherwise.
- `lifecycle_stranded`, `lifecycle_overwritten`: findings, below.

## The ledger

`LedgerRules` has no state: `CheckLine` is one turn of the loop of `check_against_ledger`,
`FlagsOf` the whole re-check, `PostsOf` and `Posted` the posting, as functions of a ledger
value (invoices and postings). A flag is kept with its line, kind and amounts, as the
code compares flag texts. Amounts are small integers, with a tolerance.

`InvoiceLedger` states what the design promises ("Re-check at approval"): an approval checks
the payment against the ledger and posts it in one step, a reviewer's approval goes through
only with flags the payment already carried, an automatic one only with none.

`InvoicePosting` is what the code does: sessions that look up and lock the invoices of a
payment line by line (`CheckFound`: row lock; `FindMissing`, then `LockMissing`: the lookup
comes before the advisory lock and is not repeated), decide, post into their own
transaction, and commit. A worker's session reads a message's payments one after the
other, each seeing the postings of the one before. Imports compute their rows from what
they read at first, wait for the invoices, re-check pending payments. `Abort` is a database
error, a deadlock broken by Postgres, or a crash. The event loop is a resource: edit and
import hold it until they return, every request needs it to start and to commit.

Simplifications: one payer, one currency, no near matches of invoice numbers; the lock of
an extraction row is taken with the decision; an import takes its locks all at once;
payment keys, the other messages of a worker's email and bulk recording are left out;
a message is read by one worker at a time (EmailLifecycle has what happens else).

- `posting` (two workers, one web request at a time, three invoices of which one is not
  in the books, three payments that name the invoices in opposite orders and overpay one
  together, one of them historical, two files): `PostedAsApproved`, `OverpaymentWasShown`,
  `ImplementsLedger`. The two payments are in different messages, so that two workers, or
  a worker and a reviewer, race on them in every order, including the deadlock. The
  missing invoice is in one payment only: the race on it is the finding below. One
  request at a time, since two either stop the event loop or meet the missing version check
  (both under Known limits); with two, `PostedAsApproved` is violated, and the theorems
  about it are for one reviewer.
- `posting_new_invoice`: a finding, below.

The modules have no liveness property for postings: an approval may be aborted any number
of times and nobody owes another try.

## PaymentKeys

A worker reads a message in one transaction: `BeginRead` is what the LLM answered (any of
the `Headers` a payment may be read as), `Place` gives the next payment its key and routes
it, `CommitRead` and `FailRead` end the savepoint. `Assigned` is `assign_payment_key`: a weak key
is claimed and at most flagged; a strong one is locked, looked up, and then claimed,
or the payment is linked to its owner, as a `duplicate` if the totals agree. `BeginSave`
is `save_edits`, with its refusal of a reference that is taken and the flags it keeps;
`Reject`, `MarkAlreadyRecorded` and `Reprocess` are the steps that free or keep a key
without any lock. `Split` decides whether a message is read at all, as `_ensure_messages`
does: by an earlier copy whose payments are recorded, or by its references.

A session sees the committed rows and its own (`View`); its locks last until it ends, as
`pg_advisory_xact_lock` does. Only the part of a header that makes the key, and the total,
are kept; making a key of a header (`payment_key_for`) and finding references in a text are
data of the instance. A message always has the same payments, each of which may be read
differently each time. All messages are in emails of their own, so "another email" is
"another message". Two workers never read one message, and there is one request at a time:
`EmailLifecycle` has what happens else.

- `payment_keys` (two workers, a reviewer, one message of two payments and one that repeats
  the second, with the same reference, another total, a weak key, or the first payment
  misread): `NoClaimCollides`, `NoUnseenDoublePayment`. `KeyMatchesHeader` is proved and has no
  run of its own. Two sessions and a reviewer
  on two strong keys give every race on a key: claimed by two readings, by a reading
  and an edit, twice within one message, and freed by a rejection in between. Each
  message may be reprocessed once (`MaxReads = 2`).

A message is skipped as seen if an earlier copy "is recorded", and a duplicate counts as recorded
whatever became of the payment it duplicates: when A is read, B is its duplicate and A is
then rejected, a copy of B is skipped although no payment that stands records what it says.
The model has that behaviour (with three copies of a message); the properties allow it.

## MailboxPoll

A session is one call of `run_poll` (by the scheduler or Poll now), or one file of `ingest-eml`.
`StartPoll` reads the cursor, or creates its row. `ReadProfile` and `List` ask the provider;
`Fetch` gets and parses every listed message; `NotFound` is `DeltaExpired`, which starts the
poll over (`Resync`) once. Each message is then stored, found to be a duplicate, or given up,
each in its savepoint, and `CommitPoll` writes the emails and the cursor. `Import` and
`CommitImport` are the same for a file, without the cursor.

Waiting is what Postgres does: an insert waits for a session that has inserted the same
Message-Id, and every poll ends with an UPDATE of the row of `poll_state`, on which a poll that
resyncs sits from before its first savepoint on. `Deadlocked` sessions wait for each other: one of them
gets an error, which gives a message up (`InsertFails`) or ends the poll (`FailPoll`).

The mailbox is external: a log whose positions are cursors, messages that leave the inbox for
good, cursors that expire. A message that comes back into the inbox is left out: on Gmail it
would be no `messageAdded` and no incremental poll would see it. Attachments are
part of storing a message; a message without a Message-Id is a message given up.

- `mailbox` (the scheduler and one other session, two messages of which one may leave the inbox and
  the other may be imported, one accident, both providers): `CursorLeavesNothing`,
  `EveryMessageComesIn`. Two messages are what it takes to store one and fail on the other, to
  deadlock in either way, and to have a deleted neighbour; two sessions, to write the cursor in the
  wrong order. The accident (`MaxFaults = 1`) is a crash, a request that fails for good, or
  a message that cannot be stored.

Fairness: the scheduler polls again on each interval, a started session goes on, and it is
strong, because Postgres hands a lock to the session that waits for it: with weak fairness a
session whose poll is undone by a deadlock could store the same message first every time.

## LivePage and LiveSession

`LivePage` is what one tab keeps of a session (mode, session id, arrived variants, requests under
way, the record in `localStorage`, the list of handled sessions, flags of timers and observers),
with every handler of LB and of `live-browser-session.js` that touches them as an operator from a
tab to the tabs it may become. `LiveSession` puts the tab among those it talks to: the user, the
server's journal, the agent that writes variants into the source, and the hot reload that brings
the source into the page. The last three are external, and do here what the handlers
expect of them. Requests are a set, answered in any order or not at all; events are a queue that is lost
while the stream is down; the page may be reloaded at any moment, which starts the tab again from
`localStorage` and the wrappers it finds.

A behaviour has one set of *faults* it may meet beside reloads and lost connections (`FaultSets`).
The run has three: an agent that fails after it was told of an accept, an accept whose answer is
lost, a session discarded from the command line or another tab; an element that is unmounted for a
moment, a source that cannot be read; an annotated request whose screenshot holds it back. A
property that a fault would break names that fault. The module has three more that the run leaves
out, since the properties name them as reasons (`late`, `slow`, `hasty`).

- `live_session` (two sessions of one variant, a handled list of one, one retry, one break of the
  stream, one queued event): `WorkIsStored`, `NoResurrection`, `GivenUpForAReason`, `CompletedIsShown`,
  `PlainCreationFirst`. Two sessions are what a late answer of an older one needs; a handled list of
  one entry (the code keeps eight) makes the entry that falls off it happen; one variant makes
  "some arrived" and "all arrived" one case, which only the count on the bar tells apart.

All properties are safety properties; a browser tab owes nobody a next step, and no fairness is
assumed anywhere in live mode.

## The other parts of live mode, and the review pages

`MCLivePanels` instantiates ten modules that share no variables: a behaviour steps one of them,
its `focus`. One run, `live_panels`, checks them all.

| module | the model | bounds | properties |
|---|---|---|---|
| `LiveMount` | calls that inject a manifest or switch the variant, each step the code from one `await` to the next; publications by the agent, an element that may be missing | two calls, two variants, two publications: a call over an older publication, a switch over an injection | `EveryFailureIsReported`, `NoSilentWait` |
| `LiveManualApply` | stage, apply, decide, discard; answers and server events as two channels | two requests, two staged edits, two events, one loss | `LockedForAReason`, `CountIsTrue` |
| `LiveSweep` | the timers and observers each accept and discard leaves behind, the wrappers in source and page, a framework that brings a wrapper back | two sessions, two configurations, one reload by the user | `NoReloadOverWork`, `NoReloadLoop`, `HiddenIsWatched` |
| `LiveModes` | every way into and out of picking, inserting, configuring, editing in place | none needed: finite | `NoDraftLeft`, `NoOrphanPlaceholder` |
| `LiveSteer` | the field, its lock and timer, POST and events, speech | two messages, each of two texts | `NothingTypedIsLost` |
| `LiveOverlay` | builds of the shader over their awaits, epochs, the scroll lock | three captures, three epochs | `NoFrozenShader`; `NothingStays` is proved only |
| `LiveIgnores` | from a URL to candidate files to the waivers that apply | directories `/`, `a`, `b`, `a/a`; two rules, one value | `OverlayAgreesWithCli` |
| `LiveDetect` | toggle, script, scans and their late results | three scans, three messages | `CountIsOfThisScan` |
| `ReviewForm` | adding and removing lines and deductions by cloning, and the parser that reads names | three lines, two deductions, seven parts made | `FormIsWhatIsSeen` |
| `ReviewLists` | a polled list: fetch, answer, swap | two changes, two fetches | run `review_lists`, a finding |

The conditions in `LockedForAReason`, `CountIsTrue`, `NoDraftLeft`, `NoOrphanPlaceholder`,
`NothingTypedIsLost`, `NoFrozenShader` and `OverlayAgreesWithCli` name the orders of events in which
the code does fail to keep them; each is a history flag of the module and is described under Known limits.

## Findings

Each is a run that TLC ends with a counterexample; `PROJECT.json` quotes what it disagrees
with.

1. `lifecycle_stranded`. A failed message is retried (`new`, its email `extracted`); before the
   scheduler gets to it, a reviewer decides on the email's last pending payment;
   `settle_email` then makes the email `done`. The message is never read, and no page
   lists it.
2. `posting_new_invoice`. Two payments in full of an invoice the ledger does not have, approved
   at once: the second waits for the advisory lock, then does not look again, and overpays
   the invoice the first created, with no flag.
3. `lifecycle_overwritten`. Two reviewers decide on one payment at once. Both requests find it pending; the
   approval commits, with its delivery row and its ledger rows; then the rejection commits and
   overwrites `approved` (`review/service.py:579`, `:601`). The design of the ledger needs no way to delete a
   posting because "nothing in the app moves an approved extraction back out of `approved`". `ApprovedUnlessCrossed`
   says that this is the only way.
4. `review_lists`. The polled list asks for rows while nothing is selected, and swaps them in when the
   answer comes: what the reviewer selected meanwhile is gone.

## Known limits

What the models or the reading of the code showed and no run states. For the pipeline:

- "Poll now" (or `tick`) starts on an email while the scheduler job is inside it: both see no live
  extraction for a message, both read it, and its payments are stored, and possibly approved and
  delivered, twice. The check and the write are `normalize/service.py:65` and `:253`, with no lock on the
  email between them. `OneReading` says that, but for such overlaps, a message is read once.
- The missing version check (finding 3 and the point above) also breaks what `InvoicePosting` promises with several reviewers, whose
  theorems assume one.
- A session that has loaded an `Invoice` before, as every line with a missing invoice makes it do (`ledger/checks.py:93`),
  gets that object again from the `SELECT ... FOR UPDATE` of a later line (`:83`), with the amounts it had: SQLAlchemy
  does not refresh it. `CheckFound` reads the row as it is under the lock. It takes an import that commits between the
  two lines to tell the difference, and the runs have no payment with a missing invoice before a known one.
- Two reviewers on the last two payments of an email: each still counts the other's, and the email
  stays in `review` with nothing pending (`pipeline/routing.py:45`).
- `edit_action` runs on the event loop and waits there for an invoice another request has locked;
  that request needs the loop to commit (`review/app.py:509`). The process stops.
- The isolation per message begins after `fetch_delta` has returned, but that is where messages are
  fetched and parsed: one that never can be makes every poll fail (`ingest/gmail_client.py:166`). The
  run `mailbox` has no such message (`Malformed = {}`).
- A message moved into a Gmail inbox is no `messageAdded` (`ingest/gmail_client.py:156`).
- A linked payment owns no key: once the owner's reference is edited away, a third payment with
  the reference claims it with no flag, though the linked one may be approved too
  (`threads/dedupe.py:95`). `NoUnseenDoublePayment` holds, as the linked one was flagged; but its flag
  then names the wrong payment.
- Weak keys are looked up without a lock: two readings at once may both go unflagged
  (`threads/dedupe.py:44`).
- Two lines of one payment that name the same new invoice in different spellings are not added up
  while the invoice is missing (`ledger/checks.py:87`). The instances have one line per missing invoice.
- Two readings that learn one table layout at once (`tables/store.py`).

For live mode, in LB unless a file is named:

- While an annotated request waits for its screenshot (7347-7392), a checkpoint may reach the server
  before the session's creation. `PlainCreationFirst` is about requests sent at once.
- A failed accept returns the tab to `CYCLING` even if it has no session by then (8750); the answer to a
  discard acts on whichever session is current (8963); an error event of an older session
  sends the tab to `PICKING` (7297).
- The faults that `GivenUpForAReason` sets apart: an element unmounted for a moment, wrappers that come
  late, a slow read, a screenshot, a user who does not wait. A read of a completed source that fails
  is not tried again (6466).
- A mount that is overtaken by another one is left to run on (5650, 5797, 5816).
- The lock of an apply may be taken by an answer that comes after its end (4089, 4318), or be
  left by an event the stream lost (4220, 4243); a decision that is disturbed keeps it too (4173).
- A save that is answered late puts the tab in `CONFIGURING` wherever it was (3799); the toggles of the
  pickers in the middle of an edit or an insert leave their traces (11635), and a completed insertion
  may leave its placeholder (6335).
- A steer request whose POST fails late unlocks the field of the next one (10708). A spoken "go" without
  words sends what is in the field (7749, 10562).
- `cleanup` while `GENERATING` does not hide the shader (9330), though the comment at 8372 says every end of
  a generation does; a slow screenshot comes to lie over the next session (8253).
- A page whose URL fits several files, with a document root above the common root, borrows the
  waivers of another file (`live-browser-ignores.js:144`): hence `Certain`.
- A detector script that fails to load is never asked for again (11684).

For the review pages: a payment that never had a deduction (or a line) gives the script nothing to clone,
so none can be added (`review.js:34`, `:50`), and an older, slower answer overwrites a newer list
(`review.js:79`).

## What is proved

`DelivererProofs` proves, for any finite or infinite sets of sessions, rows and payments and a
ladder of any length (assumption `DelivererAssumption` only: the scheduler is a worker, each
row has a payment, the ladder's length is a natural number):

| theorem | says |
|---|---|
| `TypeCorrect` | `Spec => []TypeOK` |
| `Invariance` | `Spec => []IInv` |
| `BookedOnceHolds` | `Spec => []BookedOnce` |
| `DeliveredIsBookedHolds` | `Spec => []DeliveredIsBooked` |
| `RetryWithinLadderHolds` | `Spec => []RetryWithinLadder` |
| `Refinement` | `Spec => ImplementsFeed` |

`BookedOnce` is not inductive: a payment booked once could have its key missing. `IInv` is
`TypeOK` and three facts that are:

- `OnFile`: a payment has its key on file exactly if it is booked, once; every row marked
  delivered, every payment ever reported, and every session holding the answer "ok" is
  about a key on file. This is what makes retries, late requests and crashes harmless;
- `SentIsApproved`: a payment whose request is out, answered, or late has been approved. The
  refinement needs it: the feed books only approved payments, and `Accepted` and
  `ArrivesLate` look at no status;
- `OnLadder`: a row that is pending, or not there yet, has used at most the ladder's steps.
  The case of a row not there yet is what `Queue` needs; a stale count cannot break it, as
  `Retries` compares the very count that `Commit` writes.

`IInvStep` proves the three one after the other, each with one step per action. The
refinement is proved by `FeedStep`: `Queue` is an approval, `Accepted` and `ArrivesLate` a
booking or a stutter, `Commit` of an "ok" a report, everything else a stutter.

`PaymentKeysProofs` proves, for any sets of workers, messages and payments, from `KeysAssumption`
(a payment is in one message, once; strong and weak keys are different; the reviewer is
not a worker):

| theorem | says |
|---|---|
| `KeysTypeCorrect` | `Spec => []TypeOK` |
| `KeysInvariance` | `Spec => []IInv` |
| `NoClaimCollidesHolds` | `Spec => []NoClaimCollides` |
| `KeyMatchesHeaderHolds` | `Spec => []KeyMatchesHeader` |
| `NoUnseenDoublePaymentHolds` | `Spec => []NoUnseenDoublePayment` |

Its `IInv` has, beside `TypeOK`:

- `RowsSound`: the key of a committed live row is the one its header states, or the row is
  linked, has none, and says so in a flag;
- `OneOwner`: a strong key has one owner among committed rows. With `RowsSound` this gives
  `NoUnseenDoublePayment`: two payments of one reference that are both not linked would both own it;
- `SessionsSound`: what a session is about to commit is sound, the rows it writes are unread
  (or pending, for a save) for everyone else, and, the heart of it (`Claimed`), a strong key it
  claims is locked by it *or was the row's already*, and nobody else owns it. The second case
  is a save that does not change the key and takes no lock;
- `Apart`: two sessions hold no lock in common and read no message in common.

The steps are of four sorts, a lemma each: `MessageStep` (rows and sessions as before),
`SessionStep` (one session goes on), `FreeStep` (rows nobody is writing change and own nothing
new: reject, already recorded, reprocess), `CommitStep`. In the last, if a commit made a row own
a key that another session claims, one of them would hold the key's lock and the other's
row would have owned the key before, which the lock's holder would have seen.

`MailboxPollProofs` proves, for any sessions, messages and providers, `PollTypeCorrect`
(`Spec => []TypeOK`), `PollInvariance` and `CursorLeavesNothingHolds`. `CursorLeavesNothing` speaks of the
cursor in the table only; the invariant `PollInv` says of every session also that the cursor it began
with leaves nothing (`Settled`), and that of the messages up to the cursor it is going to write each is
known or in the session's own hands: listed, to be stored, written, or given up (`Covers`). What
carries both over the steps of others is `Lasting`: the log grows, the inbox shrinks, and
what is known stays known.

`EmailLifecycleProofs` proves, for any workers, reviewers, emails, messages, bodies and readings, from
`LifecycleAssumption` (positions in an email are distinct and begin at 0):

| theorem | says | about |
|---|---|---|
| `LifecycleInvariance`, `LifecycleTypeCorrect` | `[]TInv`, `[]TypeOK` | everything |
| `ReviewInvariance`, `QueuedIffApprovedHolds`, `ApprovedUnlessCrossedHolds` | `[]VInv`, `[]QueuedIffApproved`, `ApprovedUnlessCrossed` | payments that are not `crossed` |
| `PipelineInvariance`, `ContentReadOnceHolds`, `OneReadingHolds` | `[]CInv`, `[]ContentReadOnce`, `[]OneReading` | emails that are not `contended` |
| `FirstPassInvariance`, `FirstPassStrandsNothingHolds` | `[]FInv`, `[]FirstPassStrandsNothing` | emails that are neither `contended` nor `retried` |

No theorem assumes how many workers or reviewers there are: what an overlap of two of them does to an email
stays with that email, and the theorems say so of every other one. The four invariants
build on each other, and each says what a session read is still so when it
commits, which is all a commit without a version check can rely on:

- `TInv`: types, also of what workers and requests hold, and that a crossed row's email is contended;
- `VInv`: of each row that is not crossed, the queue holds what its status says (`QueuedRight`), and a
  request about it finds it pending, or not posted, until it commits or another request commits over it (`StillOpen`):
  workers only add rows (`RowsGrow`), and a second request that changes it makes it crossed;
- `CInv`: of each email that is not contended (`Steady`): a new one has no sources and stays new until its turn (`Sound`);
  a request is about an email that has been extracted or is in error (`Warranted`); and the counts and messages a
  worker read for a step have not changed (`StillTrue`). Several workers may have such an email in their batches, and even be
  inside a step on it; the first of them to finish makes it contended;
- `FInv`: an email that is not contended and that nobody has retried is in `review` while a payment of it is
  pending (`Listed`), so that no worker has it (`Sees`) and the request about it counted right (`InForce`). `CommitRetryMessage` is
  what breaks it, and the finding `lifecycle_stranded` shows how; hence `retried`.

`InvoicePostingProofs` proves, from `RulesAssumption` and `PostingAssumption`, for any books, lines, files and
sessions, `PostingInvariance` (`[]TInv`) and `PostingTypeCorrect`, and for one reviewer and any workers
`PostedAsApprovedHolds` (the rows of an approved payment in the ledger are those its lines ask for, and a payment
that is not approved has none) and `LoadedOverpaymentsWereShown` (no approval leaves an invoice overpaid that was in
the books from the start unless the payment's flags said so; where all invoices were, this is
`OverpaymentWasShown`: `OverpaymentWasShownHolds`).

- `TInv`: what each session holds, by what it is doing; the ledger is finite. That the postings' amounts are
  integers rests on sums over finite sets, and the turn through the lines on a recursive function
  (`Ordered`), both by the induction of `DataLemmas`;
- `PInv`: what a session has inserted, uncommitted, is exactly what it decided (`WritesWhatItDecides`), and nobody
  has decided on its payments meanwhile (`IsCurrent`). The second half is what one reviewer gives; a worker's
  payments are unread until it commits them, and no two workers read one message. So no two sessions ever decide
  on a payment (`OwnPayments`), and a commit adds the rows of its own payments only.
- `OInv`, which TLC checked on the run `posting` before it was proved: an invoice of the books stays known, and its
  row lock is held by one session until that session ends (`Exclusive`). What a check has
  counted for such an invoice is what the lines behind it will post: the payments of the ledger and those rows
  (`Ahead`) come to those of the ledger now and `earlier`; the invoice is locked, and told of if that is too much
  (`Counted`). The flags of a decision tell of what it overpays (`Told`), an open form shows the flags of its payment,
  and an import holds the invoices it writes. A line more adds what it settles (`CheckCounts`), an approval finds
  its flags telling (`ApprovalTells`), and a commit changes only invoices the session had locked, which no other
  session has counted (`EndWatches`). It is about invoices of the books only because for a missing one
  the lookup is not repeated under the advisory lock (finding 2).

`PostingImplementsLedger` is the refinement: with one reviewer at a time, and all invoices in the books from the start,
`Spec => ImplementsLedger`. The abstract step happens at the commit: a worker's is `Read` of its message, a
reviewer's `Save`, `Approve` or `Record`, an import's `Import`; every other step leaves the tables alone. A
decision is committed long after it was made, so the theorem rests on one more invariant, `RInv`, which TLC checked first
with every invoice loaded. It says that what each session has found and decided so far is what the committed ledger,
as it stands now, would give (`Follows`):

- a check under way has found what the lines behind it find in the ledger the session sees (`Scanned`, `Scan`);
- the flags of the n-th payment decided on are `FlagsOf` of the ledger with what the session has inserted for the payments
  before it, its rows are `PostsOf`, and the invoices it names are locked (`AsDecided`);
- a recording posts what is stored (`AsRecorded`), and an import's new flags are those of the ledger it leaves (`AsRefreshed`).

A commit of another session keeps this because flags depend on the invoices of the payment only (`FlagsSame`, over
the fold of `FlagsOf`), and those are locked (`FollowKeeps`). What `Read` folds over the payments of a message
is then the ledger plus the rows of each (`AfterIs`). With an invoice missing from the books the abstract step does not
exist: two payments are both flagged as of the ledger without it (finding 2).

`DataLemmas` has what those proofs keep needing and TLAPS's library states for operators only: a set of numbers has a
least one, a set that holds 0 and each next number holds all, a function with a recursive
equation exists, a sum over a finite set of integers is an integer, is what adding its elements gives in any order,
and depends only on what the set's own elements count; and what `RemoveAt` leaves of a sequence.

`LivePanelsProofs` has a part for each of these modules, which share nothing:

| theorem | of | for any | the invariant |
|---|---|---|---|
| `SweepInvariance`, `SweepTypeCorrect`, `NoReloadOverWorkHolds` | `LiveSweep` | sessions, configurations, reloads | a configuration has a revision of its own, a current session is not handled (`ModeSound`), a timer belongs to a handled session and, if no configuration began since, none is open (`TimersSound`): so the test of revision and current session, all that guards a reload, suffices |
| `HiddenIsWatchedHolds` | `LiveSweep` | the same | a hidden wrapper has one of the three timers of a discard on it (`HiddenHasTimer`) |
| `NoReloadLoopHolds` | `LiveSweep` | the same | once a tab has reloaded of its own, every timer is of a handled wrapper that it shows and was paid for by a stamp, and the reloads so far, with one that may be pending, are at most the stamps (`Used`) and one (`LoopFuel`). A session has at most two stamps, hence the bound |
| `OverlayInvariance`, `NoFrozenShaderHolds`, `NothingStaysHolds` | `LiveOverlay` | screenshots, epochs | a build of the present epoch belongs to a generation that still runs (`BuildsSound`): every end of one but `cleanup`'s begins a new epoch |
| `NothingTypedIsLostHolds` | `LiveSteer` | messages, texts | a locked field shows the message it waits for, an unlocked one waits for none (`LockSound`) |
| `EveryFailureIsReportedHolds`, `NoSilentWaitHolds` | `LiveMount` | variants, calls, publications | what is remembered as reported was so while every injection ran (`FailuresHeard`); a component that is not cycling is still being mounted (`FirstMounts`); a tab that generates over a publication it has heard of has a card, waits, or injects (`WaitHasCause`) |
| `CountIsOfThisScanHolds` | `LiveDetect` | scans, counts | a scan is asked for, then at work, then answered, once each (`ScansSound`); what removes overlays precedes the scan asked for since (`RemovesSound`); the activation's scan is under way or is what the count is of (`Answered`) |
| `OverlayAgreesWithCliHolds` | `LiveIgnores` | directories, leaves, waivers | none: a page's file is one of the candidates that its URL gives, by the ways a path splits into a directory and the rest |
| `ManualInvariance`, `LockedForAReasonHolds` | `LiveManualApply` | edits, requests, events, faults | while an event that locks the dock is on its way (`LocksEnd`), or the dock is locked (`HotHasReason`), an end of the apply is still to come, or a request is under way whose answer decides |
| `CountIsTrueHolds` | `LiveManualApply` | the same | answers under way and the last event with a count are true (`AnswersTrue`, `LastTrue`); without such an event the count is shown or asked for (`CountComes`) |
| `ModesInvariance`, `ModesTypeCorrect`, `NoDraftLeftHolds`, `NoOrphanPlaceholderHolds` | `LiveModes` | (no constants) | texts are editable, changed or being saved as they stand only in EDITING, and a session is in one of its three modes (`TextsKept`, unless a save was late or an error came); the placeholder is of the insert that is configured, or of its session before CYCLING (`Owned`, unless something of `Strange` happened). Every way out of a mode is a sequence of the same four steps, each with its lemma (`InsertClears`, `DraftsRestore`, `InlineEditDisables`, `BarHides`) |
| `FormIsWhatIsSeenHolds` | `ReviewForm` | lines, deductions, parts made | lines and the deductions of each box are numbered from 0 as they stand, and a deduction, its box and its button have the number of their line (`LinesSound`, `BoxSound`). So no two fields share a name, and sorting by number gives the order of the page (`NumberedOrder`) |

`LiveSessionProofs` proves, for any sessions, faults, breaks and variants, from `PageAssumption` (null is
no session id, the handled list keeps at least one entry), `SessionInvariance`, `WorkIsStoredHolds` and `PlainCreationFirstHolds`,
and with `SessionAssumption` (the sets of faults are of faults) `HandledInvariance`, `SessionTypeCorrect` and
`NoResurrectionHolds`. The invariant `SInv` has:

- `WorldSound`: a session the server does not know has no wrapper in page or source, and one it knows
  was given out by this tab;
- `Sound` of the tab: the current session is the stored one, whatever the mode; and, if requests are sent at
  once, `Ordered`: a session has one creation, and while that is under way the server does not know
  the session, its checkpoints wait behind the gate for it, and the tab, if it stores the session, works on it,
  with the gate closed. The last part is what keeps a checkpoint from slipping past: a session can only be
  taken up again from a wrapper or the server's list, which a session under way has not got.

`Sound` is about a tab as a value, so there is one lemma per helper of `LivePage` (some forty), each saying that
the helper maps a sound tab to a sound tab; a step cites the lemma of its handler.

`NoResurrection` is about the handled list, which loses its oldest entry when it is full. `HInv` says that
the list holds the latest of the finished sessions, each once and as many as fit (`Latest`), and that the tab works on
none of them (`Tally`). Each handler has one more lemma: it leaves the list alone and takes up no session that is on it
(`TookUp`), or it is the one that marks a session and appends it to the finished ones. `LatestMarked` carries `Latest` over the marking
of a session, by whether and where it was listed, and whether the list is full.

Only model-checked, and why:

- liveness (`EveryDeliverySettles`, `EmailComesOut`, `EveryMessageComesIn`): TLAPS has no rule for fairness;
- `ImplementsLedger` and `OverpaymentWasShown` of `InvoicePosting` where an invoice is not in the books from the start: they do
  not hold for every value of the constants. Two payments of such an invoice break them (finding 2), and with two requests
  so does the missing version check. The run `posting` has such an invoice, in one payment;
- `GivenUpForAReason` of `LiveSession`: with more sessions than the run has, the late answer of a discard may be a further reason;
- `CompletedIsShown` of `LiveSession`: needs an invariant that follows every read to the completion it is for;
- `PanelsTypeOK`: of the module for TLC. The types of `LiveMount`, `LiveSweep`, `LiveModes`, `LiveSteer`, `LiveOverlay` and
  `LiveDetect` are in the theorems; those of the other parts are only checked by this run;
- the findings, each of which is about an order of events that does occur.

## Not modelled

- Learned mappings and table reading (`tables/`): a reading's content is a nondeterministic choice in
  `EmailLifecycle`.
- `threads-backfill`, which gives keys to rows from before migration 0005, once.
- The splitter, the extractors, the LLM client: conversions whose result is likewise a choice.
- Invoice matching, adjustments and validators beyond what `LedgerRules` uses of them: arithmetic on
  one payment with no state.
- Sign-in, queries, rendering, settings, blob storage, demonstration scripts, the stub backend: no
  state machine of their own.
- Row locks and the batch limit of 20 in `Deliverer`: a lock only removes interleavings, and
  the rows fit in one batch.
- In live mode: everything drawn (bars, panels, cards, the picker's outlines, parameters of variants),
  strokes and notes of an annotation, `modern-screenshot.umd.js` (third-party, minified) and
  `live-browser-dom.js` (geometry and element descriptions, no state). The server, the agent and the
  dev server are external.

## Plan

1. Done: delivery, email lifecycle, ledger, payment keys, mailbox, with the proofs above; live mode's
   session and parts; the review pages' form and lists.
2. Not done: an abstract register of strong keys that `PaymentKeys` implements; the mapping store;
   exclusivity of the advisory locks of `InvoicePosting`, and of its row locks with several
   reviewers (with one it is in `OInv`), as theorems; `CompletedIsShown` of `LiveSession`.
