------------------------------- MODULE LivePage -------------------------------
(***************************************************************************)
(* What one tab of live mode keeps and what its handlers do to it          *)
(* (.github/skills/impeccable/scripts/live-browser.js and                  *)
(* live-browser-session.js).  Handlers run to completion, so each is an    *)
(* operator from the tab before to the tab after; LiveSession makes steps  *)
(* of them.                                                                *)
(*                                                                         *)
(* Left out: everything drawn, the kind of pick (LiveModes), where an      *)
(* element is found again, parameters, and sessions of compiled components *)
(* (LiveMount).  A session has Variants variants; which of them is looked  *)
(* at does not matter here.                                                *)
(***************************************************************************)
EXTENDS Integers, FiniteSets, SequencesExt

CONSTANTS
  Sessions,    \* session ids, each used by one Go
  NoId,        \* null
  Variants,    \* expectedVariants
  HandledCap,  \* how many handled ids localStorage keeps (8 in the code)
  Retries      \* COMPLETED_SOURCE_FALLBACK_RETRIES (3 in the code)

ASSUME PageAssumption ==
  /\ NoId \notin Sessions
  /\ Variants \in Nat \ {0}
  /\ HandledCap \in Nat \ {0}
  /\ Retries \in Nat

Ids == Sessions \cup {NoId}
Missing == -1                             \* no variants wrapper
Counts == 0 .. Variants
Wrappers == [Sessions -> {Missing} \cup Counts]

\* localStorage's record of a session.
States == {"IDLE", "PICKING", "CONFIGURING", "GENERATING", "CYCLING", "SAVING"}
SavedState == [id : Sessions, st : States, arrived : Counts, file : BOOLEAN]
NotSaved == [id |-> NoId]

\* POSTs to /events from the call to the answer: behind the creation gate, under way, answered.
Posts == [kind : {"generate", "accept", "discard", "orphaned", "checkpoint"}, id : Sessions,
          at : {"gated", "sent", "ok", "refused", "unknown"}, gate : Ids]

\* Reads of a source file by the fallback: waiting for their timer, or fetching.
Reads == [id : Sessions, completed : BOOLEAN, orphanDiscard : BOOLEAN, attempt : 0 .. Retries,
          at : {"timer", "fetch"}]

\* The tab: the variables of the script with the code's names, the POSTs and reads it
\* waits for, and the two keys of localStorage.
Tab ==
  [state : States,
   current : Ids, arrived : Counts, sourceFile : BOOLEAN,
   observed : Ids,            \* the session the variant observer is for
   scout : BOOLEAN,           \* init's deferred-wrapper scout
   waiting : Ids,             \* pendingVariantAnchorRetryObserver
   pending : Ids,             \* pendingAcceptedSession
   awaiting : Ids,            \* awaitingAcceptResult
   capture : Ids,             \* captureAndEmit before the POST of an annotated request
   gate : Ids,                \* the creation that sessionCreationGate waits for
   posts : SUBSET Posts, reads : SUBSET Reads,
   saved : SavedState \cup {NotSaved}, handled : Seq(Sessions)]

----------------------------------------------------------------------------
(* Persistence.                                                            *)

SaveSession(t) ==
  IF t.current = NoId THEN t
  ELSE [t EXCEPT !.saved = [id |-> t.current, st |-> t.state, arrived |-> t.arrived, file |-> t.sourceFile]]

ClearSession(t) == [t EXCEPT !.saved = NotSaved]

IsHandled(t, id) == id \in ToSet(t.handled)

\* The ids but id; an id is listed once.
Without(ids, id) ==
  IF id \notin ToSet(ids) THEN ids ELSE RemoveAt(ids, CHOOSE i \in DOMAIN ids : ids[i] = id)

\* Mutant of MarkHandled: the list is not cut.
MarkHandledForever(t, id) ==
  IF id = NoId THEN t ELSE [t EXCEPT !.handled = Append(Without(@, id), id)]

MarkHandled(t, id) ==
  IF id = NoId THEN t
  ELSE LET ids == Append(Without(t.handled, id), id)
       IN [t EXCEPT !.handled = SubSeq(ids, IF Len(ids) > HandledCap THEN 2 ELSE 1, Len(ids))]

----------------------------------------------------------------------------
(* Talking to the server.                                                  *)

\* Mutant of SendEvent: progress does not wait for the creation.
SendEventAtOnce(t, kind, id) ==
  [t EXCEPT !.posts = @ \cup {[kind |-> kind, id |-> id, at |-> "sent", gate |-> NoId]}]

\* sendEvent: what creates a session goes out at once and closes the gate; everything
\* else waits for the creation that the gate held when it was called.
SendEvent(t, kind, id) ==
  IF kind = "generate"
  THEN [t EXCEPT !.posts = @ \cup {[kind |-> kind, id |-> id, at |-> "sent", gate |-> NoId]}, !.gate = id]
  ELSE [t EXCEPT !.posts = @ \cup {[kind |-> kind, id |-> id, gate |-> t.gate,
                                    at |-> IF t.gate = NoId THEN "sent" ELSE "gated"]}]

SendCheckpoint(t) == IF t.current = NoId THEN t ELSE SendEvent(t, "checkpoint", t.current)

----------------------------------------------------------------------------
(* The end of a session.                                                   *)

\* cleanup(): it leaves alone what is pending or awaited of an accept, the counters and timers.
Cleanup(t) ==
  [ClearSession(t) EXCEPT !.observed = NoId, !.waiting = NoId, !.sourceFile = FALSE,
                          !.current = NoId, !.state = "PICKING"]

CleanupAcceptedSession(t) ==
  [ClearSession(t) EXCEPT !.observed = NoId, !.sourceFile = FALSE, !.current = NoId,
                          !.pending = NoId, !.state = "PICKING"]

AbandonForeignSession(t, id) == IF id = t.current THEN Cleanup(MarkHandled(t, id)) ELSE t

DiscardOrphanedSession(t) ==
  IF t.current = NoId THEN t
  ELSE Cleanup(MarkHandled(SendEvent(t, "orphaned", t.current), t.current))

RecoverEmptyCycling(t) == Cleanup(t)

----------------------------------------------------------------------------
(* Reading variants from the source file when no hot reload brings them.   *)

AddRead(t, id, completed, orphanDiscard, attempt, at) ==
  [t EXCEPT !.reads = @ \cup {[id |-> id, completed |-> completed, orphanDiscard |-> orphanDiscard,
                               attempt |-> attempt, at |-> at]}]

\* setTimeout before another attempt.
RetryRead(t, r) == AddRead(t, r.id, r.completed, r.orphanDiscard, r.attempt + 1, "timer")

\* A wrapper with count variants is in the page for the session of the read.
CompleteSourceInjection(t, r, count) ==
  LET u == [t EXCEPT !.waiting = NoId, !.arrived = count]
  IN IF count > 0 THEN SaveSession([u EXCEPT !.state = "CYCLING"])
     ELSE IF t.state = "GENERATING" /\ ~r.completed THEN u
     ELSE IF t.state = "GENERATING" /\ r.attempt < Retries THEN RetryRead(u, r)
     ELSE RecoverEmptyCycling(u)

\* injectVariantsFromSource up to its fetch; JSX is never injected, its file is read only
\* to see whether the wrapper is still there.
InjectVariantsFromSource(t, r, jsx, dom) ==
  LET u == [t EXCEPT !.sourceFile = TRUE]
      fetching == AddRead(u, r.id, r.completed, r.orphanDiscard, r.attempt, "fetch")
  IN CASE ~jsx -> fetching
       [] jsx /\ dom[r.id] > 0 -> CompleteSourceInjection(u, r, dom[r.id])
       [] jsx /\ dom[r.id] <= 0 /\ r.completed /\ r.id = t.current ->
            IF r.attempt < Retries THEN RetryRead(u, r)
            ELSE IF dom[r.id] = Missing THEN u
            ELSE RecoverEmptyCycling(u)
       [] jsx /\ ~(r.completed /\ r.id = t.current) /\ dom[r.id] <= 0 ->
            IF r.orphanDiscard /\ dom[r.id] = Missing /\ r.id = t.current THEN fetching ELSE u

Working(t, r) == r.id = t.current /\ t.state \in {"GENERATING", "CYCLING"}

\* The source holds no wrapper of the session, or the file is gone.
WrapperMissing(t, r) ==
  IF ~r.orphanDiscard \/ ~(r.id = t.current) THEN t
  ELSE IF r.attempt < Retries THEN RetryRead(t, r)
  ELSE DiscardOrphanedSession(t)

\* probeJsxWrapperForOrphan: found is what the text says, or "unreadable".
ProbeAnswered(t, r, found) ==
  CASE ~Working(t, r) \/ found = "present" -> t
    [] Working(t, r) /\ found = "absent" -> WrapperMissing(t, r)
    [] Working(t, r) /\ found = "unreadable" -> IF r.attempt < Retries THEN RetryRead(t, r) ELSE t

\* enterRecoveryWaitingForAnchor: the element the variants belong to is not in the page.
EnterRecoveryWaitingForAnchor(t, id) ==
  SendCheckpoint(SaveSession([t EXCEPT !.state = "GENERATING", !.waiting = id]))

----------------------------------------------------------------------------
(* The start of a session, and taking one up again.                        *)

\* handleGo and handleInsertCreate: an annotated request is captured and uploaded before
\* it is sent, a plain one is sent first.
StartGeneration(t, id, annotated) ==
  LET u == SaveSession([t EXCEPT !.pending = NoId, !.awaiting = NoId, !.current = id, !.arrived = 0,
                                 !.sourceFile = FALSE, !.state = "GENERATING", !.observed = id])
  IN IF annotated THEN [u EXCEPT !.capture = id] ELSE SendEvent(u, "generate", id)

\* A session on the server, as the snapshot of the 'connected' event describes it.
ActiveSession == [id : Sessions, arrived : Counts, completed : BOOLEAN, file : BOOLEAN, terminal : BOOLEAN]

\* findActiveSessionSummary: the server's summary of a session that is not over.
Summary(id, active) == {a \in active : a.id = id /\ ~a.terminal}

\* findAdoptableServerSession, for a browser with no record of its own.
Adoptable(t, active) == {s \in active : ~s.terminal /\ ~IsHandled(t, s.id) /\ s.file}

\* What restoreSessionWithoutWrapper may take up: the saved session, or one to adopt.
Restorable(t, active) ==
  IF t.saved = NotSaved
  THEN {[id |-> s.id, st |-> "GENERATING", arrived |-> s.arrived, file |-> s.file] : s \in Adoptable(t, active)}
  ELSE {s \in {t.saved} :
          /\ ~IsHandled(t, s.id)
          /\ s.st \in {"GENERATING", "CYCLING"}
          /\ active = {} \/ Summary(s.id, active) # {}}

\* restoreSessionWithoutWrapper with the session chosen.
RestoreSession(t, s, active, jsx, dom) ==
  LET server == Summary(s.id, active)
      file == s.file \/ \E a \in server : a.file
      arrived == IF s.arrived > 0 \/ server = {} THEN s.arrived
                 ELSE (CHOOSE a \in server : TRUE).arrived
      u == SendCheckpoint(SaveSession(
             [t EXCEPT !.current = s.id, !.sourceFile = file, !.arrived = arrived,
                       !.state = "GENERATING", !.observed = s.id]))
  IN IF file
     THEN InjectVariantsFromSource(u, [id |-> s.id, completed |-> FALSE, attempt |-> 0,
                                       orphanDiscard |-> s.st = "CYCLING"], jsx, dom)
     ELSE u

\* Mutant of RecoverMissedCompletion: only a stored session that was restored is looked at.
RecoverNothingMissed(t, active) == t

\* recoverMissedGenerationCompletion: the 'done' this tab may have missed.
RecoverMissedCompletion(t, active) ==
  IF /\ t.state = "GENERATING" /\ t.arrived < Variants
     /\ \E a \in Summary(t.current, active) : a.completed
  THEN AddRead([t EXCEPT !.sourceFile = TRUE], t.current, TRUE, FALSE, 0, "timer")
  ELSE t

\* The wrappers that findAnyVariantsWrapper may return: a populated one if there is one.
AnyWrapper(dom) ==
  LET populated == {w \in Sessions : dom[w] > 0}
  IN IF populated # {} THEN populated ELSE {w \in Sessions : dom[w] # Missing}

\* resumeSession over a wrapper: of a handled session it is left to LiveSweep, unless a
\* newer session is saved, which is restored; of any other session it is taken up.
ResumeWrapper(t, w, jsx, dom) ==
  IF IsHandled(t, w)
  THEN IF t.saved.id \in {NoId, w, t.current} \/ Restorable(t, {}) = {} THEN t
       ELSE RestoreSession(t, t.saved, {}, jsx, dom)
  ELSE SendCheckpoint(SaveSession(
         [t EXCEPT !.current = w, !.arrived = dom[w], !.observed = w,
                   !.sourceFile = @ \/ (t.saved.id = w /\ t.saved.file),
                   !.state = IF dom[w] > 0 THEN "CYCLING" ELSE "GENERATING"]))

\* resumeSession without any wrapper in the page.
ResumeWithoutWrapper(t, jsx, dom) ==
  IF Restorable(t, {}) = {} THEN ClearSession(t)
  ELSE RestoreSession(t, t.saved, {}, jsx, dom)

\* The variant observer of session w, run because the page has changed.
VariantsObserved(t, dom) ==
  LET w == t.observed
  IN IF w = NoId \/ dom[w] <= t.arrived THEN t
     ELSE SendCheckpoint(SaveSession([t EXCEPT !.arrived = dom[w], !.state = "CYCLING"]))
=============================================================================
