----------------------------- MODULE LiveSession -----------------------------
(***************************************************************************)
(* A tab of live mode and what it works with: the user, the live server,   *)
(* the agent that writes variants into the source, and the hot reload that *)
(* brings the source into the page.  The tab's handlers are those of       *)
(* LivePage; server, agent and hot reload are outside the repository and   *)
(* do here what the handlers expect of them.                               *)
(*                                                                         *)
(* Server events may be late and are lost while the stream is down;        *)
(* requests are answered in any order, and the page may be reloaded at any *)
(* time, by the user or by a framework.                                    *)
(***************************************************************************)
EXTENDS LivePage

CONSTANTS
  FaultSets,    \* the sets of faults (see below) that behaviours may begin with
  MaxEvents,    \* bound: server events on their way to the tab
  MaxBreaks     \* bound: reloads, broken connections and failing requests

VARIABLES
  faults,     \* what may go wrong in this behaviour, beside reloads and lost connections
  jsx,        \* whether the picked elements are in JSX files
  tab,        \* the tab
  dom,        \* the wrapper of each session in the page, and how many variants it holds
  source,     \* the same of the source files
  server,     \* what the server's journal says of each session
  events,     \* server events on their way
  link,       \* the event stream of this tab
  used,       \* the ids given out
  finished,   \* history: the ids whose end this tab has processed, the latest last
  breaks      \* how many reloads, broken connections and failing requests there were

world == <<dom, source, server>>
vars == <<faults, jsx, tab, world, events, link, used, finished, breaks>>

\* unmount:  the element is inside something that opens and closes (a dialog, a route)
\* accept:   the agent fails after it was told of an accept
\* reply:    an accept is carried out and its answer lost
\* elsewhere: the session is discarded from the command line or another tab
\* hasty:    the user decides again, or starts anew, before a decision is answered
\* capture:  requests are annotated, so they are captured before they are sent
\* unreadable: the source cannot be read for a moment
\* late:     a loaded page gets its wrappers only afterwards (hydration)
\* slow:     a source read is answered after the page has moved on
FaultNames == {"unmount", "accept", "reply", "elsewhere", "hasty", "capture", "unreadable", "late", "slow"}

ASSUME SessionAssumption ==
  /\ FaultSets \subseteq SUBSET FaultNames
  /\ MaxEvents \in Nat
  /\ MaxBreaks \in Nat

\* none -> requested -> generating -> ready -> accepting -> over, or discarding -> over
ServerStates == {"none", "requested", "generating", "ready", "accepting", "discarding", "over"}
EventTypes == {"progress", "done", "complete", "error", "discarded"}

TypeOK ==
  /\ faults \subseteq FaultNames
  /\ jsx \in BOOLEAN
  /\ tab \in Tab /\ Len(tab.handled) <= HandledCap
  /\ dom \in Wrappers /\ source \in Wrappers
  /\ server \in [Sessions -> ServerStates]
  /\ \A i \in DOMAIN events : events[i] \in [type : EventTypes, id : Sessions]
  /\ link \in {"connecting", "up", "dead"}
  /\ used \subseteq Sessions
  /\ finished \in Seq(Sessions)

\* The script's variables when a page has just loaded.
FreshTab(saved, handled) ==
  [state |-> "IDLE", current |-> NoId, arrived |-> 0, sourceFile |-> FALSE, observed |-> NoId,
   scout |-> FALSE, waiting |-> NoId, pending |-> NoId, awaiting |-> NoId, capture |-> NoId,
   gate |-> NoId, posts |-> {}, reads |-> {}, saved |-> saved, handled |-> handled]

NoWrapper(d) == \A s \in Sessions : d[s] = Missing

\* state === 'IDLE' && (pickActive || insertActive)
Settle(t) == IF t.state = "IDLE" THEN [t EXCEPT !.state = "PICKING"] ELSE t

\* init(): resumeSession, then the scout if nothing was resumed or no wrapper was seen.
Loaded(saved, handled, d) ==
  LET t == FreshTab(saved, handled)
      found == IF NoWrapper(d) THEN {ResumeWithoutWrapper(t, jsx, d)}
               ELSE {ResumeWrapper(t, w, jsx, d) : w \in AnyWrapper(d)}
  IN {Settle([u EXCEPT !.scout = u.current = NoId \/ NoWrapper(d)]) : u \in found}

Init ==
  /\ faults \in FaultSets
  /\ jsx \in BOOLEAN
  /\ dom = [s \in Sessions |-> Missing] /\ source = dom
  /\ server = [s \in Sessions |-> "none"]
  /\ tab \in Loaded(NotSaved, <<>>, dom)
  /\ events = <<>> /\ link = "connecting" /\ used = {} /\ finished = <<>> /\ breaks = 0

----------------------------------------------------------------------------
(* A session is finished when this tab lets it go on a confirmed accept or  *)
(* discard, on an event that ends it, or on evidence that it is gone.       *)

Finishing ==
  finished' = IF tab'.current = tab.current \/ tab.current = NoId THEN finished
              ELSE Append(Without(finished, tab.current), tab.current)

Quiet == UNCHANGED <<faults, jsx, used>>
Unbroken == UNCHANGED breaks
Break == breaks < MaxBreaks /\ breaks' = breaks + 1

\* With the element in a JSX file or the page as the only writer, a read is answered at once
\* unless "slow": no other step of the tab comes between.
Prompt == "slow" \in faults \/ \A r \in tab.reads : r.at # "fetch"

----------------------------------------------------------------------------
(* The user.                                                               *)

User == Prompt /\ Unbroken /\ UNCHANGED <<faults, jsx, world, events, link>>

\* handleClick or Enter on an element that can be picked.
Pick ==
  /\ User /\ UNCHANGED <<used, finished>>
  /\ tab.state = "PICKING"
  /\ tab' = [tab EXCEPT !.state = "CONFIGURING"]

\* Escape, or a click outside.
ExitConfigure ==
  /\ User /\ UNCHANGED <<used, finished>>
  /\ tab.state = "CONFIGURING"
  /\ tab' = [tab EXCEPT !.state = "PICKING"]

Go(id) ==
  /\ User /\ UNCHANGED finished
  /\ tab.state = "CONFIGURING" /\ id \notin used
  /\ "hasty" \in faults \/ \A p \in tab.posts : p.kind \notin {"accept", "discard"}
  /\ tab' = StartGeneration(tab, id, "capture" \in faults)
  /\ used' = used \cup {id}

Undecided ==
  "hasty" \in faults \/ \A p \in tab.posts : p.kind \in {"accept", "discard"} => p.id # tab.current

\* handleAccept
Accept ==
  /\ User /\ UNCHANGED <<used, finished>>
  /\ tab.state = "CYCLING" /\ tab.pending = NoId
  /\ tab.current # NoId /\ tab.arrived > 0 /\ Undecided
  /\ tab' = SendEvent(SaveSession([tab EXCEPT !.state = "SAVING", !.pending = tab.current]),
                      "accept", tab.current)

\* handleDiscard
Discard ==
  /\ User /\ UNCHANGED <<used, finished>>
  /\ tab.state = "CYCLING" /\ tab.current # NoId
  /\ Undecided
  /\ tab' = SendEvent(tab, "discard", tab.current)

\* captureAndEmit once the screenshot of an annotated request is uploaded, or has failed.
EmitCaptured ==
  /\ User /\ UNCHANGED <<used, finished>>
  /\ tab.capture # NoId
  /\ tab' = SendEvent([tab EXCEPT !.capture = NoId], "generate", tab.capture)

----------------------------------------------------------------------------
(* Answers to POSTs.                                                       *)

\* Mutant of AcceptAnswered: a handled mark that is set when the agent is done, not now.
AcceptAnsweredUnmarked(t, p) ==
  IF p.at = "ok"
  THEN IF t.pending # p.id THEN t
       ELSE [CleanupAcceptedSession(t) EXCEPT !.awaiting = p.id]
  ELSE [t EXCEPT !.state = "CYCLING", !.pending = IF @ = p.id THEN NoId ELSE @]

\* handleAccept's then (with the microtask of scheduleAcceptCleanup, which no task can
\* precede) and its catch.
AcceptAnswered(t, p) ==
  IF p.at = "ok"
  THEN IF t.pending # p.id THEN t
       ELSE [CleanupAcceptedSession(MarkHandled(t, t.current)) EXCEPT !.awaiting = p.id]
  ELSE [t EXCEPT !.state = "CYCLING", !.pending = IF @ = p.id THEN NoId ELSE @]

\* handleDiscard's then: whatever session is current.
DiscardAnswered(t, p) ==
  IF p.at = "ok" THEN Cleanup(MarkHandled(t, t.current)) ELSE t

\* The end of a creation opens the gate to what waited for it.
GenerateAnswered(t, p) ==
  LET u == [t EXCEPT !.gate = IF @ = p.id THEN NoId ELSE @,
                     !.posts = {IF q.at = "gated" /\ q.gate = p.id
                                THEN [q EXCEPT !.at = "sent", !.gate = NoId] ELSE q : q \in @}]
  IN IF p.at = "ok" /\ t.current = p.id THEN SendCheckpoint(u) ELSE u

Answered(p) ==
  /\ p \in tab.posts /\ p.at \in {"ok", "refused", "unknown"}
  /\ LET t == [tab EXCEPT !.posts = @ \ {p}]
     IN tab' = CASE p.kind = "generate" -> GenerateAnswered(t, p)
                 [] p.kind = "accept" -> AcceptAnswered(t, p)
                 [] p.kind = "discard" -> DiscardAnswered(t, p)
                 [] p.kind = "checkpoint" /\ p.at = "unknown" -> AbandonForeignSession(t, p.id)
                 [] OTHER -> t
  /\ Finishing
  /\ Quiet /\ Unbroken /\ UNCHANGED <<world, events, link>>

----------------------------------------------------------------------------
(* Server events.                                                          *)

OnDone(t, id) ==
  LET u == [t EXCEPT !.sourceFile = TRUE]
  IN IF t.arrived = Variants
     THEN IF t.state = "GENERATING" THEN [u EXCEPT !.state = "CYCLING"] ELSE u
     ELSE IF id = t.current /\ t.state = "GENERATING" THEN AddRead(u, id, TRUE, FALSE, 0, "timer")
     ELSE u

\* Mutant of OnComplete: whatever session is current is taken for the accepted one.
OnCompleteAny(t, id) == CleanupAcceptedSession(MarkHandled(t, t.current))

\* complete: the agent has promoted the accepted variant (maybeCompleteAcceptedSession).
OnComplete(t, id) ==
  LET u == [t EXCEPT !.awaiting = IF @ = id THEN NoId ELSE @]
  IN IF t.pending # id THEN u
     ELSE IF t.current \notin {NoId, id} THEN [u EXCEPT !.pending = NoId]
     ELSE CleanupAcceptedSession(MarkHandled(u, t.current))

\* Mutant of OnError: the stored record is dropped whichever session it is of.
OnErrorForgetting(t, id) ==
  CASE t.pending = id -> [t EXCEPT !.pending = NoId, !.awaiting = NoId, !.state = "CYCLING"]
    [] t.pending # id /\ t.awaiting = id -> [t EXCEPT !.awaiting = NoId]
    [] t.pending # id /\ t.awaiting # id -> [ClearSession(t) EXCEPT !.awaiting = NoId]

OnError(t, id) ==
  CASE t.pending = id -> [t EXCEPT !.pending = NoId, !.awaiting = NoId, !.state = "CYCLING"]
    [] t.pending # id /\ t.awaiting = id -> [t EXCEPT !.awaiting = NoId]
    [] t.pending # id /\ t.awaiting # id /\ t.current = id -> Cleanup(MarkHandled(t, id))
    [] t.pending # id /\ t.awaiting # id /\ t.current # id ->
         [t EXCEPT !.state = "PICKING", !.saved = IF @.id = id THEN NotSaved ELSE @]

OnEvent(t, e) ==
  CASE e.type = "progress" -> IF e.id = t.current THEN [t EXCEPT !.sourceFile = TRUE] ELSE t
    [] e.type = "done" -> OnDone(t, e.id)
    [] e.type = "complete" -> OnComplete(t, e.id)
    [] e.type = "discarded" -> IF e.id = t.current THEN Cleanup(MarkHandled(t, e.id)) ELSE t
    [] e.type = "error" -> OnError(t, e.id)

Deliver ==
  /\ events # <<>> /\ link = "up" /\ Prompt
  /\ tab' = OnEvent(tab, Head(events))
  /\ events' = Tail(events)
  /\ Finishing
  /\ Quiet /\ Unbroken /\ UNCHANGED <<world, link>>

\* The server's list of the sessions it has not finished.
Active ==
  {[id |-> s, arrived |-> IF source[s] > 0 THEN source[s] ELSE 0, completed |-> server[s] = "ready",
    file |-> source[s] # Missing, terminal |-> server[s] \in {"accepting", "discarding"}]
     : s \in {s \in Sessions : server[s] \notin {"none", "over"}}}

\* 'connected': what the page has lost is restored from the server's list, if no wrapper is
\* in it, and a completion that was missed is made up for.
Connect ==
  /\ link = "connecting" /\ Prompt
  /\ LET restored == IF NoWrapper(dom) /\ Restorable(tab, Active) # {}
                     THEN {RestoreSession(tab, s, Active, jsx, dom) : s \in Restorable(tab, Active)}
                     ELSE {tab}
     IN tab' \in {Settle(RecoverMissedCompletion(t, Active)) : t \in restored}
  /\ link' = "up"
  /\ Quiet /\ Unbroken /\ UNCHANGED <<world, events, finished>>

\* The stream breaks and what was on it is lost; the browser tries again.
Disconnect ==
  /\ link = "up" /\ Break
  /\ link' = "connecting" /\ events' = <<>>
  /\ Quiet /\ UNCHANGED <<tab, world, finished>>

\* After SSE_MAX_RETRIES: handleServerLost.
ServerLost ==
  /\ link = "connecting" /\ Break
  /\ link' = "dead"
  /\ tab' = SaveSession([tab EXCEPT !.observed = NoId, !.state = IF tab.current = NoId THEN "IDLE" ELSE @])
  /\ Quiet /\ UNCHANGED <<world, events, finished>>

----------------------------------------------------------------------------
(* The source fallback.                                                    *)

\* The timer of a read: those of a completed generation want it still wanted, and the first
\* of them and a retry of a file that is not JSX that variants are missing.
ReadTimer(r) ==
  /\ r \in tab.reads /\ r.at = "timer" /\ Prompt
  /\ LET t == [tab EXCEPT !.reads = @ \ {r}]
         wanted == IF r.completed
                   THEN /\ tab.state = "GENERATING" /\ tab.current = r.id
                        /\ r.attempt = 0 => tab.arrived < Variants
                        /\ r.attempt > 0 /\ ~jsx => tab.arrived = 0
                   ELSE Working(tab, r)
     IN tab' = IF wanted THEN InjectVariantsFromSource(t, r, jsx, dom) ELSE t
  /\ Quiet /\ Unbroken /\ UNCHANGED <<world, events, link, finished>>

\* The answer to a read of a JSX file.
ProbeRead(r) ==
  /\ jsx /\ r \in tab.reads /\ r.at = "fetch"
  /\ \E found \in {IF source[r.id] = Missing THEN "absent" ELSE "present", "unreadable"} :
       /\ found = "unreadable" => "unreadable" \in faults
       /\ tab' = ProbeAnswered([tab EXCEPT !.reads = @ \ {r}], r, found)
  /\ Finishing
  /\ Quiet /\ Unbroken /\ UNCHANGED <<world, events, link>>

\* The answer to a read of any other file: the wrapper replaces the one in the page or the
\* element it belongs to, if that is found; otherwise the page waits for the element.
SourceRead(r) ==
  /\ ~jsx /\ r \in tab.reads /\ r.at = "fetch"
  /\ LET t == [tab EXCEPT !.reads = @ \ {r}]
     IN \/ /\ "unreadable" \in faults
           /\ tab' = t /\ UNCHANGED <<dom, finished>>
        \/ /\ source[r.id] = Missing
           /\ tab' = WrapperMissing(t, r) /\ Finishing /\ UNCHANGED dom
        \/ /\ source[r.id] # Missing
           /\ dom' = [dom EXCEPT ![r.id] = source[r.id]]
           /\ tab' = CompleteSourceInjection(t, r, source[r.id]) /\ UNCHANGED finished
        \/ /\ source[r.id] # Missing /\ dom[r.id] = Missing /\ "unmount" \in faults
           /\ tab' = EnterRecoveryWaitingForAnchor(t, r.id) /\ UNCHANGED <<dom, finished>>
  /\ Quiet /\ Unbroken /\ UNCHANGED <<source, server, events, link>>

----------------------------------------------------------------------------
(* The page changes: the observers run, in the order they were made.       *)

\* waitForVariantAnchorAndRetry's observer.
AnchorSeen(t, d) ==
  IF t.waiting = NoId THEN t
  ELSE InjectVariantsFromSource([t EXCEPT !.waiting = NoId],
         [id |-> t.waiting, completed |-> FALSE, orphanDiscard |-> FALSE, attempt |-> 0], jsx, d)

\* What a resumed or restored session has in the page is not news to its new observer.
Scouted(t, w, d) ==
  LET u == [t EXCEPT !.scout = FALSE]
      v == ResumeWrapper(u, w, jsx, d)
  IN IF v = u THEN VariantsObserved(u, d) ELSE v

PageChanged(t, d) ==
  {AnchorSeen(u, d) : u \in IF t.scout /\ ~NoWrapper(d) THEN {Scouted(t, w, d) : w \in AnyWrapper(d)}
                            ELSE {VariantsObserved(t, d)}}

\* Hot reload brings one session's part of the source into the page.
HotReload(s) ==
  /\ dom[s] # source[s] /\ Prompt
  /\ dom' = [dom EXCEPT ![s] = source[s]]
  /\ IF dom'[s] > dom[s] THEN tab' \in PageChanged(tab, dom') ELSE tab' = tab
  /\ Quiet /\ Unbroken /\ UNCHANGED <<source, server, events, link, finished>>

\* What contains the element closes; it opens again by HotReload.
Unmount(s) ==
  /\ "unmount" \in faults /\ Break
  /\ dom[s] # Missing
  /\ dom' = [dom EXCEPT ![s] = Missing]
  /\ Quiet /\ UNCHANGED <<tab, source, server, events, link, finished>>

\* The page is loaded again: only localStorage survives. The requests that were under way
\* have reached the server or not.
Reload ==
  /\ Break
  /\ \E hydrated \in BOOLEAN :
       /\ ~hydrated => "late" \in faults
       /\ dom' = IF hydrated THEN source ELSE [s \in Sessions |-> Missing]
  /\ tab' \in Loaded(tab.saved, tab.handled, dom')
  /\ events' = <<>> /\ link' = "connecting"
  /\ Quiet /\ UNCHANGED <<source, server, finished>>

----------------------------------------------------------------------------
(* The server and the agent (external).                                    *)

Tell(type, id) ==
  /\ Len(events) < MaxEvents
  /\ events' = IF link = "up" THEN Append(events, [type |-> type, id |-> id]) ELSE events

External == Quiet /\ Unbroken /\ UNCHANGED <<link, finished>>

\* What the journal makes of a request.
Journal(p) ==
  CASE p.kind = "generate" /\ server[p.id] = "none" -> "requested"
    [] p.kind = "accept" /\ server[p.id] \in {"generating", "ready"} -> "accepting"
    [] p.kind \in {"discard", "orphaned"} /\ server[p.id] \in {"requested", "generating", "ready"} -> "discarding"
    [] OTHER -> server[p.id]

\* A request arrives. An accept of a session that is over is refused, progress of a session
\* never created is unknown; an answer to a checkpoint that was taken changes nothing.
Arrive(p) ==
  /\ p \in tab.posts /\ p.at = "sent"
  /\ server' = [server EXCEPT ![p.id] = Journal(p)]
  /\ LET answer == CASE p.kind = "checkpoint" /\ server[p.id] = "none" -> "unknown"
                     [] p.kind = "accept" /\ server[p.id] \notin {"generating", "ready"} -> "refused"
                     [] OTHER -> "ok"
         kept == IF p.kind \in {"checkpoint", "orphaned"} /\ answer = "ok" THEN {} ELSE {[p EXCEPT !.at = answer]}
     IN tab' = [tab EXCEPT !.posts = (@ \ {p}) \cup kept]
  /\ External /\ UNCHANGED <<dom, source, events>>

\* A request fails on its way, or (reply) on the way back.
Fail(p) ==
  /\ p \in tab.posts /\ p.at = "sent" /\ Break
  /\ \/ UNCHANGED server
     \/ "reply" \in faults /\ p.kind = "accept" /\ server' = [server EXCEPT ![p.id] = Journal(p)]
  /\ tab' = [tab EXCEPT !.posts = (@ \ {p}) \cup
               IF p.kind \in {"checkpoint", "orphaned"} THEN {} ELSE {[p EXCEPT !.at = "refused"]}]
  /\ Quiet /\ UNCHANGED <<dom, source, events, link, finished>>

Scaffold(s) ==
  /\ server[s] = "requested"
  /\ server' = [server EXCEPT ![s] = "generating"]
  /\ source' = [source EXCEPT ![s] = 0]
  /\ External /\ UNCHANGED <<tab, dom, events>>

WriteVariant(s) ==
  /\ server[s] = "generating" /\ source[s] < Variants
  /\ source' = [source EXCEPT ![s] = @ + 1]
  /\ Tell("progress", s)
  /\ External /\ UNCHANGED <<tab, dom, server>>

Complete(s) ==
  /\ server[s] = "generating" /\ source[s] = Variants
  /\ server' = [server EXCEPT ![s] = "ready"]
  /\ Tell("done", s)
  /\ External /\ UNCHANGED <<tab, dom, source>>

\* The agent gives up on a generation, and leaves what it wrote.
GiveUp(s) ==
  /\ server[s] \in {"requested", "generating"}
  /\ server' = [server EXCEPT ![s] = "over"]
  /\ Tell("error", s)
  /\ External /\ UNCHANGED <<tab, dom, source>>

Promote(s) ==
  /\ server[s] = "accepting"
  /\ server' = [server EXCEPT ![s] = "over"]
  /\ \/ source' = [source EXCEPT ![s] = Missing] /\ Tell("complete", s)
     \/ "accept" \in faults /\ UNCHANGED source /\ Tell("error", s)
  /\ External /\ UNCHANGED <<tab, dom>>

Undo(s) ==
  /\ \/ server[s] = "discarding"
     \/ "elsewhere" \in faults /\ server[s] \in {"requested", "generating", "ready"}
  /\ server' = [server EXCEPT ![s] = "over"]
  /\ source' = [source EXCEPT ![s] = Missing]
  /\ Tell("discarded", s)
  /\ External /\ UNCHANGED <<tab, dom>>

----------------------------------------------------------------------------

TabStep ==
  \/ Pick \/ ExitConfigure \/ Accept \/ Discard \/ EmitCaptured
  \/ \E id \in Sessions : Go(id)
  \/ \E p \in tab.posts : Answered(p)
  \/ Deliver \/ Connect \/ Disconnect \/ ServerLost \/ Reload
  \/ \E r \in tab.reads : ReadTimer(r) \/ ProbeRead(r) \/ SourceRead(r)

WorldStep ==
  \/ \E s \in Sessions : HotReload(s) \/ Unmount(s)
  \/ \E p \in tab.posts : Arrive(p) \/ Fail(p)
  \/ \E s \in Sessions : Scaffold(s) \/ WriteVariant(s) \/ Complete(s) \/ GiveUp(s) \/ Promote(s) \/ Undo(s)

Next == TabStep \/ WorldStep
Spec == Init /\ [][Next]_vars

----------------------------------------------------------------------------
(* Properties.                                                             *)

\* What the user waits for or looks at is always what localStorage holds, under whichever
\* session an answer, an event or a reload has made current: a reload at any moment finds it.
WorkIsStored ==
  tab.state \in {"GENERATING", "CYCLING"} /\ tab.current # NoId => tab.saved.id = tab.current

\* The sessions finished after s.
FinishedSince(s) ==
  {finished[i] : i \in {j \in DOMAIN finished : \E k \in DOMAIN finished : k < j /\ finished[k] = s}}

\* No wrapper that lingers, reload, late event or restored record brings back a session whose
\* end this tab has processed, until as many others have ended since as the handled list holds.
NoResurrection ==
  tab.current \in ToSet(finished) => Cardinality(FinishedSince(tab.current)) >= HandledCap

\* A session is on the handled list, and so never taken up again, only once it is over: neither
\* a lost answer nor an event of another session costs the user what the agent still works on.
HandledMeansOver ==
  \A s \in ToSet(tab.handled) : server[s] \notin {"requested", "generating", "ready"}

\* The above as far as it holds: an element that is unmounted for a moment, a page that gets
\* its wrappers late, a slow read, a creation held back by its screenshot and a user who does
\* not wait for an answer can each make the tab give up or mark a session that is alive.
GivenUpForAReason ==
  faults \cap {"unmount", "late", "slow", "capture", "hasty"} = {} => HandledMeansOver

\* When everything has been delivered and nothing is under way, a tab that knows variants to be
\* missing is not left waiting for a generation that is complete: the done event, the snapshot
\* on every connect and the read of the source make up for each other's losses.
CompletedIsShown ==
  /\ "unreadable" \notin faults
  /\ tab.current # NoId /\ tab.arrived < Variants /\ server[tab.current] = "ready"
  /\ link = "up" /\ events = <<>> /\ tab.reads = {} /\ tab.waiting = NoId /\ dom = source
  => tab.state # "GENERATING"

\* Progress never overtakes the creation of its session: an unknown session is a foreign one,
\* not one whose creation this page is still to send or has under way.
CreationFirst ==
  \A p \in tab.posts :
    p.kind = "checkpoint" /\ p.at = "unknown"
    => tab.capture # p.id /\ \A q \in tab.posts : q.kind = "generate" /\ q.id = p.id => q.at # "sent"

\* The above as far as it holds: for requests that are sent at once.
PlainCreationFirst == "capture" \notin faults => CreationFirst
=============================================================================
