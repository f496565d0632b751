------------------------------ MODULE LiveSweep ------------------------------
(***************************************************************************)
(* What live-browser.js does after a session was accepted or discarded, to *)
(* see that the session's wrapper leaves the page: timers and observers    *)
(* that outlive the session, and that reload the page when a framework     *)
(* keeps showing a wrapper that is gone from the source.  Meanwhile the    *)
(* user may already be working on the next session.                        *)
(*                                                                         *)
(* Left out: the time an accept takes to be answered and the agent's       *)
(* variants (LiveSession), component previews, which have no wrapper in    *)
(* the source (LiveMount), and the oldest of nine handled sessions.        *)
(***************************************************************************)
EXTENDS Integers, FiniteSets

CONSTANTS
  Sessions,
  MaxRevision,   \* bound: configurations begun
  MaxReloads     \* bound: reloads that the tab did not ask for

ASSUME SweepAssumption == "none" \notin Sessions /\ MaxRevision \in Nat /\ MaxReloads \in Nat

VARIABLES
  smode,       \* state: IDLE while the page loads, PICKING, CONFIGURING, or WORKING for the states of a session
  scurrent,    \* currentSessionId
  revision,    \* liveInteractionRevision
  saved,       \* the stored session
  handled,     \* the handled sessions
  timers,      \* timers and observers, each with the revision it was made at
  scout,       \* the observer of init that waits for the first wrapper
  hidden,      \* sessions whose wrapper a discard hides
  stamps,      \* sessionStorage: reloads made for a session
  framework,   \* whether a framework owns the page
  tree,        \* what the page shows of a session
  source,      \* what the dev server would serve of it
  reloads,     \* bound
  alone        \* history: reloads of the tab's own since anything else happened

stab == <<smode, scurrent, revision, saved, handled, timers, scout, hidden, stamps>>
svars == <<stab, framework, tree, source, reloads, alone>>

Kinds == {"accept", "accept_grace", "wrapper_watch", "handled", "discard", "discard_grace", "discard_watch"}
Timers == [session : Sessions, kind : Kinds, at : Nat]
Trees == {"none", "variants", "carbonize"}

SweepTypeOK ==
  /\ smode \in {"IDLE", "PICKING", "CONFIGURING", "WORKING"}
  /\ scurrent \in Sessions \cup {"none"} /\ saved \in Sessions \cup {"none"}
  /\ revision \in Nat
  /\ handled \subseteq Sessions /\ hidden \subseteq Sessions
  /\ timers \subseteq Timers
  /\ scout \in BOOLEAN /\ framework \in BOOLEAN
  /\ stamps \in [Sessions -> 0 .. 2]
  /\ tree \in [Sessions -> Trees] /\ source \in [Sessions -> Trees]
  /\ reloads \in Nat /\ alone \in Nat

SweepInit ==
  /\ smode = "IDLE" /\ scurrent = "none" /\ revision = 0 /\ saved = "none"
  /\ handled = {} /\ timers = {} /\ scout = FALSE /\ hidden = {}
  /\ stamps = [s \in Sessions |-> 0]
  /\ framework \in BOOLEAN
  /\ tree = [s \in Sessions |-> "none"] /\ source = [s \in Sessions |-> "none"]
  /\ reloads = 0 /\ alone = 0

Timer(s, kind, at) == [session |-> s, kind |-> kind, at |-> at]
Wrapped(s) == tree[s] # "none"

\* Mutant of Superseded: only another session counts.
SupersededBySession(t) == scurrent \notin {t.session, "none"}

\* deferredRecoverySuperseded
Superseded(t) == revision # t.at \/ scurrent \notin {t.session, "none"}

----------------------------------------------------------------------------
(* Handled wrappers.                                                       *)

\* Mutant of Stamped: nothing is stamped.
NotStamped(S, s) == S

\* The stamp of a reload that is scheduled.
Stamped(S, s) == [S EXCEPT ![s] = @ + 1]

\* scheduleHandledRuntimeWrapperReload, over the timers T: once at a time, and twice in all.
ScheduleReload(T, s, at) ==
  LET t == Timer(s, "handled", at)
      due == ~Superseded(t) /\ stamps[s] < 2 /\ \A u \in T : u.session = s => u.kind # "handled"
  IN /\ timers' = IF due THEN T \cup {t} ELSE T
     /\ stamps' = IF due THEN Stamped(stamps, s) ELSE stamps

\* clearHandledWrapperReloadStamp
Unstamped(S, s) == [S EXCEPT ![s] = 0]

Open(s) == s # "none" /\ s \notin handled

\* restoreSessionWithoutWrapper, and clearSession if it cannot.
RestoreSaved ==
  /\ IF Open(saved) THEN smode' = "WORKING" /\ scurrent' = saved /\ UNCHANGED saved
     ELSE smode' = (IF smode = "IDLE" THEN "PICKING" ELSE smode) /\ saved' = "none" /\ UNCHANGED scurrent
  /\ UNCHANGED <<timers, stamps>>

\* resumeSession, for the wrapper of s: a wrapper with variants goes before one without.
Resume(s) ==
  /\ Wrapped(s) /\ (tree[s] # "variants" => \A r \in Sessions : tree[r] # "variants")
  /\ CASE s \in handled /\ Open(saved) ->
            /\ smode' = IF scurrent = saved THEN smode ELSE "WORKING"
            /\ scurrent' = saved
            /\ UNCHANGED <<saved, timers, stamps>>
       [] s \in handled /\ ~Open(saved) ->
            /\ ScheduleReload(timers, s, 0)
            /\ smode' = IF smode = "IDLE" THEN "PICKING" ELSE smode
            /\ UNCHANGED <<scurrent, saved>>
       [] s \notin handled /\ tree[s] = "variants" ->
            /\ smode' = "WORKING" /\ scurrent' = s /\ saved' = s
            /\ UNCHANGED <<timers, stamps>>
       [] OTHER -> RestoreSaved

\* init: an observer waits for a wrapper unless the page shows that of a session it resumed.
Boot ==
  /\ smode = "IDLE"
  /\ \/ \E s \in Sessions : Resume(s) /\ scout' = (scurrent' = "none" \/ ~Wrapped(scurrent'))
     \/ (\A s \in Sessions : ~Wrapped(s)) /\ RestoreSaved /\ scout' = TRUE
  /\ UNCHANGED <<revision, handled, hidden, framework, tree, source, reloads, alone>>

Scouted ==
  /\ scout /\ smode # "IDLE" /\ scout' = FALSE
  /\ \E s \in Sessions : Resume(s)
  /\ UNCHANGED <<revision, handled, hidden, framework, tree, source, reloads, alone>>

----------------------------------------------------------------------------
(* The user.                                                               *)

\* beginNewLiveConfiguration
PickNext ==
  /\ smode = "PICKING" /\ smode' = "CONFIGURING"
  /\ revision < MaxRevision /\ revision' = revision + 1
  /\ alone' = 0
  /\ UNCHANGED <<scurrent, saved, handled, timers, scout, hidden, stamps, framework, tree, source, reloads>>

Leave ==
  /\ smode = "CONFIGURING" /\ smode' = "PICKING"
  /\ alone' = 0
  /\ UNCHANGED <<scurrent, revision, saved, handled, timers, scout, hidden, stamps, framework, tree, source, reloads>>

\* handleGo: a session that is new, with no wrapper yet.
GoOn(s) ==
  /\ smode = "CONFIGURING" /\ s \notin handled /\ ~Wrapped(s) /\ source[s] = "none"
  /\ smode' = "WORKING" /\ scurrent' = s /\ saved' = s
  /\ alone' = 0
  /\ UNCHANGED <<revision, handled, timers, scout, hidden, stamps, framework, tree, source, reloads>>

\* cleanup, cleanupAcceptedSession: what they leave of the session.
Released(s) ==
  /\ smode' = "PICKING" /\ scurrent' = "none" /\ saved' = "none"
  /\ handled' = handled \cup {s}
  /\ alone' = 0

\* scheduleAcceptCleanup: the wrapper is still in the page, so its reload is scheduled as well.
AcceptConfirmed(s) ==
  /\ smode = "WORKING" /\ scurrent = s
  /\ Released(s)
  /\ LET T == timers \cup {Timer(s, "accept", revision), Timer(s, "wrapper_watch", revision)}
     IN IF Wrapped(s) THEN ScheduleReload(T, s, revision) ELSE timers' = T /\ UNCHANGED stamps
  /\ UNCHANGED <<revision, scout, hidden, framework, tree, source, reloads>>

\* cleanup after a discard.
DiscardConfirmed(s) ==
  /\ smode = "WORKING" /\ scurrent = s
  /\ Released(s)
  /\ hidden' = IF Wrapped(s) THEN hidden \cup {s} ELSE hidden
  /\ timers' = timers \cup {Timer(s, "discard", revision)}
  /\ UNCHANGED <<revision, scout, stamps, framework, tree, source, reloads>>

----------------------------------------------------------------------------
(* Timers and observers.                                                   *)

\* location.reload
LoadedAgain ==
  /\ smode' = "IDLE" /\ scurrent' = "none" /\ revision' = 0
  /\ timers' = {} /\ scout' = FALSE /\ hidden' = {} /\ tree' = source
  /\ UNCHANGED <<saved, handled, framework, source>>

ReloadOneself == LoadedAgain /\ alone' = alone + 1 /\ UNCHANGED <<stamps, reloads>>

\* t is over, and makes way for the timers S; H are the wrappers that stay hidden.
Over(t, S, H) ==
  /\ timers' = (timers \ {t}) \cup S /\ hidden' = H
  /\ UNCHANGED <<smode, scurrent, revision, saved, handled, scout, framework, source, reloads, alone>>

\* A static page's wrapper is replaced by what it wraps.
Unwrapped(s) == tree' = [tree EXCEPT ![s] = "none"] /\ UNCHANGED stamps

\* 1.2 s after an accept: ensureAcceptedDomClean.  clean: the page shows the accepted element, and
\* never inside a wrapper; a static page that lacks it gets it from the snapshot, or is reloaded.
AcceptFires(t) ==
  /\ t.kind = "accept"
  /\ \E clean \in BOOLEAN :
       /\ clean => ~Wrapped(t.session)
       /\ CASE Superseded(t) \/ clean -> Over(t, {}, hidden) /\ UNCHANGED <<tree, stamps>>
            [] ~Superseded(t) /\ ~clean /\ framework ->
                 Over(t, {Timer(t.session, "accept_grace", t.at)}, hidden) /\ UNCHANGED <<tree, stamps>>
            [] OTHER -> \/ Over(t, {}, hidden) /\ Unwrapped(t.session)
                        \/ ReloadOneself

AcceptGraceEnds(t) ==
  /\ t.kind = "accept_grace"
  /\ \E clean \in BOOLEAN :
       /\ clean => ~Wrapped(t.session)
       /\ IF Superseded(t) \/ clean THEN Over(t, {}, hidden) /\ UNCHANGED <<tree, stamps>>
          ELSE ReloadOneself

\* watchForHandledRuntimeWrapper: for 12 s.
WatchSees(t) ==
  /\ t.kind = "wrapper_watch" /\ Wrapped(t.session)
  /\ ScheduleReload(timers, t.session, t.at)
  /\ UNCHANGED <<smode, scurrent, revision, saved, handled, scout, hidden, framework, tree, source, reloads, alone>>

WatchEnds(t) == t.kind = "wrapper_watch" /\ Over(t, {}, hidden) /\ UNCHANGED <<tree, stamps>>

\* 3 s after a handled wrapper was seen.
HandledFires(t) ==
  /\ t.kind = "handled"
  /\ IF ~Superseded(t) /\ Wrapped(t.session) THEN ReloadOneself
     ELSE Over(t, {}, hidden) /\ stamps' = Unstamped(stamps, t.session) /\ UNCHANGED tree

\* Mutant of Watched: a discard that is superseded is left alone.
NotWatched(t) == Over(t, {}, hidden) /\ UNCHANGED <<tree, stamps>>

\* watchForDiscardedFrameworkWrapperRemoval
Watched(t) == Over(t, {Timer(t.session, "discard_watch", t.at)}, hidden) /\ UNCHANGED <<tree, stamps>>

Revealed(t) == Over(t, {}, hidden \ {t.session})

\* 2 s after a discard.
DiscardFires(t) ==
  /\ t.kind = "discard"
  /\ CASE ~Wrapped(t.session) -> Revealed(t) /\ UNCHANGED <<tree, stamps>>
       [] Wrapped(t.session) /\ ~framework -> Revealed(t) /\ Unwrapped(t.session)
       [] Wrapped(t.session) /\ framework /\ Superseded(t) -> Watched(t)
       [] OTHER -> /\ Over(t, {Timer(t.session, "discard_grace", t.at)}, hidden)
                   /\ UNCHANGED <<tree, stamps>>

\* 2 s later.
DiscardGraceEnds(t) ==
  /\ t.kind = "discard_grace"
  /\ CASE ~Wrapped(t.session) -> Revealed(t) /\ UNCHANGED <<tree, stamps>>
       [] Wrapped(t.session) /\ Superseded(t) -> Watched(t)
       [] OTHER -> ReloadOneself

\* The observer of a discarded wrapper sees it go, or has waited 12 s and nothing replaces it.
DiscardWatchFires(t) ==
  /\ t.kind = "discard_watch"
  /\ \/ ~Wrapped(t.session) /\ Revealed(t) /\ UNCHANGED <<tree, stamps>>
     \/ Wrapped(t.session) /\ scurrent = "none" /\ smode \in {"IDLE", "PICKING"} /\ ReloadOneself

Fire ==
  /\ smode # "IDLE"
  /\ \E t \in timers :
       \/ AcceptFires(t) \/ AcceptGraceEnds(t) \/ WatchSees(t) \/ WatchEnds(t) \/ HandledFires(t)
       \/ DiscardFires(t) \/ DiscardGraceEnds(t) \/ DiscardWatchFires(t)

----------------------------------------------------------------------------
(* The agent and the dev server.                                           *)

\* The source of a session: variants while it is open, then a carbonized tree or nothing.
Write(s) ==
  /\ \/ s \notin handled /\ (scurrent = s \/ saved = s) /\ source' = [source EXCEPT ![s] = "variants"]
     \/ s \in handled /\ source[s] = "variants" /\ source' = [source EXCEPT ![s] = "carbonize"]
     \/ s \in handled /\ source' = [source EXCEPT ![s] = "none"]
  /\ source' # source /\ alone' = 0
  /\ UNCHANGED <<stab, framework, tree, reloads>>

\* A framework's hot reload, late or early.
HotUpdate(s) ==
  /\ framework /\ tree[s] # source[s]
  /\ tree' = [tree EXCEPT ![s] = source[s]] /\ alone' = 0
  /\ UNCHANGED <<stab, framework, source, reloads>>

\* The user or the dev server loads the page again.
Reloaded ==
  /\ reloads < MaxReloads /\ reloads' = reloads + 1
  /\ LoadedAgain /\ alone' = 0 /\ UNCHANGED stamps

SweepNext ==
  \/ Boot \/ Scouted \/ PickNext \/ Leave \/ Fire \/ Reloaded
  \/ \E s \in Sessions : \/ GoOn(s) \/ AcceptConfirmed(s) \/ DiscardConfirmed(s)
                         \/ Write(s) \/ HotUpdate(s)

SweepSpec == SweepInit /\ [][SweepNext]_svars

----------------------------------------------------------------------------
(* Properties.                                                             *)

\* What cleans up after an older accept or discard never reloads the page over what the user has
\* begun since, be it a configuration that has no session yet ("an older accept/discard can never
\* reload over a replacement configuration", at liveInteractionRevision).
NoReloadOverWork == [][Fire /\ ReloadOneself => smode = "PICKING" /\ scurrent = "none"]_svars

\* A dev server that keeps serving a handled wrapper does not make the tab reload for ever: with
\* nobody doing anything the tab reloads at most twice for each handled session, and once more for
\* the accept or discard itself (scheduleHandledRuntimeWrapperReload).
NoReloadLoop == alone <= 2 * Cardinality(handled) + 1

\* A wrapper that a discard hides is not forgotten: as long as the page shows it, hidden, something
\* waits to release it or to reload the page (cleanup, watchForDiscardedFrameworkWrapperRemoval).
HiddenIsWatched ==
  \A s \in hidden : Wrapped(s) =>
    \E t \in timers : t.session = s /\ t.kind \in {"discard", "discard_grace", "discard_watch"}
=============================================================================
