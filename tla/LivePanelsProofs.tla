--------------------------- MODULE LivePanelsProofs ---------------------------
(***************************************************************************)
(* Proofs about the panels of live mode, for every value of the bounds,    *)
(* one part for each component: the timers that outlive a session, the     *)
(* shader overlay, the steer chat, the mounting of compiled components,    *)
(* the detector, the waivers, copy edits by hand and the modes; and, of    *)
(* the review pages, the form of a payment.  The components share no       *)
(* variable.                                                               *)
(***************************************************************************)
EXTENDS LiveMount, LiveSweep, LiveModes, LiveSteer, LiveOverlay, LiveDetect, LiveIgnores, LiveManualApply,
        ReviewForm, DataLemmas, FiniteSetTheorems, SequenceTheorems, TLAPS

-----------------------------------------------------------------------------
(* The timers: LiveSweep.  None ever reloads the page over newer work.     *)

\* A configuration has a revision of its own; a session is current while it works, and is open.
ModeSound ==
  /\ smode = "CONFIGURING" => revision > 0
  /\ scurrent # "none" <=> smode = "WORKING"
  /\ scurrent \notin handled

\* A timer is of a handled session, and if nothing was configured since it was made, nothing is now.
TimersSound ==
  \A t \in timers : t.session \in handled /\ t.at <= revision /\ (t.at = revision => smode # "CONFIGURING")

-----------------------------------------------------------------------------
(* Types.  The flags are Boolean; they are kept apart from the rest.       *)

SweepFlagsTyped == scout \in BOOLEAN /\ framework \in BOOLEAN

RestTyped ==
  /\ smode \in {"IDLE", "PICKING", "CONFIGURING", "WORKING"}
  /\ scurrent \in Sessions \cup {"none"} /\ saved \in Sessions \cup {"none"}
  /\ revision \in Nat
  /\ handled \subseteq Sessions /\ hidden \subseteq Sessions
  /\ timers \subseteq Timers
  /\ stamps \in [Sessions -> 0 .. 2]
  /\ tree \in [Sessions -> Trees] /\ source \in [Sessions -> Trees]
  /\ reloads \in Nat /\ alone \in Nat

SweepInv == RestTyped /\ ModeSound /\ TimersSound

LEMMA SweepTypedApart == SweepTypeOK <=> SweepFlagsTyped /\ RestTyped
BY DEF SweepTypeOK, SweepFlagsTyped, RestTyped

LEMMA SweepStart == SweepInit => SweepFlagsTyped /\ SweepInv
<1>. SUFFICES ASSUME SweepInit PROVE SweepFlagsTyped /\ SweepInv
  OBVIOUS
<1>1. SweepFlagsTyped
  BY DEF SweepInit, SweepFlagsTyped
<1>2. RestTyped
  BY DEF SweepInit, RestTyped, Trees
<1>3. ModeSound /\ TimersSound
  BY DEF SweepInit, ModeSound, TimersSound
<1>. QED
  BY <1>1, <1>2, <1>3 DEF SweepInv

LEMMA SweepFlagsKept == SweepFlagsTyped /\ [SweepNext]_svars => SweepFlagsTyped'
<1>. SUFFICES ASSUME SweepFlagsTyped, [SweepNext]_svars PROVE SweepFlagsTyped'
  OBVIOUS
<1>. USE DEF SweepFlagsTyped
<1>1. CASE Boot
  BY <1>1 DEF Boot
<1>2. CASE Scouted
  BY <1>2 DEF Scouted
<1>3. CASE PickNext \/ Leave
  BY <1>3 DEF PickNext, Leave
<1>4. CASE Fire
  BY <1>4 DEF Fire, AcceptFires, AcceptGraceEnds, WatchSees, WatchEnds, HandledFires, DiscardFires,
              DiscardGraceEnds, DiscardWatchFires, Watched, Revealed, Over, ReloadOneself, LoadedAgain
<1>5. CASE Reloaded
  BY <1>5 DEF Reloaded, LoadedAgain
<1>6. ASSUME NEW s \in Sessions,
             GoOn(s) \/ AcceptConfirmed(s) \/ DiscardConfirmed(s) \/ Write(s) \/ HotUpdate(s)
      PROVE  SweepFlagsTyped'
  BY <1>6 DEF GoOn, AcceptConfirmed, DiscardConfirmed, Released, Write, HotUpdate, stab
<1>7. CASE UNCHANGED svars
  BY <1>7 DEF svars, stab
<1>. QED
  BY <1>1, <1>2, <1>3, <1>4, <1>5, <1>6, <1>7 DEF SweepNext

-----------------------------------------------------------------------------
(* What the parts of the handlers do to the invariant.                     *)

\* A reload is scheduled over timers T that are sound for the mode and revision of the next state.
LEMMA ScheduleSound ==
  ASSUME RestTyped, NEW T \in SUBSET Timers, NEW s \in Sessions, NEW at \in Nat,
         ScheduleReload(T, s, at)
  PROVE  /\ timers' \subseteq Timers /\ stamps' \in [Sessions -> 0 .. 2]
         /\ timers' = T \/ (timers' = T \cup {Timer(s, "handled", at)} /\ at = revision)
<1>1. Timer(s, "handled", at) \in Timers
  BY DEF Timer, Timers, Kinds
<1>2. at = revision \/ Superseded(Timer(s, "handled", at))
  BY DEF Superseded, Timer
<1>3. stamps[s] < 2 => Stamped(stamps, s) \in [Sessions -> 0 .. 2]
  BY DEF RestTyped, Stamped
<1>. QED
  BY <1>1, <1>2, <1>3 DEF ScheduleReload, RestTyped

\* A timer is over, and makes way for S.
LEMMA OverSound ==
  ASSUME SweepInv, NEW t \in timers, NEW S, NEW H \in SUBSET Sessions, Over(t, S, H),
         \A u \in S : u \in Timers /\ u.session = t.session /\ u.at = t.at,
         tree' \in [Sessions -> Trees], stamps' \in [Sessions -> 0 .. 2]
  PROVE  SweepInv'
<1>1. RestTyped'
  BY DEF SweepInv, RestTyped, Over
<1>2. ModeSound'
  BY DEF SweepInv, ModeSound, Over
<1>3. TimersSound'
  BY DEF SweepInv, TimersSound, Over
<1>. QED
  BY <1>1, <1>2, <1>3 DEF SweepInv

LEMMA SuccessorTyped ==
  ASSUME RestTyped, NEW t \in timers, NEW kind \in Kinds
  PROVE  /\ Timer(t.session, kind, t.at) \in Timers
         /\ Timer(t.session, kind, t.at).session = t.session /\ Timer(t.session, kind, t.at).at = t.at
BY DEF RestTyped, Timer, Timers

LEMMA LoadedSound ==
  ASSUME SweepInv, LoadedAgain, stamps' \in [Sessions -> 0 .. 2], reloads' \in Nat, alone' \in Nat
  PROVE  SweepInv'
BY SweepAssumption DEF SweepInv, RestTyped, ModeSound, TimersSound, LoadedAgain

LEMMA ReloadSound == SweepInv /\ ReloadOneself => SweepInv'
BY LoadedSound DEF ReloadOneself, SweepInv, RestTyped

LEMMA UnwrappedTyped ==
  ASSUME RestTyped, NEW s \in Sessions, Unwrapped(s)
  PROVE  tree' \in [Sessions -> Trees] /\ stamps' \in [Sessions -> 0 .. 2]
BY DEF RestTyped, Unwrapped, Trees

\* restoreSessionWithoutWrapper: a stored session is resumed if it is open.
LEMMA RestoreSound ==
  ASSUME SweepInv, RestoreSaved,
         UNCHANGED <<revision, handled, hidden, tree, source, reloads, alone>>
  PROVE  SweepInv'
<1>. USE SweepAssumption DEF SweepInv
<1>1. CASE Open(saved)
  BY <1>1 DEF RestoreSaved, RestTyped, ModeSound, TimersSound, Open
<1>2. CASE ~Open(saved)
  BY <1>2 DEF RestoreSaved, RestTyped, ModeSound, TimersSound
<1>. QED
  BY <1>1, <1>2

\* What resumeSession may do, in every case.
LEMMA ResumeSound ==
  ASSUME SweepInv, NEW s \in Sessions, Resume(s),
         UNCHANGED <<revision, handled, hidden, tree, source, reloads, alone>>
  PROVE  SweepInv'
<1>. USE SweepAssumption DEF SweepInv
<1>1. CASE s \in handled /\ Open(saved)
  <2>1. /\ smode' = IF scurrent = saved THEN smode ELSE "WORKING"
        /\ scurrent' = saved /\ UNCHANGED <<saved, timers, stamps>>
    BY <1>1 DEF Resume
  <2>. QED
    BY <1>1, <2>1 DEF RestTyped, ModeSound, TimersSound, Open
<1>2. CASE s \in handled /\ ~Open(saved)
  <2>1. /\ ScheduleReload(timers, s, 0)
        /\ smode' = (IF smode = "IDLE" THEN "PICKING" ELSE smode) /\ UNCHANGED <<scurrent, saved>>
    BY <1>2 DEF Resume
  <2>2. /\ timers' \subseteq Timers /\ stamps' \in [Sessions -> 0 .. 2]
        /\ timers' = timers \/ (timers' = timers \cup {Timer(s, "handled", 0)} /\ 0 = revision)
    BY <2>1, ScheduleSound DEF RestTyped
  <2>3. RestTyped' /\ ModeSound'
    BY <2>1, <2>2 DEF RestTyped, ModeSound
  <2>4. TimersSound'
    BY <1>2, <2>1, <2>2 DEF RestTyped, ModeSound, TimersSound, Timer
  <2>. QED
    BY <2>3, <2>4
<1>3. CASE s \notin handled /\ tree[s] = "variants"
  <2>1. smode' = "WORKING" /\ scurrent' = s /\ saved' = s /\ UNCHANGED <<timers, stamps>>
    BY <1>3 DEF Resume
  <2>. QED
    BY <1>3, <2>1 DEF RestTyped, ModeSound, TimersSound
<1>4. CASE s \notin handled /\ tree[s] # "variants"
  <2>1. RestoreSaved
    BY <1>4 DEF Resume
  <2>. QED
    BY <2>1, RestoreSound
<1>. QED
  BY <1>1, <1>2, <1>3, <1>4

-----------------------------------------------------------------------------
(* Every step keeps the invariant.                                         *)

LEMMA LoadSteps ==
  ASSUME SweepInv, Boot \/ Scouted
  PROVE  SweepInv'
<1>1. UNCHANGED <<revision, handled, hidden, tree, source, reloads, alone>>
  BY DEF Boot, Scouted
<1>2. RestoreSaved \/ \E s \in Sessions : Resume(s)
  BY DEF Boot, Scouted
<1>. QED
  BY <1>1, <1>2, RestoreSound, ResumeSound

LEMMA UserSteps ==
  ASSUME SweepInv, NEW s,
         PickNext \/ Leave \/ (s \in Sessions /\ (GoOn(s) \/ AcceptConfirmed(s) \/ DiscardConfirmed(s)))
  PROVE  SweepInv'
<1>. USE SweepAssumption DEF SweepInv
<1>1. CASE PickNext
  BY <1>1 DEF PickNext, RestTyped, ModeSound, TimersSound, Timers
<1>2. CASE Leave
  BY <1>2 DEF Leave, RestTyped, ModeSound, TimersSound
<1>3. CASE s \in Sessions /\ GoOn(s)
  BY <1>3 DEF GoOn, RestTyped, ModeSound, TimersSound
<1>4. CASE s \in Sessions /\ AcceptConfirmed(s)
  <2>. DEFINE T == timers \cup {Timer(s, "accept", revision), Timer(s, "wrapper_watch", revision)}
  <2>1. T \subseteq Timers
    BY <1>4 DEF RestTyped, Timer, Timers, Kinds
  <2>2. /\ timers' \subseteq Timers /\ stamps' \in [Sessions -> 0 .. 2]
        /\ \A u \in timers' : u \in timers \/ (u.session = s /\ u.at = revision)
    <3>1. CASE Wrapped(s)
      <4>1. ScheduleReload(T, s, revision)
        BY <1>4, <3>1 DEF AcceptConfirmed
      <4>2. /\ timers' \subseteq Timers /\ stamps' \in [Sessions -> 0 .. 2]
            /\ timers' = T \/ timers' = T \cup {Timer(s, "handled", revision)}
        BY <1>4, <2>1, <4>1, ScheduleSound DEF RestTyped
      <4>. QED
        BY <4>2 DEF Timer
    <3>2. CASE ~Wrapped(s)
      BY <1>4, <2>1, <3>2 DEF AcceptConfirmed, Timer, RestTyped
    <3>. QED
      BY <3>1, <3>2
  <2>3. RestTyped' /\ ModeSound'
    BY <1>4, <2>2 DEF AcceptConfirmed, Released, RestTyped, ModeSound
  <2>4. TimersSound'
    BY <1>4, <2>2 DEF AcceptConfirmed, Released, RestTyped, TimersSound
  <2>. QED
    BY <2>3, <2>4
<1>5. CASE s \in Sessions /\ DiscardConfirmed(s)
  <2>1. Timer(s, "discard", revision) \in Timers
    BY <1>5 DEF RestTyped, Timer, Timers, Kinds
  <2>2. RestTyped' /\ ModeSound'
    BY <1>5, <2>1 DEF DiscardConfirmed, Released, RestTyped, ModeSound
  <2>3. TimersSound'
    BY <1>5 DEF DiscardConfirmed, Released, RestTyped, TimersSound, Timer
  <2>. QED
    BY <2>2, <2>3
<1>. QED
  BY <1>1, <1>2, <1>3, <1>4, <1>5

\* Only a handled session's timer that is not superseded reloads the page, and then nothing is begun.
LEMMA ReloadsIdly ==
  ASSUME SweepInv, NEW t \in timers, smode # "IDLE", ~Superseded(t)
  PROVE  smode = "PICKING" /\ scurrent = "none"
<1>1. revision = t.at /\ scurrent \in {t.session, "none"}
  BY DEF Superseded
<1>2. scurrent = "none"
  BY <1>1 DEF SweepInv, ModeSound, TimersSound
<1>. QED
  BY <1>1, <1>2 DEF SweepInv, RestTyped, ModeSound, TimersSound

\* A timer that fires is over, or schedules a reload, or reloads the page over nothing.
LEMMA TimerSteps ==
  ASSUME SweepInv, smode # "IDLE", NEW t \in timers,
         \/ AcceptFires(t) \/ AcceptGraceEnds(t) \/ WatchSees(t) \/ WatchEnds(t) \/ HandledFires(t)
         \/ DiscardFires(t) \/ DiscardGraceEnds(t) \/ DiscardWatchFires(t)
  PROVE  SweepInv' /\ (ReloadOneself => smode = "PICKING" /\ scurrent = "none")
<1>. USE DEF SweepInv
<1>1. t.session \in Sessions /\ t.at \in Nat
  BY DEF RestTyped, Timers
<1>2. \A kind \in Kinds :
        /\ Timer(t.session, kind, t.at) \in Timers
        /\ Timer(t.session, kind, t.at).session = t.session /\ Timer(t.session, kind, t.at).at = t.at
  BY SuccessorTyped
<1>3. UNCHANGED <<tree, stamps>> => tree' \in [Sessions -> Trees] /\ stamps' \in [Sessions -> 0 .. 2]
  BY DEF RestTyped
<1>4. \A s \in Sessions : hidden \ {s} \in SUBSET Sessions
  BY DEF RestTyped
<1>5. hidden \in SUBSET Sessions
  BY DEF RestTyped
<1>6. smode' = smode => ~ReloadOneself
  BY DEF ReloadOneself, LoadedAgain
<1>7. \A S, H : Over(t, S, H) => smode' = smode
  BY DEF Over
<1>8. ReloadOneself /\ ~Superseded(t) => SweepInv' /\ smode = "PICKING" /\ scurrent = "none"
  BY ReloadSound, ReloadsIdly
<1>9. ASSUME NEW S, NEW H \in SUBSET Sessions, Over(t, S, H),
             \A u \in S : u \in Timers /\ u.session = t.session /\ u.at = t.at,
             UNCHANGED <<tree, stamps>> \/ Unwrapped(t.session)
      PROVE  SweepInv' /\ ~ReloadOneself
  <2>1. tree' \in [Sessions -> Trees] /\ stamps' \in [Sessions -> 0 .. 2]
    BY <1>1, <1>3, <1>9, UnwrappedTyped
  <2>2. SweepInv'
    BY <1>9, <2>1, OverSound
  <2>. QED
    BY <1>6, <1>7, <1>9, <2>2
<1>10. ASSUME NEW H \in SUBSET Sessions, Over(t, {}, H), UNCHANGED <<tree, stamps>> \/ Unwrapped(t.session)
       PROVE  SweepInv' /\ ~ReloadOneself
  BY <1>9, <1>10
<1>11. ASSUME NEW kind \in Kinds, Over(t, {Timer(t.session, kind, t.at)}, hidden), UNCHANGED <<tree, stamps>>
       PROVE  SweepInv' /\ ~ReloadOneself
  <2>. DEFINE S == {Timer(t.session, kind, t.at)}
  <2>1. \A u \in S : u \in Timers /\ u.session = t.session /\ u.at = t.at
    BY <1>2
  <2>. HIDE DEF S
  <2>2. Over(t, S, hidden)
    BY <1>11 DEF S
  <2>. QED
    BY <1>5, <1>9, <1>11, <2>1, <2>2
<1>12. CASE AcceptFires(t)
  <2>. PICK clean \in BOOLEAN :
         CASE Superseded(t) \/ clean -> Over(t, {}, hidden) /\ UNCHANGED <<tree, stamps>>
           [] ~Superseded(t) /\ ~clean /\ framework ->
                Over(t, {Timer(t.session, "accept_grace", t.at)}, hidden) /\ UNCHANGED <<tree, stamps>>
           [] OTHER -> \/ Over(t, {}, hidden) /\ Unwrapped(t.session)
                       \/ ReloadOneself
    BY <1>12 DEF AcceptFires
  <2>1. CASE Superseded(t) \/ clean
    BY <1>5, <1>10, <2>1
  <2>2. CASE ~Superseded(t) /\ ~clean /\ framework
    BY <1>11, <2>2 DEF Kinds
  <2>3. CASE ~Superseded(t) /\ ~clean /\ ~framework
    BY <1>5, <1>8, <1>10, <2>3
  <2>. QED
    BY <2>1, <2>2, <2>3
<1>13. CASE AcceptGraceEnds(t)
  <2>1. (Over(t, {}, hidden) /\ UNCHANGED <<tree, stamps>>) \/ (~Superseded(t) /\ ReloadOneself)
    BY <1>13 DEF AcceptGraceEnds
  <2>. QED
    BY <1>5, <1>8, <1>10, <2>1
<1>14. CASE WatchSees(t)
  <2>1. /\ ScheduleReload(timers, t.session, t.at)
        /\ UNCHANGED <<smode, scurrent, revision, saved, handled, scout, hidden, framework, tree, source,
                       reloads, alone>>
    BY <1>14 DEF WatchSees
  <2>2. /\ timers' \subseteq Timers /\ stamps' \in [Sessions -> 0 .. 2]
        /\ timers' = timers \/ timers' = timers \cup {Timer(t.session, "handled", t.at)}
    BY <1>1, <2>1, ScheduleSound DEF RestTyped
  <2>3. RestTyped' /\ ModeSound'
    BY <2>1, <2>2 DEF RestTyped, ModeSound
  <2>4. TimersSound'
    BY <2>1, <2>2 DEF TimersSound, Timer
  <2>. QED
    BY <1>6, <2>1, <2>3, <2>4
<1>15. CASE WatchEnds(t)
  BY <1>5, <1>10, <1>15 DEF WatchEnds
<1>16. CASE HandledFires(t)
  <2>1. CASE ~Superseded(t) /\ Wrapped(t.session)
    BY <1>8, <1>16, <2>1 DEF HandledFires
  <2>2. CASE ~(~Superseded(t) /\ Wrapped(t.session))
    <3>1. Over(t, {}, hidden) /\ stamps' = Unstamped(stamps, t.session) /\ UNCHANGED tree
      BY <1>16, <2>2 DEF HandledFires
    <3>2. tree' \in [Sessions -> Trees] /\ stamps' \in [Sessions -> 0 .. 2]
      <4>1. stamps \in [Sessions -> 0 .. 2] /\ tree \in [Sessions -> Trees] /\ 0 \in 0 .. 2
        BY DEF RestTyped
      <4>2. stamps' = [stamps EXCEPT ![t.session] = 0] /\ tree' = tree
        BY <3>1 DEF Unstamped
      <4>. QED
        BY <4>1, <4>2
    <3>3. SweepInv'
      BY <1>5, <3>1, <3>2, OverSound
    <3>. QED
      BY <1>6, <1>7, <3>1, <3>3
  <2>. QED
    BY <2>1, <2>2
<1>17. Revealed(t) => Over(t, {}, hidden \ {t.session})
  BY DEF Revealed
<1>18. Watched(t) => Over(t, {Timer(t.session, "discard_watch", t.at)}, hidden) /\ UNCHANGED <<tree, stamps>>
  BY DEF Watched
<1>19. CASE DiscardFires(t)
  <2>1. \/ Revealed(t) /\ (UNCHANGED <<tree, stamps>> \/ Unwrapped(t.session))
        \/ Watched(t)
        \/ Over(t, {Timer(t.session, "discard_grace", t.at)}, hidden) /\ UNCHANGED <<tree, stamps>>
    BY <1>19 DEF DiscardFires
  <2>. QED
    BY <1>1, <1>4, <1>10, <1>11, <1>17, <1>18, <2>1 DEF Kinds
<1>20. CASE DiscardGraceEnds(t)
  <2>1. \/ Revealed(t) /\ UNCHANGED <<tree, stamps>>
        \/ Watched(t)
        \/ ~Superseded(t) /\ ReloadOneself
    BY <1>20 DEF DiscardGraceEnds
  <2>. QED
    BY <1>1, <1>4, <1>8, <1>10, <1>11, <1>17, <1>18, <2>1 DEF Kinds
<1>21. CASE DiscardWatchFires(t)
  <2>1. \/ Revealed(t) /\ UNCHANGED <<tree, stamps>>
        \/ smode = "PICKING" /\ scurrent = "none" /\ ReloadOneself
    BY <1>21 DEF DiscardWatchFires
  <2>. QED
    BY <1>1, <1>4, <1>10, <1>17, <2>1, ReloadSound
<1>. QED
  BY <1>12, <1>13, <1>14, <1>15, <1>16, <1>19, <1>20, <1>21

LEMMA WorldSteps ==
  ASSUME SweepInv, Reloaded \/ \E s \in Sessions : Write(s) \/ HotUpdate(s)
  PROVE  SweepInv'
<1>1. CASE Reloaded
  <2>1. stamps' \in [Sessions -> 0 .. 2] /\ reloads' \in Nat /\ alone' \in Nat /\ LoadedAgain
    BY <1>1 DEF Reloaded, SweepInv, RestTyped
  <2>. QED
    BY <2>1, LoadedSound
<1>2. ASSUME NEW s \in Sessions, Write(s) \/ HotUpdate(s)
      PROVE  SweepInv'
  BY <1>2 DEF Write, HotUpdate, stab, Trees, SweepInv, RestTyped, ModeSound, TimersSound
<1>. QED
  BY <1>1, <1>2

LEMMA SweepKept == SweepInv /\ [SweepNext]_svars => SweepInv'
<1>. SUFFICES ASSUME SweepInv, [SweepNext]_svars PROVE SweepInv'
  OBVIOUS
<1>1. CASE Fire
  BY <1>1, TimerSteps DEF Fire
<1>2. CASE UNCHANGED svars
  BY <1>2 DEF svars, stab, SweepInv, RestTyped, ModeSound, TimersSound
<1>3. CASE Boot \/ Scouted
  BY <1>3, LoadSteps
<1>4. CASE PickNext \/ Leave \/ \E s \in Sessions : GoOn(s) \/ AcceptConfirmed(s) \/ DiscardConfirmed(s)
  BY <1>4, UserSteps
<1>5. CASE Reloaded \/ \E s \in Sessions : Write(s) \/ HotUpdate(s)
  BY <1>5, WorldSteps
<1>. QED
  BY <1>1, <1>2, <1>3, <1>4, <1>5 DEF SweepNext

-----------------------------------------------------------------------------
(* The theorems.                                                           *)

\* Every timer belongs to a handled session, and none outlives, unsuperseded, the configuration
\* that was begun after it (beginNewLiveConfiguration, deferredRecoverySuperseded).
THEOREM SweepInvariance == SweepSpec => []SweepInv
<1>1. SweepInit => SweepInv
  BY SweepStart
<1>. QED
  BY <1>1, SweepKept, PTL DEF SweepSpec

\* The page's state, its timers and its stamps keep their types.
THEOREM SweepTypeCorrect == SweepSpec => []SweepTypeOK
<1>1. SweepInit => SweepFlagsTyped
  BY SweepStart
<1>2. SweepInv /\ SweepFlagsTyped => SweepTypeOK
  BY SweepTypedApart DEF SweepInv
<1>. QED
  BY <1>1, <1>2, SweepFlagsKept, SweepInvariance, PTL DEF SweepSpec

\* No clean-up of an older session reloads the page over what the user has begun since
\* (ensureAcceptedDomClean, scheduleHandledRuntimeWrapperReload, cleanup,
\* watchForDiscardedFrameworkWrapperRemoval).
THEOREM NoReloadOverWorkHolds == SweepSpec => NoReloadOverWork
<1>1. SweepInv /\ Fire /\ ReloadOneself => smode = "PICKING" /\ scurrent = "none"
  BY TimerSteps DEF Fire
<1>2. SweepInv /\ [SweepNext]_svars => [Fire /\ ReloadOneself => smode = "PICKING" /\ scurrent = "none"]_svars
  BY <1>1
<1>. QED
  BY <1>2, SweepInvariance, PTL DEF SweepSpec, NoReloadOverWork

-----------------------------------------------------------------------------
(* Every hidden session is watched.                                        *)

\* Every hidden session, not only one the page shows: a hot reload can bring its wrapper back.
Watch == {"discard", "discard_grace", "discard_watch"}
HiddenHasTimer == \A s \in hidden : \E t \in timers : t.session = s /\ t.kind \in Watch

LEMMA ScheduleAdds ==
  ASSUME NEW T, NEW s, NEW at, ScheduleReload(T, s, at)
  PROVE  T \subseteq timers'
BY DEF ScheduleReload

LEMMA MoreTimersWatch ==
  ASSUME HiddenHasTimer, hidden' \subseteq hidden, timers \subseteq timers'
  PROVE  HiddenHasTimer'
BY DEF HiddenHasTimer

\* A timer that is over has released its session, or made way for another that watches it.
LEMMA OverWatches ==
  ASSUME HiddenHasTimer, NEW t \in timers, NEW S, NEW H, Over(t, S, H), H \subseteq hidden,
         \/ t.kind \notin Watch
         \/ H = hidden \ {t.session}
         \/ \E u \in S : u.session = t.session /\ u.kind \in Watch
  PROVE  HiddenHasTimer'
<1>1. timers' = (timers \ {t}) \cup S /\ hidden' = H
  BY DEF Over
<1> SUFFICES ASSUME NEW s \in hidden' PROVE \E u \in timers' : u.session = s /\ u.kind \in Watch
  BY DEF HiddenHasTimer
<1>2. PICK w \in timers : w.session = s /\ w.kind \in Watch
  BY <1>1 DEF HiddenHasTimer
<1>3. CASE w # t
  BY <1>1, <1>2, <1>3
<1>4. CASE w = t
  BY <1>1, <1>2, <1>4
<1> QED BY <1>3, <1>4

LEMMA TimersWatch ==
  ASSUME HiddenHasTimer, NEW t \in timers,
         \/ AcceptFires(t) \/ AcceptGraceEnds(t) \/ WatchSees(t) \/ WatchEnds(t) \/ HandledFires(t)
         \/ DiscardFires(t) \/ DiscardGraceEnds(t) \/ DiscardWatchFires(t)
  PROVE  HiddenHasTimer'
<1>1. ReloadOneself => HiddenHasTimer'
  BY DEF ReloadOneself, LoadedAgain, HiddenHasTimer
<1>2. \A S : Over(t, S, hidden) /\ t.kind \notin Watch => HiddenHasTimer'
  BY OverWatches
<1>3. Revealed(t) => HiddenHasTimer'
  BY OverWatches DEF Revealed
<1>4. ASSUME NEW kind \in Watch, Over(t, {Timer(t.session, kind, t.at)}, hidden) PROVE HiddenHasTimer'
  <2>1. \E u \in {Timer(t.session, kind, t.at)} : u.session = t.session /\ u.kind \in Watch
    BY DEF Timer
  <2> QED BY <1>4, <2>1, OverWatches
<1>5. Watched(t) => HiddenHasTimer'
  BY <1>4 DEF Watched, Watch
<1>6. CASE AcceptFires(t)
  <2>1. ReloadOneself \/ \E S : Over(t, S, hidden)
    BY <1>6 DEF AcceptFires
  <2>2. t.kind \notin Watch
    BY <1>6 DEF AcceptFires, Watch
  <2> QED BY <1>1, <1>2, <2>1, <2>2
<1>7. CASE AcceptGraceEnds(t) \/ WatchEnds(t) \/ HandledFires(t)
  BY <1>1, <1>2, <1>7 DEF AcceptGraceEnds, WatchEnds, HandledFires, Watch
<1>8. CASE WatchSees(t)
  BY <1>8, ScheduleAdds, MoreTimersWatch DEF WatchSees
<1>9. CASE DiscardFires(t)
  BY <1>3, <1>4, <1>5, <1>9 DEF DiscardFires, Watch
<1>10. CASE DiscardGraceEnds(t)
  BY <1>1, <1>3, <1>5, <1>10 DEF DiscardGraceEnds
<1>11. CASE DiscardWatchFires(t)
  BY <1>1, <1>3, <1>11 DEF DiscardWatchFires
<1> QED BY <1>6, <1>7, <1>8, <1>9, <1>10, <1>11

LEMMA ResumeAdds ==
  ASSUME NEW s \in Sessions, Resume(s) \/ RestoreSaved
  PROVE  timers \subseteq timers'
BY ScheduleAdds DEF Resume, RestoreSaved

LEMMA HiddenKept == HiddenHasTimer /\ [SweepNext]_svars => HiddenHasTimer'
<1> SUFFICES ASSUME HiddenHasTimer, [SweepNext]_svars PROVE HiddenHasTimer'
  OBVIOUS
<1>1. CASE Fire
  BY <1>1, TimersWatch DEF Fire
<1>2. CASE Boot \/ Scouted
  <2>1. hidden' = hidden /\ (RestoreSaved \/ \E s \in Sessions : Resume(s))
    BY <1>2 DEF Boot, Scouted
  <2>2. timers \subseteq timers'
    BY <2>1, ResumeAdds DEF RestoreSaved
  <2> QED BY <2>1, <2>2, MoreTimersWatch
<1>3. CASE PickNext \/ Leave
  BY <1>3, MoreTimersWatch DEF PickNext, Leave
<1>4. CASE Reloaded
  BY <1>4 DEF Reloaded, LoadedAgain, HiddenHasTimer
<1>5. ASSUME NEW s \in Sessions, GoOn(s) \/ Write(s) \/ HotUpdate(s) PROVE HiddenHasTimer'
  BY <1>5, MoreTimersWatch DEF GoOn, Write, HotUpdate, stab
<1>6. ASSUME NEW s \in Sessions, AcceptConfirmed(s) PROVE HiddenHasTimer'
  <2>1. hidden' = hidden /\ timers \subseteq timers'
    BY <1>6, ScheduleAdds DEF AcceptConfirmed
  <2> QED BY <2>1, MoreTimersWatch
<1>7. ASSUME NEW s \in Sessions, DiscardConfirmed(s) PROVE HiddenHasTimer'
  <2>1. hidden' \subseteq hidden \cup {s} /\ timers' = timers \cup {Timer(s, "discard", revision)}
    BY <1>7 DEF DiscardConfirmed
  <2>2. Timer(s, "discard", revision).session = s /\ Timer(s, "discard", revision).kind \in Watch
    BY DEF Timer, Watch
  <2> QED BY <2>1, <2>2 DEF HiddenHasTimer
<1>8. CASE UNCHANGED svars
  BY <1>8, MoreTimersWatch DEF svars, stab
<1> QED
  BY <1>1, <1>2, <1>3, <1>4, <1>5, <1>6, <1>7, <1>8 DEF SweepNext

\* The page never keeps a wrapper hidden that nothing will release (cleanup,
\* watchForDiscardedFrameworkWrapperRemoval).
THEOREM HiddenIsWatchedHolds == SweepSpec => []HiddenIsWatched
<1>1. SweepInit => HiddenHasTimer
  BY DEF SweepInit, HiddenHasTimer
<1>2. HiddenHasTimer => HiddenIsWatched
  BY DEF HiddenHasTimer, HiddenIsWatched, Watch
<1> QED BY <1>1, <1>2, HiddenKept, PTL DEF SweepSpec

-----------------------------------------------------------------------------
(* The reloads of a tab nobody touches.                                    *)

\* The stamps of the handled sessions, one by one.
Used == {x \in handled \X (1 .. 2) : x[2] <= stamps[x[1]]}
Pending == IF timers = {} THEN 0 ELSE 1

\* Once the tab has reloaded of its own, only handled wrappers that it shows have timers, each made
\* for a stamp; and a session that it takes up ends the reloads.
LoopFuel ==
  alone > 0 =>
    /\ revision = 0
    /\ \A t \in timers : t.kind = "handled" /\ t.at = 0 /\ Wrapped(t.session)
    /\ scurrent = "none" => alone + Pending <= Cardinality(Used) + 1

LoopInv == IsFiniteSet(handled) /\ NoReloadLoop /\ LoopFuel

LEMMA UsedCounts ==
  ASSUME IsFiniteSet(handled)
  PROVE  /\ IsFiniteSet(Used) /\ Cardinality(Used) \in Nat
         /\ Cardinality(Used) <= 2 * Cardinality(handled) /\ Cardinality(handled) \in Nat
<1>1. IsFiniteSet(1 .. 2) /\ Cardinality(1 .. 2) = 2
  <2> DEFINE a == 1
             b == 2
  <2>1. a \in Int /\ b \in Int
    OBVIOUS
  <2> HIDE DEF a, b
  <2>2. IsFiniteSet(a .. b) /\ Cardinality(a .. b) = IF a > b THEN 0 ELSE b - a + 1
    BY <2>1, FS_Interval
  <2> QED BY <2>2 DEF a, b
<1>2. IsFiniteSet(handled \X (1 .. 2)) /\ Cardinality(handled \X (1 .. 2)) = Cardinality(handled) * 2
  BY <1>1, FS_Product
<1>3. Used \in SUBSET (handled \X (1 .. 2))
  BY DEF Used
<1>4. IsFiniteSet(Used) /\ Cardinality(Used) <= Cardinality(handled \X (1 .. 2))
  BY <1>2, <1>3, FS_Subset
<1>5. Cardinality(handled) \in Nat /\ Cardinality(Used) \in Nat
  BY <1>4, FS_CardinalityType
<1> QED BY <1>2, <1>4, <1>5

\* A step of anyone else.
LEMMA TouchedKeeps ==
  ASSUME IsFiniteSet(handled'), alone' = 0
  PROVE  LoopInv'
<1>1. Cardinality(handled') \in Nat
  BY FS_CardinalityType
<1> QED BY <1>1 DEF LoopInv, NoReloadLoop, LoopFuel

\* A reload of the tab's own, of which there was one to be made.
LEMMA ReloadUses ==
  ASSUME SweepInv, LoopInv, ReloadOneself, alone > 0 => alone + 1 <= Cardinality(Used) + 1
  PROVE  LoopInv'
<1>1. /\ scurrent' = "none" /\ revision' = 0 /\ timers' = {} /\ alone' = alone + 1
      /\ UNCHANGED <<handled, stamps>>
  BY DEF ReloadOneself, LoadedAgain
<1>2. Used' = Used /\ Pending' = 0
  BY <1>1 DEF Used, Pending
<1>3. /\ Cardinality(Used) \in Nat /\ Cardinality(handled) \in Nat
      /\ Cardinality(Used) <= 2 * Cardinality(handled)
  BY UsedCounts DEF LoopInv
<1>4. alone \in Nat
  BY DEF SweepInv, RestTyped
<1>5. alone + 1 <= Cardinality(Used) + 1
  BY <1>3, <1>4
<1>6. NoReloadLoop'
  BY <1>1, <1>3, <1>4, <1>5 DEF NoReloadLoop
<1>7. LoopFuel'
  BY <1>1, <1>2, <1>5, <1>3, <1>4 DEF LoopFuel
<1> QED BY <1>1, <1>6, <1>7 DEF LoopInv

\* The wrapper of a handled session is seen.
LEMMA ScheduleUses ==
  ASSUME SweepInv, LoopInv, alone > 0, NEW s \in handled, Wrapped(s), ScheduleReload(timers, s, 0),
         UNCHANGED <<scurrent, revision, handled, tree, alone>>
  PROVE  LoopInv'
<1>1. /\ stamps \in [Sessions -> 0 .. 2] /\ s \in Sessions /\ timers \subseteq Timers /\ alone \in Nat
  BY DEF SweepInv, RestTyped
<1>2. /\ Cardinality(Used) \in Nat /\ IsFiniteSet(Used)
  BY UsedCounts DEF LoopInv
<1>3. CASE timers' = timers /\ stamps' = stamps
  BY <1>3 DEF LoopInv, NoReloadLoop, LoopFuel, Used, Pending, Wrapped
<1>4. CASE stamps[s] < 2 /\ timers' = timers \cup {Timer(s, "handled", 0)} /\ stamps' = Stamped(stamps, s)
  <2> DEFINE x == <<s, stamps[s] + 1>>
  <2>1. stamps' = [stamps EXCEPT ![s] = stamps[s] + 1] /\ stamps[s] + 1 \in 1 .. 2
    BY <1>1, <1>4 DEF Stamped
  <2>2. Used' = Used \cup {x}
    <3>1. stamps'[s] = stamps[s] + 1 /\ \A r \in handled : r # s => stamps'[r] = stamps[r]
      BY <1>1, <2>1 DEF SweepInv, RestTyped
    <3>2. ASSUME NEW r \in handled, NEW i \in 1 .. 2
          PROVE  i <= stamps'[r] <=> i <= stamps[r] \/ <<r, i>> = x
      <4>1. stamps[r] \in 0 .. 2
        BY <1>1 DEF SweepInv, RestTyped
      <4>2. CASE r = s
        BY <1>1, <3>1, <4>1, <4>2
      <4>3. CASE r # s
        BY <3>1, <4>3
      <4> QED BY <4>2, <4>3
    <3>3. x \in handled \X (1 .. 2)
      BY <2>1
    <3>4. \A y \in handled \X (1 .. 2) : y = <<y[1], y[2]>> /\ y[1] \in handled /\ y[2] \in 1 .. 2
      OBVIOUS
    <3> HIDE DEF x
    <3> QED BY <3>2, <3>3, <3>4 DEF Used
  <2>3. x \notin Used
    BY <1>1 DEF Used
  <2>4. Cardinality(Used') = Cardinality(Used) + 1
    BY <1>2, <2>2, <2>3, FS_AddElement
  <2>5. \A t \in timers' : t.kind = "handled" /\ t.at = 0 /\ Wrapped(t.session)'
    BY <1>4 DEF LoopInv, LoopFuel, Timer, Wrapped
  <2>6. Pending \in {0, 1} /\ Pending' \in {0, 1}
    BY DEF Pending
  <2>7. LoopFuel'
    BY <1>1, <1>2, <2>4, <2>5, <2>6 DEF LoopInv, LoopFuel
  <2> QED BY <2>7 DEF LoopInv, NoReloadLoop
<1> QED BY <1>3, <1>4 DEF ScheduleReload

\* The page is read while it loads, or by the observer after that.
LEMMA ResumeUses ==
  ASSUME SweepInv, LoopInv, RestoreSaved \/ \E s \in Sessions : Resume(s),
         UNCHANGED <<revision, handled, tree, alone>>
  PROVE  LoopInv'
<1>1. CASE alone = 0
  BY <1>1, TouchedKeeps DEF LoopInv
<1>2. CASE alone > 0
  <2>1. ASSUME UNCHANGED <<timers, stamps>>, scurrent' = "none" => scurrent = "none" PROVE LoopInv'
    BY <2>1 DEF LoopInv, NoReloadLoop, LoopFuel, Used, Pending, Wrapped
  <2>2. ASSUME RestoreSaved PROVE LoopInv'
    BY <2>1, <2>2, SweepAssumption DEF RestoreSaved, Open
  <2>3. ASSUME NEW s \in Sessions, Resume(s) PROVE LoopInv'
    <3>1. CASE s \in handled /\ ~Open(saved)
      <4>1. ScheduleReload(timers, s, 0) /\ scurrent' = scurrent /\ Wrapped(s)
        BY <2>3, <3>1 DEF Resume
      <4> QED BY <1>2, <3>1, <4>1, ScheduleUses
    <3>2. CASE s \in handled /\ Open(saved)
      BY <2>1, <2>3, <3>2 DEF Resume, Open
    <3>3. CASE s \notin handled /\ tree[s] = "variants"
      BY <2>1, <2>3, <3>3, SweepAssumption DEF Resume
    <3>4. CASE s \notin handled /\ tree[s] # "variants"
      BY <2>2, <2>3, <3>4 DEF Resume
    <3> QED BY <3>1, <3>2, <3>3, <3>4
  <2> QED BY <2>2, <2>3
<1>3. alone \in Nat
  BY DEF SweepInv, RestTyped
<1> QED BY <1>1, <1>2, <1>3

LEMMA FireUses ==
  ASSUME SweepInv, LoopInv, Fire
  PROVE  LoopInv'
<1>1. PICK t \in timers :
        \/ AcceptFires(t) \/ AcceptGraceEnds(t) \/ WatchSees(t) \/ WatchEnds(t) \/ HandledFires(t)
        \/ DiscardFires(t) \/ DiscardGraceEnds(t) \/ DiscardWatchFires(t)
  BY DEF Fire
<1>2. alone \in Nat /\ t.session \in handled
  BY DEF SweepInv, RestTyped, TimersSound
<1>3. CASE alone = 0
  <2>1. ReloadOneself \/ (alone' = alone /\ handled' = handled)
    BY <1>1 DEF AcceptFires, AcceptGraceEnds, WatchSees, WatchEnds, HandledFires, DiscardFires,
                DiscardGraceEnds, DiscardWatchFires, Watched, Revealed, Over
  <2> QED BY <1>3, <2>1, ReloadUses, TouchedKeeps DEF LoopInv
<1>4. CASE alone > 0
  <2>1. revision = 0 /\ t.kind = "handled" /\ t.at = 0 /\ Wrapped(t.session)
    BY <1>4 DEF LoopInv, LoopFuel
  <2>2. HandledFires(t)
    BY <1>1, <2>1 DEF AcceptFires, AcceptGraceEnds, WatchSees, WatchEnds, DiscardFires,
                      DiscardGraceEnds, DiscardWatchFires
  <2>3. CASE ~Superseded(t)
    <3>1. ReloadOneself
      BY <2>1, <2>2, <2>3 DEF HandledFires
    <3>2. scurrent = "none"
      BY <1>2, <2>3 DEF Superseded, SweepInv, ModeSound
    <3>3. Pending = 1
      BY DEF Pending
    <3> QED BY <1>4, <3>1, <3>2, <3>3, ReloadUses DEF LoopInv, LoopFuel
  <2>4. CASE Superseded(t)
    <3>1. scurrent # "none"
      BY <2>1, <2>4 DEF Superseded
    <3>2. /\ timers' = (timers \ {t}) \cup {} /\ UNCHANGED <<scurrent, revision, handled, tree, alone>>
      BY <2>2, <2>4 DEF HandledFires, Over
    <3> QED BY <3>1, <3>2 DEF LoopInv, NoReloadLoop, LoopFuel, Wrapped
  <2> QED BY <2>3, <2>4
<1> QED BY <1>2, <1>3, <1>4

LEMMA LoopKept == SweepInv /\ LoopInv /\ [SweepNext]_svars => LoopInv'
<1> SUFFICES ASSUME SweepInv, LoopInv, [SweepNext]_svars PROVE LoopInv'
  OBVIOUS
<1>1. CASE Fire
  BY <1>1, FireUses
<1>2. CASE Boot \/ Scouted
  BY <1>2, ResumeUses DEF Boot, Scouted
<1>3. CASE PickNext \/ Leave \/ Reloaded
  BY <1>3, TouchedKeeps DEF PickNext, Leave, Reloaded, LoadedAgain, LoopInv
<1>4. ASSUME NEW s \in Sessions, GoOn(s) \/ Write(s) \/ HotUpdate(s) PROVE LoopInv'
  BY <1>4, TouchedKeeps DEF GoOn, Write, HotUpdate, stab, LoopInv
<1>5. ASSUME NEW s \in Sessions, AcceptConfirmed(s) \/ DiscardConfirmed(s) PROVE LoopInv'
  <2>1. handled' = handled \cup {s} /\ alone' = 0
    BY <1>5 DEF AcceptConfirmed, DiscardConfirmed, Released
  <2>2. IsFiniteSet(handled')
    BY <2>1, FS_AddElement DEF LoopInv
  <2> QED BY <2>1, <2>2, TouchedKeeps
<1>6. CASE UNCHANGED svars
  BY <1>6 DEF svars, stab, LoopInv, NoReloadLoop, LoopFuel, Used, Pending, Wrapped
<1> QED
  BY <1>1, <1>2, <1>3, <1>4, <1>5, <1>6 DEF SweepNext

\* A tab that nobody touches does not reload for ever: the stamps of the handled sessions bound its
\* reloads (scheduleHandledRuntimeWrapperReload).
THEOREM NoReloadLoopHolds == SweepSpec => []NoReloadLoop
<1>1. SweepInit => LoopInv
  <2>1. SweepInit => handled = {} /\ alone = 0
    BY DEF SweepInit
  <2> QED BY <2>1, FS_EmptySet DEF LoopInv, NoReloadLoop, LoopFuel
<1>2. LoopInv => NoReloadLoop
  BY DEF LoopInv
<1> QED BY <1>1, <1>2, LoopKept, SweepInvariance, PTL DEF SweepSpec

-----------------------------------------------------------------------------
(* The overlay: LiveOverlay.                                               *)

\* A build of the present epoch belongs to a generation that still runs, for every end of one but
\* cleanup's begins a new epoch; a build of the future there is none.
BuildsSound ==
  \A b \in builds : b.epoch <= shaderEpoch /\ (b.epoch = shaderEpoch /\ ~leftOver => omode = "GENERATING")

OverlayInv == OverlayTypeOK /\ BuildsSound /\ NoFrozenShader

-----------------------------------------------------------------------------
(* Types.  The flags are Boolean; they are kept apart from the counters.   *)

OverlayFlagsTyped == scrollLock \in BOOLEAN /\ scrollKey \in BOOLEAN /\ leftOver \in BOOLEAN

CountersTyped ==
  /\ omode \in {"PICKING", "GENERATING", "CYCLING"}
  /\ captures \in 0 .. MaxCaptures
  /\ shots \subseteq Captures
  /\ builds \subseteq [shot : Captures, epoch : Nat]
  /\ shaderEpoch \in Nat
  /\ shader \in 0 .. MaxCaptures /\ canvas \in 0 .. MaxCaptures

LEMMA OverlayTypedApart == OverlayTypeOK <=> OverlayFlagsTyped /\ CountersTyped
BY DEF OverlayTypeOK, OverlayFlagsTyped, CountersTyped

LEMMA OverlayStart == OverlayInit => OverlayInv /\ NothingStays
<1>. SUFFICES ASSUME OverlayInit PROVE OverlayInv /\ NothingStays
  OBVIOUS
<1>1. OverlayFlagsTyped
  BY DEF OverlayInit, OverlayFlagsTyped
<1>2. CountersTyped
  BY OverlayAssumption DEF OverlayInit, CountersTyped
<1>3. BuildsSound /\ NoFrozenShader /\ NothingStays
  BY DEF OverlayInit, BuildsSound, NoFrozenShader, NothingStays
<1>. QED
  BY <1>1, <1>2, <1>3, OverlayTypedApart DEF OverlayInv

LEMMA OverlayFlagsKept == OverlayFlagsTyped /\ [OverlayNext]_ovars => OverlayFlagsTyped'
<1>. SUFFICES ASSUME OverlayFlagsTyped, [OverlayNext]_ovars PROVE OverlayFlagsTyped'
  OBVIOUS
<1>. USE DEF OverlayFlagsTyped
<1>1. CASE OverlayGo
  BY <1>1 DEF OverlayGo
<1>2. CASE VariantsShown \/ ResetAway \/ OverlayLost
  BY <1>2 DEF VariantsShown, ResetAway, OverlayLost, HideShader
<1>3. CASE CleanedUp
  BY <1>3 DEF CleanedUp
<1>4. CASE AcceptedAway
  BY <1>4 DEF AcceptedAway, overlay
<1>5. CASE OverlayReloaded
  BY <1>5 DEF OverlayReloaded
<1>6. ASSUME NEW c \in shots, Captured(c) PROVE OverlayFlagsTyped'
  BY <1>6 DEF Captured, HideShader
<1>7. ASSUME NEW b \in builds, Decoded(b) PROVE OverlayFlagsTyped'
  BY <1>7 DEF Decoded
<1>8. CASE UNCHANGED ovars
  BY <1>8 DEF ovars, overlay
<1>. QED
  BY <1>1, <1>2, <1>3, <1>4, <1>5, <1>6, <1>7, <1>8 DEF OverlayNext

LEMMA CountersKept == CountersTyped /\ [OverlayNext]_ovars => CountersTyped'
<1>. SUFFICES ASSUME CountersTyped, [OverlayNext]_ovars PROVE CountersTyped'
  OBVIOUS
<1>. USE OverlayAssumption DEF CountersTyped, Captures
<1>1. CASE OverlayGo
  BY <1>1 DEF OverlayGo, BeginCapture
<1>2. ASSUME HideShader, UNCHANGED <<captures, shots, builds>>,
             omode' \in {"PICKING", "GENERATING", "CYCLING"}
      PROVE  CountersTyped'
  <2>1. shader' = 0 /\ canvas' = 0 /\ shaderEpoch' = shaderEpoch + 1
    BY <1>2 DEF HideShader
  <2>. QED
    BY <1>2, <2>1
<1>3. CASE CleanedUp \/ AcceptedAway
  BY <1>3 DEF CleanedUp, AcceptedAway, overlay
<1>4. CASE OverlayReloaded
  BY <1>4 DEF OverlayReloaded
<1>5. ASSUME NEW c \in shots, Captured(c) PROVE CountersTyped'
  BY <1>5 DEF Captured, HideShader
<1>6. ASSUME NEW b \in builds, Decoded(b) PROVE CountersTyped'
  BY <1>6 DEF Decoded
<1>7. CASE UNCHANGED ovars
  BY <1>7 DEF ovars, overlay
<1>8. CASE VariantsShown \/ ResetAway \/ OverlayLost
  BY <1>2, <1>8 DEF VariantsShown, ResetAway, OverlayLost
<1>. QED
  BY <1>1, <1>3, <1>4, <1>5, <1>6, <1>7, <1>8 DEF OverlayNext

LEMMA OverlayTypesKept == OverlayTypeOK /\ [OverlayNext]_ovars => OverlayTypeOK'
BY OverlayTypedApart, OverlayFlagsKept, CountersKept
   DEF OverlayTypeOK, OverlayFlagsTyped, CountersTyped

-----------------------------------------------------------------------------
\* Builds and the shader, by action.
LEMMA OverlayKept == OverlayInv /\ [OverlayNext]_ovars => OverlayInv'
<1>. SUFFICES ASSUME OverlayInv, [OverlayNext]_ovars PROVE BuildsSound' /\ NoFrozenShader'
  BY OverlayTypesKept DEF OverlayInv
<1>. USE DEF OverlayInv, OverlayTypeOK, BuildsSound, NoFrozenShader
<1>1. CASE OverlayGo
  BY <1>1 DEF OverlayGo, BeginCapture
<1>2. CASE VariantsShown \/ ResetAway \/ OverlayLost
  \* The epoch moves, so that every build is of an older one.
  BY <1>2 DEF VariantsShown, ResetAway, OverlayLost, HideShader
<1>3. CASE CleanedUp
  BY <1>3 DEF CleanedUp
<1>4. CASE AcceptedAway
  BY <1>4 DEF AcceptedAway, overlay
<1>5. CASE OverlayReloaded
  BY <1>5 DEF OverlayReloaded
<1>6. ASSUME NEW c \in shots, Captured(c) PROVE BuildsSound' /\ NoFrozenShader'
  <2>1. CASE omode = "GENERATING"
    BY <1>6, <2>1 DEF Captured, HideShader
  <2>2. CASE omode # "GENERATING"
    BY <1>6, <2>2 DEF Captured
  <2>. QED
    BY <2>1, <2>2
<1>7. ASSUME NEW b \in builds, Decoded(b) PROVE BuildsSound' /\ NoFrozenShader'
  BY <1>7 DEF Decoded, Abandoned
<1>8. CASE UNCHANGED ovars
  BY <1>8 DEF ovars, overlay
<1>. QED
  BY <1>1, <1>2, <1>3, <1>4, <1>5, <1>6, <1>7, <1>8 DEF OverlayNext

\* The node and the lock, by action.
LEMMA NothingStaysKept == OverlayTypeOK /\ NothingStays /\ [OverlayNext]_ovars => NothingStays'
<1>. SUFFICES ASSUME OverlayTypeOK, NothingStays, [OverlayNext]_ovars PROVE NothingStays'
  OBVIOUS
<1>. USE DEF OverlayTypeOK, NothingStays
<1>1. CASE OverlayGo
  BY <1>1 DEF OverlayGo
<1>2. CASE VariantsShown \/ ResetAway \/ OverlayLost
  BY <1>2 DEF VariantsShown, ResetAway, OverlayLost, HideShader
<1>3. CASE CleanedUp \/ AcceptedAway
  BY <1>3 DEF CleanedUp, AcceptedAway, overlay
<1>4. CASE OverlayReloaded
  BY <1>4 DEF OverlayReloaded
<1>5. ASSUME NEW c \in shots, Captured(c) PROVE NothingStays'
  <2>1. CASE UNCHANGED <<builds, shaderEpoch, shader, canvas, leftOver>>
    BY <1>5, <2>1 DEF Captured
  <2>2. CASE canvas' = 0
    BY <1>5, <2>2 DEF Captured
  <2>3. CASE canvas' = c /\ shader' = c
    BY <1>5, <2>3 DEF Captured
  <2>4. CASE canvas' = c /\ builds' = builds \cup {[shot |-> c, epoch |-> shaderEpoch + 1]}
    <3>1. [shot |-> c, epoch |-> shaderEpoch + 1] \in builds'
      BY <2>4
    <3>2. \E b \in builds' : b.shot = c
      BY <3>1
    <3>. QED
      BY <1>5, <2>4, <3>2 DEF Captured
  <2>. QED
    BY <1>5, <2>1, <2>2, <2>3, <2>4 DEF Captured, HideShader
<1>6. ASSUME NEW b \in builds, Decoded(b) PROVE NothingStays'
  <2>1. CASE Abandoned(b)
    BY <1>6, <2>1 DEF Decoded
  <2>2. CASE ~Abandoned(b)
    BY <1>6, <2>2 DEF Decoded
  <2>. QED
    BY <2>1, <2>2
<1>7. CASE UNCHANGED ovars
  BY <1>7 DEF ovars, overlay
<1>. QED
  BY <1>1, <1>2, <1>3, <1>4, <1>5, <1>6, <1>7 DEF OverlayNext

-----------------------------------------------------------------------------
\* The invariant of showShaderOverlay and the teardowns: types, builds and shader.
THEOREM OverlayInvariance == OverlaySpec => []OverlayInv
BY OverlayStart, OverlayKept, PTL DEF OverlaySpec

\* No shader that was still being built when its generation ended lies over the page (Abandoned).
THEOREM NoFrozenShaderHolds == OverlaySpec => []NoFrozenShader
BY OverlayInvariance, PTL DEF OverlayInv

\* The shader's node is always the one shown or being built, and the scroll lock a session's
\* (removeStrayShaderNode, stopScrollLock).
THEOREM NothingStaysHolds == OverlaySpec => []NothingStays
<1>1. OverlayInv => OverlayTypeOK
  BY DEF OverlayInv
<1>. QED
  BY <1>1, OverlayStart, NothingStaysKept, OverlayInvariance, PTL DEF OverlaySpec

-----------------------------------------------------------------------------
(* Steering: LiveSteer.                                                     *)

\* While the field is locked it still shows what was sent, and that is what a failure puts back.
LockSound ==
  IF chat.locked
  THEN /\ chat.request \in 1 .. Len(steers)
       /\ chat.input = chat.pending /\ chat.pending = steers[chat.request].text
  ELSE chat.request = 0

SteerRecord == [text : Messages, at : {"posted", "lost", "queued", "working", "replied"},
                answer : {"waits", "ok", "failed", "heard"}]

SteerInv == SteerTypeOK /\ LockSound /\ NothingTypedIsLost

\* What the typed parts are.
ChatTyped == chat \in Chat /\ dropped \subseteq Messages /\ mixed \subseteq Mixed
VoiceTyped == voice \in Voice /\ bar \in [mode : {"PICKING", "CONFIGURING", "GENERATING"}, words : BOOLEAN]
SteersTyped ==
  /\ steers \in Seq(SteerRecord) /\ Len(steers) <= MaxSteers
  /\ replies \subseteq [steer : Steers, type : {"steer_done", "error"}]

LEMMA SteerTypedApart == SteerTypeOK <=> ChatTyped /\ VoiceTyped /\ SteersTyped
BY DEF SteerTypeOK, ChatTyped, VoiceTyped, SteersTyped, SteerRecord

LEMMA SilentTyped == Silent \in Voice /\ [mode |-> "PICKING", words |-> FALSE] \in [mode : {"PICKING", "CONFIGURING", "GENERATING"}, words : BOOLEAN]
BY DEF Silent, Voice

LEMMA SteerStart == SteerInit => SteerInv
<1> SUFFICES ASSUME SteerInit PROVE SteerInv
  OBVIOUS
<1>1. ChatTyped
  BY SteerAssumption DEF SteerInit, ChatTyped, Chat, Texts
<1>2. VoiceTyped
  BY DEF SteerInit, VoiceTyped, Voice, Silent
<1>3. SteersTyped
  BY SteerAssumption DEF SteerInit, SteersTyped
<1>4. LockSound /\ NothingTypedIsLost
  BY DEF SteerInit, LockSound, NothingTypedIsLost
<1> QED BY <1>1, <1>2, <1>3, <1>4, SteerTypedApart DEF SteerInv

\* The field is free, for the same request or another.
LEMMA UnlockTyped ==
  ASSUME NEW t \in Texts
  PROVE  UnlockChat(chat, t) \in Chat
BY SteerAssumption DEF UnlockChat, Chat

\* A message is sent, typed or spoken.
LEMMA SubmitKeeps ==
  ASSUME SteerInv, Submit, UNCHANGED <<replies, dropped>>, mixed' \in {mixed}, VoiceTyped'
  PROVE  SteerInv'
<1> DEFINE n == Len(steers) + 1
           sent == [text |-> chat.input, at |-> "posted", answer |-> "waits"]
<1>1. /\ chat.input # "none" /\ ~chat.locked /\ Len(steers) < MaxSteers
      /\ steers' = Append(steers, sent)
      /\ chat' = [chat EXCEPT !.locked = TRUE, !.request = n, !.await = n, !.pending = chat.input]
  BY DEF Submit
<1>2. ChatTyped /\ SteersTyped
  BY SteerTypedApart DEF SteerInv
<1>3. sent \in SteerRecord
  BY <1>1, <1>2 DEF ChatTyped, Chat, Texts, SteerRecord
<1> HIDE DEF sent
<1>4. n \in 1 .. MaxSteers /\ steers' \in Seq(SteerRecord) /\ Len(steers') = n
      /\ \A r \in 1 .. Len(steers) : steers'[r] = steers[r]
  BY <1>1, <1>2, <1>3, SteerAssumption DEF SteersTyped
<1>12. steers'[n] = sent
  BY <1>1, <1>2, <1>3 DEF SteersTyped
<1>11. Len(steers) \in Nat /\ 1 .. n = (1 .. Len(steers)) \cup {n} /\ n \in 1 .. n
  BY <1>2 DEF SteersTyped
<1> HIDE DEF n
<1>5. ChatTyped'
  <2>1. chat \in Chat /\ n \in 0 .. MaxSteers
    BY <1>2, <1>4, SteerAssumption DEF ChatTyped
  <2>2. chat' \in Chat
    BY <1>1, <2>1 DEF Chat
  <2> QED BY <1>2, <2>2 DEF ChatTyped
<1>6. SteersTyped'
  BY <1>2, <1>4 DEF SteersTyped
<1>7. chat'.locked /\ chat'.request = n /\ chat'.input = chat.input /\ chat'.pending = chat.input
  BY <1>1, <1>2 DEF ChatTyped, Chat
<1>8. steers'[n].text = chat.input
  <2>1. sent.text = chat.input
    BY DEF sent
  <2> QED BY ONLY <1>12, <2>1, Zenon
<1>9. LockSound'
  <2>1. chat'.locked = TRUE /\ chat'.request = n /\ chat'.input = chat'.pending
    BY <1>7
  <2>2. steers'[chat'.request].text = chat'.pending
    BY ONLY <1>7, <1>8, Zenon
  <2>3. chat'.request \in 1 .. Len(steers')
    BY <1>4, <1>7, <1>11
  <2> QED BY <2>1, <2>2, <2>3 DEF LockSound
<1>10. NothingTypedIsLost'
  <2> SUFFICES ASSUME "late" \notin mixed', NEW r \in 1 .. Len(steers')
               PROVE  steers'[r].text \in dropped' \cup {chat'.input} \cup
                        (IF chat'.locked THEN {chat'.pending} ELSE {})
    BY DEF NothingTypedIsLost
  <2>1. CASE r = n
    BY ONLY <1>7, <1>8, <2>1, Zenon
  <2>2. CASE r # n
    <3>1. r \in 1 .. Len(steers) /\ steers'[r] = steers[r] BY <1>4, <1>11, <2>2
    <3>2. steers[r].text \in dropped \cup {chat.input}
      BY <1>1, <3>1 DEF SteerInv, NothingTypedIsLost
    <3> QED BY <1>7, <3>1, <3>2
  <2> QED BY <2>1, <2>2
<1> QED
  BY <1>5, <1>6, <1>9, <1>10 DEF SteerInv, SteerTypeOK, ChatTyped, VoiceTyped, SteersTyped, SteerRecord

\* Only where a request is changes.
LEMMA RequestsKeep ==
  ASSUME SteerInv, NEW r \in 1 .. Len(steers), NEW q \in SteerRecord, q.text = steers[r].text,
         steers' = [steers EXCEPT ![r] = q]
  PROVE  /\ steers' \in Seq(SteerRecord) /\ Len(steers') = Len(steers)
         /\ \A k \in 1 .. Len(steers) : steers'[k].text = steers[k].text
<1>1. steers \in Seq(SteerRecord)
  BY SteerTypedApart DEF SteerInv, SteersTyped
<1> QED BY <1>1

\* The texts that were sent, and the field, are as they were.
LEMMA NothingMoves ==
  ASSUME SteerInv, UNCHANGED <<chat, dropped>>, "late" \in mixed => "late" \in mixed',
         Len(steers') = Len(steers), \A k \in 1 .. Len(steers) : steers'[k].text = steers[k].text
  PROVE  LockSound' /\ NothingTypedIsLost'
BY DEF SteerInv, LockSound, NothingTypedIsLost

\* What is sent is something the user wanted to say.
LEMMA TextsAreMessages ==
  ASSUME SteerInv
  PROVE  /\ \A r \in 1 .. Len(steers) : steers[r] \in SteerRecord /\ steers[r].text \in Messages
         /\ chat.locked => chat.input # "none"
<1>1. SteersTyped
  BY SteerTypedApart DEF SteerInv
<1>2. \A r \in 1 .. Len(steers) : steers[r] \in SteerRecord
  BY <1>1 DEF SteersTyped
<1>3. \A r \in 1 .. Len(steers) : steers[r].text \in Messages
  BY <1>2 DEF SteerRecord
<1> QED BY <1>2, <1>3, SteerAssumption DEF SteerInv, LockSound

\* Something is written in the free field.
LEMMA WrittenKeeps ==
  ASSUME SteerInv, chat.input = "none", NEW m \in Messages, chat' = [chat EXCEPT !.input = m],
         UNCHANGED <<steers, replies, dropped, mixed>>, VoiceTyped'
  PROVE  SteerInv'
<1>1. ChatTyped /\ SteersTyped
  BY SteerTypedApart DEF SteerInv
<1>2. ~chat.locked
  BY TextsAreMessages
<1>3. chat' \in Chat /\ chat'.locked = chat.locked /\ chat'.request = chat.request /\ chat'.input = m
  BY <1>1 DEF ChatTyped, Chat, Texts
<1>4. ChatTyped' /\ SteersTyped'
  BY <1>1, <1>3 DEF ChatTyped, SteersTyped
<1>5. LockSound'
  BY <1>2, <1>3 DEF SteerInv, LockSound
<1>6. NothingTypedIsLost'
  BY <1>2, TextsAreMessages, SteerAssumption DEF SteerInv, NothingTypedIsLost
<1> QED
  BY <1>4, <1>5, <1>6 DEF SteerInv, SteerTypeOK, ChatTyped, VoiceTyped, SteersTyped, SteerRecord

\* The field does not change.
LEMMA ElsewhereKeeps ==
  ASSUME SteerInv, UNCHANGED <<chat, steers, replies, dropped>>, mixed \subseteq mixed', mixed' \subseteq Mixed,
         VoiceTyped'
  PROVE  SteerInv'
<1>1. ChatTyped /\ SteersTyped
  BY SteerTypedApart DEF SteerInv
<1>2. ChatTyped' /\ SteersTyped'
  BY <1>1 DEF ChatTyped, SteersTyped
<1>3. LockSound' /\ NothingTypedIsLost'
  BY DEF SteerInv, LockSound, NothingTypedIsLost
<1> QED BY <1>2, <1>3 DEF SteerInv, SteerTypeOK, ChatTyped, VoiceTyped, SteersTyped, SteerRecord

\* Escape: what is deleted is dropped.
LEMMA EraseKeeps ==
  ASSUME SteerInv, Erase
  PROVE  SteerInv'
<1>1. ChatTyped /\ VoiceTyped /\ SteersTyped
  BY SteerTypedApart DEF SteerInv
<1>2. /\ chat' \in Chat /\ chat'.locked = chat.locked /\ chat'.request = chat.request
      /\ chat.input \in Messages /\ dropped' = dropped \cup {chat.input} /\ ~chat.locked
      /\ UNCHANGED <<voice, bar, steers, replies, mixed>>
  BY <1>1 DEF Erase, ChatTyped, Chat, Texts
<1>3. ChatTyped' /\ VoiceTyped' /\ SteersTyped'
  BY <1>1, <1>2 DEF ChatTyped, VoiceTyped, SteersTyped
<1>4. LockSound' /\ NothingTypedIsLost'
  BY <1>2 DEF SteerInv, LockSound, NothingTypedIsLost
<1> QED BY <1>3, <1>4 DEF SteerInv, SteerTypeOK, ChatTyped, VoiceTyped, SteersTyped, SteerRecord

\* The field is free again, and shows what it sent, or nothing when that is done.
LEMMA UnlockKeeps ==
  ASSUME SteerInv, NEW t \in Texts, chat' = UnlockChat(chat, t), chat.request # 0, VoiceTyped', SteersTyped',
         Len(steers') = Len(steers), \A k \in 1 .. Len(steers) : steers'[k].text = steers[k].text,
         mixed \subseteq mixed', mixed' \subseteq Mixed, dropped \subseteq dropped', dropped' \subseteq Messages,
         "late" \notin mixed' => t = chat.pending \/ chat.pending \in dropped'
  PROVE  SteerInv'
<1>1. chat.locked /\ chat.input = chat.pending
  BY DEF SteerInv, LockSound
<1>2. chat' \in Chat
  BY UnlockTyped
<1>3. chat'.locked = FALSE /\ chat'.request = 0 /\ chat'.input = t
  BY DEF UnlockChat
<1>4. ChatTyped'
  BY <1>2 DEF ChatTyped
<1>5. LockSound' /\ NothingTypedIsLost'
  BY <1>1, <1>3 DEF SteerInv, LockSound, NothingTypedIsLost
<1> QED BY <1>4, <1>5 DEF SteerInv, SteerTypeOK, ChatTyped, VoiceTyped, SteersTyped, SteerRecord

\* Two minutes are over.
LEMMA AwaitOverKeeps ==
  ASSUME SteerInv, AwaitOver
  PROVE  SteerInv'
<1>1. ChatTyped /\ VoiceTyped /\ SteersTyped
  BY SteerTypedApart DEF SteerInv
<1>2. chat.pending \in Texts /\ chat.request # 0
  BY <1>1, SteerAssumption DEF AwaitOver, ChatTyped, Chat
<1>3. VoiceTyped' /\ SteersTyped'
  BY <1>1 DEF AwaitOver, VoiceTyped, SteersTyped
<1> QED
  BY <1>1, <1>2, <1>3, UnlockKeeps DEF AwaitOver, ChatTyped

\* The agent's word on a request: done, it is dropped; failed, it is back in the field.
LEMMA SteerRepliedKeeps ==
  ASSUME SteerInv, NEW e \in replies, SteerReplied(e)
  PROVE  SteerInv'
<1>1. ChatTyped /\ VoiceTyped /\ SteersTyped
  BY SteerTypedApart DEF SteerInv
<1>2. e.steer \in 1 .. MaxSteers
  BY <1>1 DEF SteersTyped, Steers
<1>3. VoiceTyped'
  <2>1. (bar' = [mode |-> "PICKING", words |-> FALSE] /\ voice' = StopVoice) \/ UNCHANGED <<bar, voice>>
    BY DEF SteerReplied
  <2> QED BY <1>1, <2>1, SilentTyped DEF VoiceTyped, StopVoice
<1>4. SteersTyped' /\ steers' = steers /\ mixed' = mixed
  BY <1>1 DEF SteerReplied, SteersTyped
<1>5. CASE chat.request # e.steer
  <2>1. chat' = chat /\ dropped' = dropped
    BY <1>5 DEF SteerReplied
  <2>2. ChatTyped' /\ LockSound' /\ NothingTypedIsLost'
    BY <1>1, <1>4, <2>1 DEF SteerInv, ChatTyped, LockSound, NothingTypedIsLost
  <2> QED BY <1>3, <1>4, <2>2 DEF SteerInv, SteerTypeOK, ChatTyped, VoiceTyped, SteersTyped, SteerRecord
<1>6. CASE chat.request = e.steer
  <2>1. chat.request # 0 /\ chat.locked /\ chat.request \in 1 .. Len(steers) /\ chat.pending = steers[e.steer].text
    BY <1>2, <1>6, SteerAssumption DEF SteerInv, LockSound
  <2>2. steers[e.steer].text \in Messages
    BY <1>6, <2>1, TextsAreMessages
  <2>3. CASE e.type = "steer_done"
    <3>1. chat' = UnlockChat(chat, "none") /\ dropped' = dropped \cup {steers[e.steer].text} /\ "none" \in Texts
      BY <1>6, <2>3 DEF SteerReplied, Texts
    <3> QED BY <1>1, <1>3, <1>4, <2>1, <2>2, <3>1, UnlockKeeps DEF ChatTyped
  <2>4. CASE e.type # "steer_done"
    <3>1. chat' = UnlockChat(chat, chat.pending) /\ dropped' = dropped /\ chat.pending \in Texts
      BY <1>6, <2>1, <2>2, <2>4 DEF SteerReplied, Texts
    <3> QED BY <1>1, <1>3, <1>4, <2>1, <3>1, UnlockKeeps DEF ChatTyped
  <2> QED BY <2>3, <2>4
<1> QED BY <1>5, <1>6

\* The POST is answered, arrives or fails; the agent works.
LEMMA PostAnsweredKeeps ==
  ASSUME SteerInv, NEW r \in 1 .. Len(steers), PostAnswered(r)
  PROVE  SteerInv'
<1>1. ChatTyped /\ VoiceTyped /\ SteersTyped
  BY SteerTypedApart DEF SteerInv
<1>2. steers[r] \in SteerRecord /\ steers[r].text \in Messages
  BY TextsAreMessages
<1> DEFINE q == [steers[r] EXCEPT !.answer = "heard"]
<1>3. q \in SteerRecord /\ q.text = steers[r].text /\ steers' = [steers EXCEPT ![r] = q]
  BY <1>2 DEF PostAnswered, SteerRecord
<1> HIDE DEF q
<1>4. /\ steers' \in Seq(SteerRecord) /\ Len(steers') = Len(steers)
      /\ \A k \in 1 .. Len(steers) : steers'[k].text = steers[k].text
  BY <1>3, RequestsKeep
<1>5. SteersTyped' /\ VoiceTyped'
  BY <1>1, <1>4 DEF PostAnswered, SteersTyped, VoiceTyped
<1>6. CASE steers[r].answer = "ok"
  <2>1. chat' = chat /\ mixed' = mixed /\ dropped' = dropped
    BY <1>6 DEF PostAnswered
  <2>2. LockSound' /\ NothingTypedIsLost'
    BY <2>1, <1>4, NothingMoves
  <2> QED BY <1>1, <1>5, <2>1, <2>2 DEF SteerInv, SteerTypeOK, ChatTyped, VoiceTyped, SteersTyped, SteerRecord
<1>7. CASE steers[r].answer # "ok"
  <2>1. chat' = UnlockChat(chat, steers[r].text) /\ dropped' = dropped /\ mixed \subseteq mixed'
        /\ mixed' = mixed \cup IF chat.request = r THEN {} ELSE {"late"}
    BY <1>7 DEF PostAnswered
  <2>2. mixed' \subseteq Mixed /\ steers[r].text \in Texts
    BY <1>1, <1>2, <2>1 DEF ChatTyped, Mixed, Texts
  <2>3. ChatTyped'
    BY <1>1, <2>1, <2>2, UnlockTyped DEF ChatTyped
  <2>4. LockSound'
    BY <2>1 DEF UnlockChat, LockSound
  <2>5. NothingTypedIsLost'
    <3>1. CASE chat.request = r
      <4>1. chat.locked /\ chat.pending = steers[r].text /\ chat.input = chat.pending
        BY <3>1 DEF SteerInv, LockSound
      <4>2. chat'.input = steers[r].text /\ mixed' = mixed
        BY <2>1, <3>1 DEF UnlockChat
      <4> QED BY <1>4, <2>1, <4>1, <4>2 DEF SteerInv, NothingTypedIsLost
    <3>2. CASE chat.request # r
      BY <2>1, <3>2 DEF NothingTypedIsLost
    <3> QED BY <3>1, <3>2
  <2> QED BY <1>5, <2>3, <2>4, <2>5 DEF SteerInv, SteerTypeOK, ChatTyped, VoiceTyped, SteersTyped, SteerRecord
<1> QED BY <1>6, <1>7

LEMMA RequestMovesKeeps ==
  ASSUME SteerInv, NEW r \in 1 .. Len(steers), PostArrives(r) \/ PostFails(r) \/ AgentWorks(r)
  PROVE  SteerInv'
<1>1. ChatTyped /\ VoiceTyped /\ SteersTyped
  BY SteerTypedApart DEF SteerInv
<1>2. steers[r] \in SteerRecord
  BY TextsAreMessages
<1>3. \E q \in SteerRecord : q.text = steers[r].text /\ steers' = [steers EXCEPT ![r] = q]
  <2>1. CASE PostArrives(r)
    <3> DEFINE q == [steers[r] EXCEPT !.at = "queued", !.answer = "ok"]
    <3>1. q \in SteerRecord /\ q.text = steers[r].text
      BY <1>2 DEF SteerRecord
    <3>2. steers' = [steers EXCEPT ![r] = q]
      BY <1>1, <2>1 DEF PostArrives, SteersTyped
    <3> QED BY <3>1, <3>2
  <2>2. CASE PostFails(r)
    <3> DEFINE q == [steers[r] EXCEPT !.at = IF @ = "posted" THEN "lost" ELSE @, !.answer = "failed"]
    <3>1. q \in SteerRecord /\ q.text = steers[r].text
      BY <1>2 DEF SteerRecord
    <3>2. steers' = [steers EXCEPT ![r] = q]
      BY <1>1, <2>2 DEF PostFails, SteersTyped
    <3> QED BY <3>1, <3>2
  <2>3. CASE AgentWorks(r)
    <3>1. PICK a \in {"working", "replied"} : steers' = [steers EXCEPT ![r].at = a]
      BY <2>3 DEF AgentWorks
    <3> DEFINE q == [steers[r] EXCEPT !.at = a]
    <3>2. q \in SteerRecord /\ q.text = steers[r].text
      BY <1>2 DEF SteerRecord
    <3>3. steers' = [steers EXCEPT ![r] = q]
      BY <1>1, <3>1 DEF SteersTyped
    <3> QED BY <3>2, <3>3
  <2> QED BY <2>1, <2>2, <2>3
<1>4. /\ steers' \in Seq(SteerRecord) /\ Len(steers') = Len(steers)
      /\ \A k \in 1 .. Len(steers) : steers'[k].text = steers[k].text
  BY <1>3, RequestsKeep
<1>5. UNCHANGED <<chat, voice, bar, dropped, mixed>>
  BY DEF PostArrives, PostFails, AgentWorks
<1>6. replies' \subseteq [steer : Steers, type : {"steer_done", "error"}]
  <2>1. replies' = replies \/ \E t \in {"steer_done", "error"} : replies' = replies \cup {[steer |-> r, type |-> t]}
    BY DEF PostArrives, PostFails, AgentWorks
  <2>2. r \in Steers
    BY <1>1, SteerAssumption DEF SteersTyped, Steers
  <2> QED BY <1>1, <2>1, <2>2 DEF SteersTyped
<1>7. ChatTyped' /\ VoiceTyped' /\ SteersTyped'
  BY <1>1, <1>4, <1>5, <1>6 DEF ChatTyped, VoiceTyped, SteersTyped
<1>8. LockSound' /\ NothingTypedIsLost'
  BY <1>4, <1>5, NothingMoves
<1> QED BY <1>7, <1>8 DEF SteerInv, SteerTypeOK, ChatTyped, VoiceTyped, SteersTyped, SteerRecord

-----------------------------------------------------------------------------
(* Speech, and the bar's field.                                            *)

\* Speech recognition is in one of its states, whatever happens to it.
LEMMA VoiceKept ==
  ASSUME VoiceTyped
  PROVE  /\ (UseBar \/ SessionOver \/ VoiceStarts \/ VoiceFails => VoiceTyped')
         /\ \A ctx \in {"steer", "configure"} : ToggleVoice(ctx) => VoiceTyped'
         /\ \A m \in Messages : Heard(m) => VoiceTyped'
         /\ (VoiceEnds => VoiceTyped')
<1> USE SilentTyped DEF VoiceTyped, StopVoice
<1>0. Go => bar' \in [mode : {"PICKING", "CONFIGURING", "GENERATING"}, words : BOOLEAN]
  BY DEF Go
<1>1. ASSUME UseBar PROVE VoiceTyped'
  <2>1. bar' \in [mode : {"PICKING", "CONFIGURING", "GENERATING"}, words : BOOLEAN]
    <3>1. \/ \E md \in {"CONFIGURING", "PICKING"} : bar' = [mode |-> md, words |-> FALSE]
          \/ \E w \in BOOLEAN : bar' = [bar EXCEPT !.words = w]
          \/ Go
      BY <1>1 DEF UseBar
    <3>2. \A w \in BOOLEAN : [bar EXCEPT !.words = w] \in [mode : {"PICKING", "CONFIGURING", "GENERATING"}, words : BOOLEAN]
      OBVIOUS
    <3>3. \A md \in {"CONFIGURING", "PICKING"} :
            [mode |-> md, words |-> FALSE] \in [mode : {"PICKING", "CONFIGURING", "GENERATING"}, words : BOOLEAN]
      OBVIOUS
    <3> QED BY <1>0, <3>1, <3>2, <3>3, Zenon
  <2>2. voice' \in Voice
    <3>1. CASE voice' = voice \/ voice' = Silent
      BY <3>1
    <3>2. CASE voice' = [voice EXCEPT !.detached = @ \/ voice.ctx = "configure",
                                      !.spoken = @ \/ (voice.ctx = "configure" /\ bar.words)]
      <4>1. (voice.detached \/ voice.ctx = "configure") \in BOOLEAN
            /\ (voice.spoken \/ (voice.ctx = "configure" /\ bar.words)) \in BOOLEAN
        OBVIOUS
      <4> QED BY <3>2, <4>1 DEF Voice
    <3> QED BY <1>1, <3>1, <3>2 DEF UseBar
  <2> QED BY <2>1, <2>2
<1>2. ASSUME SessionOver \/ VoiceStarts \/ VoiceFails PROVE VoiceTyped'
  BY <1>2 DEF SessionOver, VoiceStarts, VoiceFails, Voice
<1>3. ASSUME NEW ctx \in {"steer", "configure"}, ToggleVoice(ctx) PROVE VoiceTyped'
  <2>1. [Silent EXCEPT !.ctx = ctx, !.engine = TRUE] \in Voice
    BY DEF Voice
  <2> QED BY <1>3, <2>1 DEF ToggleVoice, StartVoice
<1>4. ASSUME NEW m \in Messages, Heard(m) PROVE VoiceTyped'
  <2>1. voice' = voice \/ voice' = [voice EXCEPT !.spoken = TRUE]
    BY <1>4 DEF Heard
  <2>2. bar' = bar \/ bar' = [bar EXCEPT !.words = TRUE]
    BY <1>4 DEF Heard
  <2> QED BY <2>1, <2>2 DEF Voice
<1>5. ASSUME VoiceEnds PROVE VoiceTyped'
  <2>1. voice' = Silent
    BY <1>5 DEF VoiceEnds
  <2>2. bar' = bar \/ Go
    BY <1>5 DEF VoiceEnds
  <2>3. bar' \in [mode : {"PICKING", "CONFIGURING", "GENERATING"}, words : BOOLEAN]
    BY <1>0, <1>5, <2>2 DEF VoiceEnds
  <2> QED BY <2>1, <2>3
<1> QED BY <1>1, <1>2, <1>3, <1>4, <1>5

LEMMA VoiceEndsKeeps ==
  ASSUME SteerInv, VoiceEnds
  PROVE  SteerInv'
<1>1. VoiceTyped'
  BY VoiceKept, SteerTypedApart DEF SteerInv
<1>2. CASE voice.ctx = "steer" /\ ~chat.locked /\ chat.input # "none" /\ Len(steers) < MaxSteers
  BY <1>1, <1>2, SubmitKeeps DEF VoiceEnds
<1>3. CASE ~(voice.ctx = "steer" /\ ~chat.locked /\ chat.input # "none" /\ Len(steers) < MaxSteers)
  <2>1. UNCHANGED <<chat, steers, replies, dropped>> /\ mixed \subseteq mixed' /\ mixed' \subseteq mixed \cup {"wordless"}
    BY <1>3 DEF VoiceEnds
  <2>2. mixed' \subseteq Mixed
    BY <2>1, SteerTypedApart DEF SteerInv, ChatTyped, Mixed
  <2> QED BY <1>1, <2>1, <2>2, ElsewhereKeeps
<1> QED BY <1>2, <1>3

LEMMA HeardKeeps ==
  ASSUME SteerInv, NEW m \in Messages, Heard(m)
  PROVE  SteerInv'
<1>1. VoiceTyped' /\ mixed \subseteq Mixed
  BY VoiceKept, SteerTypedApart DEF SteerInv, ChatTyped
<1>2. UNCHANGED <<steers, replies, dropped, mixed>>
  BY DEF Heard
<1>3. CASE voice.ctx = "steer"
  BY <1>1, <1>2, <1>3, WrittenKeeps DEF Heard
<1>4. CASE voice.ctx # "steer"
  <2>1. chat' = chat
    BY <1>4 DEF Heard
  <2> QED BY <1>1, <1>2, <2>1, ElsewhereKeeps
<1> QED BY <1>3, <1>4

-----------------------------------------------------------------------------

LEMMA SteerInvariant == SteerInv /\ [SteerNext]_tvars => SteerInv'
<1> SUFFICES ASSUME SteerInv, [SteerNext]_tvars PROVE SteerInv'
  OBVIOUS
<1>1. VoiceTyped /\ mixed \subseteq Mixed
  BY SteerTypedApart DEF SteerInv, ChatTyped
<1>2. CASE Erase
  BY <1>2, EraseKeeps
<1>3. CASE Send
  <2>1. VoiceTyped'
    BY <1>1, <1>3, SilentTyped DEF Send, VoiceTyped, StopVoice
  <2> QED BY <1>3, <2>1, SubmitKeeps DEF Send
<1>4. CASE UseBar \/ SessionOver \/ VoiceStarts \/ VoiceFails
  <2>1. VoiceTyped'
    BY <1>1, <1>4, VoiceKept
  <2>2. UNCHANGED <<chat, steers, replies, dropped, mixed>>
    BY <1>4 DEF UseBar, SessionOver, VoiceStarts, VoiceFails
  <2> QED BY <1>1, <2>1, <2>2, ElsewhereKeeps
<1>5. CASE VoiceEnds
  BY <1>5, VoiceEndsKeeps
<1>6. CASE AwaitOver
  BY <1>6, AwaitOverKeeps
<1>7. ASSUME NEW m \in Messages, Type(m) PROVE SteerInv'
  <2>1. VoiceTyped'
    BY <1>1, <1>7 DEF Type, VoiceTyped
  <2> QED BY <1>7, <2>1, WrittenKeeps DEF Type
<1>8. ASSUME NEW m \in Messages, Heard(m) PROVE SteerInv'
  BY <1>8, HeardKeeps
<1>9. ASSUME NEW ctx \in {"steer", "configure"}, ToggleVoice(ctx) PROVE SteerInv'
  <2>1. VoiceTyped'
    BY <1>1, <1>9, VoiceKept
  <2> QED BY <1>1, <1>9, <2>1, ElsewhereKeeps DEF ToggleVoice
<1>10. ASSUME NEW e \in replies, SteerReplied(e) PROVE SteerInv'
  BY <1>10, SteerRepliedKeeps
<1>11. ASSUME NEW r \in 1 .. Len(steers), PostAnswered(r) PROVE SteerInv'
  BY <1>11, PostAnsweredKeeps
<1>12. ASSUME NEW r \in 1 .. Len(steers), PostArrives(r) \/ PostFails(r) \/ AgentWorks(r) PROVE SteerInv'
  BY <1>12, RequestMovesKeeps
<1>13. CASE UNCHANGED tvars
  <2>1. VoiceTyped'
    BY <1>1, <1>13 DEF tvars, VoiceTyped
  <2> QED BY <1>1, <1>13, <2>1, ElsewhereKeeps DEF tvars
<1> QED
  BY <1>2, <1>3, <1>4, <1>5, <1>6, <1>7, <1>8, <1>9, <1>10, <1>11, <1>12, <1>13 DEF SteerNext

\* What was sent to the agent is under way, done, or back in the field, for any messages and any
\* number of requests, whatever the order of the answer, the event and the timer, unless a POST
\* failed late (submitSteerMessage).
THEOREM NothingTypedIsLostHolds == SteerSpec => [](SteerTypeOK /\ NothingTypedIsLost)
<1>1. SteerInv => SteerTypeOK /\ NothingTypedIsLost
  BY DEF SteerInv
<1> QED BY <1>1, SteerStart, SteerInvariant, PTL DEF SteerSpec

-----------------------------------------------------------------------------
(* Mounting: LiveMount.                                                     *)

Modules ==
  [at : {"import", "unmount", "probe"}, kind : {"first", "remount", "show", "revert"},
   variant : 1 .. Variants, previous : 0 .. Variants, stale : BOOLEAN, told : BOOLEAN]

Reads ==
  [at : {"manifest"}, told : BOOLEAN] \cup [at : {"params"}, count : 1 .. Variants, told : BOOLEAN]

\* What a call does: it injects the session's variants, or for the first time.
Injects(c) == c.at \in {"manifest", "params"} \/ (c.at \in {"import", "unmount", "probe"} /\ c.kind \in {"first", "remount"})
First(c) == c.at \in {"import", "unmount", "probe"} /\ c.kind = "first"
Shows(c) == c.at \in {"import", "unmount", "probe"}

\* What is remembered as reported was reported while every injection ran.
FailuresHeard ==
  \A s \in Slots : Injects(calls[s]) =>
    /\ calls[s].told \/ reported = NoFailure
    /\ calls[s].at = "probe" => calls[s].told

\* A component session that does not cycle yet is still being mounted.
FirstMounts == component # NoComponent /\ mode # "CYCLING" => \E s \in Slots : First(calls[s])

\* A tab that generates over a publication it has heard of has a cause to.
WaitHasCause ==
  mode = "GENERATING" /\ (~current \/ (published > 0 /\ ~news)) =>
    card # NoCard \/ waiting \/ \E s \in Slots : Injects(calls[s])

\* Once a manifest was read, a variant is visible, and a switch knows the way back.
SomethingVisible ==
  /\ mode = "CYCLING" => visible # 0
  /\ \A s \in Slots : Shows(calls[s]) =>
       visible # 0 /\ (calls[s].kind = "show" => calls[s].previous # 0)

MountFlags == current \in BOOLEAN /\ waiting \in BOOLEAN /\ target \in BOOLEAN /\ news \in BOOLEAN
              /\ ended \in BOOLEAN /\ silent \in BOOLEAN

CallsTyped == calls \in [Slots -> Calls \cup {Free}]
UiTyped ==
  /\ mode \in {"PICKING", "GENERATING", "CYCLING"}
  /\ arrived \in 0 .. Variants /\ visible \in 0 .. Variants
  /\ component \in Component \cup {NoComponent}
  /\ card \in NoCard .. Variants
  /\ reported \in Failures \cup {NoFailure}
  /\ manifest \in 0 .. Variants
  /\ published \in 0 .. MaxPublished

MountSound == FailuresHeard /\ FirstMounts /\ WaitHasCause /\ SomethingVisible /\ EveryFailureIsReported
MountInv == CallsTyped /\ UiTyped /\ MountSound

LEMMA MountTypedApart == MountTypeOK <=> MountFlags /\ CallsTyped /\ UiTyped
BY DEF MountTypeOK, MountFlags, CallsTyped, UiTyped

LEMMA CallCases ==
  ASSUME NEW c \in Calls \cup {Free}
  PROVE  /\ c = Free => c.at = "free"
         /\ c # Free /\ ~Mounts(c) => c \in Reads
         /\ c.at = "params" => c.count \in 1 .. Variants
         /\ Mounts(c) => c \in Modules
         /\ c # Free <=> c.at \in {"manifest", "params", "import", "unmount", "probe"}
BY DEF Calls, Free, Modules, Reads, Mounts

LEMMA ComponentIsThere == \A c \in Component : c # NoComponent
<1> SUFFICES ASSUME NEW c \in Component, c = NoComponent PROVE FALSE
  OBVIOUS
<1>1. "variant" \in DOMAIN c
  BY DEF Component
<1>2. "variant" \notin DOMAIN NoComponent
  BY DEF NoComponent
<1> QED BY <1>1, <1>2

\* What it is to leave every call as it was but for its target.
LEMMA OrphanedCalls ==
  ASSUME NEW c \in [Slots -> Calls \cup {Free}]
  PROVE  /\ Orphaned(c) \in [Slots -> Calls \cup {Free}]
         /\ \A s \in Slots : /\ Orphaned(c)[s].at = c[s].at /\ (c[s] # Free => Orphaned(c)[s].told = c[s].told)
                             /\ (Shows(c[s]) => /\ Orphaned(c)[s].kind = c[s].kind
                                                /\ Orphaned(c)[s].previous = c[s].previous)
<1>1. ASSUME NEW s \in Slots
      PROVE  /\ Orphaned(c)[s] \in Calls \cup {Free}
             /\ Orphaned(c)[s].at = c[s].at /\ (c[s] # Free => Orphaned(c)[s].told = c[s].told)
             /\ (Shows(c[s]) => /\ Orphaned(c)[s].kind = c[s].kind /\ Orphaned(c)[s].previous = c[s].previous)
  <2>1. CASE ~Mounts(c[s])
    <3>1. Orphaned(c)[s] = c[s]
      BY <2>1 DEF Orphaned
    <3> QED BY <3>1
  <2>2. CASE Mounts(c[s])
    <3>1. Orphaned(c)[s] = [c[s] EXCEPT !.stale = TRUE]
      BY <2>2 DEF Orphaned
    <3>2. c[s] \in Modules
      BY <2>2, CallCases
    <3>3. [c[s] EXCEPT !.stale = TRUE] \in Modules
      BY <3>2 DEF Modules
    <3> QED BY <3>1, <3>2, <3>3 DEF Modules, Calls
  <2> QED BY <2>1, <2>2
<1>2. Orphaned(c) \in [Slots -> Calls \cup {Free}]
  <2>1. Orphaned(c) = [s \in Slots |-> Orphaned(c)[s]]
    BY DEF Orphaned
  <2> QED BY <1>1, <2>1
<1> QED BY <1>1, <1>2

\* Every call that runs hears of a report.
Hearing(c) == [s \in Slots |-> IF c[s] = Free THEN Free ELSE [c[s] EXCEPT !.told = TRUE]]

LEMMA HearingCalls ==
  ASSUME NEW c \in [Slots -> Calls \cup {Free}]
  PROVE  /\ Hearing(c) \in [Slots -> Calls \cup {Free}]
         /\ \A s \in Slots : /\ Hearing(c)[s].at = c[s].at /\ (c[s] # Free => Hearing(c)[s].told = TRUE)
                             /\ (Shows(c[s]) => /\ Hearing(c)[s].kind = c[s].kind
                                                /\ Hearing(c)[s].previous = c[s].previous)
<1>1. ASSUME NEW s \in Slots
      PROVE  /\ Hearing(c)[s] \in Calls \cup {Free}
             /\ Hearing(c)[s].at = c[s].at /\ (c[s] # Free => Hearing(c)[s].told = TRUE)
             /\ (Shows(c[s]) => /\ Hearing(c)[s].kind = c[s].kind /\ Hearing(c)[s].previous = c[s].previous)
  <2>1. CASE c[s] = Free
    <3>1. Hearing(c)[s] = Free
      BY <2>1 DEF Hearing
    <3> QED BY <2>1, <3>1 DEF Shows, Free
  <2>2. CASE c[s] # Free /\ ~Mounts(c[s])
    <3>1. Hearing(c)[s] = [c[s] EXCEPT !.told = TRUE]
      BY <2>2 DEF Hearing
    <3>2. c[s] \in Reads
      BY <2>2, CallCases
    <3>3. [c[s] EXCEPT !.told = TRUE] \in Reads /\ [c[s] EXCEPT !.told = TRUE].at = c[s].at
          /\ [c[s] EXCEPT !.told = TRUE].told = TRUE
      BY <3>2 DEF Reads
    <3> QED BY <2>2, <3>1, <3>3 DEF Calls, Reads, Shows, Mounts
  <2>3. CASE Mounts(c[s])
    <3>1. Hearing(c)[s] = [c[s] EXCEPT !.told = TRUE]
      BY <2>3 DEF Hearing, Mounts, Free
    <3>2. c[s] \in Modules
      BY <2>3, CallCases
    <3>3. [c[s] EXCEPT !.told = TRUE] \in Modules
      BY <3>2 DEF Modules
    <3> QED BY <3>1, <3>2, <3>3 DEF Modules, Calls
  <2> QED BY <2>1, <2>2, <2>3
<1>2. Hearing(c) \in [Slots -> Calls \cup {Free}]
  <2>1. Hearing(c) = [s \in Slots |-> Hearing(c)[s]]
    BY DEF Hearing
  <2> QED BY <1>1, <2>1
<1> QED BY <1>1, <1>2

\* The calls are at the same points, for the same ends.
Alike(c, d) ==
  \A s \in Slots : /\ d[s].at = c[s].at
                   /\ Shows(c[s]) => d[s].kind = c[s].kind /\ d[s].previous = c[s].previous

LEMMA AlikeCalls ==
  ASSUME NEW c, NEW d, Alike(c, d)
  PROVE  \A s \in Slots : /\ Injects(d[s]) <=> Injects(c[s])
                          /\ First(d[s]) <=> First(c[s])
                          /\ Shows(d[s]) <=> Shows(c[s])
BY DEF Alike, Injects, First, Shows

LEMMA OrphanedAlike ==
  ASSUME NEW c \in [Slots -> Calls \cup {Free}]
  PROVE  Alike(c, Orphaned(c))
BY OrphanedCalls DEF Alike

\* A free slot does nothing.
LEMMA FreeSlot == ~Injects(Free) /\ ~First(Free) /\ ~Shows(Free)
BY DEF Injects, First, Shows, Free

\* A failure is reported: every injection that runs has heard of it.
LEMMA ReportIsHeard ==
  ASSUME CallsTyped, FailuresHeard, NEW c \in [Slots -> Calls \cup {Free}],
         \A s \in Slots : Injects(c[s]) => Injects(calls[s]) /\ c[s].told = calls[s].told,
         NEW v \in 1 .. Variants, NEW what \in {"manifest", "foreign", "module"}, Report(v, what, c)
  PROVE  /\ CallsTyped' /\ Alike(c, calls') /\ reported' \in Failures
         /\ \A s \in Slots : Injects(calls'[s]) => calls'[s].told
         /\ FailuresHeard'
         /\ \A s \in Slots : Injects(calls[s]) => ~Untold(s, v, what)
<1> DEFINE key == [variant |-> v, what |-> what]
<1>1. key \in Failures /\ reported' = key
  BY DEF Report, Failures
<1>2. key # NoFailure
  <2>1. "variant" \in DOMAIN key /\ "variant" \notin DOMAIN NoFailure
    BY DEF NoFailure
  <2> QED BY <2>1
<1>3. reported = key => \A s \in Slots : Injects(calls[s]) => calls[s].told
  BY <1>2 DEF FailuresHeard
<1>4. calls' = IF reported = key THEN c ELSE Hearing(c)
  BY DEF Report, Hearing
<1>5. CallsTyped' /\ Alike(c, calls')
  BY <1>4, HearingCalls DEF CallsTyped, Alike
<1>6. \A s \in Slots : Injects(calls'[s]) => calls'[s].told
  <2>1. CASE reported = key
    BY <1>3, <1>4, <2>1
  <2>2. CASE reported # key
    <3>1. ASSUME NEW s \in Slots, Injects(calls'[s]) PROVE calls'[s].told
      <4>1. c[s] # Free
        BY <1>5, <3>1, AlikeCalls, FreeSlot
      <4> QED BY <1>4, <2>2, <4>1, HearingCalls
    <3> QED BY <3>1
  <2> QED BY <2>1, <2>2
<1>7. \A s \in Slots : Injects(calls[s]) => ~Untold(s, v, what)
  BY <1>2 DEF FailuresHeard, Untold
<1> QED BY <1>1, <1>5, <1>6, <1>7 DEF FailuresHeard

\* An injection begins.
LEMMA InjectKeeps ==
  ASSUME MountInv, NEW s \in Slots, Inject(s), UNCHANGED <<component, visible, silent>>,
         mode' = "CYCLING" <=> mode = "CYCLING"
  PROVE  CallsTyped' /\ MountSound' /\ reported' = NoFailure
<1>1. calls[s] = Free /\ reported' = NoFailure
      /\ calls' = [calls EXCEPT ![s] = [at |-> "manifest", told |-> FALSE]]
  BY DEF Inject, Forget
<1>2. calls'[s] = [at |-> "manifest", told |-> FALSE] /\ \A r \in Slots \ {s} : calls'[r] = calls[r]
  BY <1>1 DEF MountInv, CallsTyped
<1>3. CallsTyped'
  BY <1>1 DEF MountInv, CallsTyped, Calls
<1>4. Injects(calls'[s]) /\ ~Shows(calls'[s]) /\ ~(calls'[s].at = "probe")
  BY <1>2 DEF Injects, Shows
<1>5. FailuresHeard'
  BY <1>1, <1>2, <1>4 DEF MountInv, MountSound, FailuresHeard
<1>6. FirstMounts'
  BY <1>1, <1>2, FreeSlot DEF MountInv, MountSound, FirstMounts
<1>7. WaitHasCause'
  BY <1>4 DEF WaitHasCause
<1>8. SomethingVisible'
  BY <1>2, <1>4 DEF MountInv, MountSound, SomethingVisible
<1> QED
  BY <1>1, <1>3, <1>5, <1>6, <1>7, <1>8 DEF MountInv, MountSound, EveryFailureIsReported

\* The calls go on, and something else happens.
LEMMA BesideCalls ==
  ASSUME MountInv, UNCHANGED <<calls, component, reported, visible, silent>>, WaitHasCause',
         mode' = "CYCLING" <=> mode = "CYCLING"
  PROVE  CallsTyped' /\ MountSound'
BY DEF MountInv, MountSound, CallsTyped, FailuresHeard, FirstMounts, SomethingVisible, EveryFailureIsReported

LEMMA PublishKeeps == MountInv /\ Publish => MountInv'
<1> SUFFICES ASSUME MountInv, Publish PROVE MountInv'
  OBVIOUS
<1>1. /\ published' = published + 1 /\ published < MaxPublished /\ news'
      /\ UNCHANGED <<mode, current, arrived, visible, card, waiting, component, reported, calls, silent>>
  BY DEF Publish, mountui
<1>2. manifest' \in 0 .. Variants
  BY MountAssumption DEF Publish, MountInv, UiTyped
<1>3. UiTyped'
  BY <1>1, <1>2, MountAssumption DEF MountInv, UiTyped
<1>4. WaitHasCause'
  BY <1>1 DEF MountInv, MountSound, WaitHasCause
<1> QED BY <1>1, <1>3, <1>4, BesideCalls DEF MountInv

LEMMA DismissKeeps == MountInv /\ (TargetComesOrGoes \/ Dismiss) => MountInv'
<1> SUFFICES ASSUME MountInv, TargetComesOrGoes \/ Dismiss PROVE MountInv'
  OBVIOUS
<1>1. /\ UNCHANGED <<calls, component, reported, visible, arrived, manifest, published, news, current, waiting, silent>>
      /\ \/ UNCHANGED <<mode, card>>
         \/ card' = NoCard /\ mode' = IF mode = "GENERATING" THEN "PICKING" ELSE mode
  BY DEF TargetComesOrGoes, Dismiss, mountui, world
<1>2. UiTyped'
  BY <1>1, MountAssumption DEF MountInv, UiTyped, NoCard
<1>3. WaitHasCause'
  BY <1>1 DEF MountInv, MountSound, WaitHasCause
<1>4. mode' = "CYCLING" <=> mode = "CYCLING"
  BY <1>1
<1> QED BY <1>1, <1>2, <1>3, <1>4, BesideCalls DEF MountInv

LEMMA AnnouncedKeeps ==
  ASSUME MountInv, NEW s \in Slots, Announced(s)
  PROVE  MountInv'
<1>1. /\ UNCHANGED <<mode, current, arrived, visible, card, waiting, component, manifest, published, silent>>
      /\ IF current THEN Inject(s) ELSE UNCHANGED <<calls, reported>>
  BY DEF Announced, mountui
<1>2. CASE current
  <2>1. CallsTyped' /\ MountSound' /\ reported' = NoFailure
    BY <1>1, <1>2, InjectKeeps
  <2> QED BY <1>1, <2>1 DEF MountInv, UiTyped
<1>3. CASE ~current
  <2>1. WaitHasCause'
    BY <1>1, <1>3 DEF MountInv, MountSound, WaitHasCause
  <2>2. UiTyped'
    BY <1>1, <1>3 DEF MountInv, UiTyped
  <2> QED BY <1>1, <1>3, <2>1, <2>2, BesideCalls DEF MountInv
<1> QED BY <1>2, <1>3

LEMMA TargetFoundKeeps ==
  ASSUME MountInv, NEW s \in Slots, TargetFound(s)
  PROVE  MountInv'
<1>1. /\ UNCHANGED <<mode, current, arrived, visible, card, component, manifest, published, news, silent>>
      /\ IF component # NoComponent THEN UNCHANGED <<calls, reported>> ELSE Inject(s)
  BY DEF TargetFound, world
<1>2. CASE component = NoComponent
  <2>1. CallsTyped' /\ MountSound' /\ reported' = NoFailure
    BY <1>1, <1>2, InjectKeeps
  <2> QED BY <1>1, <2>1 DEF MountInv, UiTyped
<1>3. CASE component # NoComponent
  <2>1. mode = "GENERATING" => \E r \in Slots : Injects(calls[r])
    BY <1>3 DEF MountInv, MountSound, FirstMounts, First, Injects
  <2>2. WaitHasCause'
    BY <1>1, <1>3, <2>1 DEF WaitHasCause
  <2>3. UiTyped'
    BY <1>1, <1>3 DEF MountInv, UiTyped
  <2> QED BY <1>1, <1>3, <2>2, <2>3, BesideCalls DEF MountInv
<1> QED BY <1>2, <1>3

LEMMA RetryKeeps ==
  ASSUME MountInv, NEW s \in Slots, Retry(s)
  PROVE  MountInv'
<1>1. /\ UNCHANGED <<current, arrived, visible, waiting, component, manifest, published, news, silent>>
      /\ card' = NoCard /\ mode' = IF mode # "CYCLING" THEN "GENERATING" ELSE mode
  BY DEF Retry, world
<1>2. CallsTyped' /\ MountSound' /\ reported' = NoFailure
  BY <1>1, InjectKeeps DEF Retry
<1> QED BY <1>1, <1>2, MountAssumption DEF MountInv, UiTyped, NoCard

\* One call goes from one point to another or ends; the others stay.
LEMMA OneCall ==
  ASSUME CallsTyped, NEW s \in Slots, NEW c \in Calls \cup {Free}
  PROVE  /\ [calls EXCEPT ![s] = c] \in [Slots -> Calls \cup {Free}]
         /\ [calls EXCEPT ![s] = c][s] = c
         /\ \A r \in Slots \ {s} : [calls EXCEPT ![s] = c][r] = calls[r]
BY DEF CallsTyped

LEMMA SelectKeeps ==
  ASSUME MountInv, NEW s \in Slots, NEW v \in 1 .. Variants, Select(s, v)
  PROVE  MountInv'
<1> DEFINE c == [at |-> "import", kind |-> "show", variant |-> v, previous |-> visible,
                 stale |-> FALSE, told |-> FALSE]
<1>1. /\ mode = "CYCLING" /\ calls[s] = Free /\ calls' = [calls EXCEPT ![s] = c] /\ visible' = v
      /\ UNCHANGED <<mode, current, arrived, card, waiting, component, reported, manifest, published, news, silent>>
  BY DEF Select, world
<1>2. c \in Modules /\ Shows(c) /\ ~Injects(c) /\ ~First(c) /\ c.kind = "show" /\ c.previous = visible /\ visible # 0
  BY <1>1 DEF Modules, MountInv, UiTyped, Shows, Injects, First, MountSound, SomethingVisible
<1> HIDE DEF c
<1>3. c \in Calls \cup {Free}
  BY <1>2 DEF Calls, Modules
<1>4. CallsTyped' /\ calls'[s] = c /\ \A r \in Slots \ {s} : calls'[r] = calls[r]
  BY <1>1, <1>3, OneCall DEF MountInv, CallsTyped
<1>5. UiTyped'
  BY <1>1 DEF MountInv, UiTyped
<1>6. FailuresHeard'
  BY <1>1, <1>2, <1>4 DEF MountInv, MountSound, FailuresHeard
<1>7. FirstMounts'
  BY <1>1 DEF FirstMounts
<1>8. WaitHasCause'
  BY <1>1 DEF WaitHasCause
<1>9. SomethingVisible'
  BY <1>1, <1>2, <1>4 DEF MountInv, MountSound, SomethingVisible
<1> QED
  BY <1>1, <1>4, <1>5, <1>6, <1>7, <1>8, <1>9 DEF MountInv, MountSound, EveryFailureIsReported

LEMMA VariantsNamed ==
  ASSUME MountInv
  PROVE  /\ Visible1 \in 1 .. Variants /\ NoCard \notin 0 .. Variants
         /\ \A n \in 1 .. Variants : Shown(visible, n) \in 1 .. Variants /\ Shown(visible, n) # 0
BY MountAssumption DEF MountInv, UiTyped, Visible1, NoCard, Shown

\* The injection ends: its manifest cannot be read, or is another session's.
LEMMA ManifestRefusedKeeps ==
  ASSUME MountInv, NEW s \in Slots, ManifestUnreadable(s) \/ ManifestForeign(s)
  PROVE  MountInv'
<1> DEFINE d == [calls EXCEPT ![s] = Free]
<1>1. calls[s].at = "manifest" /\ Injects(calls[s])
  BY DEF ManifestUnreadable, ManifestForeign, Injects
<1>2. d \in [Slots -> Calls \cup {Free}] /\ d[s] = Free /\ \A r \in Slots \ {s} : d[r] = calls[r]
  BY OneCall DEF MountInv
<1>3. /\ card' = visible /\ UNCHANGED <<mode, current, arrived, visible, manifest, published, news>>
      /\ component' = NoComponent \/ component' = component
  BY DEF ManifestUnreadable, ManifestForeign, Abort, world
<1> HIDE DEF d
<1>4. PICK what \in {"manifest", "foreign", "module"} :
        /\ Report(Visible1, what, Orphaned(d)) \/ Report(Visible1, what, d)
        /\ silent' = (silent \/ Untold(s, Visible1, what))
  BY DEF ManifestUnreadable, ManifestForeign, d
<1>5. PICK c \in {d, Orphaned(d)} : Report(Visible1, what, c)
  BY <1>4
<1>6. c \in [Slots -> Calls \cup {Free}] /\ Alike(d, c)
      /\ \A r \in Slots : d[r] # Free => c[r].told = d[r].told
  BY <1>2, <1>5, OrphanedCalls, OrphanedAlike DEF Alike
<1>7. \A r \in Slots : /\ Injects(c[r]) => r # s /\ Injects(calls[r]) /\ c[r].told = calls[r].told
                       /\ r # s => (First(c[r]) <=> First(calls[r]))
                       /\ Shows(c[r]) => /\ Shows(calls[r]) /\ c[r].kind = calls[r].kind
                                         /\ c[r].previous = calls[r].previous
  <2> SUFFICES ASSUME NEW r \in Slots
               PROVE  /\ Injects(c[r]) => r # s /\ Injects(calls[r]) /\ c[r].told = calls[r].told
                      /\ r # s => (First(c[r]) <=> First(calls[r]))
                      /\ Shows(c[r]) => /\ Shows(calls[r]) /\ c[r].kind = calls[r].kind
                                        /\ c[r].previous = calls[r].previous
    OBVIOUS
  <2>1. (Injects(c[r]) <=> Injects(d[r])) /\ (First(c[r]) <=> First(d[r])) /\ (Shows(c[r]) <=> Shows(d[r]))
    BY <1>6, AlikeCalls
  <2>2. CASE r = s
    BY <1>2, <2>1, <2>2, FreeSlot
  <2>3. CASE r # s
    <3>1. d[r] = calls[r]
      BY <1>2, <2>3
    <3>2. Injects(d[r]) => d[r] # Free
      BY FreeSlot
    <3> QED BY <1>6, <2>1, <2>3, <3>1, <3>2 DEF Alike
  <2> QED BY <2>2, <2>3
<1>8. /\ CallsTyped' /\ Alike(c, calls') /\ reported' \in Failures /\ FailuresHeard'
      /\ ~Untold(s, Visible1, what)
  BY <1>1, <1>5, <1>6, <1>7, VariantsNamed, ReportIsHeard DEF MountInv, MountSound
<1>9. UiTyped'
  BY <1>3, <1>8, MountAssumption DEF MountInv, UiTyped, NoCard
<1>10. FirstMounts'
  <2> SUFFICES ASSUME component' # NoComponent, mode' # "CYCLING" PROVE \E r \in Slots : First(calls'[r])
    BY DEF FirstMounts
  <2>1. PICK r \in Slots : First(calls[r])
    BY <1>3 DEF MountInv, MountSound, FirstMounts
  <2>2. r # s
    BY <1>1, <2>1 DEF First
  <2> QED BY <1>7, <1>8, <2>1, <2>2, AlikeCalls
<1>11. WaitHasCause'
  BY <1>3, VariantsNamed DEF WaitHasCause, MountInv, UiTyped
<1>12. SomethingVisible'
  <2>1. ASSUME NEW r \in Slots, Shows(calls'[r])
        PROVE  visible' # 0 /\ (calls'[r].kind = "show" => calls'[r].previous # 0)
    <3>1. Shows(c[r])
      BY <1>8, <2>1, AlikeCalls
    <3>2. calls'[r].kind = calls[r].kind /\ calls'[r].previous = calls[r].previous /\ Shows(calls[r])
      BY <1>7, <1>8, <3>1 DEF Alike
    <3> QED BY <1>3, <3>2 DEF MountInv, MountSound, SomethingVisible
  <2> QED BY <1>3, <2>1 DEF MountInv, MountSound, SomethingVisible
<1> QED
  BY <1>4, <1>8, <1>9, <1>10, <1>11, <1>12 DEF MountInv, MountSound, EveryFailureIsReported

\* The injection goes on, and waits for the parameters.
LEMMA ManifestReadKeeps ==
  ASSUME MountInv, NEW s \in Slots, ManifestRead(s)
  PROVE  MountInv'
<1> DEFINE c == [at |-> "params", count |-> manifest, told |-> calls[s].told]
<1>1. /\ calls[s].at = "manifest" /\ manifest > 0 /\ calls' = [calls EXCEPT ![s] = c]
      /\ UNCHANGED <<mode, current, arrived, visible, card, waiting, component, reported, manifest, published, news, silent>>
  BY DEF ManifestRead, mountui, world
<1>2. /\ c \in Reads /\ Injects(c) /\ ~First(c) /\ ~Shows(c) /\ c.told = calls[s].told /\ c.at # "probe"
      /\ Injects(calls[s]) /\ ~First(calls[s]) /\ ~Shows(calls[s])
  <2>1. calls[s].told \in BOOLEAN
    BY <1>1, CallCases DEF MountInv, CallsTyped, Reads, Mounts, Free
  <2>2. manifest \in 1 .. Variants
    BY <1>1, MountAssumption DEF MountInv, UiTyped
  <2> QED BY <1>1, <2>1, <2>2 DEF Reads, Injects, First, Shows
<1> HIDE DEF c
<1>3. c \in Calls \cup {Free}
  BY <1>2 DEF Calls, Reads
<1>4. CallsTyped' /\ calls'[s] = c /\ \A r \in Slots \ {s} : calls'[r] = calls[r]
  BY <1>1, <1>3, OneCall DEF MountInv, CallsTyped
<1>5. UiTyped'
  BY <1>1 DEF MountInv, UiTyped
<1>6. FailuresHeard'
  BY <1>1, <1>2, <1>4 DEF MountInv, MountSound, FailuresHeard
<1>7. FirstMounts' /\ WaitHasCause'
  BY <1>1, <1>2, <1>4 DEF MountInv, MountSound, FirstMounts, WaitHasCause
<1>8. SomethingVisible'
  BY <1>1, <1>2, <1>4 DEF MountInv, MountSound, SomethingVisible
<1> QED BY <1>1, <1>4, <1>5, <1>6, <1>7, <1>8 DEF MountInv, MountSound, EveryFailureIsReported

\* The manifest is adopted: what it names is mounted, or the element is waited for.
LEMMA ParamsReadKeeps ==
  ASSUME MountInv, NEW s \in Slots, ParamsRead(s)
  PROVE  MountInv'
<1> DEFINE w == Shown(visible, calls[s].count)
           m(kind) == [at |-> "import", kind |-> kind, variant |-> w, previous |-> 0,
                       stale |-> FALSE, told |-> calls[s].told]
<1>1. /\ calls[s].at = "params" /\ visible' = w /\ arrived' = calls[s].count
      /\ UNCHANGED <<card, reported, manifest, published, news, silent>> /\ current'
  BY DEF ParamsRead, Adopt, world
<1>2. w \in 1 .. Variants /\ w # 0 /\ arrived' \in 0 .. Variants
  <2>1. calls[s].count \in 1 .. Variants
    BY <1>1, CallCases DEF MountInv, CallsTyped
  <2> QED BY <1>1, <2>1, VariantsNamed, MountAssumption
<1>3. calls[s].told \in BOOLEAN /\ Injects(calls[s]) /\ ~First(calls[s]) /\ ~Shows(calls[s])
  BY <1>1, CallCases DEF MountInv, CallsTyped, Injects, First, Shows, Free, Reads, Mounts
<1> HIDE DEF w
<1>4. ASSUME NEW kind \in {"first", "remount"}
      PROVE  /\ m(kind) \in Modules /\ Shows(m(kind)) /\ Injects(m(kind)) /\ m(kind).told = calls[s].told
             /\ m(kind).kind = kind /\ m(kind).at # "probe" /\ (kind = "first" => First(m(kind)))
  BY <1>2, <1>3, MountAssumption DEF Modules, Shows, Injects, First
<1> HIDE DEF m
<1>5. \/ \E kind \in {"first", "remount"} :
            /\ calls' = [calls EXCEPT ![s] = m(kind)]
            /\ kind = "first" \/ component' = component
            /\ mode' = IF mode = "CYCLING" THEN mode ELSE "GENERATING"
            /\ component' # NoComponent
            /\ component' \in Component
      \/ /\ component' = NoComponent /\ mode' = "GENERATING" /\ waiting' = TRUE
         /\ calls' = [calls EXCEPT ![s] = Free]
  <2>1. CASE component # NoComponent
    BY <2>1, <1>3 DEF ParamsRead, Mount, m, w, MountInv, UiTyped
  <2>2. CASE component = NoComponent /\ target
    <3>1. component' = [mounted |-> FALSE, shown |-> FALSE, variant |-> 0]
      BY <2>2 DEF ParamsRead
    <3>2. component' \in Component
      BY <3>1, MountAssumption DEF Component
    <3>3. component' # NoComponent
      BY <3>2, ComponentIsThere
    <3> QED BY <2>2, <3>2, <3>3 DEF ParamsRead, Mount, m, w
  <2>3. CASE component = NoComponent /\ ~target
    BY <2>3 DEF ParamsRead
  <2> QED BY <2>1, <2>2, <2>3
<1>6. ASSUME NEW kind \in {"first", "remount"}, calls' = [calls EXCEPT ![s] = m(kind)],
             kind = "first" \/ component' = component, mode' = IF mode = "CYCLING" THEN mode ELSE "GENERATING",
             component' \in Component
      PROVE  MountInv'
  <2>1. m(kind) \in Calls \cup {Free}
    BY <1>4 DEF Calls, Modules
  <2>2. CallsTyped' /\ calls'[s] = m(kind) /\ \A r \in Slots \ {s} : calls'[r] = calls[r]
    BY <1>6, <2>1, OneCall DEF MountInv, CallsTyped
  <2>3. UiTyped'
    BY <1>1, <1>2, <1>6, MountAssumption DEF MountInv, UiTyped
  <2>4. FailuresHeard'
    BY <1>1, <1>3, <1>4, <2>2 DEF MountInv, MountSound, FailuresHeard
  <2>5. FirstMounts'
    <3>1. CASE kind = "first"
      BY <1>4, <2>2, <3>1 DEF FirstMounts
    <3>2. CASE kind # "first"
      <4> SUFFICES ASSUME component' # NoComponent, mode' # "CYCLING" PROVE \E r \in Slots : First(calls'[r])
        BY DEF FirstMounts
      <4>1. PICK r \in Slots : First(calls[r])
        BY <1>6, <3>2 DEF MountInv, MountSound, FirstMounts
      <4> QED BY <1>3, <2>2, <4>1
    <3> QED BY <3>1, <3>2
  <2>6. WaitHasCause'
    BY <1>4, <2>2 DEF WaitHasCause
  <2>7. SomethingVisible'
    <3>1. \A r \in Slots : Shows(calls'[r]) => (calls'[r].kind = "show" => calls'[r].previous # 0)
      BY <1>4, <2>2 DEF MountInv, MountSound, SomethingVisible
    <3> QED BY <1>1, <1>2, <3>1 DEF SomethingVisible
  <2> QED
    BY <1>1, <2>2, <2>3, <2>4, <2>5, <2>6, <2>7 DEF MountInv, MountSound, EveryFailureIsReported
<1>7. ASSUME component' = NoComponent, mode' = "GENERATING", waiting', calls' = [calls EXCEPT ![s] = Free]
      PROVE  MountInv'
  <2>1. CallsTyped' /\ calls'[s] = Free /\ \A r \in Slots \ {s} : calls'[r] = calls[r]
    BY <1>7, OneCall DEF MountInv, CallsTyped
  <2>2. UiTyped'
    BY <1>1, <1>2, <1>7, MountAssumption DEF MountInv, UiTyped
  <2>3. FailuresHeard'
    BY <1>1, <2>1, FreeSlot DEF MountInv, MountSound, FailuresHeard
  <2>4. FirstMounts' /\ WaitHasCause'
    BY <1>7 DEF FirstMounts, WaitHasCause
  <2>5. SomethingVisible'
    BY <1>1, <1>2, <2>1, FreeSlot DEF MountInv, MountSound, SomethingVisible
  <2> QED
    BY <1>1, <2>1, <2>2, <2>3, <2>4, <2>5 DEF MountInv, MountSound, EveryFailureIsReported
<1> QED BY <1>5, <1>6, <1>7

\* A call that shows a variant goes on to another point, for the same end.
LEMMA GoesOnKeeps ==
  ASSUME MountInv, NEW s \in Slots, NEW at \in {"import", "unmount", "probe"}, Shows(calls[s])
  PROVE  LET d == [calls EXCEPT ![s].at = at]
         IN /\ d \in [Slots -> Calls \cup {Free}]
            /\ d[s].at = at /\ \A r \in Slots \ {s} : d[r] = calls[r]
            /\ \A r \in Slots : /\ Injects(d[r]) <=> Injects(calls[r])
                                /\ First(d[r]) <=> First(calls[r])
                                /\ Shows(d[r]) <=> Shows(calls[r])
                                /\ Injects(d[r]) => d[r].told = calls[r].told
                                /\ Shows(d[r]) => d[r].kind = calls[r].kind /\ d[r].previous = calls[r].previous
<1> DEFINE c == [calls[s] EXCEPT !.at = at]
<1>1. calls[s] \in Modules
  BY CallCases, FreeSlot DEF MountInv, CallsTyped, Shows, Mounts
<1>2. c \in Modules /\ c.at = at /\ c.kind = calls[s].kind /\ c.previous = calls[s].previous /\ c.told = calls[s].told
  BY <1>1 DEF Modules
<1>3. c \in Calls \cup {Free} /\ Shows(c) /\ (Injects(c) <=> Injects(calls[s])) /\ (First(c) <=> First(calls[s]))
  BY <1>1, <1>2 DEF Calls, Modules, Shows, Injects, First
<1>4. [calls EXCEPT ![s].at = at] = [calls EXCEPT ![s] = c]
  OBVIOUS
<1> HIDE DEF c
<1> QED BY <1>2, <1>3, <1>4, OneCall DEF MountInv

LEMMA ImportedKeeps ==
  ASSUME MountInv, NEW s \in Slots, Imported(s)
  PROVE  MountInv'
<1>1. /\ Shows(calls[s]) /\ component.mounted /\ component' = [component EXCEPT !.shown = FALSE]
      /\ calls[s].at = "import" /\ calls' = [calls EXCEPT ![s].at = "unmount"]
      /\ UNCHANGED <<mode, current, arrived, visible, card, waiting, reported, manifest, published, news, silent>>
  BY DEF Imported, Shows, mountui, world
<1>2. component \in Component
  BY <1>1 DEF MountInv, UiTyped, NoComponent
<1>3. component' \in Component
  BY <1>1, <1>2 DEF Component
<1>4. CallsTyped' /\ calls'[s].at = "unmount" /\ (\A r \in Slots \ {s} : calls'[r] = calls[r])
      /\ \A r \in Slots : /\ Injects(calls'[r]) <=> Injects(calls[r])
                          /\ First(calls'[r]) <=> First(calls[r])
                          /\ Shows(calls'[r]) <=> Shows(calls[r])
                          /\ Injects(calls'[r]) => calls'[r].told = calls[r].told
                          /\ Shows(calls'[r]) => calls'[r].kind = calls[r].kind /\ calls'[r].previous = calls[r].previous
  <2> DEFINE d == [calls EXCEPT ![s].at = "unmount"]
  <2>1. d \in [Slots -> Calls \cup {Free}]
        /\ d[s].at = "unmount" /\ (\A r \in Slots \ {s} : d[r] = calls[r])
        /\ \A r \in Slots : /\ Injects(d[r]) <=> Injects(calls[r])
                            /\ First(d[r]) <=> First(calls[r])
                            /\ Shows(d[r]) <=> Shows(calls[r])
                            /\ Injects(d[r]) => d[r].told = calls[r].told
                            /\ Shows(d[r]) => d[r].kind = calls[r].kind /\ d[r].previous = calls[r].previous
    BY <1>1, GoesOnKeeps
  <2>2. calls' = d
    BY <1>1
  <2> HIDE DEF d
  <2> QED BY <2>1, <2>2 DEF CallsTyped
<1>5. UiTyped'
  BY <1>1, <1>3 DEF MountInv, UiTyped
<1>6. FailuresHeard'
  BY <1>1, <1>4 DEF MountInv, MountSound, FailuresHeard
<1>7. FirstMounts'
  BY <1>1, <1>2, <1>4, ComponentIsThere DEF MountInv, MountSound, FirstMounts
<1>8. WaitHasCause'
  BY <1>1, <1>4 DEF MountInv, MountSound, WaitHasCause
<1>9. SomethingVisible'
  BY <1>1, <1>4 DEF MountInv, MountSound, SomethingVisible
<1> QED
  BY <1>1, <1>4, <1>5, <1>6, <1>7, <1>8, <1>9 DEF MountInv, MountSound, EveryFailureIsReported

LEMMA MountedKeeps ==
  ASSUME MountInv, NEW s \in Slots, Mounted(s)
  PROVE  MountInv'
<1>1. /\ Shows(calls[s]) /\ component # NoComponent /\ calls' = [calls EXCEPT ![s] = Free]
      /\ component' = [mounted |-> TRUE, shown |-> ~calls[s].stale, variant |-> calls[s].variant]
      /\ card' \in {card, NoCard}
      /\ mode' = IF calls[s].kind \in {"first", "remount"} THEN "CYCLING" ELSE mode
      /\ UNCHANGED <<current, arrived, visible, waiting, reported, manifest, published, news, silent>>
  BY DEF Mounted, Unmounted, Shows, world
<1>2. calls[s] \in Modules
  BY <1>1, CallCases, FreeSlot DEF MountInv, CallsTyped, Shows, Mounts
<1>3. component' \in Component
  <2>1. (~calls[s].stale) \in BOOLEAN /\ calls[s].variant \in 0 .. Variants
    BY <1>2, MountAssumption DEF Modules
  <2> QED BY <1>1, <2>1 DEF Component
<1>4. CallsTyped' /\ calls'[s] = Free /\ \A r \in Slots \ {s} : calls'[r] = calls[r]
  BY <1>1, OneCall DEF MountInv, CallsTyped
<1>5. UiTyped'
  <2>1. card' \in NoCard .. Variants
    BY <1>1, MountAssumption DEF MountInv, UiTyped, NoCard
  <2> QED BY <1>1, <1>3, <2>1 DEF MountInv, UiTyped
<1>6. FailuresHeard'
  BY <1>1, <1>4, FreeSlot DEF MountInv, MountSound, FailuresHeard
<1>7. mode' # "CYCLING" => \E r \in Slots : First(calls'[r])
  <2> SUFFICES ASSUME mode' # "CYCLING" PROVE \E r \in Slots : First(calls'[r])
    OBVIOUS
  <2>1. PICK r \in Slots : First(calls[r])
    BY <1>1 DEF MountInv, MountSound, FirstMounts
  <2>2. r # s
    BY <1>1, <2>1 DEF First
  <2> QED BY <1>4, <2>1, <2>2
<1>8. FirstMounts' /\ WaitHasCause'
  BY <1>7 DEF FirstMounts, WaitHasCause, First, Injects
<1>9. SomethingVisible'
  BY <1>1, <1>4, FreeSlot DEF MountInv, MountSound, SomethingVisible
<1> QED
  BY <1>1, <1>4, <1>5, <1>6, <1>8, <1>9 DEF MountInv, MountSound, EveryFailureIsReported

LEMMA MountFailsKeeps ==
  ASSUME MountInv, NEW s \in Slots, MountFails(s)
  PROVE  MountInv'
<1> DEFINE d == [calls EXCEPT ![s].at = "probe"]
<1>1. /\ Shows(calls[s]) /\ Report(calls[s].variant, "module", d)
      /\ \/ component' = component
         \/ component # NoComponent /\ component' = [component EXCEPT !.mounted = FALSE, !.shown = FALSE]
      /\ UNCHANGED <<mode, current, arrived, visible, card, waiting, manifest, published, news, silent>>
  BY DEF MountFails, Unmounted, Shows, mountui, world
<1>2. calls[s] \in Modules
  BY <1>1, CallCases, FreeSlot DEF MountInv, CallsTyped, Shows, Mounts
<1>3. d \in [Slots -> Calls \cup {Free}]
      /\ \A r \in Slots : /\ Injects(d[r]) <=> Injects(calls[r])
                          /\ First(d[r]) <=> First(calls[r])
                          /\ Shows(d[r]) <=> Shows(calls[r])
                          /\ Injects(d[r]) => d[r].told = calls[r].told
                          /\ Shows(d[r]) => d[r].kind = calls[r].kind /\ d[r].previous = calls[r].previous
  BY <1>1, GoesOnKeeps
<1> HIDE DEF d
<1>4. CallsTyped' /\ Alike(d, calls') /\ reported' \in Failures /\ FailuresHeard'
  BY <1>1, <1>2, <1>3, ReportIsHeard DEF MountInv, MountSound, Modules
<1>5. \A r \in Slots : /\ Injects(calls'[r]) <=> Injects(calls[r])
                       /\ First(calls'[r]) <=> First(calls[r])
                       /\ Shows(calls'[r]) <=> Shows(calls[r])
                       /\ Shows(calls'[r]) => calls'[r].kind = calls[r].kind /\ calls'[r].previous = calls[r].previous
  <2>1. \A r \in Slots : /\ Injects(calls'[r]) <=> Injects(d[r])
                         /\ First(calls'[r]) <=> First(d[r])
                         /\ Shows(calls'[r]) <=> Shows(d[r])
    BY <1>4, AlikeCalls
  <2>2. \A r \in Slots : Shows(d[r]) => calls'[r].kind = d[r].kind /\ calls'[r].previous = d[r].previous
    BY <1>4 DEF Alike
  <2> QED BY <1>3, <2>1, <2>2, Zenon
<1>6. component' # NoComponent => component # NoComponent
  BY <1>1
<1>7. component' \in Component \cup {NoComponent}
  <2>1. CASE component # NoComponent
    <3>1. component \in Component
      BY <2>1 DEF MountInv, UiTyped
    <3> QED BY <1>1, <3>1 DEF Component
  <2> QED BY <1>1, <2>1 DEF MountInv, UiTyped
<1>8. UiTyped'
  BY <1>1, <1>4, <1>7 DEF MountInv, UiTyped
<1>9. FirstMounts'
  BY <1>1, <1>5, <1>6 DEF MountInv, MountSound, FirstMounts
<1>10. WaitHasCause'
  BY <1>1, <1>5 DEF MountInv, MountSound, WaitHasCause
<1>11. SomethingVisible'
  BY <1>1, <1>5 DEF MountInv, MountSound, SomethingVisible
<1> QED
  BY <1>1, <1>4, <1>8, <1>9, <1>10, <1>11 DEF MountInv, MountSound, EveryFailureIsReported

\* The slots other than s are as they were, or only lost their target.
Others(s) ==
  \A r \in Slots \ {s} : /\ Injects(calls'[r]) <=> Injects(calls[r])
                         /\ First(calls'[r]) <=> First(calls[r])
                         /\ Shows(calls'[r]) <=> Shows(calls[r])
                         /\ Injects(calls'[r]) => calls'[r].told = calls[r].told /\ calls'[r].at = calls[r].at
                         /\ Shows(calls'[r]) => calls'[r].kind = calls[r].kind /\ calls'[r].previous = calls[r].previous

LEMMA OrphanedOthers ==
  ASSUME MountInv, NEW c \in [Slots -> Calls \cup {Free}], calls' = Orphaned(c)
  PROVE  /\ CallsTyped'
         /\ \A r \in Slots : c[r] = calls[r] =>
              /\ Injects(calls'[r]) <=> Injects(calls[r])
              /\ First(calls'[r]) <=> First(calls[r])
              /\ Shows(calls'[r]) <=> Shows(calls[r])
              /\ Injects(calls'[r]) => calls'[r].told = calls[r].told /\ calls'[r].at = calls[r].at
              /\ Shows(calls'[r]) => calls'[r].kind = calls[r].kind /\ calls'[r].previous = calls[r].previous
         /\ \A r \in Slots : c[r] = Free => ~Injects(calls'[r]) /\ ~First(calls'[r]) /\ ~Shows(calls'[r])
<1>1. CallsTyped' /\ Alike(c, calls')
  BY OrphanedCalls, OrphanedAlike DEF CallsTyped
<1>2. \A r \in Slots : c[r] # Free => calls'[r].told = c[r].told
  BY OrphanedCalls
<1>3. \A r \in Slots : /\ Injects(calls'[r]) <=> Injects(c[r])
                       /\ First(calls'[r]) <=> First(c[r])
                       /\ Shows(calls'[r]) <=> Shows(c[r])
  BY <1>1, AlikeCalls
<1>4. \A r \in Slots : Injects(c[r]) => c[r] # Free
  BY FreeSlot
<1>5. \A r \in Slots : /\ calls'[r].at = c[r].at
                       /\ Shows(c[r]) => calls'[r].kind = c[r].kind /\ calls'[r].previous = c[r].previous
  BY <1>1 DEF Alike
<1>6. ASSUME NEW r \in Slots, c[r] = calls[r]
      PROVE  /\ Injects(calls'[r]) <=> Injects(calls[r])
             /\ First(calls'[r]) <=> First(calls[r])
             /\ Shows(calls'[r]) <=> Shows(calls[r])
             /\ Injects(calls'[r]) => calls'[r].told = calls[r].told /\ calls'[r].at = calls[r].at
             /\ Shows(calls'[r]) => calls'[r].kind = calls[r].kind /\ calls'[r].previous = calls[r].previous
  BY <1>2, <1>3, <1>4, <1>5, <1>6, Zenon
<1> QED BY <1>1, <1>3, <1>6, FreeSlot

\* The probe is answered, and the card is shown.
LEMMA FailureShownKeeps ==
  ASSUME MountInv, NEW s \in Slots, FailureShown(s)
  PROVE  MountInv'
<1> DEFINE c == calls[s]
           back == [c EXCEPT !.at = "import", !.kind = "revert", !.variant = c.previous]
<1>1. /\ Shows(c) /\ c.at = "probe" /\ card' = c.variant
      /\ silent' = (silent \/ (c.kind \in {"first", "remount"} /\ ~c.told))
      /\ UNCHANGED <<mode, current, arrived, reported, manifest, published, news>>
  BY DEF FailureShown, Shows, world
<1>2. c \in Modules /\ (c.kind = "show" => c.previous # 0)
  BY <1>1, CallCases, FreeSlot DEF MountInv, CallsTyped, Shows, Mounts, MountSound, SomethingVisible
<1>3. ~silent'
  BY <1>1 DEF MountInv, MountSound, EveryFailureIsReported, FailuresHeard, Injects
<1>4. c.kind = "show" => back \in Calls /\ back.kind = "revert" /\ back.at = "import"
  <2>0. c.kind = "show" => c.previous \in 1 .. Variants
    BY <1>2, MountAssumption DEF Modules
  <2> HIDE DEF c
  <2>1. c.kind = "show" => back \in Modules /\ back.kind = "revert" /\ back.at = "import"
    BY <1>2, <2>0 DEF Modules
  <2> HIDE DEF back
  <2> QED BY <2>1 DEF Modules, Calls
<1>5. \/ c.kind = "first" /\ component' = NoComponent /\ calls' = Orphaned([calls EXCEPT ![s] = Free]) /\ visible' = visible
      \/ /\ c.kind = "show" /\ component' = component /\ visible' = c.previous
         /\ calls' = [calls EXCEPT ![s] = back] \/ calls' = [calls EXCEPT ![s] = Free]
      \/ /\ c.kind \in {"remount", "revert"} /\ component' = component /\ visible' = visible
         /\ calls' = [calls EXCEPT ![s] = Free]
  BY DEF FailureShown, Abort
<1>6. /\ CallsTyped' /\ Others(s)
      /\ Shows(calls'[s]) => calls'[s].kind = "revert" /\ ~Injects(calls'[s])
      /\ ~Injects(calls'[s])
  <2>1. ASSUME NEW x \in Calls \cup {Free}, calls' = [calls EXCEPT ![s] = x], ~Injects(x),
               Shows(x) => x.kind = "revert"
        PROVE  /\ CallsTyped' /\ Others(s)
               /\ Shows(calls'[s]) => calls'[s].kind = "revert" /\ ~Injects(calls'[s])
               /\ ~Injects(calls'[s])
    BY <2>1, OneCall DEF MountInv, CallsTyped, Others
  <2>2. CASE calls' = [calls EXCEPT ![s] = Free]
    BY <2>1, <2>2, FreeSlot
  <2>3. CASE c.kind = "show" /\ calls' = [calls EXCEPT ![s] = back]
    <3>1. ~Injects(back)
      BY <1>4, <2>3 DEF Injects
    <3> HIDE DEF back
    <3> QED BY <1>4, <2>1, <2>3, <3>1
  <2>4. CASE calls' = Orphaned([calls EXCEPT ![s] = Free])
    <3> DEFINE d == [calls EXCEPT ![s] = Free]
    <3>1. d \in [Slots -> Calls \cup {Free}] /\ d[s] = Free /\ \A r \in Slots \ {s} : d[r] = calls[r]
      BY OneCall DEF MountInv
    <3>2. calls' = Orphaned(d)
      BY <2>4
    <3> HIDE DEF d
    <3>3. CallsTyped' /\ Others(s)
      BY <3>1, <3>2, OrphanedOthers DEF Others
    <3>4. ~Injects(calls'[s]) /\ ~Shows(calls'[s])
      BY <3>1, <3>2, OrphanedOthers
    <3> QED BY <3>3, <3>4
  <2> QED BY <1>5, <2>2, <2>3, <2>4
<1>7. component' = NoComponent \/ (component' = component /\ c.kind # "first")
  BY <1>5
<1>8. visible' \in 0 .. Variants /\ (visible # 0 => visible' # 0)
  <2>1. visible' = visible \/ (c.kind = "show" /\ visible' = c.previous)
    BY <1>5
  <2> QED BY <1>2, <2>1 DEF MountInv, UiTyped, Modules
<1> HIDE DEF back
<1>9. UiTyped'
  <2>1. card' \in NoCard .. Variants
    BY <1>1, <1>2, MountAssumption DEF Modules, NoCard
  <2>2. component' \in Component \cup {NoComponent}
    BY <1>7 DEF MountInv, UiTyped
  <2> QED BY <1>1, <1>8, <2>1, <2>2 DEF MountInv, UiTyped
<1>10. FailuresHeard'
  BY <1>1, <1>6 DEF MountInv, MountSound, FailuresHeard, Others
<1>11. FirstMounts'
  <2> SUFFICES ASSUME component' # NoComponent, mode' # "CYCLING" PROVE \E r \in Slots : First(calls'[r])
    BY DEF FirstMounts
  <2>1. PICK r \in Slots : First(calls[r])
    BY <1>1, <1>7 DEF MountInv, MountSound, FirstMounts
  <2>2. r # s
    BY <1>7, <2>1 DEF First
  <2> QED BY <1>6, <2>1, <2>2 DEF Others
<1>12. WaitHasCause'
  <2>1. card' # NoCard
    BY <1>1, <1>2, MountAssumption DEF Modules, NoCard
  <2> QED BY <2>1 DEF WaitHasCause
<1>13. SomethingVisible'
  BY <1>1, <1>6, <1>8 DEF MountInv, MountSound, SomethingVisible, Others
<1> QED
  BY <1>3, <1>6, <1>9, <1>10, <1>11, <1>12, <1>13 DEF MountInv, MountSound, EveryFailureIsReported

\* Cleanup: what is being mounted loses its target, and what was reported is forgotten.
LEMMA EndKeeps == MountInv /\ End => MountInv'
<1> SUFFICES ASSUME MountInv, End PROVE MountInv'
  OBVIOUS
<1>1. /\ mode' = "PICKING" /\ card' = NoCard /\ reported' = NoFailure /\ component' = NoComponent
      /\ calls' = Orphaned(calls) /\ UNCHANGED <<arrived, visible, manifest, published, silent>>
  BY DEF End
<1>2. CallsTyped' /\ \A r \in Slots :
        /\ Injects(calls'[r]) <=> Injects(calls[r])
        /\ Shows(calls'[r]) <=> Shows(calls[r])
        /\ Injects(calls'[r]) => calls'[r].told = calls[r].told /\ calls'[r].at = calls[r].at
        /\ Shows(calls'[r]) => calls'[r].kind = calls[r].kind /\ calls'[r].previous = calls[r].previous
  BY <1>1, OrphanedOthers DEF MountInv, CallsTyped
<1>3. UiTyped'
  BY <1>1, MountAssumption DEF MountInv, UiTyped, NoCard
<1>4. FailuresHeard'
  BY <1>1, <1>2 DEF MountInv, MountSound, FailuresHeard
<1>5. FirstMounts' /\ WaitHasCause'
  BY <1>1 DEF FirstMounts, WaitHasCause
<1>6. SomethingVisible'
  BY <1>1, <1>2 DEF MountInv, MountSound, SomethingVisible
<1> QED BY <1>1, <1>2, <1>3, <1>4, <1>5, <1>6 DEF MountInv, MountSound, EveryFailureIsReported

LEMMA MountStart == MountInit => MountInv /\ MountFlags
<1> SUFFICES ASSUME MountInit PROVE MountInv /\ MountFlags
  OBVIOUS
<1>1. CallsTyped /\ UiTyped
  BY MountAssumption DEF MountInit, CallsTyped, UiTyped, NoCard
<1>2. FailuresHeard /\ SomethingVisible
  BY FreeSlot DEF MountInit, FailuresHeard, SomethingVisible
<1>3. FirstMounts /\ WaitHasCause /\ EveryFailureIsReported
  BY DEF MountInit, FirstMounts, WaitHasCause, EveryFailureIsReported
<1>4. MountFlags
  BY DEF MountInit, MountFlags
<1> QED BY <1>1, <1>2, <1>3, <1>4 DEF MountInv, MountSound

LEMMA MountInvariant == MountInv /\ [MountNext]_mountvars => MountInv'
<1> SUFFICES ASSUME MountInv, [MountNext]_mountvars PROVE MountInv'
  OBVIOUS
<1>1. ASSUME NEW s \in Slots, CallStep(s) PROVE MountInv'
  BY <1>1, ManifestRefusedKeeps, ManifestReadKeeps, ParamsReadKeeps, ImportedKeeps, MountedKeeps, MountFailsKeeps, FailureShownKeeps
  DEF CallStep
<1>2. CASE UNCHANGED mountvars
  BY <1>2 DEF mountvars, mountui, world, MountInv, CallsTyped, UiTyped, MountSound, FailuresHeard, FirstMounts,
              WaitHasCause, SomethingVisible, EveryFailureIsReported
<1> QED
  BY <1>1, <1>2, PublishKeeps, DismissKeeps, EndKeeps, AnnouncedKeeps, TargetFoundKeeps, RetryKeeps, SelectKeeps
  DEF MountNext

LEMMA MountFlagsKept == MountFlags /\ [MountNext]_mountvars => MountFlags'
<1> SUFFICES ASSUME MountFlags, [MountNext]_mountvars PROVE MountFlags'
  OBVIOUS
<1> USE DEF MountFlags
<1>1. CASE Publish \/ TargetComesOrGoes \/ Dismiss \/ End
  BY <1>1 DEF Publish, TargetComesOrGoes, Dismiss, End, mountui, world
<1>2. ASSUME NEW s \in Slots, Announced(s) \/ TargetFound(s) \/ Retry(s) PROVE MountFlags'
  BY <1>2 DEF Announced, TargetFound, Retry, mountui, world
<1>3. ASSUME NEW s \in Slots, NEW v \in 1 .. Variants, Select(s, v) PROVE MountFlags'
  BY <1>3 DEF Select, world
<1>4. ASSUME NEW s \in Slots, ManifestUnreadable(s) \/ ManifestForeign(s) PROVE MountFlags'
  <2>1. silent' \in BOOLEAN /\ UNCHANGED <<current, news, ended>>
    BY <1>4 DEF ManifestUnreadable, ManifestForeign, world
  <2>2. UNCHANGED <<waiting, target>> \/ Abort
    BY <1>4 DEF ManifestUnreadable, ManifestForeign
  <2> QED BY <2>1, <2>2 DEF Abort
<1>5. ASSUME NEW s \in Slots, ManifestRead(s) \/ ParamsRead(s) PROVE MountFlags'
  BY <1>5 DEF ManifestRead, ParamsRead, Adopt, mountui, world
<1>6. ASSUME NEW s \in Slots, Imported(s) \/ Mounted(s) \/ MountFails(s) PROVE MountFlags'
  BY <1>6 DEF Imported, Mounted, MountFails, mountui, world
<1>7. ASSUME NEW s \in Slots, FailureShown(s) PROVE MountFlags'
  <2>1. silent' \in BOOLEAN /\ UNCHANGED <<current, news, ended>>
    BY <1>7 DEF FailureShown, world
  <2>2. UNCHANGED <<waiting, target>> \/ Abort
    BY <1>7 DEF FailureShown
  <2> QED BY <2>1, <2>2 DEF Abort
<1>8. CASE UNCHANGED mountvars
  BY <1>8 DEF mountvars, mountui, world
<1> QED
  BY <1>1, <1>2, <1>3, <1>4, <1>5, <1>6, <1>7, <1>8 DEF MountNext, CallStep

\* No injection fails in silence, for any variants, publications and number of calls at once
\* (injectSvelteComponentsFromManifest).
THEOREM EveryFailureIsReportedHolds == MountSpec => [](MountTypeOK /\ EveryFailureIsReported)
<1>1. MountInv /\ MountFlags => MountTypeOK /\ EveryFailureIsReported
  BY MountTypedApart DEF MountInv, MountSound
<1> QED BY <1>1, MountStart, MountInvariant, MountFlagsKept, PTL DEF MountSpec

\* The user never looks at a generation that nothing goes on for (abortSvelteComponentInjection,
\* waitForSvelteComponentTargetAndRetry).
THEOREM NoSilentWaitHolds == MountSpec => []NoSilentWait
<1>1. MountInv => NoSilentWait
  BY FreeSlot DEF MountInv, MountSound, WaitHasCause, NoSilentWait, Idle
<1> QED BY <1>1, MountStart, MountInvariant, PTL DEF MountSpec

-----------------------------------------------------------------------------
(* The detector: LiveDetect.                                               *)

Message ==
  [type : {"ready", "remove"}] \cup [type : {"scan"}, scan : Scans]
  \cup [type : {"results"}, scan : Scans, count : 0 .. MaxFound]

Places(M) == 1 .. Len(M)
OfScan(m, c) == m.type \in {"scan", "results"} /\ m.scan = c

\* A scan is asked for once, by its number, and then at work, and then answered once.
ScansSound(M, S, F, n) ==
  /\ \A i, j \in Places(M) : M[i].type = "scan" /\ OfScan(M[j], M[i].scan) => i = j
  /\ \A i \in Places(M) : M[i].type \in {"scan", "results"} => M[i].scan \notin S /\ M[i].scan <= n
  /\ \A i \in Places(M) : M[i].type = "results" => M[i].count = F[M[i].scan]
  /\ \A s \in S : s <= n

\* What removes the overlays goes before the scan that was asked for since.
RemovesSound(M, c) ==
  c # 0 => \A i \in Places(M) : M[i].type = "remove" =>
             \E j \in Places(M) : j > i /\ M[j].type = "scan" /\ M[j].scan = c

\* The scan of the activation is still to be heard of, or is what the count is of.
ScanHeard(M, S, F, c, k) ==
  c # 0 => c \in S \/ k = F[c] \/ \E j \in Places(M) : OfScan(M[j], c)

\* The script says once that it is there; until then a scan is only noted.
Announces(M) == \E i \in Places(M) : M[i].type = "ready"
TabSound ==
  /\ ~detect.active => detect.count = 0 /\ detect.scan = 0
  /\ detect.active /\ detect.ready => detect.scan # 0
  /\ detect.active /\ ~detect.ready => detect.pending
  /\ ~detect.loaded => script = "none" /\ ~detect.ready /\ ~Announces(messages)
  /\ script = "runs" /\ ~detect.ready => Announces(messages)

DetectTyped ==
  /\ detect \in Detect /\ script \in {"none", "loading", "failed", "runs"}
  /\ messages \in Seq(Message) /\ scanning \subseteq Scans /\ found \in [Scans -> 0 .. MaxFound]

DetectInv ==
  /\ DetectTyped /\ TabSound
  /\ ScansSound(messages, scanning, found, detect.seq)
  /\ RemovesSound(messages, detect.scan)
  /\ ScanHeard(messages, scanning, found, detect.scan, detect.count)

LEMMA MessageCases ==
  ASSUME NEW m \in Message
  PROVE  /\ m.type \in {"ready", "remove", "scan", "results"}
         /\ m.type \in {"scan", "results"} => m.scan \in Scans
         /\ m.type = "results" => m.count \in 0 .. MaxFound
BY DEF Message

LEMMA TailPlaces ==
  ASSUME NEW M \in Seq(Message), M # << >>
  PROVE  /\ Tail(M) \in Seq(Message) /\ Head(M) = M[1] /\ M[1] \in Message /\ 1 \in Places(M)
         /\ \A i \in Places(Tail(M)) : i + 1 \in Places(M) /\ Tail(M)[i] = M[i + 1]
         /\ \A i \in Places(M) : i # 1 => i - 1 \in Places(Tail(M)) /\ Tail(M)[i - 1] = M[i]
BY DEF Places

LEMMA AppendPlaces ==
  ASSUME NEW M \in Seq(Message), NEW m \in Message
  PROVE  /\ Append(M, m) \in Seq(Message) /\ Places(Append(M, m)) = Places(M) \cup {Len(M) + 1}
         /\ Append(M, m)[Len(M) + 1] = m /\ Len(M) + 1 \notin Places(M)
         /\ \A i \in Places(M) : Append(M, m)[i] = M[i] /\ i < Len(M) + 1
BY DEF Places

\* The first message is taken.
LEMMA TailSound ==
  ASSUME NEW M \in Seq(Message), M # << >>, NEW S, NEW F, NEW n, NEW c,
         ScansSound(M, S, F, n), RemovesSound(M, c)
  PROVE  /\ ScansSound(Tail(M), S, F, n) /\ RemovesSound(Tail(M), c)
         /\ \A d : OfScan(M[1], d) /\ M[1].type = "scan" => \A i \in Places(Tail(M)) : ~OfScan(Tail(M)[i], d)
         /\ \A d : (\E j \in Places(M) : OfScan(M[j], d)) => OfScan(M[1], d) \/ \E j \in Places(Tail(M)) : OfScan(Tail(M)[j], d)
<1> DEFINE T == Tail(M)
<1>0. /\ \A i \in Places(T) : i + 1 \in Places(M) /\ T[i] = M[i + 1]
      /\ \A i \in Places(M) : i # 1 => i - 1 \in Places(T) /\ T[i - 1] = M[i]
      /\ 1 \in Places(M)
  BY TailPlaces
<1>9. Places(M) \subseteq Nat /\ Places(T) \subseteq Nat \ {0}
  BY DEF Places
<1> HIDE DEF T
<1>1. ScansSound(T, S, F, n)
  <2>1. ASSUME NEW i \in Places(T), NEW j \in Places(T), T[i].type = "scan", OfScan(T[j], T[i].scan)
        PROVE  i = j
    <3>1. i + 1 \in Places(M) /\ j + 1 \in Places(M) /\ T[i] = M[i + 1] /\ T[j] = M[j + 1]
      BY <1>0
    <3>2. i + 1 = j + 1
      BY <2>1, <3>1 DEF ScansSound
    <3>3. i \in Nat /\ j \in Nat
      BY <1>9
    <3> QED BY ONLY <3>2, <3>3
  <2> QED BY <1>0, <2>1 DEF ScansSound
<1>2. RemovesSound(T, c)
  <2> SUFFICES ASSUME c # 0, NEW i \in Places(T), T[i].type = "remove"
               PROVE  \E j \in Places(T) : j > i /\ T[j].type = "scan" /\ T[j].scan = c
    BY DEF RemovesSound
  <2>1. PICK j \in Places(M) : j > i + 1 /\ M[j].type = "scan" /\ M[j].scan = c
    BY <1>0 DEF RemovesSound
  <2>2. i \in Nat \ {0} /\ j \in Nat
    BY <1>9
  <2>3. j # 1 /\ j - 1 > i
    BY ONLY <2>1, <2>2
  <2>4. j - 1 \in Places(T) /\ T[j - 1] = M[j]
    BY <1>0, <2>3
  <2> QED BY <2>1, <2>3, <2>4
<1>3. ASSUME NEW d, OfScan(M[1], d), M[1].type = "scan", NEW i \in Places(T), OfScan(T[i], d) PROVE FALSE
  <2>1. i + 1 \in Places(M) /\ T[i] = M[i + 1]
    BY <1>0
  <2>2. 1 = i + 1
    BY <1>0, <1>3, <2>1 DEF ScansSound, OfScan
  <2>3. i \in Nat \ {0}
    BY <1>9
  <2> QED BY ONLY <2>2, <2>3
<1>4. ASSUME NEW d, NEW j \in Places(M), OfScan(M[j], d), ~OfScan(M[1], d)
      PROVE  \E k \in Places(T) : OfScan(T[k], d)
  <2>1. j - 1 \in Places(T) /\ T[j - 1] = M[j]
    BY <1>0, <1>4
  <2> QED BY <1>4, <2>1
<1> QED BY <1>1, <1>2, <1>3, <1>4 DEF T

\* A message is posted; m is new in what it says of a scan.
LEMMA AppendSound ==
  ASSUME NEW M \in Seq(Message), NEW m \in Message, NEW S, NEW F, NEW n, NEW c,
         ScansSound(M, S, F, n), RemovesSound(M, c), m.type # "remove" \/ c = 0,
         m.type \in {"scan", "results"} => m.scan \notin S /\ m.scan <= n /\ \A i \in Places(M) : ~OfScan(M[i], m.scan),
         m.type = "results" => m.count = F[m.scan]
  PROVE  ScansSound(Append(M, m), S, F, n) /\ RemovesSound(Append(M, m), c)
<1> DEFINE A == Append(M, m)
           l == Len(M) + 1
<1>1. /\ Places(A) = Places(M) \cup {l} /\ A[l] = m /\ l \notin Places(M)
      /\ \A i \in Places(M) : A[i] = M[i] /\ i < l
  BY AppendPlaces
<1> HIDE DEF A, l
<1>2. ASSUME NEW i \in Places(A), NEW j \in Places(A), A[i].type = "scan", OfScan(A[j], A[i].scan)
      PROVE  i = j
  <2>1. CASE i \in Places(M) /\ j \in Places(M)
    BY <1>1, <1>2, <2>1 DEF ScansSound
  <2>2. CASE i \in Places(M) /\ j = l
    <3>1. OfScan(M[i], m.scan)
      BY <1>1, <1>2, <2>2 DEF OfScan
    <3> QED BY <1>1, <1>2, <2>2, <3>1 DEF OfScan
  <2>3. CASE i = l /\ j \in Places(M)
    BY <1>1, <1>2, <2>3
  <2> QED BY <1>1, <1>2, <2>1, <2>2, <2>3
<1>3. ScansSound(A, S, F, n)
  BY <1>1, <1>2 DEF ScansSound
<1>4. RemovesSound(A, c)
  BY <1>1 DEF RemovesSound
<1> QED BY <1>3, <1>4 DEF A

\* What is on its way stays so when a message is posted.
LEMMA AppendAnswered ==
  ASSUME NEW M \in Seq(Message), NEW m \in Message, NEW S, NEW F, NEW c, NEW k, ScanHeard(M, S, F, c, k)
  PROVE  ScanHeard(Append(M, m), S, F, c, k)
<1> DEFINE A == Append(M, m)
           l == Len(M) + 1
<1>1. /\ Places(A) = Places(M) \cup {l} /\ A[l] = m /\ l \notin Places(M)
      /\ \A i \in Places(M) : A[i] = M[i] /\ i < l
  BY AppendPlaces
<1> HIDE DEF A, l
<1>2. (\E j \in Places(M) : OfScan(M[j], c)) => \E j \in Places(A) : OfScan(A[j], c)
  BY <1>1
<1> QED BY <1>2 DEF ScanHeard, A

LEMMA AppendAnnounces ==
  ASSUME NEW M \in Seq(Message), NEW m \in Message
  PROVE  Announces(Append(M, m)) <=> Announces(M) \/ m.type = "ready"
<1> DEFINE A == Append(M, m)
           l == Len(M) + 1
<1>1. /\ Places(A) = Places(M) \cup {l} /\ A[l] = m /\ l \notin Places(M)
      /\ \A i \in Places(M) : A[i] = M[i] /\ i < l
  BY AppendPlaces
<1> HIDE DEF A, l
<1>2. Announces(A) <=> Announces(M) \/ m.type = "ready"
  BY <1>1 DEF Announces
<1> QED BY <1>2 DEF A

LEMMA TailAnnounces ==
  ASSUME NEW M \in Seq(Message), M # << >>
  PROVE  Announces(M) <=> Announces(Tail(M)) \/ M[1].type = "ready"
<1>1. /\ M[1] \in Message /\ 1 \in Places(M)
      /\ \A i \in Places(Tail(M)) : i + 1 \in Places(M) /\ Tail(M)[i] = M[i + 1]
      /\ \A i \in Places(M) : i # 1 => i - 1 \in Places(Tail(M)) /\ Tail(M)[i - 1] = M[i]
  BY TailPlaces
<1>2. ASSUME NEW i \in Places(M), M[i].type = "ready", i # 1 PROVE Announces(Tail(M))
  BY <1>1, <1>2 DEF Announces
<1>3. ASSUME NEW i \in Places(Tail(M)), Tail(M)[i].type = "ready" PROVE Announces(M)
  BY <1>1, <1>3 DEF Announces
<1> QED BY <1>1, <1>2, <1>3 DEF Announces

\* A scan is asked for, of a tab d that has taken the messages P.
LEMMA RequestSound ==
  ASSUME NEW d \in Detect, NEW P \in Seq(Message), RequestDetectScan(d, P),
         ScansSound(P, scanning, found, d.seq), UNCHANGED <<scanning, found>>, DetectTyped, script' = script
  PROVE  /\ DetectTyped'
         /\ detect'.active = d.active /\ detect'.loaded = d.loaded /\ detect'.ready = d.ready
         /\ detect'.pending = d.pending /\ detect'.count = d.count /\ detect'.scan # 0
         /\ Announces(messages') <=> Announces(P)
         /\ ScansSound(messages, scanning, found, detect.seq)'
         /\ RemovesSound(messages, detect.scan)'
         /\ ScanHeard(messages, scanning, found, detect.scan, detect.count)'
<1> DEFINE n == d.seq + 1
           m == [type |-> "scan", scan |-> n]
<1>1. /\ d.seq < MaxScans /\ detect' = [d EXCEPT !.seq = n, !.scan = n, !.awaited = n]
      /\ messages' = Append(P, m)
  BY DEF RequestDetectScan
<1>2. n \in Scans /\ n \in 0 .. MaxScans /\ n # 0 /\ d.seq \in Nat /\ d.seq < n
  BY <1>1, DetectAssumption DEF Detect, Scans
<1>3. m \in Message /\ m.type = "scan" /\ m.scan = n
  BY <1>2 DEF Message
<1>4. /\ detect' \in Detect /\ detect'.active = d.active /\ detect'.loaded = d.loaded /\ detect'.ready = d.ready
      /\ detect'.pending = d.pending /\ detect'.count = d.count /\ detect'.scan = n /\ detect'.seq = n
  BY <1>1, <1>2 DEF Detect
<1> HIDE DEF m, n
<1>5. DetectTyped'
  BY <1>1, <1>3, <1>4, AppendPlaces DEF DetectTyped
<1>6. (Announces(messages') <=> Announces(P))
  BY <1>1, <1>3, AppendAnnounces
<1>7. \A i \in Places(P) : P[i] \in Message
  BY DEF Places
<1>8. \A i \in Places(P) : P[i].type \in {"scan", "results"} => P[i].scan \in Nat /\ P[i].scan < n
  BY <1>2, <1>7, MessageCases, DetectAssumption DEF ScansSound, Scans
<1>9. ScansSound(P, scanning, found, n) /\ n \notin scanning
  BY <1>2, <1>8, DetectAssumption DEF ScansSound, DetectTyped, Scans
<1>10. \A i \in Places(P) : ~OfScan(P[i], n)
  BY <1>2, <1>8, DetectAssumption DEF OfScan, Scans
<1>11. RemovesSound(P, 0)
  BY DEF RemovesSound
<1>12. n <= n
  BY <1>2, DetectAssumption DEF Scans
<1>13. ScansSound(Append(P, m), scanning, found, n)
  BY <1>3, <1>9, <1>10, <1>11, <1>12, AppendSound
<1>14. Places(messages') = Places(P) \cup {Len(P) + 1} /\ messages'[Len(P) + 1] = m
       /\ \A i \in Places(P) : i < Len(P) + 1
  BY <1>1, <1>3, AppendPlaces
<1>15. \A i \in Places(messages') : messages'[i].type = "remove" => i \in Places(P)
  BY <1>3, <1>14
<1>16. RemovesSound(messages', detect'.scan)
  <2>1. ASSUME NEW i \in Places(messages'), messages'[i].type = "remove"
        PROVE  \E j \in Places(messages') : j > i /\ messages'[j].type = "scan" /\ messages'[j].scan = n
    <3>1. i < Len(P) + 1
      BY <1>14, <1>15, <2>1
    <3>2. Len(P) + 1 > i
      BY <3>1
    <3> QED BY <1>3, <1>14, <3>2
  <2> QED BY <1>4, <2>1 DEF RemovesSound
<1>17. ScanHeard(messages', scanning', found', detect'.scan, detect'.count)
  BY <1>3, <1>4, <1>14 DEF ScanHeard, OfScan
<1>18. ScansSound(messages', scanning', found', detect'.seq)
  BY <1>1, <1>4, <1>13
<1> QED BY <1>2, <1>4, <1>5, <1>6, <1>16, <1>17, <1>18

\* A message m is posted, and the tab's toggle, scan, count and numbers are those of e.
LEMMA PostSound ==
  ASSUME DetectInv, NEW m \in Message, messages' = Append(messages, m), detect' \in Detect,
         detect'.seq = detect.seq, detect'.scan = 0 \/ (detect'.scan = detect.scan /\ detect'.count = detect.count),
         m.type \in {"ready", "remove"}, m.type # "remove" \/ detect'.scan = 0,
         script' \in {"none", "loading", "failed", "runs"}, UNCHANGED <<scanning, found>>, TabSound'
  PROVE  DetectInv'
<1>1. DetectTyped'
  BY AppendPlaces DEF DetectInv, DetectTyped
<1>2. RemovesSound(messages, detect'.scan) /\ ScanHeard(messages, scanning, found, detect'.scan, detect'.count)
  BY DEF DetectInv, RemovesSound, ScanHeard
<1>3. ScansSound(messages, scanning, found, detect'.seq)
  BY DEF DetectInv
<1>4. messages \in Seq(Message)
  BY DEF DetectInv, DetectTyped
<1>5. ScansSound(messages', scanning', found', detect'.seq) /\ RemovesSound(messages', detect'.scan)
  BY <1>2, <1>3, <1>4, AppendSound
<1>6. ScanHeard(messages', scanning', found', detect'.scan, detect'.count)
  BY <1>2, <1>4, AppendAnswered
<1> QED BY <1>1, <1>5, <1>6 DEF DetectInv

LEMMA SwitchOnKeeps == DetectInv /\ SwitchOn => DetectInv'
<1> SUFFICES ASSUME DetectInv, SwitchOn PROVE DetectInv'
  OBVIOUS
<1> DEFINE d == [detect EXCEPT !.active = TRUE]
<1>1. DetectTyped /\ TabSound /\ ~detect.active /\ UNCHANGED <<scanning, found>>
  BY DEF DetectInv, SwitchOn
<1>2. /\ d \in Detect /\ d.active /\ d.loaded = detect.loaded /\ d.ready = detect.ready /\ d.pending = detect.pending
      /\ d.seq = detect.seq /\ d.scan = detect.scan /\ d.count = detect.count
  BY <1>1 DEF DetectTyped, Detect
<1>3. \/ /\ ~d.loaded /\ detect' = [d EXCEPT !.pending = TRUE, !.loaded = TRUE] /\ script' = "loading"
         /\ UNCHANGED messages
      \/ d.loaded /\ d.ready /\ RequestDetectScan(d, messages) /\ UNCHANGED script
      \/ d.loaded /\ ~d.ready /\ detect' = [d EXCEPT !.pending = TRUE] /\ UNCHANGED <<script, messages>>
  BY DEF SwitchOn
<1> HIDE DEF d
<1>4. CASE d.loaded /\ d.ready /\ RequestDetectScan(d, messages) /\ UNCHANGED script
  <2>1. ScansSound(messages, scanning, found, d.seq) /\ messages \in Seq(Message)
    BY <1>1, <1>2 DEF DetectInv, DetectTyped
  <2>2. /\ DetectTyped'
        /\ detect'.active = d.active /\ detect'.loaded = d.loaded /\ detect'.ready = d.ready
        /\ detect'.pending = d.pending /\ detect'.count = d.count /\ detect'.scan # 0
        /\ Announces(messages') <=> Announces(messages)
        /\ ScansSound(messages, scanning, found, detect.seq)'
        /\ RemovesSound(messages, detect.scan)'
        /\ ScanHeard(messages, scanning, found, detect.scan, detect.count)'
    BY <1>1, <1>2, <1>4, <2>1, RequestSound
  <2>3. TabSound'
    BY <1>1, <1>2, <1>4, <2>2 DEF TabSound
  <2> QED BY <2>2, <2>3 DEF DetectInv
<1>5. CASE ~(d.loaded /\ d.ready /\ RequestDetectScan(d, messages) /\ UNCHANGED script)
  <2>1. /\ detect' \in Detect /\ detect'.active /\ detect'.loaded /\ detect'.ready = d.ready /\ detect'.pending
        /\ detect'.seq = d.seq /\ detect'.scan = d.scan /\ detect'.count = d.count
    BY <1>2, <1>3, <1>5 DEF Detect
  <2>2. messages' = messages /\ (script' = script \/ script' = "loading") /\ ~d.ready
    BY <1>1, <1>2, <1>3, <1>5 DEF TabSound
  <2>3. DetectTyped'
    BY <1>1, <2>1, <2>2 DEF DetectTyped
  <2>4. TabSound'
    BY <1>1, <1>2, <2>1, <2>2 DEF TabSound
  <2> QED BY <1>1, <1>2, <2>1, <2>2, <2>3, <2>4 DEF DetectInv
<1> QED BY <1>4, <1>5

LEMMA SwitchOffKeeps == DetectInv /\ SwitchOff => DetectInv'
<1> SUFFICES ASSUME DetectInv, SwitchOff PROVE DetectInv'
  OBVIOUS
<1> DEFINE m == [type |-> "remove"]
<1>1. /\ detect' = [detect EXCEPT !.active = FALSE, !.scan = 0, !.awaited = 0, !.count = 0]
      /\ messages' = Append(messages, m) /\ UNCHANGED <<script, scanning, found>>
  BY DEF SwitchOff
<1>2. DetectTyped /\ TabSound
  BY DEF DetectInv
<1>3. /\ detect' \in Detect /\ ~detect'.active /\ detect'.loaded = detect.loaded /\ detect'.ready = detect.ready
      /\ detect'.seq = detect.seq /\ detect'.scan = 0 /\ detect'.count = 0
  <2>1. 0 \in 0 .. MaxScans /\ 0 \in 0 .. MaxFound
    BY DetectAssumption
  <2> QED BY <1>1, <1>2, <2>1 DEF DetectTyped, Detect
<1>4. m \in Message /\ m.type = "remove"
  BY DEF Message
<1> HIDE DEF m
<1>5. Announces(messages') <=> Announces(messages)
  BY <1>1, <1>2, <1>4, AppendAnnounces DEF DetectTyped
<1>6. TabSound'
  BY <1>1, <1>2, <1>3, <1>5 DEF TabSound
<1>7. script' \in {"none", "loading", "failed", "runs"}
  BY <1>1, <1>2 DEF DetectTyped
<1> QED BY <1>1, <1>3, <1>4, <1>6, <1>7, PostSound

LEMMA ScriptComesKeeps == DetectInv /\ ScriptComes => DetectInv'
<1> SUFFICES ASSUME DetectInv, ScriptComes PROVE DetectInv'
  OBVIOUS
<1>1. DetectTyped /\ TabSound
  BY DEF DetectInv
<1>2. CASE script' = "failed" /\ UNCHANGED messages
  BY <1>1, <1>2 DEF ScriptComes, DetectInv, DetectTyped, TabSound
<1>3. CASE script' = "runs" /\ messages' = Append(messages, [type |-> "ready"])
  <2> DEFINE m == [type |-> "ready"]
  <2>1. m \in Message /\ m.type = "ready" /\ messages' = Append(messages, m)
    BY <1>3 DEF Message
  <2> HIDE DEF m
  <2>2. Announces(messages')
    BY <1>1, <2>1, AppendAnnounces DEF DetectTyped
  <2>3. TabSound'
    BY <1>1, <1>3, <2>2 DEF ScriptComes, TabSound
  <2> QED BY <1>1, <1>3, <2>1, <2>3, PostSound DEF ScriptComes, DetectTyped
<1> QED BY <1>2, <1>3 DEF ScriptComes

\* A scan is over: its result is posted.
LEMMA ScanEndsKeeps ==
  ASSUME DetectInv, NEW s \in scanning, ScanEnds(s)
  PROVE  DetectInv'
<1>1. DetectTyped /\ TabSound /\ ScansSound(messages, scanning, found, detect.seq) /\ s \in Scans
  BY DEF DetectInv, DetectTyped
<1>2. PICK k \in 0 .. MaxFound : /\ found' = [found EXCEPT ![s] = k]
                                 /\ messages' = Append(messages, [type |-> "results", scan |-> s, count |-> k])
  BY DEF ScanEnds
<1> DEFINE m == [type |-> "results", scan |-> s, count |-> k]
<1>3. m \in Message /\ m.type = "results" /\ m.scan = s /\ m.count = k /\ messages' = Append(messages, m)
  BY <1>1, <1>2 DEF Message
<1> HIDE DEF m
<1>4. scanning' = scanning \ {s} /\ UNCHANGED <<detect, script>>
  BY DEF ScanEnds
<1>5. /\ found' \in [Scans -> 0 .. MaxFound] /\ found'[s] = k
      /\ \A r \in Scans : r # s => found'[r] = found[r]
  BY <1>1, <1>2 DEF DetectTyped
<1>6. \A i \in Places(messages) : messages[i] \in Message
  BY <1>1 DEF Places, DetectTyped
<1>7. \A i \in Places(messages) : messages[i].type \in {"scan", "results"} => messages[i].scan # s /\ messages[i].scan \in Scans
  BY <1>1, <1>6, MessageCases DEF ScansSound
<1>8. ScansSound(messages, scanning', found', detect.seq)
  BY <1>1, <1>4, <1>5, <1>7 DEF ScansSound
<1>9. RemovesSound(messages, detect.scan) /\ messages \in Seq(Message) /\ s <= detect.seq
  BY <1>1 DEF DetectInv, DetectTyped, ScansSound
<1>10. \A i \in Places(messages) : ~OfScan(messages[i], s)
  BY <1>7 DEF OfScan
<1>11. ScansSound(messages', scanning', found', detect'.seq) /\ RemovesSound(messages', detect'.scan)
  BY <1>3, <1>4, <1>5, <1>8, <1>9, <1>10, AppendSound
<1>12. ScanHeard(messages', scanning', found', detect'.scan, detect'.count)
  <2>1. CASE detect.scan = s
    <3>1. Len(messages) + 1 \in Places(messages') /\ OfScan(messages'[Len(messages) + 1], s)
      BY <1>3, <1>9, AppendPlaces DEF OfScan
    <3> QED BY <1>4, <2>1, <3>1 DEF ScanHeard
  <2>2. CASE detect.scan # s
    <3>1. detect.scan # 0 => detect.scan \in Scans
      BY <1>1, DetectAssumption DEF DetectTyped, Detect, Scans
    <3>2. ScanHeard(messages, scanning', found', detect.scan, detect.count)
      BY <1>4, <1>5, <2>2, <3>1 DEF DetectInv, ScanHeard
    <3> QED BY <1>3, <1>4, <1>9, <3>2, AppendAnswered
  <2> QED BY <2>1, <2>2
<1>13. (Announces(messages') <=> Announces(messages))
  BY <1>3, <1>9, AppendAnnounces
<1>14. TabSound'
  BY <1>1, <1>4, <1>13 DEF TabSound
<1>15. DetectTyped'
  BY <1>1, <1>3, <1>4, <1>5, AppendPlaces DEF DetectTyped
<1> QED BY <1>4, <1>11, <1>12, <1>14, <1>15 DEF DetectInv

\* What taking the first message leaves, for a handler that posts none.
LEMMA TakenSound ==
  ASSUME DetectInv, messages # << >>
  PROVE  /\ Tail(messages) \in Seq(Message) /\ Head(messages) = messages[1] /\ messages[1] \in Message
         /\ ScansSound(Tail(messages), scanning, found, detect.seq)
         /\ RemovesSound(Tail(messages), detect.scan)
         /\ detect.scan # 0 => \/ detect.scan \in scanning \/ detect.count = found[detect.scan]
                               \/ OfScan(messages[1], detect.scan)
                               \/ \E j \in Places(Tail(messages)) : OfScan(Tail(messages)[j], detect.scan)
         /\ Announces(messages) <=> Announces(Tail(messages)) \/ messages[1].type = "ready"
<1>1. messages \in Seq(Message) /\ ScansSound(messages, scanning, found, detect.seq) /\ RemovesSound(messages, detect.scan)
      /\ ScanHeard(messages, scanning, found, detect.scan, detect.count)
  BY DEF DetectInv, DetectTyped
<1>2. /\ ScansSound(Tail(messages), scanning, found, detect.seq)
      /\ RemovesSound(Tail(messages), detect.scan)
      /\ \A d : (\E j \in Places(messages) : OfScan(messages[j], d)) =>
                OfScan(messages[1], d) \/ \E j \in Places(Tail(messages)) : OfScan(Tail(messages)[j], d)
  BY <1>1, TailSound
<1>3. Tail(messages) \in Seq(Message) /\ Head(messages) = messages[1] /\ messages[1] \in Message
  BY <1>1, TailPlaces
<1>4. (Announces(messages) <=> Announces(Tail(messages)) \/ messages[1].type = "ready")
  BY <1>1, TailAnnounces
<1>5. detect.scan # 0 => \/ detect.scan \in scanning \/ detect.count = found[detect.scan]
                         \/ OfScan(messages[1], detect.scan)
                         \/ \E j \in Places(Tail(messages)) : OfScan(Tail(messages)[j], detect.scan)
  BY <1>1, <1>2 DEF ScanHeard
<1> QED BY <1>2, <1>3, <1>4, <1>5

LEMMA OnReadyKeeps ==
  ASSUME DetectInv, messages # << >>, messages[1].type = "ready", OnReady
  PROVE  DetectInv'
<1> DEFINE d == [detect EXCEPT !.ready = TRUE]
           e == [d EXCEPT !.pending = FALSE]
<1>1. DetectTyped /\ TabSound /\ UNCHANGED <<script, scanning, found>>
  BY DEF DetectInv, OnReady
<1>2. /\ d \in Detect /\ d.active = detect.active /\ d.loaded = detect.loaded /\ d.ready /\ d.pending = detect.pending
      /\ d.seq = detect.seq /\ d.scan = detect.scan /\ d.count = detect.count
  BY <1>1 DEF DetectTyped, Detect
<1>3. /\ e \in Detect /\ e.active = detect.active /\ e.loaded = detect.loaded /\ e.ready
      /\ e.seq = detect.seq /\ e.scan = detect.scan /\ e.count = detect.count
  BY <1>1 DEF DetectTyped, Detect
<1>4. IF d.pending /\ d.active THEN RequestDetectScan(e, Tail(messages))
      ELSE detect' = d /\ messages' = Tail(messages)
  BY DEF OnReady
<1> HIDE DEF d, e
<1>5. /\ Tail(messages) \in Seq(Message) /\ ScansSound(Tail(messages), scanning, found, detect.seq)
      /\ RemovesSound(Tail(messages), detect.scan) /\ Announces(messages)
      /\ detect.scan # 0 => \/ detect.scan \in scanning \/ detect.count = found[detect.scan]
                            \/ OfScan(messages[1], detect.scan)
                            \/ \E j \in Places(Tail(messages)) : OfScan(Tail(messages)[j], detect.scan)
  BY TakenSound
<1>6. CASE d.pending /\ d.active
  <2>1. /\ DetectTyped'
        /\ detect'.active = e.active /\ detect'.loaded = e.loaded /\ detect'.ready = e.ready /\ detect'.scan # 0
        /\ ScansSound(messages, scanning, found, detect.seq)'
        /\ RemovesSound(messages, detect.scan)'
        /\ ScanHeard(messages, scanning, found, detect.scan, detect.count)'
    BY <1>1, <1>3, <1>4, <1>5, <1>6, RequestSound
  <2>2. TabSound'
    BY <1>1, <1>2, <1>3, <1>5, <1>6, <2>1 DEF TabSound
  <2> QED BY <2>1, <2>2 DEF DetectInv
<1>7. CASE ~(d.pending /\ d.active)
  <2>1. detect' = d /\ messages' = Tail(messages)
    BY <1>4, <1>7
  <2>2. DetectTyped'
    BY <1>1, <1>2, <1>5, <2>1 DEF DetectTyped
  <2>3. TabSound'
    BY <1>1, <1>2, <1>5, <1>7, <2>1 DEF TabSound
  <2>4. detect.scan # 0 => ~OfScan(messages[1], detect.scan)
    BY DEF OfScan
  <2>5. ScanHeard(messages, scanning, found, detect.scan, detect.count)'
    BY <1>1, <1>2, <1>5, <2>1, <2>4 DEF ScanHeard
  <2>6. ScansSound(messages, scanning, found, detect.seq)' /\ RemovesSound(messages, detect.scan)'
    BY <1>1, <1>2, <1>5, <2>1
  <2> QED BY <2>2, <2>3, <2>5, <2>6 DEF DetectInv
<1> QED BY <1>6, <1>7

LEMMA OnResultsKeeps ==
  ASSUME DetectInv, messages # << >>, messages[1].type = "results", OnResults(messages[1])
  PROVE  DetectInv'
<1> DEFINE r == messages[1]
<1>1. DetectTyped /\ TabSound /\ UNCHANGED <<script, scanning, found>> /\ messages' = Tail(messages)
      /\ detect' = IF Outdated(r) THEN detect ELSE [detect EXCEPT !.count = r.count, !.awaited = 0]
  BY DEF DetectInv, OnResults
<1>2. /\ Tail(messages) \in Seq(Message) /\ ScansSound(Tail(messages), scanning, found, detect.seq)
      /\ RemovesSound(Tail(messages), detect.scan) /\ (Announces(messages) <=> Announces(Tail(messages)))
      /\ r \in Message
      /\ detect.scan # 0 => \/ detect.scan \in scanning \/ detect.count = found[detect.scan]
                            \/ OfScan(messages[1], detect.scan)
                            \/ \E j \in Places(Tail(messages)) : OfScan(Tail(messages)[j], detect.scan)
  BY TakenSound
<1>3. r.count \in 0 .. MaxFound /\ r.count = found[r.scan]
  <2>1. 1 \in Places(messages)
    BY <1>1, TailPlaces DEF DetectTyped
  <2> QED BY <1>2, <2>1, MessageCases DEF DetectInv, ScansSound
<1> HIDE DEF r
<1>4. CASE Outdated(r)
  <2>1. detect' = detect
    BY <1>1, <1>4
  <2>2. detect.scan # 0 => ~OfScan(r, detect.scan)
    BY <1>1, <1>4 DEF Outdated, OfScan, TabSound
  <2>3. DetectTyped' /\ TabSound'
    BY <1>1, <1>2, <2>1 DEF DetectTyped, TabSound
  <2>4. ScanHeard(messages, scanning, found, detect.scan, detect.count)'
    BY <1>1, <1>2, <2>1, <2>2 DEF ScanHeard, r
  <2>5. ScansSound(messages, scanning, found, detect.seq)' /\ RemovesSound(messages, detect.scan)'
    BY <1>1, <1>2, <2>1
  <2> QED BY <2>3, <2>4, <2>5 DEF DetectInv
<1>5. CASE ~Outdated(r)
  <2>1. /\ detect' \in Detect /\ detect'.active = detect.active /\ detect'.loaded = detect.loaded
        /\ detect'.ready = detect.ready /\ detect'.pending = detect.pending /\ detect'.seq = detect.seq
        /\ detect'.scan = detect.scan /\ detect'.count = r.count /\ detect.active
    <3>1. 0 \in 0 .. MaxScans
      BY DetectAssumption
    <3> QED BY <1>1, <1>3, <1>5, <3>1 DEF Outdated, DetectTyped, Detect
  <2>2. detect.scan # 0 => detect.scan = r.scan
    BY <1>5 DEF Outdated
  <2>3. DetectTyped' /\ TabSound'
    BY <1>1, <1>2, <2>1 DEF DetectTyped, TabSound
  <2>4. ScanHeard(messages, scanning, found, detect.scan, detect.count)'
    BY <1>1, <1>3, <2>1, <2>2 DEF ScanHeard
  <2>5. ScansSound(messages, scanning, found, detect.seq)' /\ RemovesSound(messages, detect.scan)'
    BY <1>1, <1>2, <2>1
  <2> QED BY <2>3, <2>4, <2>5 DEF DetectInv
<1> QED BY <1>4, <1>5

LEMMA OnCommandKeeps ==
  ASSUME DetectInv, messages # << >>, messages[1].type \in {"scan", "remove"}, OnCommand(messages[1])
  PROVE  DetectInv'
<1> DEFINE c == messages[1]
           T == Tail(messages)
<1>1. DetectTyped /\ TabSound /\ UNCHANGED <<detect, script, found>> /\ messages' = T
      /\ CASE c.type = "scan" -> scanning' = scanning \cup {c.scan}
           [] OTHER -> scanning' \in SUBSET scanning
  BY DEF DetectInv, OnCommand
<1>2. /\ T \in Seq(Message) /\ ScansSound(T, scanning, found, detect.seq)
      /\ RemovesSound(T, detect.scan) /\ (Announces(messages) <=> Announces(T))
      /\ c \in Message
      /\ detect.scan # 0 => \/ detect.scan \in scanning \/ detect.count = found[detect.scan]
                            \/ OfScan(c, detect.scan)
                            \/ \E j \in Places(T) : OfScan(T[j], detect.scan)
  BY TakenSound
<1>3. 1 \in Places(messages) /\ messages \in Seq(Message)
  BY <1>1, TailPlaces DEF DetectTyped
<1>4. ScansSound(messages, scanning, found, detect.seq) /\ RemovesSound(messages, detect.scan)
  BY DEF DetectInv
<1>5. \A d : OfScan(c, d) /\ c.type = "scan" => \A i \in Places(T) : ~OfScan(T[i], d)
  BY <1>3, <1>4, TailSound
<1>6. CASE c.type = "scan"
  <2>1. c.scan \in Scans /\ c.scan <= detect.seq /\ OfScan(c, c.scan) /\ scanning' = scanning \cup {c.scan}
    BY <1>1, <1>2, <1>3, <1>4, <1>6, MessageCases DEF ScansSound, OfScan
  <2>2. \A i \in Places(T) : ~OfScan(T[i], c.scan)
    BY <1>5, <1>6, <2>1
  <2> HIDE DEF c, T
  <2>3. ScansSound(T, scanning', found, detect.seq)
    BY <1>2, <2>1, <2>2 DEF ScansSound, OfScan
  <2>4. ScanHeard(T, scanning', found, detect.scan, detect.count)
    BY <1>2, <1>6, <2>1 DEF ScanHeard, OfScan
  <2>5. DetectTyped' /\ TabSound'
    BY <1>1, <1>2, <2>1 DEF DetectTyped, TabSound
  <2> QED BY <1>1, <1>2, <2>3, <2>4, <2>5 DEF DetectInv
<1>7. CASE c.type = "remove"
  <2>1. scanning' \subseteq scanning
    BY <1>1, <1>7
  <2>2. detect.scan # 0 => \E j \in Places(messages) : OfScan(messages[j], detect.scan)
    BY <1>3, <1>4, <1>7 DEF RemovesSound, OfScan
  <2>3. ~OfScan(c, detect.scan)
    BY <1>7 DEF OfScan
  <2>4. detect.scan # 0 => \E j \in Places(T) : OfScan(T[j], detect.scan)
    BY <1>3, <1>4, <2>2, <2>3, TailSound
  <2> HIDE DEF c, T
  <2>5. ScansSound(T, scanning', found, detect.seq)
    BY <1>2, <2>1 DEF ScansSound
  <2>6. ScanHeard(T, scanning', found, detect.scan, detect.count)
    BY <2>4 DEF ScanHeard
  <2>7. DetectTyped' /\ TabSound'
    BY <1>1, <1>2, <2>1 DEF DetectTyped, TabSound
  <2> QED BY <1>1, <1>2, <2>5, <2>6, <2>7 DEF DetectInv
<1> QED BY <1>6, <1>7

LEMMA DetectStart == DetectInit => DetectInv
<1> SUFFICES ASSUME DetectInit PROVE DetectInv
  OBVIOUS
<1>1. DetectTyped
  <2>1. 0 \in 0 .. MaxScans /\ 0 \in 0 .. MaxFound
    BY DetectAssumption
  <2> QED BY <2>1 DEF DetectInit, DetectTyped, Detect
<1>2. \A i \in Places(messages) : FALSE
  BY DEF DetectInit, Places
<1>3. TabSound /\ RemovesSound(messages, detect.scan)
      /\ ScanHeard(messages, scanning, found, detect.scan, detect.count)
  BY <1>2 DEF DetectInit, TabSound, RemovesSound, ScanHeard, Announces
<1>4. ScansSound(messages, scanning, found, detect.seq)
  BY <1>2 DEF DetectInit, ScansSound
<1> QED BY <1>1, <1>3, <1>4 DEF DetectInv

LEMMA DetectInvariant == DetectInv /\ [DetectNext]_dvars => DetectInv'
<1> SUFFICES ASSUME DetectInv, [DetectNext]_dvars PROVE DetectInv'
  OBVIOUS
<1>1. CASE Received
  <2>1. Head(messages) = messages[1] /\ messages # << >> /\ messages[1] \in Message
    BY <1>1, TakenSound DEF Received
  <2>2. messages[1].type \in {"ready", "remove", "scan", "results"}
    BY <2>1, MessageCases
  <2>3. CASE messages[1].type = "ready"
    BY <1>1, <2>1, <2>3, OnReadyKeeps DEF Received
  <2>4. CASE messages[1].type = "results"
    BY <1>1, <2>1, <2>4, OnResultsKeeps DEF Received
  <2>5. CASE messages[1].type \in {"scan", "remove"}
    BY <1>1, <2>1, <2>5, OnCommandKeeps DEF Received
  <2> QED BY <2>2, <2>3, <2>4, <2>5
<1>2. CASE UNCHANGED dvars
  BY <1>2 DEF dvars, DetectInv, DetectTyped, TabSound
<1> QED
  BY <1>1, <1>2, SwitchOnKeeps, SwitchOffKeeps, ScriptComesKeeps, ScanEndsKeeps DEF DetectNext

\* The count the toggle shows is that of the scan made for this activation, for any number of
\* scans, findings and messages (toggleDetect, onDetectMessage).
THEOREM CountIsOfThisScanHolds == DetectSpec => [](DetectTypeOK /\ CountIsOfThisScan)
<1>1. DetectInv => DetectTypeOK
  BY DEF DetectInv, DetectTyped, DetectTypeOK, Message
<1>2. DetectInv => CountIsOfThisScan
  <2> SUFFICES ASSUME DetectInv, detect.active, script = "runs", messages = << >>, scanning = {}
               PROVE  detect.scan # 0 /\ detect.count = found[detect.scan]
    BY DEF DetectInv, TabSound, CountIsOfThisScan
  <2>1. \A i \in Places(messages) : FALSE
    BY DEF Places
  <2>2. detect.scan # 0
    BY <2>1 DEF DetectInv, TabSound, Announces
  <2> QED BY <2>1, <2>2 DEF DetectInv, ScanHeard
<1> QED BY <1>1, <1>2, DetectStart, DetectInvariant, PTL DEF DetectSpec

-----------------------------------------------------------------------------
(* The waivers: LiveIgnores.                                               *)

\* The segments of the project's paths.
Segments == (UNION {Range(d) : d \in Directories}) \cup Leaves

LEMMA PathsAreSequences == Directories \subseteq Seq(Segments) /\ Paths \subseteq Seq(Segments)
<1>1. ASSUME NEW d \in Directories PROVE d \in Seq(Segments)
  <2>1. d \in Seq(Range(d)) /\ Range(d) \subseteq Segments
    BY IgnoresAssumption DEF Segments, Range
  <2> QED BY <2>1
<1>2. ASSUME NEW p \in Paths PROVE p \in Seq(Segments)
  <2>1. PICK d \in Directories, l \in Leaves : p = Append(d, l)
    BY DEF Paths
  <2>2. l \in Segments
    BY DEF Segments
  <2> QED BY <1>1, <2>1, <2>2
<1> QED BY <1>1, <1>2

\* A path under a directory is the directory and the rest of the path.
LEMMA PrefixSplits ==
  ASSUME NEW S, NEW d \in Seq(S), NEW f \in Seq(S),
         Len(d) <= Len(f), SubSeq(d, 1, Len(d)) = SubSeq(f, 1, Len(d))
  PROVE  LET u == SubSeq(f, Len(d) + 1, Len(f))
         IN u \in Seq(S) /\ f = d \o u
<1> DEFINE u == SubSeq(f, Len(d) + 1, Len(f))
<1>1. /\ Len(d) <= Len(f) /\ SubSeq(d, 1, Len(d)) = SubSeq(f, 1, Len(d))
      /\ Len(d) \in Nat /\ Len(f) \in Nat
  OBVIOUS
<1>2. \A i \in 1 .. Len(d) : d[i] = f[i]
  <2>1. ASSUME NEW i \in 1 .. Len(d) PROVE d[i] = f[i]
    <3>1. SubSeq(d, 1, Len(d))[i] = d[i] /\ SubSeq(f, 1, Len(d))[i] = f[i]
      BY <1>1
    <3> QED BY <1>1, <3>1
  <2> QED BY <2>1
<1>3. u \in Seq(S) /\ Len(u) = Len(f) - Len(d) /\ \A i \in 1 .. Len(u) : u[i] = f[Len(d) + i]
  BY <1>1
<1>4. d \o u \in Seq(S) /\ Len(d \o u) = Len(f)
  BY <1>1, <1>3
<1>5. \A i \in 1 .. Len(f) : (d \o u)[i] = f[i]
  BY <1>1, <1>2, <1>3
<1> QED BY <1>3, <1>4, <1>5

\* The rest of a listed page is a URL that it fits.
LEMMA RestIsKnown ==
  ASSUME NEW S, NEW x \in Seq(S), NEW y \in Seq(S), NEW F, x \o y \in F
  PROVE  x \o y \in KnownPages(y, F)
<1> DEFINE z == x \o y
           a == [i \in 1 .. Len(y) |-> y[(Len(y) - i) + 1]]
           b == [i \in 1 .. Len(z) |-> z[(Len(z) - i) + 1]]
<1>1. z \in Seq(S) /\ Len(z) = Len(x) + Len(y) /\ Len(x) \in Nat /\ Len(y) \in Nat
  OBVIOUS
<1>2. \A i \in 1 .. Len(y) : z[Len(x) + i] = y[i]
  OBVIOUS
<1>3. Len(a) <= Len(b) /\ SubSeq(a, 1, Len(a)) = SubSeq(b, 1, Len(a))
  <2> HIDE DEF z
  <2>1. a \in Seq(S) /\ Len(a) = Len(y) /\ b \in Seq(S) /\ Len(b) = Len(z)
    BY <1>1
  <2>2. \A i \in 1 .. Len(y) : a[i] = b[i]
    <3>1. ASSUME NEW i \in 1 .. Len(y) PROVE a[i] = b[i]
      <4>1. (Len(y) - i) + 1 \in 1 .. Len(y) /\ i \in 1 .. Len(z)
            /\ Len(x) + ((Len(y) - i) + 1) = (Len(z) - i) + 1
        BY <1>1
      <4>2. z[(Len(z) - i) + 1] = y[(Len(y) - i) + 1]
        BY <1>2, <4>1
      <4> QED BY <4>1, <4>2
    <3> QED BY <3>1
  <2> HIDE DEF a, b
  <2> QED BY <1>1, <2>1, <2>2
<1> QED BY <1>3 DEF KnownPages, IsSuffix, IsPrefix, Reverse

LEMMA SuffixesOfRest ==
  ASSUME NEW S, NEW x \in Seq(S), NEW y \in Seq(S)
  PROVE  PathSuffixes(y) \subseteq PathSuffixes(x \o y)
<1> DEFINE z == x \o y
<1> SUFFICES ASSUME NEW l \in 1 .. Len(y)
             PROVE  \E k \in 1 .. Len(z) : SubSeq(y, l, Len(y)) = SubSeq(z, k, Len(z))
  BY DEF PathSuffixes, Suffixes
<1>1. z \in Seq(S) /\ Len(z) = Len(x) + Len(y) /\ Len(x) \in Nat /\ Len(y) \in Nat
  OBVIOUS
<1>2. \A i \in 1 .. Len(y) : z[Len(x) + i] = y[i]
  OBVIOUS
<1> HIDE DEF z
<1>3. Len(x) + l \in 1 .. Len(z)
  BY <1>1
<1>4. SubSeq(y, l, Len(y)) = SubSeq(z, Len(x) + l, Len(z))
  <2> DEFINE a == SubSeq(y, l, Len(y))
             b == SubSeq(z, Len(x) + l, Len(z))
  <2>1. a \in Seq(S) /\ Len(a) = Len(y) - l + 1 /\ \A i \in 1 .. Len(a) : a[i] = y[l + i - 1]
    BY <1>1
  <2>2. b \in Seq(S) /\ Len(b) = Len(y) - l + 1 /\ \A i \in 1 .. Len(b) : b[i] = z[Len(x) + l + i - 1]
    BY <1>1, <1>3
  <2> HIDE DEF a, b
  <2>3. \A i \in 1 .. Len(a) : a[i] = b[i]
    <3>1. ASSUME NEW i \in 1 .. Len(a) PROVE a[i] = b[i]
      <4>1. l + i - 1 \in 1 .. Len(y) /\ Len(x) + (l + i - 1) = Len(x) + l + i - 1
        BY <1>1, <2>1
      <4> QED BY <1>2, <2>1, <2>2, <4>1
    <3> QED BY <3>1
  <2>4. a = b
    BY <2>1, <2>2, <2>3
  <2> QED BY <2>4 DEF a, b
<1> QED BY <1>3, <1>4

\* There are finitely many paths, so pages can be counted.
LEMMA PathsAreFinite == IsFiniteSet(Paths)
<1>1. IsFiniteSet(Leaves)
  <2>1. Leaves = {"index.html"} \cup {"foo.html"}
    BY DEF Leaves
  <2>2. IsFiniteSet({"index.html"}) /\ IsFiniteSet({"foo.html"})
    BY FS_Singleton
  <2> QED BY <2>1, <2>2, FS_Union
<1>2. IsFiniteSet(Directories \X Leaves)
  BY <1>1, IgnoresAssumption, FS_Product
<1> DEFINE h == [q \in Directories \X Leaves |-> Append(q[1], q[2])]
<1>3. h \in Surjection(Directories \X Leaves, Paths)
  <2>1. h \in [Directories \X Leaves -> Paths]
    BY DEF Paths
  <2>2. ASSUME NEW p \in Paths PROVE \E q \in Directories \X Leaves : h[q] = p
    <3>1. PICK d \in Directories, l \in Leaves : p = Append(d, l)
      BY DEF Paths
    <3>2. <<d, l>> \in Directories \X Leaves /\ h[<<d, l>>] = p
      BY <3>1
    <3> QED BY <3>2
  <2> QED BY <2>1, <2>2 DEF Surjection
<1> HIDE DEF h
<1> QED BY <1>2, <1>3, FS_Surjection

\* The project and the page are as the project is made; it does not change.
IgnoresInv ==
  /\ project \in Projects
  /\ waivers \subseteq Waivers
  /\ visited # NoPage => /\ visited \in [file : Paths, slash : BOOLEAN]
                         /\ Visitable(visited.file, visited.slash)

LEMMA IgnoresInvariance == IgnoresSpec => []IgnoresInv
<1>1. IgnoresInit => IgnoresInv
  BY DEF IgnoresInit, IgnoresInv
<1>2. IgnoresInv /\ [IgnoresNext]_ivars => IgnoresInv'
  <2> SUFFICES ASSUME IgnoresInv, [IgnoresNext]_ivars PROVE IgnoresInv'
    OBVIOUS
  <2>1. CASE UNCHANGED ivars
    BY <2>1 DEF ivars, IgnoresInv, Visitable
  <2>2. CASE IgnoresNext
    <3>1. PICK f \in Paths, slash \in BOOLEAN : Visitable(f, slash) /\ visited' = [file |-> f, slash |-> slash]
      BY <2>2 DEF IgnoresNext, Browse
    <3>2. UNCHANGED <<project, waivers>>
      BY <2>2 DEF IgnoresNext, Browse
    <3>3. visited' \in [file : Paths, slash : BOOLEAN] /\ visited'.file = f /\ visited'.slash = slash
      BY <3>1
    <3> QED BY <3>1, <3>2, <3>3 DEF IgnoresInv, Visitable
  <2> QED BY <2>1, <2>2
<1> QED BY <1>1, <1>2, PTL DEF IgnoresSpec

\* The URL asked for is the path of the file below the document root, in either form.
LEMMA AskedIsRest ==
  ASSUME IgnoresInv, visited # NoPage
  PROVE  /\ AskedPath \in Seq(Segments) /\ project.docroot \in Seq(Segments)
         /\ visited.file = project.docroot \o AskedPath
<1> DEFINE f == visited.file
           d == project.docroot
           u == SubSeq(f, Len(d) + 1, Len(f))
<1>1. f \in Paths /\ f \in project.pages /\ (visited.slash => f[Len(f)] = "index.html") /\ visited.slash \in BOOLEAN
  BY DEF IgnoresInv, Visitable, Last
<1>2. project.docroot \in Directories /\ project.roots \subseteq Directories
  BY DEF IgnoresInv, Projects
<1>3. PICK r \in project.roots :
        /\ Len(r) <= Len(f) /\ SubSeq(r, 1, Len(r)) = SubSeq(f, 1, Len(r)) /\ r # f
        /\ Len(d) <= Len(r) /\ SubSeq(d, 1, Len(d)) = SubSeq(r, 1, Len(d))
  BY <1>1 DEF IgnoresInv, Projects, IsStrictPrefix, IsPrefix
<1>4. f \in Seq(Segments) /\ d \in Seq(Segments) /\ r \in Seq(Segments)
  BY <1>1, <1>2, PathsAreSequences
<1> HIDE DEF f, d
<1>5. Len(r) < Len(f)
  <2> SUFFICES ASSUME Len(r) = Len(f) PROVE FALSE
    BY <1>3, <1>4
  <2>1. SubSeq(r, 1, Len(r)) = r /\ SubSeq(f, 1, Len(f)) = f
    BY <1>4
  <2> QED BY <1>3, <2>1
<1>6. Len(d) < Len(f) /\ SubSeq(d, 1, Len(d)) = SubSeq(f, 1, Len(d))
  <2>1. SubSeq(r, 1, Len(d)) = SubSeq(f, 1, Len(d))
    <3>1. \A i \in 1 .. Len(r) : r[i] = f[i]
      <4>1. ASSUME NEW i \in 1 .. Len(r) PROVE r[i] = f[i]
        <5>1. SubSeq(r, 1, Len(r))[i] = r[i] /\ SubSeq(f, 1, Len(r))[i] = f[i]
          BY <1>4, <1>5
        <5> QED BY <1>3, <5>1
      <4> QED BY <4>1
    <3> QED BY <1>3, <1>4, <1>5, <3>1
  <2> QED BY <1>3, <1>4, <1>5, <2>1
<1>7. u \in Seq(Segments) /\ f = d \o u
  BY <1>4, <1>6, PrefixSplits
<1>8. u # << >> /\ Len(u) \in Nat \ {0} /\ u[Len(u)] = f[Len(f)]
  <2>1. Len(d) \in Nat /\ Len(f) \in Nat /\ Len(d) < Len(f)
    BY <1>4, <1>6
  <2>2. Len(u) = Len(f) - Len(d) /\ \A i \in 1 .. Len(u) : u[i] = f[Len(d) + i]
    BY <1>4, <2>1
  <2> HIDE DEF u
  <2>3. Len(u) \in 1 .. Len(u) /\ Len(d) + Len(u) = Len(f) /\ Len(u) \in Nat \ {0}
    BY <2>1, <2>2
  <2>4. u # << >>
    BY <2>3
  <2> QED BY <2>2, <2>3, <2>4
<1>9. visited.slash => Append(SubSeq(u, 1, Len(u) - 1), "index.html") = u
  <2> HIDE DEF u
  <2> SUFFICES ASSUME visited.slash PROVE Append(SubSeq(u, 1, Len(u) - 1), "index.html") = u
    OBVIOUS
  <2>1. u[Len(u)] = "index.html"
    BY <1>1, <1>8 DEF f
  <2> QED BY <1>7, <1>8, <2>1
<1>10. AskedPath = u
  <2> HIDE DEF u
  <2>1. Url(visited.file) = u
    BY DEF Url, u, f, d
  <2>2. AskedPath = IF visited.slash THEN Append(SubSeq(u, 1, Len(u) - 1), "index.html") ELSE u
    BY <1>1, <1>8, <2>1 DEF AskedPath, PagePath, Front
  <2> QED BY <1>9, <2>2
<1> QED BY <1>4, <1>7, <1>10 DEF f, d

LEMMA WaiverKinds == \A w \in Waivers : w.kind \in {"file", "rule", "value"}
BY DEF Waivers

\* With the file's own candidates the two filters agree, whatever the waivers.
LEMMA FiltersAgree ==
  ASSUME waivers \subseteq Waivers, NEW file, NEW f \in Findings
  PROVE  HiddenByOverlay(f, ResolveDetectIgnores(waivers, PathSuffixes(file))) <=> HiddenByCli(f, waivers, file)
<1> DEFINE C == PathSuffixes(file)
           skipped == \E w \in waivers : w.kind = "file" /\ MatchesScope(w.globs, C)
           valued == {w \in waivers : w.kind = "value"}
           rules == {w.rule : w \in {v \in waivers : v.kind = "rule"}}
             \cup {w.rule : w \in {v \in valued : v.value = "*" /\ MatchesScope(v.globs, C)}}
           values == {[rule |-> w.rule, value |-> w.value] :
                        w \in {v \in valued : v.value # "*" /\ (v.globs = {} \/ MatchesScope(v.globs, C))}}
           byValue(w) == /\ w.rule = f.rule /\ w.value \in {"*", f.value}
                         /\ \/ w.globs = {} /\ w.value # "*"
                            \/ MatchesScope(w.globs, C)
<1>1. HiddenByOverlay(f, ResolveDetectIgnores(waivers, C)) <=> skipped \/ f.rule \in rules \/ f \in values
  <2> HIDE DEF C
  <2>1. CASE skipped
    <3>1. ResolveDetectIgnores(waivers, C) = [skipScan |-> TRUE, disabledRules |-> {}, disabledValues |-> {}]
      BY <2>1 DEF ResolveDetectIgnores
    <3> QED BY <2>1, <3>1 DEF HiddenByOverlay
  <2>2. CASE ~skipped
    <3>1. ResolveDetectIgnores(waivers, C) = [skipScan |-> FALSE, disabledRules |-> rules, disabledValues |-> values]
      BY <2>2, Zenon DEF ResolveDetectIgnores
    <3> HIDE DEF skipped, rules, values
    <3> QED BY <2>2, <3>1 DEF HiddenByOverlay
  <2> QED BY <2>1, <2>2
<1>2. f.value # "*" /\ f = [rule |-> f.rule, value |-> f.value]
  BY IgnoresAssumption DEF Findings
<1>3. f.rule \in rules <=> \/ \E w \in waivers : w.kind = "rule" /\ w.rule = f.rule
                           \/ \E w \in waivers : w.kind = "value" /\ w.value = "*" /\ w.rule = f.rule /\ MatchesScope(w.globs, C)
  <2> HIDE DEF C
  <2> QED OBVIOUS
<1>4. f \in values <=> \E w \in waivers : /\ w.kind = "value" /\ w.value # "*" /\ w.rule = f.rule /\ w.value = f.value
                                          /\ (w.globs = {} \/ MatchesScope(w.globs, C))
  <2> HIDE DEF C
  <2>1. \A w \in waivers : f = [rule |-> w.rule, value |-> w.value] <=> w.rule = f.rule /\ w.value = f.value
    BY <1>2
  <2> QED BY <2>1
<1>5. HiddenByCli(f, waivers, file) <=> \/ skipped
                                        \/ \E w \in waivers : w.kind = "rule" /\ w.rule = f.rule
                                        \/ \E w \in waivers : w.kind = "value" /\ byValue(w)
  <2> HIDE DEF C
  <2>0. C = PathSuffixes(file)
    BY DEF C
  <2>1. ASSUME NEW w \in waivers
        PROVE  (CASE w.kind = "file" -> MatchesScope(w.globs, C)
                  [] w.kind = "rule" -> w.rule = f.rule
                  [] w.kind = "value" -> byValue(w))
               <=> \/ w.kind = "file" /\ MatchesScope(w.globs, C)
                   \/ w.kind = "rule" /\ w.rule = f.rule
                   \/ w.kind = "value" /\ byValue(w)
    <3>1. w.kind \in {"file", "rule", "value"}
      BY WaiverKinds
    <3> HIDE DEF byValue
    <3>2. CASE w.kind = "file"
      BY <3>2 DEF MatchesScope
    <3>3. CASE w.kind = "rule"
      BY <3>3
    <3>4. CASE w.kind = "value"
      <4>1. byValue(w) \in BOOLEAN
        BY DEF byValue
      <4> QED BY <3>4, <4>1
    <3> QED BY <3>1, <3>2, <3>3, <3>4
  <2>2. HiddenByCli(f, waivers, file) <=>
          \E w \in waivers : CASE w.kind = "file" -> MatchesScope(w.globs, C)
                               [] w.kind = "rule" -> w.rule = f.rule
                               [] w.kind = "value" -> byValue(w)
    BY <2>0, Zenon DEF HiddenByCli
  <2> HIDE DEF byValue
  <2> QED BY <2>1, <2>2, Zenon
<1>6. (\E w \in waivers : w.kind = "value" /\ byValue(w)) <=>
        \/ \E w \in waivers : w.kind = "value" /\ w.value = "*" /\ w.rule = f.rule /\ MatchesScope(w.globs, C)
        \/ \E w \in waivers : /\ w.kind = "value" /\ w.value # "*" /\ w.rule = f.rule /\ w.value = f.value
                              /\ (w.globs = {} \/ MatchesScope(w.globs, C))
  <2> HIDE DEF C
  <2> QED BY <1>2
<1> HIDE DEF skipped, rules, values, byValue, C
<1>7. HiddenByOverlay(f, ResolveDetectIgnores(waivers, C)) <=> HiddenByCli(f, waivers, file)
  BY <1>1, <1>3, <1>4, <1>5, <1>6, Zenon
<1> QED BY <1>7 DEF C

\* Where the URL is certain, what it is matched by is what the file is.
LEMMA CandidatesOfFile ==
  ASSUME IgnoresInv, visited # NoPage, Certain
  PROVE  PageCandidates(AskedPath, project.roots, PageFiles) = PathSuffixes(visited.file)
<1> DEFINE u == AskedPath
           d == project.docroot
           f == visited.file
           known == KnownPages(u, PageFiles)
<1>1. u \in Seq(Segments) /\ d \in Seq(Segments) /\ f = d \o u
  BY AskedIsRest
<1>2. PathSuffixes(u) \subseteq PathSuffixes(f)
  BY <1>1, SuffixesOfRest
<1>3. f \in project.pages /\ project.pages \subseteq Paths
  BY DEF IgnoresInv, Visitable, Projects
<1>4. IsFiniteSet(known)
  <2>1. known \subseteq Paths
    BY <1>3 DEF KnownPages, PageFiles
  <2> QED BY <2>1, PathsAreFinite, FS_Subset
<1>5. CASE Cardinality(known) = 1
  <2>1. PICK x : known = {x}
    BY <1>4, <1>5, FS_Singleton
  <2>2. project.listed
    BY <2>1 DEF KnownPages, PageFiles
  <2>3. f \in known
    BY <1>1, <1>3, <2>2, RestIsKnown DEF PageFiles
  <2>4. known = {f}
    BY <2>1, <2>3
  <2>5. PageCandidates(u, project.roots, PageFiles) = PathSuffixes(u) \cup UNION {PathSuffixes(x_1) : x_1 \in known}
    BY <1>5 DEF PageCandidates
  <2> HIDE DEF known, f, u
  <2> QED BY <1>2, <2>4, <2>5 DEF f, u
<1>6. CASE Cardinality(known) # 1
  <2>1. d = CommonRoot(project.roots)
    BY <1>6 DEF Certain, CommonRoot
  <2>2. PageCandidates(u, project.roots, PageFiles) =
          PathSuffixes(u) \cup (IF d # << >> THEN PathSuffixes(d \o u) ELSE {})
    <3> HIDE DEF known, d, u
    <3>1. CASE d # << >>
      BY <1>6, <2>1, <3>1 DEF PageCandidates, known
    <3>2. CASE d = << >>
      BY <1>6, <2>1, <3>2 DEF PageCandidates, known
    <3> QED BY <3>1, <3>2
  <2>3. d = << >> => f = u
    BY <1>1
  <2> HIDE DEF known, d, u, f
  <2> QED BY <1>1, <1>2, <2>2, <2>3 DEF u, f
<1> QED BY <1>5, <1>6

\* On a page whose file is certain, the overlay hides what the command line hides, for any project
\* of any directories and any waivers (pageCandidates, resolveDetectIgnores).
THEOREM OverlayAgreesWithCliHolds == IgnoresSpec => []OverlayAgreesWithCli
<1>1. IgnoresInv => OverlayAgreesWithCli
  <2> SUFFICES ASSUME IgnoresInv, visited # NoPage, Certain, NEW f \in Findings
               PROVE  HiddenByOverlay(f, ResolveDetectIgnores(waivers, PageCandidates(AskedPath, project.roots, PageFiles)))
                        <=> HiddenByCli(f, waivers, visited.file)
    BY DEF OverlayAgreesWithCli
  <2>1. PageCandidates(AskedPath, project.roots, PageFiles) = PathSuffixes(visited.file)
    BY CandidatesOfFile
  <2>2. waivers \subseteq Waivers
    BY DEF IgnoresInv
  <2> QED BY <2>1, <2>2, FiltersAgree
<1> QED BY <1>1, IgnoresInvariance, PTL


-----------------------------------------------------------------------------
(* Copy edits by hand: LiveManualApply.                                     *)

\* Events that end an apply or suspend it, that lock the controls, that carry a count, and that
\* have the tab ask for one.
Ends(e) == e.type \in {"done", "failed", "decide"}
Locks(e) == e.type \in {"started", "restarted", "repair"}
Tells(e) == e.type \in {"stashed", "started", "restarted", "done"}
Carries(e) == Tells(e) \/ e.type \in {"failed", "rolled_back", "discarded"}

\* The dock is locked, or will lock with the next count.
Hot(d) == d.locked \/ d.phase \in {"applying", "verifying", "repairing"}

PostOK(q) ==
  q # NoPost => /\ q \in [do : Asks, answer : Refused .. MaxStaged]
                /\ q.answer = Started => q.do \in {"commit", "repair"}
                /\ q.answer >= 0 => q.do # "repair" /\ (q.do = "discard" => q.answer = 0)

\* Types; and an apply has something to apply.
ManualTyped ==
  /\ dock \in Dock
  /\ DOMAIN posts = Posts /\ \A p \in Posts : PostOK(posts[p])
  /\ staged \in 0 .. MaxStaged /\ job \in {"none", "running", "decision"}
  /\ events \in Seq(Events) /\ Len(events) <= MaxEvents
  /\ faults \in 0 .. MaxFaults /\ odd \subseteq Oddities
  /\ job # "none" => staged > 0
  /\ \A i \in 1 .. Len(events) : Locks(events[i]) /\ Tells(events[i]) => events[i].n > 0

\* A hot dock will hear of an end: there is one on its way, or the apply runs, or a request that
\* starts or resumes it is undecided; and what locks the dock is followed by an end.
EndComes(after) == job = "running" \/ \E k \in 1 .. Len(events) : k > after /\ Ends(events[k])
Undecided(q) == q.do \in {"commit", "repair"} /\ q.answer # Started
LocksEnd == \A i \in 1 .. Len(events) : Locks(events[i]) => EndComes(i)
HotHasReason == Hot(dock) => EndComes(0) \/ \E p \in Posts : Undecided(posts[p])
LockInv == odd \cap {"lost", "disturbed"} = {} => LocksEnd /\ HotHasReason

\* Answers that carry a count, and the last event that does, are up to date; without such an event
\* the tab's count is, or is asked for.
AnswersTrue == \A p \in Posts : posts[p] # NoPost =>
                 /\ posts[p].answer >= 0 => posts[p].answer = staged
                 /\ posts[p].do = "count" => posts[p].answer # Refused
LastTrue == \A i \in 1 .. Len(events) :
              Tells(events[i]) /\ (\A k \in 1 .. Len(events) : k > i => ~Carries(events[k])) => events[i].n = staged
CountComes == \/ \E i \in 1 .. Len(events) : Carries(events[i])
              \/ dock.count = staged
              \/ \E p \in Posts : posts[p].do = "count"
CountInv == odd \cap {"lost", "overtaken"} = {} => AnswersTrue /\ LastTrue /\ CountComes

-----------------------------------------------------------------------------
(* The dock.                                                               *)

Phases == {"none", "applying", "verifying", "repairing", "repair-decision"}

LEMMA StoreDock ==
  ASSUME NEW d \in Dock, NEW n, NEW phase \in Phases
  PROVE  /\ Store(d, n, phase) \in Dock /\ Store(d, n, phase).count = d.count
         /\ Store(d, n, phase).locked = d.locked
         /\ Store(d, n, phase).phase \in {d.phase, phase, "applying"}
         /\ phase # "none" => Store(d, n, phase).phase \in {"none", phase}
BY DEF Store, Dock, Phases

LEMMA LockDock ==
  ASSUME NEW d \in Dock, NEW n
  PROVE  Lock(d, n) \in Dock /\ Lock(d, n).count = d.count
<1> DEFINE s == Store(d, n, "none")
<1>1. s \in Dock /\ s.count = d.count
  BY StoreDock DEF Phases
<1>2. Lock(d, n) = [s EXCEPT !.locked = TRUE, !.enabled = FALSE, !.offered = FALSE]
  BY DEF Lock
<1> HIDE DEF s
<1> QED BY <1>1, <1>2 DEF Dock

LEMMA UnlockDock ==
  ASSUME NEW d \in Dock
  PROVE  Unlock(d) \in Dock /\ Unlock(d).count = d.count /\ ~Unlock(d).locked /\ Unlock(d).phase = "none"
BY DEF Unlock, Dock

LEMMA EmptyDocked == EmptyDock \in Dock /\ EmptyDock.count = 0 /\ ~EmptyDock.locked /\ EmptyDock.phase = "none"
BY ManualAssumption DEF EmptyDock, Dock

LEMMA CountedDock ==
  ASSUME NEW d \in Dock, NEW n \in 0 .. MaxStaged
  PROVE  /\ Counted(d, n) \in Dock /\ Counted(d, n).count = n
         /\ Hot(Counted(d, n)) => Hot(d) \/ (d.phase = "repair-decision" /\ Counted(d, n).locked)
<1> DEFINE e == [d EXCEPT !.count = n]
<1>1. e \in Dock /\ e.count = n /\ e.locked = d.locked /\ e.phase = d.phase
  BY DEF Dock
<1>2. CASE n = 0
  BY <1>2, EmptyDocked DEF Counted, Hot
<1>3. CASE n # 0 /\ (e.locked \/ e.phase # "none")
  <2>1. Counted(d, n) = Lock(e, n)
    BY <1>3 DEF Counted
  <2>2. d.phase \in Phases
    BY DEF Dock, Phases
  <2>3. Lock(e, n).locked
    <3>1. Store(e, n, "none") \in Dock
      BY <1>1, StoreDock DEF Phases
    <3> QED BY <3>1 DEF Lock, Dock
  <2> HIDE DEF e
  <2>4. Lock(e, n) \in Dock /\ Lock(e, n).count = n
    BY <1>1, LockDock
  <2> QED BY <1>1, <1>3, <2>1, <2>2, <2>3, <2>4 DEF Hot, Phases
<1>4. CASE n # 0 /\ ~(e.locked \/ e.phase # "none")
  BY <1>1, <1>4 DEF Counted, Hot
<1> QED BY <1>2, <1>3, <1>4

LEMMA RepairingDock ==
  ASSUME NEW d \in Dock
  PROVE  Repairing(d) \in Dock /\ Repairing(d).count = d.count
<1>1. Store(d, d.count, "repairing") \in Dock /\ Store(d, d.count, "repairing").count = d.count
  BY StoreDock DEF Phases
<1> QED BY <1>1, LockDock DEF Repairing

LEMMA DecideDock ==
  ASSUME NEW d \in Dock, NEW n
  PROVE  Decide(d, n) \in Dock /\ Decide(d, n).count = d.count /\ ~Hot(Decide(d, n))
<1> DEFINE s == Store(d, n, "repair-decision")
<1>1. s \in Dock /\ s.count = d.count /\ s.phase \in {"none", "repair-decision"}
  BY StoreDock DEF Phases
<1>2. Decide(d, n) = [s EXCEPT !.locked = FALSE, !.enabled = FALSE, !.offered = TRUE]
  BY DEF Decide
<1> HIDE DEF s
<1> QED BY <1>1, <1>2 DEF Dock, Hot

\* What an event does to the dock.
LEMMA HandledDock ==
  ASSUME NEW d \in Dock, NEW e \in Events, Locks(e) /\ Tells(e) => e.n > 0
  PROVE  /\ Handled(d, e) \in Dock
         /\ Handled(d, e).count = IF Tells(e) THEN e.n ELSE d.count
         /\ Hot(Handled(d, e)) =>
              ~Ends(e) /\ (Hot(d) \/ Locks(e) \/ (e.type = "stashed" /\ d.phase = "repair-decision"))
<1>1. Tells(e) => e.n \in 0 .. MaxStaged
  BY DEF Events, Tells
<1>2. CASE e.type = "stashed"
  BY <1>1, <1>2, CountedDock DEF Handled, Tells, Ends, Locks
<1>3. CASE e.type = "started"
  <2>1. e.n > 0 /\ e.n \in 0 .. MaxStaged
    BY <1>1, <1>3 DEF Locks, Tells
  <2> DEFINE c == [Counted(d, e.n) EXCEPT !.phase = "applying"]
  <2>2. c \in Dock /\ c.count = e.n
    BY <2>1, CountedDock DEF Dock
  <2>3. Handled(d, e) = Lock(c, e.n)
    BY <1>3, <2>1 DEF Handled, OnStarted
  <2> HIDE DEF c
  <2> QED BY <1>3, <2>2, <2>3, LockDock DEF Tells, Ends, Locks
<1>4. CASE e.type = "restarted"
  <2>1. e.n > 0 /\ e.n \in 0 .. MaxStaged
    BY <1>1, <1>4 DEF Locks, Tells
  <2>2. Handled(d, e) = Lock(Repairing(Counted(d, e.n)), e.n)
    BY <1>4, <2>1 DEF Handled
  <2>3. Repairing(Counted(d, e.n)) \in Dock /\ Repairing(Counted(d, e.n)).count = e.n
    BY <2>1, CountedDock, RepairingDock
  <2> QED BY <1>4, <2>2, <2>3, LockDock DEF Tells, Ends, Locks
<1>5. CASE e.type = "chunk"
  <2>1. Handled(d, e) \in {d, Lock(Store(d, d.count, "applying"), d.count)} /\ (Handled(d, e) # d => d.locked)
    BY <1>5 DEF Handled
  <2>2. Store(d, d.count, "applying") \in Dock /\ Store(d, d.count, "applying").count = d.count
    BY StoreDock DEF Phases
  <2> QED BY <1>5, <2>1, <2>2, LockDock DEF Tells, Ends, Hot
<1>6. CASE e.type = "last_chunk"
  <2>1. Handled(d, e) \in {d, Lock(Store(d, d.count, "verifying"), d.count)} /\ (Handled(d, e) # d => d.locked)
    BY <1>6 DEF Handled
  <2>2. Store(d, d.count, "verifying") \in Dock /\ Store(d, d.count, "verifying").count = d.count
    BY StoreDock DEF Phases
  <2> QED BY <1>6, <2>1, <2>2, LockDock DEF Tells, Ends, Hot
<1>7. CASE e.type = "repair"
  BY <1>7, RepairingDock DEF Handled, Tells, Ends, Locks
<1>8. CASE e.type = "decide"
  BY <1>8, DecideDock DEF Handled, Tells
<1>9. CASE e.type = "done"
  BY <1>1, <1>9, UnlockDock, CountedDock DEF Handled, OnDone, Tells, Hot
<1>10. CASE e.type = "failed"
  BY <1>10, UnlockDock DEF Handled, Tells, Hot
<1>11. CASE e.type = "rolled_back"
  BY <1>11 DEF Handled, Tells, Ends, Hot, Dock
<1>12. CASE e.type = "discarded"
  BY <1>12 DEF Handled, Tells, Ends
<1> QED BY <1>2, <1>3, <1>4, <1>5, <1>6, <1>7, <1>8, <1>9, <1>10, <1>11, <1>12 DEF Events

-----------------------------------------------------------------------------
(* The queue of events.                                                    *)

LEMMA Joined ==
  ASSUME NEW S, NEW s \in Seq(S), NEW e \in S
  PROVE  /\ s \o <<e>> \in Seq(S) /\ Len(s \o <<e>>) = Len(s) + 1
         /\ (s \o <<e>>)[Len(s) + 1] = e /\ \A i \in 1 .. Len(s) : (s \o <<e>>)[i] = s[i]
<1>1. <<e>> \in Seq(S) /\ Len(<<e>>) = 1 /\ <<e>>[1] = e
  OBVIOUS
<1>2. /\ Len(s \o <<e>>) = Len(s) + Len(<<e>>) /\ s \o <<e>> \in Seq(S)
      /\ \A i \in 1 .. Len(s) : (s \o <<e>>)[i] = s[i]
  BY <1>1, ConcatProperties
<1>3. (s \o <<e>>)[Len(s) + 1] = <<e>>[1]
  BY <1>1, <1>2, ConcatProperties
<1> QED BY <1>1, <1>2, <1>3

LEMMA Shifted ==
  ASSUME NEW S, NEW s \in Seq(S), s # << >>
  PROVE  /\ Head(s) = s[1] /\ Head(s) \in S /\ Len(s) > 0
         /\ Tail(s) \in Seq(S) /\ Len(Tail(s)) = Len(s) - 1
         /\ \A i \in 1 .. Len(s) - 1 : Tail(s)[i] = s[i + 1]
OBVIOUS

\* Event e is sent.
Sent(e) == e \in Events /\ Emit(<<e>>)

LEMMA SentIs ==
  ASSUME ManualTyped, NEW e, Sent(e)
  PROVE  /\ events' \in Seq(Events) /\ Len(events') = Len(events) + 1 /\ Len(events') <= MaxEvents
         /\ events'[Len(events) + 1] = e /\ \A i \in 1 .. Len(events) : events'[i] = events[i]
<1>1. events \in Seq(Events) /\ e \in Events /\ events' = events \o <<e>> /\ Len(events) + Len(<<e>>) <= MaxEvents
  BY DEF ManualTyped, Sent, Emit
<1>2. Len(<<e>>) = 1 /\ Len(events) \in Nat
  BY <1>1
<1> PICK E : E = Events
  OBVIOUS
<1>3. /\ events' \in Seq(E) /\ Len(events') = Len(events) + 1
      /\ events'[Len(events) + 1] = e /\ \A i \in 1 .. Len(events) : events'[i] = events[i]
  BY <1>1, Joined
<1> QED BY <1>1, <1>2, <1>3

ManualInv == ManualTyped /\ LockInv /\ CountInv

\* The queue grew by at most an event, and the end that was to come still is, or has been sent.
Grew ==
  /\ Len(events) <= Len(events') /\ \A i \in 1 .. Len(events) : events'[i] = events[i]
  /\ job = "running" => job' = "running" \/ (Len(events') > Len(events) /\ Ends(events'[Len(events')]))

LEMMA EndStillComes ==
  ASSUME ManualTyped, Grew, events' \in Seq(Events), NEW after \in 0 .. Len(events), EndComes(after)
  PROVE  EndComes(after)'
<1>1. Len(events) \in Nat /\ Len(events') \in Nat
  BY DEF ManualTyped
<1>2. CASE job = "running"
  BY <1>1, <1>2 DEF Grew, EndComes
<1>3. CASE \E k \in 1 .. Len(events) : k > after /\ Ends(events[k])
  BY <1>1, <1>3 DEF Grew, EndComes
<1> QED BY <1>2, <1>3 DEF EndComes

\* A step of the server, for request p or for none: the dock is as it was.
LEMMA ServerLocks ==
  ASSUME ManualTyped, LockInv, Grew, events' \in Seq(Events), dock' = dock, odd \subseteq odd',
         \A i \in 1 .. Len(events') : i > Len(events) /\ Locks(events'[i]) => job' = "running",
         \A q \in Posts : Undecided(posts[q]) => Undecided(posts'[q]) \/ job' = "running"
  PROVE  LockInv'
<1> SUFFICES ASSUME odd' \cap {"lost", "disturbed"} = {} PROVE LocksEnd' /\ HotHasReason'
  BY DEF LockInv
<1>1. LocksEnd /\ HotHasReason
  BY DEF LockInv
<1>2. Len(events) \in Nat /\ Len(events') \in Nat
  BY DEF ManualTyped
<1>3. ASSUME NEW i \in 1 .. Len(events'), Locks(events'[i]) PROVE EndComes(i)'
  <2>1. CASE i <= Len(events)
    <3>1. i \in 1 .. Len(events) /\ events'[i] = events[i]
      BY <1>2, <2>1 DEF Grew
    <3>2. EndComes(i)
      BY <1>1, <1>3, <3>1 DEF LocksEnd
    <3> QED BY <1>2, <3>1, <3>2, EndStillComes
  <2>2. CASE i > Len(events)
    BY <1>3, <2>2 DEF EndComes
  <2> QED BY <1>2, <2>1, <2>2
<1>4. ASSUME Hot(dock) PROVE EndComes(0)' \/ \E q \in Posts : Undecided(posts'[q])
  <2>1. CASE EndComes(0)
    BY <1>2, <2>1, EndStillComes
  <2>2. CASE \E q \in Posts : Undecided(posts[q])
    BY <2>2 DEF EndComes
  <2> QED BY <1>1, <1>4, <2>1, <2>2 DEF HotHasReason
<1> QED BY <1>3, <1>4 DEF LocksEnd, HotHasReason

\* After an event that carries a count or has one asked for.
LEMMA SentCarries ==
  ASSUME ManualTyped, NEW e, Sent(e), Carries(e), Tells(e) => e.n = staged'
  PROVE  LastTrue' /\ CountComes'
<1>1. /\ Len(events') = Len(events) + 1 /\ Len(events) \in Nat
      /\ events'[Len(events) + 1] = e /\ \A i \in 1 .. Len(events) : events'[i] = events[i]
  BY SentIs DEF ManualTyped
<1>2. Len(events') \in 1 .. Len(events') /\ events'[Len(events')] = e
  BY <1>1
<1>3. \A i \in 1 .. Len(events') : i = Len(events') \/ Len(events') > i
  BY <1>1
<1> QED BY <1>2, <1>3 DEF LastTrue, CountComes

\* After an event that does not, or none.
LEMMA NothingCarries ==
  ASSUME ManualTyped, LastTrue, CountComes, staged' = staged, dock'.count = dock.count,
         events' \in Seq(Events), Len(events) <= Len(events'), \A i \in 1 .. Len(events) : events'[i] = events[i],
         \A i \in 1 .. Len(events') : i > Len(events) => ~Carries(events'[i]),
         \A q \in Posts : posts[q].do = "count" => posts'[q].do = "count"
  PROVE  LastTrue' /\ CountComes'
<1>1. Len(events) \in Nat /\ Len(events') \in Nat
  BY DEF ManualTyped
<1>2. ASSUME NEW i \in 1 .. Len(events'), Tells(events'[i]), \A k \in 1 .. Len(events') : k > i => ~Carries(events'[k])
      PROVE  events'[i].n = staged
  <2>1. i <= Len(events)
    BY <1>1, <1>2 DEF Carries
  <2>2. \A k \in 1 .. Len(events) : k > i => ~Carries(events[k])
    BY <1>1, <1>2
  <2> QED BY <1>1, <1>2, <2>1, <2>2 DEF LastTrue
<1>3. LastTrue'
  BY <1>2 DEF LastTrue
<1>4. CountComes'
  <2>1. CASE \E i \in 1 .. Len(events) : Carries(events[i])
    BY <1>1, <2>1 DEF CountComes
  <2>2. CASE ~\E i \in 1 .. Len(events) : Carries(events[i])
    BY <2>2 DEF CountComes
  <2> QED BY <2>1, <2>2
<1> QED BY <1>3, <1>4

-----------------------------------------------------------------------------
(* The steps.                                                              *)

LEMMA ManualStart == ManualInit => ManualInv
<1> SUFFICES ASSUME ManualInit PROVE ManualInv
  OBVIOUS
<1>1. ManualTyped
  BY EmptyDocked, ManualAssumption DEF ManualInit, ManualTyped, PostOK, Oddities
<1>2. events = << >> /\ ~Hot(dock)
  BY EmptyDocked DEF ManualInit, Hot
<1>3. LockInv
  BY <1>2 DEF LockInv, LocksEnd, HotHasReason
<1>4. CountInv
  BY <1>2, EmptyDocked DEF ManualInit, CountInv, AnswersTrue, LastTrue, CountComes
<1> QED BY <1>1, <1>3, <1>4 DEF ManualInv

\* A new request, with which the dock may be locked if it starts or resumes an apply.
LEMMA AskKeeps ==
  ASSUME ManualInv, NEW p \in Posts, NEW what \in Asks, Ask(p, what),
         dock' \in Dock, dock'.count = dock.count, dock' = dock \/ what \in {"commit", "repair"},
         UNCHANGED <<mserver, events, faults, odd>>
  PROVE  ManualInv'
<1> DEFINE q == [do |-> what, answer |-> Waits]
<1>1. posts[p] = NoPost /\ posts' = [posts EXCEPT ![p] = q] /\ DOMAIN posts = Posts
  BY DEF Ask, ManualInv, ManualTyped
<1>2. posts'[p] = q /\ \A r \in Posts \ {p} : posts'[r] = posts[r]
  BY <1>1
<1>3. q \in [do : Asks, answer : Refused .. MaxStaged] /\ q # NoPost
  BY ManualAssumption DEF Waits, Refused, NoPost
<1>4. UNCHANGED <<staged, job, events, faults, odd>>
  BY DEF mserver
<1>5. ManualTyped'
  <2>1. PostOK(q)
    BY <1>3 DEF PostOK, Waits, Started
  <2>2. DOMAIN posts' = Posts /\ \A r \in Posts : PostOK(posts'[r])
    BY <1>1, <1>2, <2>1 DEF ManualInv, ManualTyped
  <2> QED BY <1>4, <2>2 DEF ManualInv, ManualTyped
<1>6. LockInv'
  <2> SUFFICES ASSUME odd \cap {"lost", "disturbed"} = {} PROVE LocksEnd' /\ HotHasReason'
    BY <1>4 DEF LockInv
  <2>1. LocksEnd /\ HotHasReason
    BY DEF ManualInv, LockInv
  <2>2. \A r \in Posts : Undecided(posts[r]) => Undecided(posts'[r])
    BY <1>1, <1>2 DEF Undecided, NoPost
  <2>3. what \in {"commit", "repair"} => Undecided(posts'[p])
    BY <1>2 DEF Undecided, Waits, Started
  <2> QED BY <1>4, <2>1, <2>2, <2>3 DEF LocksEnd, HotHasReason, EndComes
<1>7. CountInv'
  <2> SUFFICES ASSUME odd \cap {"lost", "overtaken"} = {} PROVE AnswersTrue' /\ LastTrue' /\ CountComes'
    BY <1>4 DEF CountInv
  <2>1. AnswersTrue /\ LastTrue /\ CountComes
    BY DEF ManualInv, CountInv
  <2>2. AnswersTrue'
    BY <1>2, <1>4, <2>1 DEF AnswersTrue, Waits, Refused
  <2>3. \A r \in Posts : posts[r].do = "count" => posts'[r].do = "count"
    BY <1>1, <1>2 DEF NoPost
  <2> QED BY <1>4, <2>1, <2>2, <2>3 DEF LastTrue, CountComes
<1> QED BY <1>5, <1>6, <1>7 DEF ManualInv

LEMMA UserKeeps ==
  ASSUME ManualInv, NEW p \in Posts, Save(p) \/ Apply(p) \/ Trash(p) \/ KeepFixing(p) \/ Rollback(p)
  PROVE  ManualInv'
<1>1. dock \in Dock
  BY DEF ManualInv, ManualTyped
<1>2. CASE Save(p) \/ Trash(p) \/ Rollback(p)
  <2>1. PICK what \in Asks : Ask(p, what) /\ dock' = dock
    BY <1>2 DEF Save, Trash, Rollback, Asks
  <2>2. UNCHANGED <<mserver, events, faults, odd>>
    BY <1>2 DEF Save, Trash, Rollback
  <2> QED BY <1>1, <2>1, <2>2, AskKeeps
<1>3. CASE Apply(p)
  <2>1. [dock EXCEPT !.phase = "applying"] \in Dock /\ [dock EXCEPT !.phase = "applying"].count = dock.count
    BY <1>1 DEF Dock
  <2>2. dock' \in Dock /\ dock'.count = dock.count
    BY <1>3, <2>1, LockDock DEF Apply
  <2> QED BY <1>3, <2>2, AskKeeps DEF Apply, Asks
<1>4. CASE KeepFixing(p)
  BY <1>1, <1>4, RepairingDock, AskKeeps DEF KeepFixing, Asks
<1> QED BY <1>2, <1>3, <1>4

\* What an answer does to the dock.
LEMMA AnsweredDock ==
  ASSUME ManualInv, NEW p \in Posts, Answered(p)
  PROVE  LET q == posts[p] IN
         /\ dock' \in Dock
         /\ Hot(dock') => (Hot(dock) /\ ~Undecided(q)) \/ (dock.phase = "repair-decision" /\ dock'.locked)
         /\ dock'.count \in {dock.count, q.answer, 0}
         /\ dock'.count # dock.count => dock'.count = q.answer /\ q.answer >= 0
         /\ q.do = "count" /\ q.answer # Refused => dock'.count = q.answer
<1> DEFINE q == posts[p]
           a == posts[p].answer
<1>1. q # NoPost /\ a # Waits /\ PostOK(q) /\ dock \in Dock
  BY DEF Answered, ManualInv, ManualTyped
<1>2. q.do \in Asks /\ a \in Refused .. MaxStaged /\ (a = Started => q.do \in {"commit", "repair"}) /\ (a >= 0 => q.do # "repair" /\ (q.do = "discard" => a = 0))
  BY <1>1 DEF PostOK
<1>3. a \in {Started, Refused} \/ (a \in 0 .. MaxStaged /\ a \notin {Started, Refused})
  BY <1>1, <1>2, ManualAssumption DEF Waits, Started, Refused
<1>4. CASE q.do = "commit"
  <2>1. dock' = AfterCommit(dock, a)
    BY <1>4 DEF Answered
  <2>2. CASE a = Started
    <3>1. dock' = dock
      BY <2>1, <2>2 DEF AfterCommit, Started, Refused
    <3>2. ~Undecided(q)
      BY <2>2 DEF Undecided
    <3> QED BY <1>1, <1>4, <3>1, <3>2
  <2>3. CASE a = Refused
    <3>1. dock' = IF dock.count > 0 THEN Unlock(dock) ELSE EmptyDock
      BY <2>1, <2>3 DEF AfterCommit, Started, Refused
    <3>2. dock.count > 0 \/ dock.count = 0
      BY <1>1, ManualAssumption DEF Dock
    <3> QED BY <1>1, <1>4, <3>1, <3>2, UnlockDock, EmptyDocked DEF Hot
  <2>4. CASE a \in 0 .. MaxStaged /\ a \notin {Started, Refused}
    <3>1. dock' = IF Counted(dock, a).count > 0 THEN Unlock(Counted(dock, a)) ELSE EmptyDock
      BY <2>1, <2>4 DEF AfterCommit
    <3>2. Counted(dock, a) \in Dock /\ Counted(dock, a).count = a
      BY <1>1, <2>4, CountedDock
    <3>3. a > 0 \/ a = 0
      BY <2>4
    <3> QED BY <1>4, <2>4, <3>1, <3>2, <3>3, UnlockDock, EmptyDocked DEF Hot
  <2> QED BY <1>3, <2>2, <2>3, <2>4
<1>5. CASE q.do \in {"stash", "count"}
  <2>1. a = Refused \/ a \in 0 .. MaxStaged
    BY <1>2, <1>3, <1>5 DEF Started
  <2>2. a # Refused => dock' = Counted(dock, a)
    BY <1>5 DEF Answered
  <2>3. a = Refused => dock' = dock
    BY <1>5 DEF Answered
  <2>4. ~Undecided(q)
    BY <1>5 DEF Undecided
  <2> QED BY <1>1, <1>5, <2>1, <2>2, <2>3, <2>4, CountedDock DEF Refused
<1>6. CASE q.do = "discard"
  <2>1. a = Refused => dock' = dock
    BY <1>6 DEF Answered
  <2>2. a # Refused => dock' = Counted(dock, 0)
    BY <1>6 DEF Answered
  <2>3. ~Undecided(q) /\ 0 \in 0 .. MaxStaged
    BY <1>6, ManualAssumption DEF Undecided
  <2>4. a = Refused \/ a = 0
    BY <1>2, <1>3, <1>6 DEF Started
  <2> QED BY <1>1, <1>6, <2>1, <2>2, <2>3, <2>4, CountedDock DEF Refused
<1>7. CASE q.do = "rollback"
  <2> DEFINE d == [dock EXCEPT !.phase = "none"]
  <2>1. a = Refused => dock' = dock
    BY <1>7 DEF Answered
  <2>2. a # Refused => dock' = Counted(d, a)
    BY <1>7 DEF Answered
  <2>3. ~Undecided(q) /\ (a = Refused \/ a \in 0 .. MaxStaged)
    BY <1>2, <1>3, <1>7 DEF Undecided, Started
  <2>4. d \in Dock /\ d.count = dock.count /\ d.phase = "none" /\ d.locked = dock.locked
    BY <1>1 DEF Dock
  <2> HIDE DEF d
  <2>5. Hot(d) => Hot(dock)
    BY <2>4 DEF Hot
  <2> QED BY <1>1, <1>7, <2>1, <2>2, <2>3, <2>4, <2>5, CountedDock DEF Refused
<1>8. CASE q.do = "repair"
  <2>1. a = Started \/ a = Refused
    BY <1>2, <1>3, <1>8
  <2>2. CASE a = Started
    <3>1. dock' = [dock EXCEPT !.offered = FALSE]
      BY <1>8, <2>2 DEF Answered, Started, Refused
    <3>2. dock' \in Dock /\ dock'.count = dock.count /\ dock'.phase = dock.phase /\ dock'.locked = dock.locked
      BY <1>1, <3>1 DEF Dock
    <3>3. ~Undecided(q)
      BY <2>2 DEF Undecided
    <3> QED BY <1>8, <3>2, <3>3 DEF Hot
  <2>3. CASE a = Refused
    <3>1. dock' = Decide(dock, dock.count)
      BY <1>8, <2>3 DEF Answered
    <3> QED BY <1>1, <1>8, <3>1, DecideDock
  <2> QED BY <2>1, <2>2, <2>3
<1> QED BY <1>2, <1>4, <1>5, <1>6, <1>7, <1>8 DEF Asks

LEMMA AnswerKeeps ==
  ASSUME ManualInv, NEW p \in Posts, Answered(p)
  PROVE  ManualInv'
<1> DEFINE q == posts[p]
           hurt == dock.phase = "repair-decision" /\ dock'.locked
<1>1. /\ dock' \in Dock
      /\ Hot(dock') => (Hot(dock) /\ ~Undecided(q)) \/ hurt
      /\ dock'.count # dock.count => dock'.count = q.answer /\ q.answer >= 0
      /\ q.do = "count" /\ q.answer # Refused => dock'.count = q.answer
  BY AnsweredDock
<1>2. /\ posts' = [posts EXCEPT ![p] = NoPost] /\ UNCHANGED <<staged, job, events, faults>>
      /\ q # NoPost /\ q.answer # Waits
      /\ odd' = IF hurt THEN odd \cup {"disturbed"} ELSE odd
  BY DEF Answered, mserver, Note
<1>3. DOMAIN posts = Posts /\ posts'[p] = NoPost /\ \A r \in Posts \ {p} : posts'[r] = posts[r]
  BY <1>2 DEF ManualInv, ManualTyped
<1>4. PostOK(q) /\ q \in [do : Asks, answer : Refused .. MaxStaged]
  BY <1>2 DEF ManualInv, ManualTyped, PostOK
<1>5. ManualTyped'
  <2>1. \A r \in Posts : PostOK(posts'[r])
    BY <1>3 DEF ManualInv, ManualTyped, PostOK
  <2>2. odd' \subseteq Oddities
    BY <1>2 DEF ManualInv, ManualTyped, Oddities
  <2>3. DOMAIN posts' = Posts
    BY <1>2, <1>3
  <2> QED BY <1>1, <1>2, <2>1, <2>2, <2>3 DEF ManualInv, ManualTyped
<1>6. LockInv'
  <2> SUFFICES ASSUME odd' \cap {"lost", "disturbed"} = {} PROVE LocksEnd' /\ HotHasReason'
    BY DEF LockInv
  <2>1. ~hurt /\ odd \cap {"lost", "disturbed"} = {}
    BY <1>2
  <2>2. LocksEnd /\ HotHasReason
    BY <2>1 DEF ManualInv, LockInv
  <2>3. \A after : EndComes(after)' <=> EndComes(after)
    BY <1>2 DEF EndComes
  <2>4. LocksEnd'
    BY <1>2, <2>2 DEF LocksEnd, EndComes
  <2>5. HotHasReason'
    <3> SUFFICES ASSUME Hot(dock') PROVE EndComes(0) \/ \E r \in Posts : Undecided(posts'[r])
      BY <2>3 DEF HotHasReason
    <3>1. Hot(dock) /\ ~Undecided(q)
      BY <1>1, <2>1
    <3>2. EndComes(0) \/ \E r \in Posts \ {p} : Undecided(posts[r])
      BY <2>2, <3>1 DEF HotHasReason
    <3> QED BY <1>3, <3>2
  <2> QED BY <2>4, <2>5
<1>7. CountInv'
  <2> SUFFICES ASSUME odd' \cap {"lost", "overtaken"} = {} PROVE AnswersTrue' /\ LastTrue' /\ CountComes'
    BY DEF CountInv
  <2>1. AnswersTrue /\ LastTrue /\ CountComes
    BY <1>2 DEF ManualInv, CountInv
  <2>2. AnswersTrue'
    BY <1>2, <1>3, <2>1 DEF AnswersTrue
  <2>3. LastTrue'
    BY <1>2, <2>1 DEF LastTrue
  <2>4. q.answer >= 0 => q.answer = staged
    BY <1>2, <2>1 DEF AnswersTrue
  <2>5. CASE q.do = "count"
    <3>1. q.answer # Refused /\ q.answer # Started
      BY <1>2, <1>4, <2>1, <2>5 DEF AnswersTrue, PostOK
    <3>2. q.answer >= 0
      BY <1>2, <1>4, <3>1, ManualAssumption DEF Waits, Started, Refused
    <3> QED BY <1>1, <1>2, <2>2, <2>3, <2>4, <2>5, <3>1, <3>2 DEF CountComes
  <2>6. CASE q.do # "count"
    <3>1. dock'.count # dock.count => dock'.count = staged
      BY <1>1, <2>4
    <3>2. (\E i \in 1 .. Len(events) : Carries(events[i])) \/ dock.count = staged
          \/ \E r \in Posts \ {p} : posts[r].do = "count"
      BY <2>1, <2>6 DEF CountComes
    <3>3. CountComes'
      BY <1>2, <1>3, <3>1, <3>2 DEF CountComes
    <3> QED BY <2>2, <2>3, <3>3
  <2> QED BY <2>5, <2>6
<1> QED BY <1>5, <1>6, <1>7 DEF ManualInv

\* The tab handles the oldest event.
LEMMA ReceiveKeeps ==
  ASSUME ManualInv, NEW p \in Posts, Receive(p)
  PROVE  ManualInv'
<1> DEFINE e == Head(events)
           asks == e.type \in {"failed", "rolled_back", "discarded"}
           hurt == e.type = "stashed" /\ dock.phase = "repair-decision"
<1>1. /\ events # << >> /\ events' = Tail(events) /\ dock' = Handled(dock, e)
      /\ UNCHANGED <<staged, job, faults>>
      /\ odd' = IF hurt THEN odd \cup {"disturbed"} ELSE odd
      /\ posts[p] = NoPost
      /\ IF asks THEN posts' = [posts EXCEPT ![p] = [do |-> "count", answer |-> Waits]] ELSE posts' = posts
  BY DEF Receive, mserver, Note, Ask
<1>2. /\ ManualTyped /\ dock \in Dock /\ events \in Seq(Events) /\ Len(events) <= MaxEvents /\ DOMAIN posts = Posts
  BY DEF ManualInv, ManualTyped
<1>3. /\ e = events[1] /\ e \in Events /\ Len(events) > 0 /\ Len(events) \in Nat
      /\ events' \in Seq(Events) /\ Len(events') = Len(events) - 1
      /\ \A i \in 1 .. Len(events') : events'[i] = events[i + 1]
  <2> PICK E : E = Events
    OBVIOUS
  <2>1. events \in Seq(E) /\ events # << >>
    BY <1>1, <1>2
  <2> QED BY <1>1, <2>1, Shifted
<1> HIDE DEF e
<1>4. /\ Handled(dock, e) \in Dock
      /\ Handled(dock, e).count = IF Tells(e) THEN e.n ELSE dock.count
      /\ Hot(Handled(dock, e)) => ~Ends(e) /\ (Hot(dock) \/ Locks(e) \/ hurt)
  <2>1. Locks(e) /\ Tells(e) => e.n > 0
    BY <1>3 DEF ManualInv, ManualTyped
  <2> QED BY <1>2, <1>3, <2>1, HandledDock
<1>5. \A r \in Posts : posts'[r] = IF r = p /\ asks THEN [do |-> "count", answer |-> Waits] ELSE posts[r]
  BY <1>1, <1>2
<1>6. MaxEvents \in Nat /\ [do |-> "count", answer |-> Waits] \in [do : Asks, answer : Refused .. MaxStaged]
  BY ManualAssumption DEF Asks, Waits, Refused
<1>7. ManualTyped'
  <2>1. PostOK([do |-> "count", answer |-> Waits])
    BY <1>6 DEF PostOK, Waits, Started
  <2>2. \A r \in Posts : PostOK(posts'[r])
    BY <1>2, <1>5, <2>1 DEF ManualTyped
  <2>3. DOMAIN posts' = Posts
    BY <1>1, <1>2
  <2>4. odd' \subseteq Oddities
    BY <1>1, <1>2 DEF ManualTyped, Oddities
  <2>5. \A i \in 1 .. Len(events') : Locks(events'[i]) /\ Tells(events'[i]) => events'[i].n > 0
    <3>1. \A i \in 1 .. Len(events') : i + 1 \in 1 .. Len(events)
      BY <1>3
    <3> QED BY <1>2, <1>3, <3>1 DEF ManualTyped
  <2>6. Len(events') <= MaxEvents
    BY <1>2, <1>3, <1>6
  <2> QED BY <1>1, <1>2, <1>3, <1>4, <2>2, <2>3, <2>4, <2>5, <2>6 DEF ManualTyped
<1>8. LockInv'
  <2> SUFFICES ASSUME odd' \cap {"lost", "disturbed"} = {} PROVE LocksEnd' /\ HotHasReason'
    BY DEF LockInv
  <2>1. ~hurt /\ odd \cap {"lost", "disturbed"} = {}
    BY <1>1
  <2>2. LocksEnd /\ HotHasReason
    BY <2>1 DEF ManualInv, LockInv
  <2>3. ASSUME NEW i \in 0 .. Len(events'), EndComes(i + 1) PROVE EndComes(i)'
    <3>1. CASE job = "running"
      BY <1>1, <3>1 DEF EndComes
    <3>2. CASE \E k \in 1 .. Len(events) : k > i + 1 /\ Ends(events[k])
      <4>1. PICK k \in 1 .. Len(events) : k > i + 1 /\ Ends(events[k])
        BY <3>2
      <4>2. k - 1 \in 1 .. Len(events') /\ k - 1 > i
        BY <1>3, <4>1
      <4>3. events'[k - 1] = events[(k - 1) + 1] /\ (k - 1) + 1 = k
        BY <1>3, <4>1, <4>2
      <4> QED BY <4>1, <4>2, <4>3 DEF EndComes
    <3> QED BY <2>3, <3>1, <3>2 DEF EndComes
  <2>4. LocksEnd'
    <3> SUFFICES ASSUME NEW i \in 1 .. Len(events'), Locks(events'[i]) PROVE EndComes(i)'
      BY DEF LocksEnd
    <3>1. i + 1 \in 1 .. Len(events) /\ Locks(events[i + 1])
      BY <1>3
    <3>2. EndComes(i + 1)
      BY <2>2, <3>1 DEF LocksEnd
    <3> QED BY <1>3, <2>3, <3>2
  <2>5. HotHasReason'
    <3> SUFFICES ASSUME Hot(dock') PROVE EndComes(0)' \/ \E r \in Posts : Undecided(posts'[r])
      BY DEF HotHasReason
    <3>1. ~Ends(e) /\ (Hot(dock) \/ Locks(e))
      BY <1>1, <1>4, <2>1
    <3>2. EndComes(1) => EndComes(0)'
      <4>1. 0 \in 0 .. Len(events') /\ 0 + 1 = 1
        BY <1>3
      <4> QED BY <2>3, <4>1
    <3>3. CASE Locks(e)
      BY <1>3, <2>2, <3>2, <3>3 DEF LocksEnd
    <3>4. CASE EndComes(0)
      <4>1. EndComes(1)
        <5>1. \A k \in 1 .. Len(events) : k > 0 /\ Ends(events[k]) => k > 1
          BY <1>3, <3>1
        <5> QED BY <3>4, <5>1 DEF EndComes
      <4> QED BY <3>2, <4>1
    <3>5. CASE \E r \in Posts : Undecided(posts[r])
      BY <1>1, <1>5, <3>5 DEF Undecided, NoPost
    <3> QED BY <2>2, <3>1, <3>3, <3>4, <3>5 DEF HotHasReason
  <2> QED BY <2>4, <2>5
<1>9. CountInv'
  <2> SUFFICES ASSUME odd' \cap {"lost", "overtaken"} = {} PROVE AnswersTrue' /\ LastTrue' /\ CountComes'
    BY DEF CountInv
  <2>1. AnswersTrue /\ LastTrue /\ CountComes
    BY <1>1 DEF ManualInv, CountInv
  <2>2. AnswersTrue'
    BY <1>1, <1>5, <2>1 DEF AnswersTrue, Waits, Refused
  <2>3. LastTrue'
    <3> SUFFICES ASSUME NEW i \in 1 .. Len(events'), Tells(events'[i]),
                        \A k \in 1 .. Len(events') : k > i => ~Carries(events'[k])
                 PROVE  events'[i].n = staged
      BY <1>1 DEF LastTrue
    <3>1. i + 1 \in 1 .. Len(events) /\ events'[i] = events[i + 1]
      BY <1>3
    <3>2. ASSUME NEW k \in 1 .. Len(events), k > i + 1 PROVE ~Carries(events[k])
      <4>1. k - 1 \in 1 .. Len(events') /\ k - 1 > i /\ events'[k - 1] = events[k]
        BY <1>3, <3>2
      <4> QED BY <4>1
    <3> QED BY <2>1, <3>1, <3>2 DEF LastTrue
  <2>4. CountComes'
    <3>1. CASE asks
      <4>1. posts'[p].do = "count"
        BY <1>5, <3>1
      <4> QED BY <4>1 DEF CountComes
    <3>2. CASE \E i \in 1 .. Len(events) : i > 1 /\ Carries(events[i])
      <4>1. PICK i \in 1 .. Len(events) : i > 1 /\ Carries(events[i])
        BY <3>2
      <4>2. i - 1 \in 1 .. Len(events') /\ events'[i - 1] = events[i]
        BY <1>3, <4>1
      <4> QED BY <4>1, <4>2 DEF CountComes
    <3>3. CASE Tells(e) /\ ~\E i \in 1 .. Len(events) : i > 1 /\ Carries(events[i])
      <4>1. 1 \in 1 .. Len(events)
        BY <1>3
      <4>2. e.n = staged
        BY <1>3, <2>1, <3>3, <4>1 DEF LastTrue
      <4> QED BY <1>1, <1>4, <3>3, <4>2 DEF CountComes
    <3>4. CASE ~asks /\ ~Tells(e) /\ ~\E i \in 1 .. Len(events) : i > 1 /\ Carries(events[i])
      <4>1. dock'.count = dock.count /\ posts' = posts
        BY <1>1, <1>4, <3>4
      <4>2. ~\E i \in 1 .. Len(events) : Carries(events[i])
        BY <1>3, <3>4 DEF Carries
      <4> QED BY <1>1, <2>1, <4>1, <4>2 DEF CountComes
    <3> QED BY <3>1, <3>2, <3>3, <3>4
  <2> QED BY <2>2, <2>3, <2>4
<1> QED BY <1>7, <1>8, <1>9 DEF ManualInv

-----------------------------------------------------------------------------
(* The server and the agent.                                               *)

\* A request as it is after a step of the server that answers it.
Served(r) ==
  /\ posts'[r] # NoPost /\ (posts[r].do = "count" => posts'[r].do = "count")
  /\ posts'[r].answer >= 0 => posts'[r].answer = staged'
  /\ posts'[r].do = "count" => posts'[r].answer # Refused
  /\ Undecided(posts[r]) => Undecided(posts'[r]) \/ job' = "running"

\* What a step of the server sends: nothing, or an event e.
Sends(e) ==
  \/ events' = events /\ staged' = staged /\ (job = "running" => job' = "running")
  \/ /\ Sent(e) /\ (Carries(e) \/ staged' = staged) /\ (Tells(e) => e.n = staged')
     /\ Locks(e) => job' = "running"
     /\ job = "running" => job' = "running" \/ Ends(e)

ServerTyped ==
  /\ staged' \in 0 .. MaxStaged /\ job' \in {"none", "running", "decision"}
  /\ job' # "none" => staged' > 0

LEMMA OvertakenHistory ==
  ASSUME ManualTyped, NEW S, Overtake(S)
  PROVE  /\ odd' \subseteq Oddities /\ odd \subseteq odd'
         /\ odd' \cap {"lost", "overtaken"} = {} =>
              staged' = staged \/ \A r \in Posts \ S : posts[r] # NoPost => ~(posts[r].answer >= 0)
BY DEF ManualTyped, Overtake, Note, Oddities

LEMMA SentTyped ==
  ASSUME ManualTyped, NEW e, Sends(e), ServerTyped
  PROVE  /\ events' \in Seq(Events) /\ Len(events') <= MaxEvents /\ Grew
         /\ \A i \in 1 .. Len(events') : i > Len(events) /\ Locks(events'[i]) => job' = "running"
         /\ \A i \in 1 .. Len(events') : Locks(events'[i]) /\ Tells(events'[i]) => events'[i].n > 0
<1>1. events \in Seq(Events) /\ Len(events) <= MaxEvents /\ Len(events) \in Nat
      /\ \A i \in 1 .. Len(events) : Locks(events[i]) /\ Tells(events[i]) => events[i].n > 0
  BY DEF ManualTyped
<1>2. CASE events' = events /\ (job = "running" => job' = "running")
  BY <1>1, <1>2 DEF Grew
<1>3. CASE /\ Sent(e) /\ (Tells(e) => e.n = staged') /\ (Locks(e) => job' = "running")
           /\ job = "running" => job' = "running" \/ Ends(e)
  <2>1. /\ events' \in Seq(Events) /\ Len(events') = Len(events) + 1 /\ Len(events') <= MaxEvents
        /\ events'[Len(events) + 1] = e /\ \A i \in 1 .. Len(events) : events'[i] = events[i]
    BY <1>3, SentIs
  <2>2. \A i \in 1 .. Len(events') : i \in 1 .. Len(events) \/ (i = Len(events) + 1 /\ events'[i] = e)
    BY <1>1, <2>1
  <2>3. Locks(e) /\ Tells(e) => e.n > 0
    BY <1>3 DEF ServerTyped
  <2>4. Grew
    BY <1>1, <1>3, <2>1 DEF Grew
  <2>5. \A i \in 1 .. Len(events') : i > Len(events) /\ Locks(events'[i]) => job' = "running"
    BY <1>1, <1>3, <2>2
  <2>6. \A i \in 1 .. Len(events') : Locks(events'[i]) /\ Tells(events'[i]) => events'[i].n > 0
    BY <1>1, <2>1, <2>2, <2>3
  <2> QED BY <2>1, <2>4, <2>5, <2>6
<1> QED BY <1>2, <1>3 DEF Sends

\* A step that answers the requests of S.
LEMMA ServerKeeps ==
  ASSUME ManualInv, NEW S, NEW e, Overtake(S), UNCHANGED <<dock, editing, faults>>,
         ServerTyped, Sends(e),
         DOMAIN posts' = Posts, \A r \in Posts : PostOK(posts'[r]),
         \A r \in Posts \ S : posts'[r] = posts[r], \A r \in Posts \cap S : Served(r)
  PROVE  ManualInv'
<1>1. ManualTyped
  BY DEF ManualInv
<1>2. /\ events' \in Seq(Events) /\ Len(events') <= MaxEvents /\ Grew
      /\ \A i \in 1 .. Len(events') : i > Len(events) /\ Locks(events'[i]) => job' = "running"
      /\ \A i \in 1 .. Len(events') : Locks(events'[i]) /\ Tells(events'[i]) => events'[i].n > 0
  BY <1>1, SentTyped
<1>3. /\ odd' \subseteq Oddities /\ odd \subseteq odd'
      /\ odd' \cap {"lost", "overtaken"} = {} =>
           staged' = staged \/ \A r \in Posts \ S : posts[r] # NoPost => ~(posts[r].answer >= 0)
  BY <1>1, OvertakenHistory
<1>4. ManualTyped'
  BY <1>1, <1>2, <1>3 DEF ManualTyped, ServerTyped
<1>5. LockInv'
  <2>1. \A q \in Posts : Undecided(posts[q]) => Undecided(posts'[q]) \/ job' = "running"
    BY DEF Served
  <2>2. LockInv
    BY DEF ManualInv
  <2> QED BY <1>1, <1>2, <1>3, <2>1, <2>2, ServerLocks
<1>6. CountInv'
  <2> SUFFICES ASSUME odd' \cap {"lost", "overtaken"} = {} PROVE AnswersTrue' /\ LastTrue' /\ CountComes'
    BY DEF CountInv
  <2>1. AnswersTrue /\ LastTrue /\ CountComes
    BY <1>3 DEF ManualInv, CountInv
  <2>2. AnswersTrue'
    <3> SUFFICES ASSUME NEW r \in Posts, posts'[r] # NoPost
                 PROVE  /\ posts'[r].answer >= 0 => posts'[r].answer = staged'
                        /\ posts'[r].do = "count" => posts'[r].answer # Refused
      BY DEF AnswersTrue
    <3>1. CASE r \in S
      BY <3>1 DEF Served
    <3>2. CASE r \notin S
      BY <1>3, <2>1, <3>2 DEF AnswersTrue
    <3> QED BY <3>1, <3>2
  <2>3. CASE Sent(e) /\ Carries(e) /\ (Tells(e) => e.n = staged')
    BY <1>1, <2>2, <2>3, SentCarries
  <2>4. CASE staged' = staged /\ (events' = events \/ (Sent(e) /\ ~Carries(e)))
    <3>1. \A i \in 1 .. Len(events') : i > Len(events) => ~Carries(events'[i])
      <4>1. Len(events) \in Nat
        BY <1>1 DEF ManualTyped
      <4>2. CASE events' = events
        BY <4>1, <4>2
      <4>3. CASE Sent(e) /\ ~Carries(e)
        <5>1. Len(events') = Len(events) + 1 /\ events'[Len(events) + 1] = e
          BY <1>1, <4>3, SentIs
        <5> QED BY <4>1, <4>3, <5>1
      <4> QED BY <2>4, <4>2, <4>3
    <3>2. \A q \in Posts : posts[q].do = "count" => posts'[q].do = "count"
      BY DEF Served
    <3>3. Len(events) <= Len(events') /\ \A i \in 1 .. Len(events) : events'[i] = events[i]
      BY <1>2 DEF Grew
    <3>4. dock'.count = dock.count
      OBVIOUS
    <3> QED BY <1>1, <1>2, <2>1, <2>2, <2>4, <3>1, <3>2, <3>3, <3>4, NothingCarries
  <2> QED BY <2>3, <2>4 DEF Sends
<1> QED BY <1>4, <1>5, <1>6 DEF ManualInv

\* The server answers request p with a.
LEMMA ReplyKeeps ==
  ASSUME ManualInv, NEW p \in Posts, NEW a \in Refused .. MaxStaged, NEW e,
         posts[p] # NoPost, posts[p].answer = Waits, Reply(p, a), Overtake({p}), UNCHANGED <<dock, editing, faults>>,
         ServerTyped, Sends(e),
         a = Started => posts[p].do \in {"commit", "repair"} /\ job' = "running",
         a >= 0 => a = staged' /\ posts[p].do # "repair" /\ (posts[p].do = "discard" => a = 0),
         posts[p].do = "count" => a # Refused
  PROVE  ManualInv'
<1>1. DOMAIN posts = Posts /\ posts[p] \in [do : Asks, answer : Refused .. MaxStaged]
  BY DEF ManualInv, ManualTyped, PostOK
<1>2. posts' = [posts EXCEPT ![p] = [posts[p] EXCEPT !.answer = a]]
  BY DEF Reply
<1>3. DOMAIN posts' = Posts /\ posts'[p] = [posts[p] EXCEPT !.answer = a] /\ \A r \in Posts \ {p} : posts'[r] = posts[r]
  BY <1>1, <1>2
<1>4. posts'[p] \in [do : Asks, answer : Refused .. MaxStaged] /\ posts'[p].do = posts[p].do /\ posts'[p].answer = a
  BY <1>1, <1>3
<1>5. PostOK(posts'[p])
  BY <1>4 DEF PostOK
<1>6. posts'[p] # NoPost
  <2>1. DOMAIN posts'[p] = {"do", "answer"} /\ DOMAIN NoPost = {"do"}
    BY <1>4 DEF NoPost
  <2> QED BY <2>1
<1>7. Served(p)
  BY <1>4, <1>6 DEF Served, Undecided
<1>8. \A r \in Posts : PostOK(posts'[r])
  BY <1>3, <1>5 DEF ManualInv, ManualTyped
<1> QED BY <1>3, <1>7, <1>8, ServerKeeps

LEMMA ServeKeeps ==
  ASSUME ManualInv, NEW p \in Posts, Serve(p)
  PROVE  ManualInv'
<1>1. posts[p] # NoPost /\ posts[p].answer = Waits /\ Overtake({p}) /\ UNCHANGED <<dock, editing, faults>>
  BY DEF Serve
<1>2. /\ staged \in 0 .. MaxStaged /\ job \in {"none", "running", "decision"} /\ (job # "none" => staged > 0)
      /\ MaxStaged \in Nat \ {0}
  BY ManualAssumption DEF ManualInv, ManualTyped
<1>3. /\ Started \in Refused .. MaxStaged /\ Refused \in Refused .. MaxStaged /\ staged \in Refused .. MaxStaged
      /\ 0 \in Refused .. MaxStaged /\ ~(Started >= 0) /\ ~(Refused >= 0) /\ Started # Refused
      /\ staged # Started /\ staged # Refused /\ 0 # Started /\ 0 # Refused
  BY <1>2 DEF Started, Refused
<1>4. ASSUME NEW a \in {Refused, 0, staged}, Reply(p, a), UNCHANGED <<staged, job, events>>,
             a # Refused => a = staged /\ posts[p].do \in {"commit", "count"}, posts[p].do = "count" => a # Refused
      PROVE  ManualInv'
  <2>1. Sends(NoPost) /\ ServerTyped
    BY <1>2, <1>4 DEF Sends, ServerTyped
  <2> QED BY <1>1, <1>3, <1>4, <2>1, ReplyKeeps
<1>5. CASE ServeStash(p)
  <2> DEFINE e == [type |-> "stashed", n |-> staged + 1]
  <2>1. posts[p].do = "stash" /\ staged' = staged + 1 /\ Reply(p, staged + 1) /\ Emit(<<e>>) /\ job' = job /\ staged < MaxStaged
    BY <1>5 DEF ServeStash
  <2>2. staged + 1 \in 0 .. MaxStaged /\ staged + 1 \in Refused .. MaxStaged /\ staged + 1 # Started /\ staged + 1 # Refused
    BY <1>2, <2>1 DEF Started, Refused
  <2>3. e \in Events /\ e.type = "stashed" /\ e.n = staged + 1
    BY <2>2 DEF Events
  <2> HIDE DEF e
  <2>4. Sends(e)
    BY <2>1, <2>3 DEF Sends, Sent, Carries, Tells, Locks
  <2>5. ServerTyped
    BY <1>2, <2>1, <2>2 DEF ServerTyped
  <2> QED BY <1>1, <2>1, <2>2, <2>4, <2>5, ReplyKeeps
<1>6. CASE ServeCommit(p)
  <2>1. posts[p].do = "commit" /\ staged' = staged
    BY <1>6 DEF ServeCommit
  <2>2. CASE job # "none"
    BY <1>3, <1>4, <1>6, <2>1, <2>2 DEF ServeCommit
  <2>3. CASE job = "none" /\ staged = 0
    BY <1>3, <1>4, <1>6, <2>1, <2>3 DEF ServeCommit
  <2>4. CASE job = "none" /\ staged # 0
    <3> DEFINE e == [type |-> "started", n |-> staged]
    <3>1. Reply(p, Started) /\ job' = "running" /\ Emit(<<e>>)
      BY <1>6, <2>4 DEF ServeCommit
    <3>2. e \in Events /\ e.type = "started" /\ e.n = staged
      BY <1>2 DEF Events
    <3> HIDE DEF e
    <3>3. Sends(e)
      BY <2>1, <3>1, <3>2 DEF Sends, Sent, Carries, Tells
    <3>4. ServerTyped
      BY <1>2, <2>1, <2>4, <3>1 DEF ServerTyped
    <3> QED BY <1>1, <1>3, <2>1, <3>1, <3>3, <3>4, ReplyKeeps
  <2> QED BY <2>2, <2>3, <2>4
<1>7. CASE ServeRepair(p)
  <2>1. posts[p].do = "repair" /\ staged' = staged
    BY <1>7 DEF ServeRepair
  <2>2. CASE job # "decision"
    BY <1>3, <1>4, <1>7, <2>1, <2>2 DEF ServeRepair
  <2>3. CASE job = "decision"
    <3> DEFINE e == [type |-> "restarted", n |-> staged]
    <3>1. Reply(p, Started) /\ job' = "running" /\ Emit(<<e>>)
      BY <1>7, <2>3 DEF ServeRepair
    <3>2. e \in Events /\ e.type = "restarted" /\ e.n = staged
      BY <1>2 DEF Events
    <3> HIDE DEF e
    <3>3. Sends(e)
      BY <2>1, <3>1, <3>2 DEF Sends, Sent, Carries, Tells
    <3>4. ServerTyped
      BY <1>2, <2>1, <2>3, <3>1 DEF ServerTyped
    <3> QED BY <1>1, <1>3, <2>1, <3>1, <3>3, <3>4, ReplyKeeps
  <2> QED BY <2>2, <2>3
<1>8. CASE ServeDiscard(p)
  <2>1. posts[p].do = "discard" /\ job' = job
    BY <1>8 DEF ServeDiscard
  <2>2. CASE job # "none"
    BY <1>3, <1>4, <1>8, <2>1, <2>2 DEF ServeDiscard
  <2>3. CASE job = "none"
    <3> DEFINE e == [type |-> "discarded"]
    <3>1. Reply(p, 0) /\ staged' = 0 /\ Emit(<<e>>)
      BY <1>8, <2>3 DEF ServeDiscard
    <3>2. e \in Events /\ e.type = "discarded"
      BY DEF Events
    <3> HIDE DEF e
    <3>3. Sends(e)
      BY <2>1, <2>3, <3>1, <3>2 DEF Sends, Sent, Carries, Tells, Locks
    <3>4. ServerTyped
      BY <1>2, <2>1, <2>3, <3>1 DEF ServerTyped
    <3> QED BY <1>1, <1>3, <2>1, <3>1, <3>3, <3>4, ReplyKeeps
  <2> QED BY <2>2, <2>3
<1>9. CASE ServeRollback(p)
  <2>1. posts[p].do = "rollback" /\ staged' = staged
    BY <1>9 DEF ServeRollback
  <2>2. CASE job # "decision"
    BY <1>3, <1>4, <1>9, <2>1, <2>2 DEF ServeRollback
  <2>3. CASE job = "decision"
    <3> DEFINE e == [type |-> "rolled_back"]
    <3>1. Reply(p, staged) /\ job' = "none" /\ Emit(<<e>>)
      BY <1>9, <2>3 DEF ServeRollback
    <3>2. e \in Events /\ e.type = "rolled_back"
      BY DEF Events
    <3> HIDE DEF e
    <3>3. Sends(e)
      BY <2>1, <2>3, <3>1, <3>2 DEF Sends, Sent, Carries, Tells, Locks
    <3>4. ServerTyped
      BY <1>2, <2>1, <3>1 DEF ServerTyped
    <3> QED BY <1>1, <1>3, <2>1, <3>1, <3>3, <3>4, ReplyKeeps
  <2> QED BY <2>2, <2>3
<1>10. CASE ServeCount(p)
  BY <1>3, <1>4, <1>10 DEF ServeCount, mserver
<1> QED BY <1>5, <1>6, <1>7, <1>8, <1>9, <1>10 DEF Serve

\* The agent's work answers no request.
LEMMA WorkKeeps ==
  ASSUME ManualInv, Work
  PROVE  ManualInv'
<1>1. job = "running" /\ Overtake({}) /\ UNCHANGED <<dock, editing, posts, faults>>
  BY DEF Work
<1>2. staged \in 0 .. MaxStaged /\ staged > 0 /\ MaxStaged \in Nat
  BY <1>1, ManualAssumption DEF ManualInv, ManualTyped
<1>3. DOMAIN posts' = Posts /\ \A r \in Posts : PostOK(posts'[r])
  BY <1>1 DEF ManualInv, ManualTyped
<1>4. ASSUME NEW e, Sends(e), ServerTyped PROVE ManualInv'
  BY <1>1, <1>3, <1>4, ServerKeeps
<1>5. CASE UNCHANGED mserver /\ \E t \in {"chunk", "last_chunk", "repair"} : Emit(<<[type |-> t]>>)
  <2>1. PICK t \in {"chunk", "last_chunk", "repair"} : Emit(<<[type |-> t]>>)
    BY <1>5
  <2> DEFINE e == [type |-> t]
  <2>2. e \in Events /\ e.type = t
    BY DEF Events
  <2> HIDE DEF e
  <2>3. Sends(e) /\ ServerTyped
    BY <1>1, <1>2, <1>5, <2>1, <2>2 DEF Sends, Sent, Tells, ServerTyped, mserver, e
  <2> QED BY <1>4, <2>3
<1>6. CASE job' = "none" /\ UNCHANGED staged /\ Emit(<<[type |-> "failed"]>>)
  <2> DEFINE e == [type |-> "failed"]
  <2>1. e \in Events /\ e.type = "failed" /\ Emit(<<e>>)
    BY <1>6 DEF Events
  <2> HIDE DEF e
  <2>2. Sends(e) /\ ServerTyped
    BY <1>2, <1>6, <2>1 DEF Sends, Sent, Tells, Locks, Ends, ServerTyped
  <2> QED BY <1>4, <2>2
<1>7. CASE job' = "decision" /\ UNCHANGED staged /\ Emit(<<[type |-> "decide"]>>)
  <2> DEFINE e == [type |-> "decide"]
  <2>1. e \in Events /\ e.type = "decide" /\ Emit(<<e>>)
    BY <1>7 DEF Events
  <2> HIDE DEF e
  <2>2. Sends(e) /\ ServerTyped
    BY <1>2, <1>7, <2>1 DEF Sends, Sent, Tells, Locks, Ends, ServerTyped
  <2> QED BY <1>4, <2>2
<1>8. CASE job' = "none" /\ \E n \in 0 .. staged : staged' = n /\ Emit(<<[type |-> "done", n |-> n]>>)
  <2>1. PICK n \in 0 .. staged : staged' = n /\ Emit(<<[type |-> "done", n |-> n]>>)
    BY <1>8
  <2> DEFINE e == [type |-> "done", n |-> n]
  <2>2. n \in 0 .. MaxStaged
    BY <1>2
  <2>3. e \in Events /\ e.type = "done" /\ e.n = n /\ Emit(<<e>>)
    BY <2>1, <2>2 DEF Events
  <2> HIDE DEF e
  <2>4. Sends(e) /\ ServerTyped
    BY <1>8, <2>1, <2>2, <2>3 DEF Sends, Sent, Tells, Carries, Locks, Ends, ServerTyped
  <2> QED BY <1>4, <2>4
<1> QED BY <1>5, <1>6, <1>7, <1>8 DEF Work

-----------------------------------------------------------------------------
(* Faults.                                                                 *)

LEMMA LoseKeeps ==
  ASSUME ManualInv, NEW p \in Posts, LosePost(p)
  PROVE  ManualInv'
<1>1. /\ posts[p] # NoPost /\ posts' = [posts EXCEPT ![p] = [posts[p] EXCEPT !.answer = Refused]]
      /\ faults < MaxFaults /\ faults' = faults + 1 /\ odd' = odd \cup {"lost"}
      /\ UNCHANGED <<dock, staged, job, events>>
  BY DEF LosePost, Note, mserver
<1>2. DOMAIN posts = Posts /\ posts[p] \in [do : Asks, answer : Refused .. MaxStaged]
  BY <1>1 DEF ManualInv, ManualTyped, PostOK
<1>3. posts'[p] = [posts[p] EXCEPT !.answer = Refused] /\ \A r \in Posts \ {p} : posts'[r] = posts[r]
  BY <1>1, <1>2
<1>4. PostOK(posts'[p])
  BY <1>2, <1>3, ManualAssumption DEF PostOK, Refused, Started
<1>5. DOMAIN posts' = Posts /\ \A r \in Posts : PostOK(posts'[r])
  BY <1>1, <1>2, <1>3, <1>4 DEF ManualInv, ManualTyped
<1>6. odd' \subseteq Oddities /\ faults' \in 0 .. MaxFaults
  BY <1>1, ManualAssumption DEF ManualInv, ManualTyped, Oddities
<1>7. ManualTyped'
  BY <1>1, <1>5, <1>6 DEF ManualInv, ManualTyped
<1> QED BY <1>1, <1>7 DEF ManualInv, LockInv, CountInv

\* With nothing under way nothing is lost by a reload: the stored phase was that of a dock that had a
\* reason, and the count is asked for.
LEMMA ReloadKeeps ==
  ASSUME ManualInv, NEW p \in Posts, ReloadPage(p)
  PROVE  ManualInv'
<1> DEFINE q == [do |-> "count", answer |-> Waits]
           lost == events # << >> \/ \E r \in Posts : posts[r] # NoPost
<1>1. /\ faults < MaxFaults /\ faults' = faults + 1 /\ odd' = (IF lost THEN odd \cup {"lost"} ELSE odd)
      /\ dock' = [EmptyDock EXCEPT !.phase = dock.phase] /\ events' = << >>
      /\ posts' = [[r \in Posts |-> NoPost] EXCEPT ![p] = q]
      /\ UNCHANGED <<staged, job>>
  BY DEF ReloadPage, Note, mserver
<1>2. DOMAIN posts' = Posts /\ posts'[p] = q /\ \A r \in Posts \ {p} : posts'[r] = NoPost
  BY <1>1
<1>3. q \in [do : Asks, answer : Refused .. MaxStaged] /\ PostOK(q)
  BY ManualAssumption DEF Waits, Refused, Started, Asks, PostOK
<1>4. PostOK(NoPost)
  BY DEF PostOK
<1>5. dock \in Dock /\ odd \subseteq Oddities /\ faults \in 0 .. MaxFaults
  BY DEF ManualInv, ManualTyped
<1>6. dock' \in Dock /\ ~dock'.locked /\ dock'.phase = dock.phase
  <2>1. EmptyDock \in Dock /\ ~EmptyDock.locked
    BY EmptyDocked
  <2>2. dock.phase \in Phases
    BY <1>5 DEF Dock, Phases
  <2> QED BY <1>1, <2>1, <2>2 DEF Dock, Phases
<1>7. odd' \subseteq Oddities /\ faults' \in 0 .. MaxFaults /\ odd \subseteq odd'
  BY <1>1, <1>5, ManualAssumption DEF Oddities
<1>8. events' \in Seq(Events) /\ Len(events') = 0 /\ MaxEvents \in Nat
  BY <1>1, ManualAssumption
<1>9. ManualTyped'
  BY <1>1, <1>2, <1>3, <1>4, <1>6, <1>7, <1>8 DEF ManualInv, ManualTyped
<1>10. LockInv'
  <2> SUFFICES ASSUME odd' \cap {"lost", "disturbed"} = {} PROVE LocksEnd' /\ HotHasReason'
    BY DEF LockInv
  <2>1. ~lost /\ odd \cap {"lost", "disturbed"} = {}
    BY <1>1
  <2>2. HotHasReason
    BY <2>1 DEF ManualInv, LockInv
  <2>3. Hot(dock') => job = "running"
    BY <1>6, <2>1, <2>2 DEF Hot, HotHasReason, EndComes, Undecided, NoPost
  <2> QED BY <1>1, <1>8, <2>3 DEF LocksEnd, HotHasReason, EndComes
<1>11. CountInv'
  <2>1. AnswersTrue'
    BY <1>2 DEF AnswersTrue, Waits, Refused
  <2>2. LastTrue'
    BY <1>8 DEF LastTrue
  <2>3. CountComes'
    BY <1>2 DEF CountComes
  <2> QED BY <2>1, <2>2, <2>3 DEF CountInv
<1> QED BY <1>9, <1>10, <1>11 DEF ManualInv

LEMMA UnchangedKeeps ==
  ASSUME ManualInv, UNCHANGED <<dock, posts, mserver, events, faults, odd>>
  PROVE  ManualInv'
<1>1. UNCHANGED <<staged, job>>
  BY DEF mserver
<1>2. ManualTyped'
  BY <1>1 DEF ManualInv, ManualTyped
<1>3. LockInv'
  BY <1>1 DEF ManualInv, LockInv, LocksEnd, HotHasReason, EndComes
<1>4. CountInv'
  BY <1>1 DEF ManualInv, CountInv, AnswersTrue, LastTrue, CountComes
<1> QED BY <1>2, <1>3, <1>4 DEF ManualInv

LEMMA ManualStep == ManualInv /\ [ManualNext]_mvars => ManualInv'
<1> SUFFICES ASSUME ManualInv, [ManualNext]_mvars PROVE ManualInv'
  OBVIOUS
<1>1. CASE Edit \/ Cancel \/ UNCHANGED mvars
  BY <1>1, UnchangedKeeps DEF Edit, Cancel, mvars
<1>2. CASE Work
  BY <1>2, WorkKeeps
<1>3. ASSUME NEW p \in Posts, Save(p) \/ Apply(p) \/ Trash(p) \/ KeepFixing(p) \/ Rollback(p) PROVE ManualInv'
  BY <1>3, UserKeeps
<1>4. ASSUME NEW p \in Posts, Answered(p) PROVE ManualInv'
  BY <1>4, AnswerKeeps
<1>5. ASSUME NEW p \in Posts, Receive(p) PROVE ManualInv'
  BY <1>5, ReceiveKeeps
<1>6. ASSUME NEW p \in Posts, Serve(p) PROVE ManualInv'
  BY <1>6, ServeKeeps
<1>7. ASSUME NEW p \in Posts, LosePost(p) PROVE ManualInv'
  BY <1>7, LoseKeeps
<1>8. ASSUME NEW p \in Posts, ReloadPage(p) PROVE ManualInv'
  BY <1>8, ReloadKeeps
<1> QED BY <1>1, <1>2, <1>3, <1>4, <1>5, <1>6, <1>7, <1>8 DEF ManualNext

\* Whatever the answers and events of copy edits by hand do: the controls lock only when an end is
\* to come, and a count that is true is on its way or shown.
THEOREM ManualInvariance == ManualSpec => []ManualInv
<1> QED BY ManualStart, ManualStep, PTL DEF ManualSpec

\* The dock of copy edits by hand is locked for a reason (handleManualEditActivity).
THEOREM LockedForAReasonHolds == ManualSpec => []LockedForAReason
<1>1. ManualInv => LockedForAReason
  <2> SUFFICES ASSUME ManualInv, Quiet, job = "none", odd \cap {"lost", "disturbed"} = {} PROVE ~dock.locked
    BY DEF LockedForAReason
  <2>1. HotHasReason
    BY DEF ManualInv, LockInv
  <2>2. ~EndComes(0) /\ \A p \in Posts : ~Undecided(posts[p])
    BY DEF Quiet, EndComes, Undecided, NoPost
  <2> QED BY <2>1, <2>2 DEF HotHasReason, Hot
<1> QED BY <1>1, ManualInvariance, PTL

\* With nothing under way the pill shows what is staged (updatePendingCounter).
THEOREM CountIsTrueHolds == ManualSpec => []CountIsTrue
<1>1. ManualInv => CountIsTrue
  <2> SUFFICES ASSUME ManualInv, Quiet, odd \cap {"lost", "overtaken"} = {} PROVE dock.count = staged
    BY DEF CountIsTrue
  <2>1. CountComes
    BY DEF ManualInv, CountInv
  <2>2. ~\E i \in 1 .. Len(events) : Carries(events[i])
    BY DEF Quiet
  <2>3. ~\E p \in Posts : posts[p].do = "count"
    BY DEF Quiet, NoPost
  <2> QED BY <2>1, <2>2, <2>3 DEF CountComes
<1> QED BY <1>1, ManualInvariance, PTL

-----------------------------------------------------------------------------
(* The modes: LiveModes.  What editing, picking and inserting leave in the  *)
(* page, whichever way out of them is taken.                                *)

\* Nothing is left in the page; a text is editable, changed or being saved as it stands only while
\* texts are edited; a session is worked on.
TextsKept(u) ==
  /\ ~u.left
  /\ u.draft => u.rows
  /\ u.rows => u.mode = "EDITING"
  /\ u.save = "current" => u.rows
  /\ u.session # "none" => u.mode \in {"GENERATING", "CYCLING", "SAVING"}

\* The placeholder is of an insert that is configured, or of its session until the variants came.
Owned(u) ==
  u.placeholder =>
    /\ u.session = "insert" \/ (u.mode = "CONFIGURING" /\ u.kind = "insert")
    /\ u.session # "replace" /\ u.mode \notin {"CYCLING", "SAVING"}

ModesInv ==
  /\ strange \cap {"late_save", "error"} = {} => TextsKept(ui)
  /\ strange = {} => Owned(ui)

\* What a step of the tab from u to v keeps.
Keeps(u, v) ==
  v \in Ui /\ (TextsKept(u) => TextsKept(v)) /\ (TextsKept(u) /\ Owned(u) => Owned(v))

\* v is u as far as the modes, the selection and the session go.
SameMode(u, v) ==
  /\ v.mode = u.mode /\ v.session = u.session /\ v.selected = u.selected /\ v.arrived = u.arrived
  /\ v.insert = u.insert /\ v.pick = u.pick

\* v is u but for what is pointed at, picked or switched on.
SameTexts(u, v) ==
  /\ v \in Ui /\ v.mode = u.mode /\ v.session = u.session /\ v.kind = u.kind /\ v.placeholder = u.placeholder
  /\ v.rows = u.rows /\ v.draft = u.draft /\ v.left = u.left /\ v.save = u.save

\* No text can be changed, and no save is of the texts as they are.
Closed(v) == ~v.rows /\ ~v.draft /\ v.save # "current"

Cleared(u, v) ==
  /\ v \in Ui /\ SameMode(u, v) /\ v.kind = "replace" /\ ~v.placeholder
  /\ v.rows = u.rows /\ v.draft = u.draft /\ v.left = u.left /\ v.save = u.save

Restored(u, v) ==
  /\ v \in Ui /\ SameMode(u, v) /\ v.kind = u.kind /\ v.placeholder = u.placeholder
  /\ ~v.draft /\ v.left = u.left

Disabled(u, v) ==
  /\ v \in Ui /\ SameMode(u, v) /\ v.kind = u.kind /\ v.placeholder = u.placeholder
  /\ Closed(v) /\ (~u.left /\ ~u.draft => ~v.left)

Hidden(u, v) ==
  /\ v \in Ui /\ SameMode(u, v) /\ v.kind = "replace"
  /\ v.placeholder => u.placeholder /\ u.kind # "insert"
  /\ Closed(v) /\ (~u.left /\ (u.draft => u.mode = "EDITING") => ~v.left)

LEMMA InsertClears ==
  ASSUME NEW u \in Ui PROVE Cleared(u, ClearInsertPicking(u)) /\ Cleared(u, FinalizeInsert(u))
BY DEF Cleared, SameMode, ClearInsertPicking, FinalizeInsert, Ui

LEMMA DraftsRestore == ASSUME NEW u \in Ui PROVE Restored(u, RestoreDrafts(u))
BY DEF Restored, SameMode, RestoreDrafts, Ui

LEMMA InlineEditDisables == ASSUME NEW u \in Ui PROVE Disabled(u, DisableInlineEdit(u))
<1>. DEFINE kept == u.left \/ u.draft
            save == IF u.save = "current" THEN "older" ELSE u.save
            v == [u EXCEPT !.rows = FALSE, !.draft = FALSE, !.left = kept, !.save = save]
<1>1. DisableInlineEdit(u) = v
  BY Zenon DEF DisableInlineEdit
<1>2. kept \in BOOLEAN /\ (~u.left /\ ~u.draft => ~kept)
  BY Zenon
<1>3. save \in {"none", "older"}
  BY DEF Ui
<1>. HIDE DEF kept, save
<1>4. v \in Ui
  BY <1>2, <1>3 DEF Ui
<1>5. SameMode(u, v) /\ v.kind = u.kind /\ v.placeholder = u.placeholder /\ Closed(v)
  BY <1>3 DEF SameMode, Closed, Ui
<1>6. v.left = kept
  BY DEF Ui
<1>. HIDE DEF v
<1>. QED
  BY <1>1, <1>2, <1>4, <1>5, <1>6, Zenon DEF Disabled

\* A draft is taken back only where texts are edited.
LEMMA BarHides == ASSUME NEW u \in Ui PROVE Hidden(u, HideBar(u))
<1>. DEFINE a == IF u.kind = "insert" THEN ClearInsertPicking(u) ELSE u
            b == IF a.mode = "EDITING" THEN RestoreDrafts(a) ELSE a
<1>0. HideBar(u) = DisableInlineEdit(b)
  BY DEF HideBar
<1>1. /\ a \in Ui /\ SameMode(u, a) /\ a.kind = "replace" /\ a.draft = u.draft /\ a.left = u.left
      /\ a.placeholder => u.placeholder /\ u.kind # "insert"
  <2>1. CASE u.kind = "insert"
    <3>1. a = ClearInsertPicking(u)
      BY <2>1
    <3>. HIDE DEF a
    <3>. QED
      BY <3>1, InsertClears DEF Cleared
  <2>2. CASE u.kind # "insert"
    <3>1. a = u /\ u.kind = "replace"
      BY <2>2 DEF Ui
    <3>. QED
      BY <3>1 DEF SameMode
  <2>. QED
    BY <2>1, <2>2
<1>. HIDE DEF a
<1>2. /\ b \in Ui /\ SameMode(a, b) /\ b.kind = a.kind /\ b.placeholder = a.placeholder
      /\ b.left = a.left /\ (a.mode = "EDITING" => ~b.draft) /\ (a.mode # "EDITING" => b.draft = a.draft)
  BY <1>1, DraftsRestore DEF Restored, SameMode
<1>. HIDE DEF b
<1>3. Disabled(b, DisableInlineEdit(b))
  BY <1>2, InlineEditDisables
<1>. QED
  BY <1>0, <1>1, <1>2, <1>3 DEF Hidden, Disabled, SameMode

-----------------------------------------------------------------------------
(* What each way out of a mode keeps.                                      *)

LEMMA ExitKeeps ==
  ASSUME NEW u \in Ui, u.mode = "CONFIGURING"
  PROVE Keeps(u, ExitConfigure(u)) /\ Keeps(u, [ExitConfigure(u) EXCEPT !.hovered = FALSE])
<1>. DEFINE v == HideBar(u)
<1>1. Hidden(u, v)
  BY BarHides
<1>2. ExitConfigure(u) = [v EXCEPT !.mode = "PICKING"]
  BY DEF ExitConfigure, TeardownConfigureChrome
<1>. HIDE DEF v
<1>3. [v EXCEPT !.mode = "PICKING"] \in Ui /\ [v EXCEPT !.mode = "PICKING", !.hovered = FALSE] \in Ui
  BY <1>1 DEF Hidden, Ui, Modes
<1>. QED
  BY <1>1, <1>2, <1>3 DEF Hidden, SameMode, Closed, Keeps, TextsKept, Owned, Ui, Modes

LEMMA CancelInsertKeeps ==
  ASSUME NEW u \in Ui, u.mode = "CONFIGURING" PROVE Keeps(u, CancelInsertConfigure(u))
<1>. DEFINE v == HideBar(u)
            w == ClearInsertPicking(v)
            m == IF u.insert THEN "PICKING" ELSE "IDLE"
            x == [w EXCEPT !.kind = "replace", !.selected = "none", !.mode = m]
<1>1. Hidden(u, v)
  BY BarHides
<1>2. CancelInsertConfigure(u) = x
  BY Zenon DEF CancelInsertConfigure
<1>. HIDE DEF v
<1>3. Cleared(v, w)
  BY <1>1, InsertClears DEF Hidden
<1>4. m \in {"PICKING", "IDLE"}
  OBVIOUS
<1>. HIDE DEF w, m
<1>5. x \in Ui
  BY <1>3, <1>4 DEF Cleared, Ui, Modes
<1>. QED
  BY <1>1, <1>2, <1>3, <1>4, <1>5
     DEF Hidden, Cleared, SameMode, Closed, Keeps, TextsKept, Owned, Ui, Modes

LEMMA CancelEditingKeeps ==
  ASSUME NEW u \in Ui, u.mode = "EDITING"
  PROVE Keeps(u, CancelEditing(u)) /\ Keeps(u, CancelEditingToPicking(u))
<1>. DEFINE r == RestoreDrafts(u)
            d == DisableInlineEdit(r)
            h == HideBar(d)
<1>1. CancelEditing(u) = [d EXCEPT !.mode = "CONFIGURING"]
  BY DEF CancelEditing
<1>2. CancelEditingToPicking(u) = [h EXCEPT !.mode = "PICKING", !.hovered = FALSE]
  BY DEF CancelEditingToPicking
<1>3. Restored(u, r)
  BY DraftsRestore
<1>. HIDE DEF r
<1>4. Disabled(r, d)
  BY <1>3, InlineEditDisables DEF Restored
<1>. HIDE DEF d
<1>5. Hidden(d, h)
  BY <1>4, BarHides DEF Disabled
<1>. HIDE DEF h
<1>6. Keeps(u, [d EXCEPT !.mode = "CONFIGURING"])
  <2>1. [d EXCEPT !.mode = "CONFIGURING"] \in Ui
    BY <1>4 DEF Disabled, Ui, Modes
  <2>. QED
    BY <2>1, <1>3, <1>4 DEF Restored, Disabled, SameMode, Closed, Keeps, TextsKept, Owned, Ui, Modes
<1>7. Keeps(u, [h EXCEPT !.mode = "PICKING", !.hovered = FALSE])
  <2>1. [h EXCEPT !.mode = "PICKING", !.hovered = FALSE] \in Ui
    BY <1>5 DEF Hidden, Ui, Modes
  <2>. QED
    BY <2>1, <1>3, <1>4, <1>5
       DEF Hidden, Restored, Disabled, SameMode, Closed, Keeps, TextsKept, Owned, Ui, Modes
<1>. QED
  BY <1>1, <1>2, <1>6, <1>7

\* A session that ends, discarded or accepted.
LEMMA PickingAgainTyped ==
  ASSUME NEW h \in Ui
  PROVE [h EXCEPT !.selected = "none", !.hovered = FALSE, !.session = "none", !.arrived = FALSE,
                  !.mode = "PICKING"] \in Ui
BY DEF Ui, Modes

LEMMA CleanupKeeps == ASSUME NEW u \in Ui PROVE Keeps(u, Cleanup(u))
<1>. DEFINE h == HideBar(u)
            f == FinalizeInsert(h)
            x == [f EXCEPT !.selected = "none", !.hovered = FALSE, !.session = "none", !.arrived = FALSE,
                           !.mode = "PICKING"]
<1>1. Cleanup(u) = x
  BY DEF Cleanup
<1>2. Hidden(u, h)
  BY BarHides
<1>. HIDE DEF h
<1>3. Cleared(h, f)
  BY <1>2, InsertClears DEF Hidden
<1>. HIDE DEF f
<1>4. x \in Ui
  <2>1. f \in Ui
    BY <1>3 DEF Cleared
  <2>. QED
    BY <2>1, PickingAgainTyped
<1>. QED
  BY <1>1, <1>2, <1>3, <1>4 DEF Hidden, Cleared, SameMode, Closed, Keeps, TextsKept, Owned, Ui, Modes

LEMMA CleanupAcceptedKeeps ==
  ASSUME NEW u \in Ui, u.mode = "SAVING" PROVE Keeps(u, CleanupAccepted(u))
<1>. DEFINE h == HideBar(u)
            x == [h EXCEPT !.selected = "none", !.hovered = FALSE, !.session = "none", !.arrived = FALSE,
                           !.mode = "PICKING"]
<1>1. CleanupAccepted(u) = x
  BY DEF CleanupAccepted
<1>2. Hidden(u, h)
  BY BarHides
<1>. HIDE DEF h
<1>3. x \in Ui
  BY <1>2, PickingAgainTyped DEF Hidden
<1>. QED
  BY <1>1, <1>2, <1>3 DEF Hidden, SameMode, Closed, Keeps, TextsKept, Owned, Ui, Modes

LEMMA TogglePickKeeps == ASSUME NEW u \in Ui PROVE Keeps(u, TogglePick(u))
<1>. DEFINE p == ~u.pick
            v == [u EXCEPT !.pick = p]
            n == [v EXCEPT !.insert = FALSE]
            w == ClearInsertPicking(n)
            h == HideBar(v)
            x == [w EXCEPT !.mode = IF w.mode = "IDLE" THEN "PICKING" ELSE w.mode]
            y == [h EXCEPT !.selected = "none", !.hovered = FALSE, !.kind = "replace",
                           !.mode = IF h.mode \in {"PICKING", "CONFIGURING"} THEN "IDLE" ELSE h.mode]
<1>0. p \in BOOLEAN
  BY Zenon
<1>1. /\ v.pick => TogglePick(u) = x
      /\ ~v.pick /\ v.kind = "insert" /\ v.mode = "CONFIGURING" => TogglePick(u) = CancelInsertConfigure(v)
      /\ ~v.pick /\ ~(v.kind = "insert" /\ v.mode = "CONFIGURING") => TogglePick(u) = y
  BY Zenon DEF TogglePick, TeardownConfigureChrome
<1>. HIDE DEF p
<1>2. SameTexts(u, v) /\ SameTexts(u, n)
  BY <1>0 DEF Ui, SameTexts
<1>. HIDE DEF v, n
<1>3. Keeps(u, x)
  <2>1. Cleared(n, w)
    BY <1>2, InsertClears DEF SameTexts
  <2>. HIDE DEF w
  <2>2. w \in Ui
    BY <2>1 DEF Cleared
  <2>3. x \in Ui
    BY <2>2 DEF Ui, Modes
  <2>. QED
    BY <1>2, <2>1, <2>2, <2>3 DEF SameTexts, Cleared, SameMode, Keeps, TextsKept, Owned, Ui, Modes
<1>4. v.mode = "CONFIGURING" => Keeps(u, CancelInsertConfigure(v))
  <2>1. v.mode = "CONFIGURING" => Keeps(v, CancelInsertConfigure(v))
    BY <1>2, CancelInsertKeeps DEF SameTexts
  <2>. QED
    BY <1>2, <2>1 DEF SameTexts, Keeps, TextsKept, Owned
<1>5. ~(v.kind = "insert" /\ v.mode = "CONFIGURING") => Keeps(u, y)
  <2>1. Hidden(v, h)
    BY <1>2, BarHides DEF SameTexts
  <2>. HIDE DEF h
  <2>2. h \in Ui
    BY <2>1 DEF Hidden
  <2>3. y \in Ui
    <3>. DEFINE m == IF h.mode \in {"PICKING", "CONFIGURING"} THEN "IDLE" ELSE h.mode
    <3>1. m \in Modes
      BY <2>2 DEF Ui, Modes
    <3>. HIDE DEF m
    <3>2. [h EXCEPT !.selected = "none", !.hovered = FALSE, !.kind = "replace", !.mode = m] \in Ui
      BY <2>2, <3>1 DEF Ui
    <3>. QED
      BY <3>2 DEF m
  <2>. QED
    BY <1>2, <2>1, <2>2, <2>3 DEF SameTexts, Hidden, SameMode, Closed, Keeps, TextsKept, Owned, Ui, Modes
<1>. QED
  BY <1>1, <1>3, <1>4, <1>5, Zenon

LEMMA ToggleInsertKeeps == ASSUME NEW u \in Ui PROVE Keeps(u, ToggleInsert(u))
<1>1. CASE u.insert
  <2>. DEFINE n == [u EXCEPT !.insert = FALSE]
              w == ClearInsertPicking(n)
              x == [w EXCEPT !.mode = IF w.mode = "PICKING" /\ ~w.pick THEN "IDLE" ELSE w.mode]
  <2>1. ToggleInsert(u) = x
    BY <1>1, Zenon DEF ToggleInsert
  <2>2. SameTexts(u, n)
    BY DEF Ui, SameTexts
  <2>. HIDE DEF n
  <2>3. Cleared(n, w)
    BY <2>2, InsertClears DEF SameTexts
  <2>. HIDE DEF w
  <2>4. w \in Ui
    BY <2>3 DEF Cleared
  <2>5. x \in Ui
    BY <2>4 DEF Ui, Modes
  <2>. QED
    BY <2>1, <2>2, <2>3, <2>4, <2>5 DEF SameTexts, Cleared, SameMode, Keeps, TextsKept, Owned, Ui, Modes
<1>2. CASE ~u.insert
  <2>. DEFINE n == [u EXCEPT !.insert = TRUE, !.pick = FALSE]
              h == HideBar(n)
              v == [h EXCEPT !.selected = "none", !.kind = "replace"]
              x == [v EXCEPT !.mode = "PICKING"]
  <2>1. /\ v.mode = "CONFIGURING" => ToggleInsert(u) = CancelInsertConfigure(v)
        /\ v.mode \in {"IDLE", "PICKING"} => ToggleInsert(u) = x
        /\ v.mode \notin {"IDLE", "PICKING", "CONFIGURING"} => ToggleInsert(u) = v
    BY <1>2 DEF ToggleInsert
  <2>2. SameTexts(u, n)
    BY DEF Ui, SameTexts
  <2>. HIDE DEF n
  <2>3. Hidden(n, h)
    BY <2>2, BarHides DEF SameTexts
  <2>. HIDE DEF h
  <2>4. h \in Ui
    BY <2>3 DEF Hidden
  <2>5. v \in Ui /\ x \in Ui
    BY <2>4 DEF Ui, Modes
  <2>6. /\ v.mode = h.mode /\ v.session = h.session /\ v.kind = h.kind /\ v.placeholder = h.placeholder
        /\ v.rows = h.rows /\ v.draft = h.draft /\ v.left = h.left /\ v.save = h.save
    BY <2>3, <2>4 DEF Hidden, Ui
  <2>7. x.mode = "PICKING" /\ x.session = v.session /\ x.placeholder = v.placeholder
        /\ x.rows = v.rows /\ x.draft = v.draft /\ x.left = v.left /\ x.save = v.save
    BY <2>5 DEF Ui
  <2>. HIDE DEF v, x
  <2>8. CASE v.mode = "CONFIGURING"
    <3>1. Keeps(v, CancelInsertConfigure(v))
      BY <2>5, <2>8, CancelInsertKeeps
    <3>2. TextsKept(u) => TextsKept(v)
      BY <2>2, <2>3, <2>6 DEF SameTexts, Hidden, SameMode, Closed, TextsKept
    <3>3. TextsKept(u) /\ Owned(u) => Owned(v)
      BY <2>2, <2>3, <2>6 DEF SameTexts, Hidden, SameMode, TextsKept, Owned
    <3>. QED
      BY <2>1, <2>8, <3>1, <3>2, <3>3 DEF Keeps
  <2>9. CASE v.mode \in {"IDLE", "PICKING"}
    BY <2>1, <2>2, <2>3, <2>5, <2>6, <2>7, <2>9
       DEF SameTexts, Hidden, SameMode, Closed, Keeps, TextsKept, Owned
  <2>10. CASE v.mode \notin {"IDLE", "PICKING", "CONFIGURING"}
    BY <2>1, <2>2, <2>3, <2>5, <2>6, <2>10
       DEF SameTexts, Hidden, SameMode, Closed, Keeps, TextsKept, Owned
  <2>. QED
    BY <2>8, <2>9, <2>10
<1>. QED
  BY <1>1, <1>2

\* A session begins: what was typed is gone, and an insert keeps its placeholder.
LEMMA GenerateKeeps ==
  ASSUME NEW u \in Ui, u.mode = "CONFIGURING", NEW kind \in {"replace", "insert"},
         kind = "replace" => u.kind = "replace"
  PROVE Keeps(u, Generate(u, kind))
<1>. DEFINE d == DisableInlineEdit(u)
            x == [d EXCEPT !.session = kind, !.arrived = FALSE, !.mode = "GENERATING"]
<1>1. Generate(u, kind) = x
  BY DEF Generate
<1>2. Disabled(u, d)
  BY InlineEditDisables
<1>. HIDE DEF d
<1>3. d \in Ui
  BY <1>2 DEF Disabled
<1>4. [d EXCEPT !.session = kind] \in Ui
  BY <1>3 DEF Ui
<1>5. x = [[d EXCEPT !.session = kind] EXCEPT !.arrived = FALSE, !.mode = "GENERATING"]
  OBVIOUS
<1>6. x \in Ui
  <2>. DEFINE e == [d EXCEPT !.session = kind]
  <2>. HIDE DEF e
  <2>1. ASSUME e \in Ui PROVE [e EXCEPT !.arrived = FALSE, !.mode = "GENERATING"] \in Ui
    BY <2>1 DEF Ui, Modes
  <2>. QED
    BY <1>4, <1>5, <2>1 DEF e
<1>7. /\ x.mode = "GENERATING" /\ x.session = kind /\ x.kind = d.kind /\ x.placeholder = d.placeholder
      /\ x.rows = d.rows /\ x.draft = d.draft /\ x.left = d.left /\ x.save = d.save
  BY <1>3 DEF Ui
<1>8. d.mode = u.mode /\ d.session = u.session /\ d.kind = u.kind /\ d.placeholder = u.placeholder
  BY <1>2 DEF Disabled, SameMode
<1>9. Closed(d) /\ (~u.left /\ ~u.draft => ~d.left)
  BY <1>2 DEF Disabled
<1>. HIDE DEF x
<1>. QED
  BY <1>1, <1>6, <1>7, <1>8, <1>9 DEF Closed, Keeps, TextsKept, Owned

LEMMA EnsureKeeps ==
  ASSUME NEW u \in Ui, NEW v \in EnsureInsertPlaceholder(u) PROVE Keeps(u, v)
<1>. DEFINE x == [u EXCEPT !.placeholder = TRUE, !.selected = "placeholder"]
<1>1. v = u \/ (u.mode = "GENERATING" /\ u.session = "insert" /\ v = x)
  BY Zenon DEF EnsureInsertPlaceholder
<1>2. x \in Ui
  BY DEF Ui
<1>3. /\ x.mode = u.mode /\ x.session = u.session
      /\ x.rows = u.rows /\ x.draft = u.draft /\ x.left = u.left /\ x.save = u.save
  BY DEF Ui
<1>. HIDE DEF x
<1>. QED
  BY <1>1, <1>2, <1>3 DEF Keeps, TextsKept, Owned

LEMMA ObservedKeeps ==
  ASSUME NEW u \in Ui, u.session # "none", NEW w \in {"empty", "variants"}, NEW v \in VariantsObserved(u, w)
  PROVE Keeps(u, v)
<1>1. CASE w = "empty"
  <2>1. v \in EnsureInsertPlaceholder(u)
    BY <1>1 DEF VariantsObserved
  <2>. QED
    BY <2>1, EnsureKeeps
<1>2. CASE w = "variants" /\ ~u.arrived
  <2>. DEFINE n == [u EXCEPT !.arrived = TRUE, !.mode = "CYCLING", !.selected = "element"]
              f == IF u.session = "insert" THEN FinalizeInsert(n) ELSE n
              d == DisableInlineEdit(f)
  <2>1. v = d
    <3>1. n.session = u.session
      BY DEF Ui
    <3>. QED
      BY <1>2, <3>1 DEF VariantsObserved
  <2>2. /\ n \in Ui /\ n.mode = "CYCLING" /\ n.session = u.session /\ n.kind = u.kind
        /\ n.placeholder = u.placeholder
        /\ n.rows = u.rows /\ n.draft = u.draft /\ n.left = u.left /\ n.save = u.save
    BY DEF Ui, Modes
  <2>. HIDE DEF n
  <2>3. /\ f \in Ui /\ f.mode = "CYCLING" /\ f.session = u.session
        /\ f.rows = u.rows /\ f.draft = u.draft /\ f.left = u.left /\ f.save = u.save
        /\ f.placeholder => u.placeholder /\ u.session # "insert"
    BY <2>2, InsertClears DEF Cleared, SameMode
  <2>. HIDE DEF f
  <2>4. Disabled(f, d)
    BY <2>3, InlineEditDisables
  <2>. HIDE DEF d
  <2>. QED
    BY <2>1, <2>3, <2>4 DEF Disabled, SameMode, Closed, Keeps, TextsKept, Owned, Ui
<1>3. CASE w = "variants" /\ u.arrived
  <2>1. v = u
    BY <1>3 DEF VariantsObserved
  <2>. QED
    BY <2>1 DEF Keeps
<1>. QED
  BY <1>1, <1>2, <1>3

LEMMA SameTextsKeep == ASSUME NEW u, NEW v, SameTexts(u, v) PROVE Keeps(u, v)
BY DEF SameTexts, Keeps, TextsKept, Owned

-----------------------------------------------------------------------------
(* The actions.                                                            *)

ModesSound == ModesTypeOK /\ ModesInv

LEMMA ModesKeptBy ==
  ASSUME ModesSound, Keeps(ui, ui'), page' \in {"none", "empty", "variants"}, sse' \in BOOLEAN,
         strange' = strange
  PROVE ModesSound'
<1>1. ModesTypeOK'
  BY DEF ModesSound, ModesTypeOK, Keeps
<1>2. ModesInv'
  <2>1. strange = {} => strange \cap {"late_save", "error"} = {}
    OBVIOUS
  <2>. QED
    BY <2>1 DEF ModesSound, ModesInv, Keeps
<1>. QED
  BY <1>1, <1>2 DEF ModesSound

LEMMA BecomeKept == ASSUME ModesSound, NEW u, Keeps(ui, u), Become(u) PROVE ModesSound'
<1>1. Keeps(ui, ui') /\ page' = page /\ sse' = sse /\ strange' = strange
  BY DEF Become
<1>2. page \in {"none", "empty", "variants"} /\ sse \in BOOLEAN
  BY DEF ModesSound, ModesTypeOK
<1>. QED
  BY <1>1, <1>2, ModesKeptBy

LEMMA PickingKept ==
  ASSUME ModesSound, PointAt \/ Click \/ Key \/ RemoveSelection \/ Toggle PROVE ModesSound'
<1>0. ui \in Ui
  BY DEF ModesSound, ModesTypeOK
<1>1. CASE PointAt
  <2>1. ASSUME NEW on \in BOOLEAN PROVE Keeps(ui, [ui EXCEPT !.line = on])
    <3>1. SameTexts(ui, [ui EXCEPT !.line = on])
      BY <1>0 DEF SameTexts, Ui
    <3>. QED
      BY <3>1, SameTextsKeep
  <2>2. Keeps(ui, [ui EXCEPT !.hovered = TRUE])
    <3>1. SameTexts(ui, [ui EXCEPT !.hovered = TRUE])
      BY <1>0 DEF SameTexts, Ui
    <3>. QED
      BY <3>1, SameTextsKeep
  <2>3. (\E on \in BOOLEAN : Become([ui EXCEPT !.line = on])) \/ Become([ui EXCEPT !.hovered = TRUE])
    BY <1>1, Zenon DEF PointAt
  <2>. QED
    BY <2>1, <2>2, <2>3, BecomeKept
<1>2. ASSUME ui.mode = "PICKING"
      PROVE Keeps(ui, Configure(ui))
  <2>1. Configure(ui) \in Ui
    BY <1>0 DEF Configure, Ui, Modes
  <2>. QED
    BY <1>0, <1>2, <2>1 DEF Configure, Keeps, TextsKept, Owned, Ui
<1>3. CASE Click
  <2>1. CASE ui.mode = "EDITING" /\ ui.selected # "none" /\ Become(CancelEditingToPicking(ui))
    BY <1>0, <2>1, CancelEditingKeeps, BecomeKept
  <2>2. CASE /\ ui.mode = "CONFIGURING" /\ ui.selected # "none"
             /\ IF ui.kind = "insert" THEN Become(CancelInsertConfigure(ui))
                ELSE Become([ExitConfigure(ui) EXCEPT !.hovered = FALSE])
    <3>1. Become(CancelInsertConfigure(ui)) \/ Become([ExitConfigure(ui) EXCEPT !.hovered = FALSE])
      BY <2>2, Zenon
    <3>. QED
      BY <1>0, <2>2, <3>1, CancelInsertKeeps, ExitKeeps, BecomeKept
  <2>3. CASE /\ ui.mode = "PICKING" /\ ui.insert /\ ui.line
             /\ Become([ui EXCEPT !.placeholder = TRUE, !.anchor = TRUE, !.line = FALSE, !.kind = "insert",
                                  !.selected = "placeholder", !.mode = "CONFIGURING"])
    <3>. DEFINE a == [ui EXCEPT !.placeholder = TRUE, !.anchor = TRUE, !.line = FALSE]
                b == [ui EXCEPT !.placeholder = TRUE, !.anchor = TRUE, !.line = FALSE, !.kind = "insert",
                                !.selected = "placeholder", !.mode = "CONFIGURING"]
    <3>1. a \in Ui
      BY <1>0 DEF Ui
    <3>2. b = [a EXCEPT !.kind = "insert", !.selected = "placeholder", !.mode = "CONFIGURING"]
      OBVIOUS
    <3>3. /\ a.session = ui.session /\ a.rows = ui.rows /\ a.draft = ui.draft
          /\ a.left = ui.left /\ a.save = ui.save
      BY <1>0 DEF Ui
    <3>. HIDE DEF a
    <3>4. [a EXCEPT !.kind = "insert", !.selected = "placeholder", !.mode = "CONFIGURING"] \in Ui
      BY <3>1 DEF Ui, Modes
    <3>5. Keeps(ui, [a EXCEPT !.kind = "insert", !.selected = "placeholder", !.mode = "CONFIGURING"])
      BY <2>3, <3>1, <3>3, <3>4 DEF Keeps, TextsKept, Owned, Ui
    <3>6. Become(b)
      BY <2>3
    <3>. HIDE DEF b
    <3>. QED
      BY <3>2, <3>5, <3>6, BecomeKept
  <2>4. CASE ui.mode = "PICKING" /\ ~ui.insert /\ ui.pick /\ ui.hovered /\ Become(Configure(ui))
    <3>1. Keeps(ui, Configure(ui))
      BY <1>2, <2>4
    <3>. QED
      BY <2>4, <3>1, BecomeKept
  <2>. QED
    BY <1>3, <2>1, <2>2, <2>3, <2>4, Zenon DEF Click
<1>4. CASE Key
  <2>1. CASE ui.mode = "PICKING" /\ ui.hovered /\ Become(Configure(ui))
    <3>1. Keeps(ui, Configure(ui))
      BY <1>2, <2>1
    <3>. QED
      BY <2>1, <3>1, BecomeKept
  <2>2. CASE ui.mode = "CONFIGURING" /\ ui.selected # "none" /\ Become(DisableInlineEdit(Configure(ui)))
    <3>. DEFINE c == Configure(ui)
                d == DisableInlineEdit(c)
    <3>1. /\ c \in Ui /\ c.mode = "CONFIGURING" /\ c.session = ui.session /\ c.kind = ui.kind
          /\ c.placeholder = ui.placeholder
          /\ c.rows = ui.rows /\ c.draft = ui.draft /\ c.left = ui.left /\ c.save = ui.save
      BY <1>0 DEF Configure, Ui, Modes
    <3>. HIDE DEF c
    <3>2. Disabled(c, d)
      BY <3>1, InlineEditDisables
    <3>3. Become(d)
      BY <2>2 DEF c
    <3>. HIDE DEF d
    <3>4. Keeps(ui, d)
      BY <2>2, <3>1, <3>2 DEF Disabled, SameMode, Closed, Keeps, TextsKept, Owned
    <3>. QED
      BY <3>3, <3>4, BecomeKept
  <2>. QED
    BY <1>4, <2>1, <2>2, Zenon DEF Key
<1>5. CASE RemoveSelection
  <2>. DEFINE n == [ui EXCEPT !.selected = "none"]
  <2>1. ui.mode = "CONFIGURING"
    BY <1>5 DEF RemoveSelection
  <2>2. Become(CancelInsertConfigure(ui)) \/ Become([ExitConfigure(n) EXCEPT !.hovered = FALSE])
    BY <1>5, Zenon DEF RemoveSelection
  <2>3. SameTexts(ui, n)
    BY <1>0 DEF SameTexts, Ui
  <2>. HIDE DEF n
  <2>4. Keeps(n, [ExitConfigure(n) EXCEPT !.hovered = FALSE])
    BY <2>1, <2>3, ExitKeeps DEF SameTexts
  <2>5. Keeps(ui, [ExitConfigure(n) EXCEPT !.hovered = FALSE])
    BY <2>3, <2>4, SameTextsKeep, Zenon DEF Keeps
  <2>. QED
    BY <1>0, <2>1, <2>2, <2>5, CancelInsertKeeps, BecomeKept
<1>6. CASE Toggle
  BY <1>0, <1>6, TogglePickKeeps, ToggleInsertKeeps, BecomeKept DEF Toggle
<1>. QED
  BY <1>1, <1>3, <1>4, <1>5, <1>6

LEMMA EditingKept == ASSUME ModesSound, EditText \/ SaveText \/ TextRefused PROVE ModesSound'
<1>0. ui \in Ui
  BY DEF ModesSound, ModesTypeOK
<1>. DEFINE older == IF ui.save = "current" THEN "older" ELSE ui.save
<1>1. older \in {"none", "older"}
  BY <1>0 DEF Ui
<1>2. CASE EditText
  <2>1. CASE ui.mode = "CONFIGURING" /\ ui.selected = "element" /\ ui.kind = "replace" /\ Become(EnterEditing(ui))
    <3>. DEFINE e == [ui EXCEPT !.mode = "EDITING"]
                h == HideBar(e)
                open == ui.selected # "none"
                x == [h EXCEPT !.rows = open]
    <3>1. EnterEditing(ui) = x
      BY Zenon DEF EnterEditing
    <3>2. /\ e \in Ui /\ e.mode = "EDITING" /\ e.session = ui.session /\ e.kind = ui.kind
          /\ e.placeholder = ui.placeholder
          /\ e.rows = ui.rows /\ e.draft = ui.draft /\ e.left = ui.left /\ e.save = ui.save
      BY <1>0 DEF Ui, Modes
    <3>. HIDE DEF e
    <3>3. Hidden(e, h)
      BY <3>2, BarHides
    <3>4. open \in BOOLEAN
      BY Zenon
    <3>. HIDE DEF h, open
    <3>5. h \in Ui
      BY <3>3 DEF Hidden
    <3>6. x \in Ui
      BY <3>4, <3>5 DEF Ui
    <3>7. /\ x.mode = h.mode /\ x.session = h.session /\ x.kind = h.kind /\ x.placeholder = h.placeholder
          /\ x.draft = h.draft /\ x.left = h.left /\ x.save = h.save
      BY <3>5 DEF Ui
    <3>. HIDE DEF x
    <3>8. Keeps(ui, x)
      BY <2>1, <3>2, <3>3, <3>6, <3>7 DEF Hidden, SameMode, Closed, Keeps, TextsKept, Owned
    <3>. QED
      BY <2>1, <3>1, <3>8, BecomeKept
  <2>2. CASE ui.rows /\ Become([ui EXCEPT !.draft = TRUE, !.save = older])
    <3>. HIDE DEF older
    <3>1. [ui EXCEPT !.draft = TRUE, !.save = older] \in Ui
      BY <1>0, <1>1 DEF Ui
    <3>2. Keeps(ui, [ui EXCEPT !.draft = TRUE, !.save = older])
      BY <1>0, <1>1, <2>2, <3>1 DEF Keeps, TextsKept, Owned, Ui
    <3>. QED
      BY <2>2, <3>2, BecomeKept
  <2>. QED
    BY <1>2, <2>1, <2>2, Zenon DEF EditText
<1>3. CASE SaveText
  <2>1. CASE ui.draft
    <3>1. Become([ui EXCEPT !.save = "current"])
      BY <1>3, <2>1, Zenon DEF SaveText
    <3>2. [ui EXCEPT !.save = "current"] \in Ui
      BY <1>0 DEF Ui
    <3>3. Keeps(ui, [ui EXCEPT !.save = "current"])
      BY <1>0, <2>1, <3>2 DEF Keeps, TextsKept, Owned, Ui
    <3>. QED
      BY <3>1, <3>3, BecomeKept
  <2>2. CASE ~ui.draft
    <3>1. ui.mode = "EDITING" /\ Become(CancelEditing(ui))
      BY <1>3, <2>2, Zenon DEF SaveText
    <3>. QED
      BY <1>0, <3>1, CancelEditingKeeps, BecomeKept
  <2>. QED
    BY <2>1, <2>2
<1>4. CASE TextRefused
  <2>1. [ui EXCEPT !.save = "none"] \in Ui
    BY <1>0 DEF Ui
  <2>2. Keeps(ui, [ui EXCEPT !.save = "none"])
    BY <1>0, <2>1 DEF Keeps, TextsKept, Owned, Ui
  <2>. QED
    BY <1>4, <2>2, BecomeKept DEF TextRefused
<1>. QED
  BY <1>2, <1>3, <1>4

LEMMA EscapeKept == ASSUME ModesSound, Escape PROVE ModesSound'
<1>0. ui \in Ui
  BY DEF ModesSound, ModesTypeOK
<1>. DEFINE older == IF ui.save = "current" THEN "older" ELSE ui.save
            x == [ui EXCEPT !.draft = FALSE, !.save = older]
<1>1. CASE Become(x)
  <2>1. older \in {"none", "older"}
    BY <1>0 DEF Ui
  <2>. HIDE DEF older
  <2>2. x \in Ui
    BY <1>0, <2>1 DEF Ui
  <2>3. Keeps(ui, x)
    BY <1>0, <2>1, <2>2 DEF Keeps, TextsKept, Owned, Ui
  <2>. QED
    BY <1>1, <2>3, BecomeKept
<1>2. CASE ui.mode = "EDITING" /\ Become(CancelEditing(ui))
  BY <1>0, <1>2, CancelEditingKeeps, BecomeKept
<1>3. CASE ui.mode = "CONFIGURING" /\ (Become(CancelInsertConfigure(ui)) \/ Become(ExitConfigure(ui)))
  BY <1>0, <1>3, CancelInsertKeeps, ExitKeeps, BecomeKept
<1>4. CASE Become(ToggleInsert(ui)) \/ Become(TogglePick(ui))
  BY <1>0, <1>4, TogglePickKeeps, ToggleInsertKeeps, BecomeKept
<1>5. CASE ui.mode = "PICKING" /\ Become([ui EXCEPT !.mode = "IDLE"])
  <2>1. [ui EXCEPT !.mode = "IDLE"] \in Ui
    BY <1>0 DEF Ui, Modes
  <2>2. Keeps(ui, [ui EXCEPT !.mode = "IDLE"])
    BY <1>0, <1>5, <2>1 DEF Keeps, TextsKept, Owned, Ui
  <2>. QED
    BY <1>5, <2>2, BecomeKept
<1>6. \/ Become(x)
      \/ ui.mode = "EDITING" /\ Become(CancelEditing(ui))
      \/ ui.mode = "CONFIGURING" /\ (Become(CancelInsertConfigure(ui)) \/ Become(ExitConfigure(ui)))
      \/ ui.mode = "PICKING" /\ (\/ Become(ToggleInsert(ui)) \/ Become(TogglePick(ui))
                                 \/ Become([ui EXCEPT !.mode = "IDLE"]))
  BY DEF Escape
<1>. QED
  BY <1>1, <1>2, <1>3, <1>4, <1>5, <1>6, Zenon

LEMMA SavedKept == ASSUME ModesSound, TextSaved PROVE ModesSound'
<1>. DEFINE r == IF ui.save = "current" THEN RestoreDrafts(ui) ELSE ui
            d == DisableInlineEdit(r)
            x == [d EXCEPT !.save = "none", !.mode = "CONFIGURING"]
<1>0. ui \in Ui /\ page \in {"none", "empty", "variants"} /\ sse \in BOOLEAN /\ strange \subseteq Strange
  BY DEF ModesSound, ModesTypeOK
<1>1. ui' = x /\ page' = page /\ sse' = sse
  BY DEF TextSaved
<1>2. r \in Ui
  BY <1>0, DraftsRestore DEF Restored
<1>3. ui.save = "current" => Restored(ui, r)
  BY <1>0, DraftsRestore
<1>. HIDE DEF r
<1>4. Disabled(r, d)
  BY <1>2, InlineEditDisables
<1>. HIDE DEF d
<1>5. x \in Ui
  BY <1>4 DEF Disabled, Ui, Modes
<1>6. CASE ui.save = "current"
  <2>1. strange' = strange
    BY <1>6 DEF TextSaved
  <2>2. Keeps(ui, x)
    BY <1>3, <1>4, <1>5, <1>6 DEF Restored, Disabled, SameMode, Closed, Keeps, TextsKept, Owned, Ui
  <2>. HIDE DEF x
  <2>. QED
    BY <1>0, <1>1, <2>1, <2>2, ModesKeptBy
<1>7. CASE ui.save = "older"
  <2>1. strange' = strange \cup {"late_save"}
    BY <1>7 DEF TextSaved
  <2>2. strange' \subseteq Strange /\ strange' \cap {"late_save", "error"} # {} /\ strange' # {}
    BY <1>0, <2>1 DEF Strange
  <2>. QED
    BY <1>0, <1>1, <1>5, <2>2 DEF ModesSound, ModesTypeOK, ModesInv
<1>. QED
  BY <1>0, <1>6, <1>7 DEF TextSaved, Ui

LEMMA SessionKept ==
  ASSUME ModesSound, GoReplace \/ GoInsert \/ AcceptVariant \/ AcceptEnds \/ SessionEnds PROVE ModesSound'
<1>0. ui \in Ui /\ page \in {"none", "empty", "variants"} /\ sse \in BOOLEAN
  BY DEF ModesSound, ModesTypeOK
<1>1. CASE GoReplace
  <2>1. Keeps(ui, Generate(ui, "replace"))
    BY <1>0, <1>1, GenerateKeeps DEF GoReplace
  <2>. QED
    BY <1>0, <1>1, <2>1, ModesKeptBy DEF GoReplace
<1>2. CASE GoInsert
  <2>. DEFINE n == [ui EXCEPT !.selected = "placeholder"]
  <2>1. SameTexts(ui, n)
    BY <1>0 DEF SameTexts, Ui
  <2>2. ui.mode = "CONFIGURING" /\ ui' = Generate(n, "insert") /\ page' = "none" /\ sse' = sse /\ strange' = strange
    BY <1>2 DEF GoInsert
  <2>. HIDE DEF n
  <2>3. Keeps(n, Generate(n, "insert"))
    BY <2>1, <2>2, GenerateKeeps DEF SameTexts
  <2>4. Keeps(ui, Generate(n, "insert"))
    BY <2>1, <2>3, SameTextsKeep, Zenon DEF Keeps
  <2>. QED
    BY <1>0, <2>2, <2>4, ModesKeptBy
<1>3. CASE AcceptVariant
  <2>1. [ui EXCEPT !.mode = "SAVING"] \in Ui
    BY <1>0 DEF Ui, Modes
  <2>2. Keeps(ui, [ui EXCEPT !.mode = "SAVING"])
    BY <1>0, <1>3, <2>1 DEF AcceptVariant, Keeps, TextsKept, Owned, Ui
  <2>. QED
    BY <1>3, <2>2, BecomeKept DEF AcceptVariant
<1>4. CASE AcceptEnds
  <2>1. ui.mode = "SAVING" /\ sse' = sse /\ strange' = strange
    BY <1>4 DEF AcceptEnds
  <2>2. CASE ui' = CleanupAccepted(ui) /\ page' = "none"
    BY <1>0, <2>1, <2>2, CleanupAcceptedKeeps, ModesKeptBy
  <2>3. CASE ui' = [ui EXCEPT !.mode = "CYCLING"] /\ page' = page
    <3>1. [ui EXCEPT !.mode = "CYCLING"] \in Ui
      BY <1>0 DEF Ui, Modes
    <3>2. Keeps(ui, [ui EXCEPT !.mode = "CYCLING"])
      BY <1>0, <2>1, <3>1 DEF Keeps, TextsKept, Owned, Ui
    <3>. QED
      BY <1>0, <2>1, <2>3, <3>2, ModesKeptBy
  <2>. QED
    BY <1>4, <2>2, <2>3 DEF AcceptEnds
<1>5. CASE SessionEnds
  BY <1>0, <1>5, CleanupKeeps, ModesKeptBy DEF SessionEnds
<1>. QED
  BY <1>1, <1>2, <1>3, <1>4, <1>5

LEMMA ErrorKept == ASSUME ModesSound, ErrorElsewhere PROVE ModesSound'
<1>. DEFINE h == HideBar(ui)
<1>0. ui \in Ui /\ page \in {"none", "empty", "variants"} /\ sse \in BOOLEAN /\ strange \subseteq Strange
  BY DEF ModesSound, ModesTypeOK
<1>1. Hidden(ui, h)
  BY <1>0, BarHides
<1>2. ui' = [h EXCEPT !.mode = "PICKING"] /\ page' = page /\ sse' = sse /\ strange' = strange \cup {"error"}
  BY DEF ErrorElsewhere
<1>. HIDE DEF h
<1>3. [h EXCEPT !.mode = "PICKING"] \in Ui
  BY <1>1 DEF Hidden, Ui, Modes
<1>4. strange' \subseteq Strange /\ strange' \cap {"late_save", "error"} # {} /\ strange' # {}
  BY <1>0, <1>2 DEF Strange
<1>. QED
  BY <1>0, <1>2, <1>3, <1>4 DEF ModesSound, ModesTypeOK, ModesInv

LEMMA PageKept == ASSUME ModesSound, PageUpdated \/ Tick PROVE ModesSound'
<1>0. ui \in Ui /\ page \in {"none", "empty", "variants"} /\ sse \in BOOLEAN
  BY DEF ModesSound, ModesTypeOK
<1>1. CASE PageUpdated
  <2>1. PICK w \in {"empty", "variants"}, lost \in BOOLEAN :
          page' = w /\ ui' \in VariantsObserved([ui EXCEPT !.placeholder = @ /\ ~lost], w)
    BY <1>1, Zenon DEF PageUpdated
  <2>. DEFINE p == ui.placeholder /\ ~lost
              n == [ui EXCEPT !.placeholder = p]
  <2>2. p \in BOOLEAN /\ (p => ui.placeholder)
    BY Zenon
  <2>3. ui' \in VariantsObserved(n, w)
    BY <2>1
  <2>. HIDE DEF p
  <2>4. n \in Ui /\ n.session = ui.session
    BY <1>0, <2>2 DEF Ui
  <2>5. Keeps(ui, n)
    BY <1>0, <2>2, <2>4 DEF Keeps, TextsKept, Owned, Ui
  <2>. HIDE DEF n
  <2>6. ui.session # "none"
    BY <1>1 DEF PageUpdated
  <2>7. Keeps(n, ui')
    BY <2>3, <2>4, <2>6, ObservedKeeps
  <2>8. Keeps(ui, ui')
    BY <2>5, <2>7, Zenon DEF Keeps
  <2>. QED
    BY <1>0, <1>1, <2>1, <2>8, ModesKeptBy DEF PageUpdated
<1>2. CASE Tick
  <2>1. PICK u \in EnsureInsertPlaceholder(ui) : Become(u)
    BY <1>2, Zenon DEF Tick
  <2>2. Keeps(ui, u)
    BY <1>0, EnsureKeeps
  <2>. QED
    BY <2>1, <2>2, BecomeKept
<1>. QED
  BY <1>1, <1>2

\* The fallback leaves the placeholder of an insert; no text is lost by it.
LEMMA InjectedKept == ASSUME ModesSound, InjectedFromSource PROVE ModesSound'
<1>. DEFINE n == [ui EXCEPT !.arrived = TRUE, !.mode = "CYCLING", !.selected = "element"]
            d == DisableInlineEdit(n)
<1>0. ui \in Ui /\ sse \in BOOLEAN /\ strange \subseteq Strange
  BY DEF ModesSound, ModesTypeOK
<1>1. /\ ui.mode = "GENERATING" /\ ui' = d
      /\ page' = "variants" /\ sse' = sse /\ strange' = strange \cup {"fallback"}
  BY DEF InjectedFromSource
<1>2. /\ n \in Ui /\ n.mode = "CYCLING" /\ n.session = ui.session
      /\ n.rows = ui.rows /\ n.draft = ui.draft /\ n.left = ui.left /\ n.save = ui.save
  BY <1>0 DEF Ui, Modes
<1>. HIDE DEF n
<1>3. Disabled(n, d)
  BY <1>2, InlineEditDisables
<1>. HIDE DEF d
<1>4. TextsKept(ui) => TextsKept(ui')
  BY <1>1, <1>2, <1>3 DEF Disabled, SameMode, Closed, TextsKept
<1>5. /\ strange' \subseteq Strange /\ strange' # {}
      /\ strange' \cap {"late_save", "error"} = {} => strange \cap {"late_save", "error"} = {}
  BY <1>0, <1>1 DEF Strange
<1>6. d \in Ui
  BY <1>3 DEF Disabled
<1>. QED
  BY <1>0, <1>1, <1>4, <1>5, <1>6 DEF ModesSound, ModesTypeOK, ModesInv

LEMMA ServerLostKept == ASSUME ModesSound, ServerIsLost PROVE ModesSound'
<1>. DEFINE h == HideBar(ui)
            m == IF ui.session = "none" THEN "IDLE" ELSE h.mode
            x == [h EXCEPT !.selected = "none", !.mode = m]
<1>0. ui \in Ui /\ page \in {"none", "empty", "variants"}
  BY DEF ModesSound, ModesTypeOK
<1>1. ui' = x /\ page' = page /\ sse' = FALSE /\ strange' = strange
  BY DEF ServerIsLost
<1>2. Hidden(ui, h)
  BY <1>0, BarHides
<1>. HIDE DEF h
<1>3. h \in Ui
  BY <1>2 DEF Hidden
<1>4. m \in Modes
  BY <1>3 DEF Ui, Modes
<1>5. (ui.session = "none" => m = "IDLE") /\ (ui.session # "none" => m = h.mode)
  OBVIOUS
<1>. HIDE DEF m
<1>6. x \in Ui
  BY <1>3, <1>4 DEF Ui
<1>7. /\ x.mode = m /\ x.session = h.session /\ x.placeholder = h.placeholder
      /\ x.rows = h.rows /\ x.draft = h.draft /\ x.left = h.left /\ x.save = h.save
  BY <1>3, <1>4 DEF Ui
<1>. HIDE DEF x
<1>8. Keeps(ui, x)
  BY <1>2, <1>5, <1>6, <1>7 DEF Hidden, SameMode, Closed, Keeps, TextsKept, Owned
<1>. QED
  BY <1>0, <1>1, <1>8, ModesKeptBy

\* The page is made anew: it holds no text of before, and the placeholder only of a session's insert.
LEMMA LoadKept == ASSUME ModesSound, LoadAgain PROVE ModesSound'
<1>. DEFINE again == ui.session = "insert"
            first == IF ui.pick \/ ui.insert THEN "PICKING" ELSE "IDLE"
            s == Start(ui.pick, ui.insert)
            u == [s EXCEPT !.session = ui.session, !.anchor = again]
            g == [u EXCEPT !.mode = "GENERATING"]
            e == [u EXCEPT !.mode = "GENERATING", !.selected = "element"]
<1>0. ui \in Ui /\ page \in {"none", "empty", "variants"}
  BY DEF ModesSound, ModesTypeOK
<1>1. /\ sse' = TRUE /\ page' = page /\ strange' = strange
      /\ \/ ui.session = "none" /\ ui' = u
         \/ ui.session # "none" /\ ui' \in VariantsObserved(g, "variants")
         \/ ui.session # "none" /\ ui' \in EnsureInsertPlaceholder(e)
  BY Zenon DEF LoadAgain
<1>2. again \in BOOLEAN
  BY Zenon
<1>3. /\ s \in Ui /\ s.mode \in {"PICKING", "IDLE"} /\ s.session = "none" /\ ~s.placeholder
      /\ ~s.rows /\ ~s.draft /\ ~s.left /\ s.save = "none"
  BY <1>0 DEF Start, Ui, Modes
<1>. HIDE DEF again, s
<1>4. /\ u \in Ui /\ u.mode = s.mode /\ u.session = ui.session /\ ~u.placeholder
      /\ ~u.rows /\ ~u.draft /\ ~u.left /\ u.save = "none"
  BY <1>0, <1>2, <1>3 DEF Ui
<1>. HIDE DEF u
<1>5. CASE ui.session = "none" /\ ui' = u
  <2>1. Keeps(ui, u)
    BY <1>4, <1>5 DEF Keeps, TextsKept, Owned
  <2>. QED
    BY <1>0, <1>1, <1>5, <2>1, ModesKeptBy
<1>6. /\ g \in Ui /\ g.session = ui.session /\ TextsKept(g) /\ Owned(g)
      /\ e \in Ui /\ e.session = ui.session /\ TextsKept(e) /\ Owned(e)
  <2>1. g \in Ui /\ e \in Ui
    BY <1>4 DEF Ui, Modes
  <2>2. /\ g.mode = "GENERATING" /\ g.session = u.session /\ g.placeholder = u.placeholder
        /\ g.rows = u.rows /\ g.draft = u.draft /\ g.left = u.left /\ g.save = u.save
    BY <1>4 DEF Ui
  <2>3. /\ e.mode = "GENERATING" /\ e.session = u.session /\ e.placeholder = u.placeholder
        /\ e.rows = u.rows /\ e.draft = u.draft /\ e.left = u.left /\ e.save = u.save
    BY <1>4 DEF Ui
  <2>. HIDE DEF g, e
  <2>. QED
    BY <1>4, <2>1, <2>2, <2>3 DEF TextsKept, Owned
<1>. HIDE DEF g, e
<1>7. CASE ui.session # "none" /\ ui' \in VariantsObserved(g, "variants")
  <2>1. Keeps(g, ui')
    BY <1>6, <1>7, ObservedKeeps
  <2>2. Keeps(ui, ui')
    BY <1>6, <2>1, Zenon DEF Keeps
  <2>. QED
    BY <1>0, <1>1, <2>2, ModesKeptBy
<1>8. CASE ui.session # "none" /\ ui' \in EnsureInsertPlaceholder(e)
  <2>1. Keeps(e, ui')
    BY <1>6, <1>8, EnsureKeeps
  <2>2. Keeps(ui, ui')
    BY <1>6, <2>1, Zenon DEF Keeps
  <2>. QED
    BY <1>0, <1>1, <2>2, ModesKeptBy
<1>. QED
  BY <1>1, <1>5, <1>7, <1>8, Zenon

LEMMA ModesStart == ModesInit => ModesSound
<1>. SUFFICES ASSUME ModesInit PROVE ModesSound
  OBVIOUS
<1>1. ui \in Ui
  BY DEF ModesInit, Start, Ui, Modes
<1>2. page = "none" /\ sse = TRUE /\ strange = {} /\ TextsKept(ui) /\ Owned(ui)
  BY DEF ModesInit, Start, TextsKept, Owned
<1>. QED
  BY <1>1, <1>2 DEF ModesSound, ModesTypeOK, ModesInv

LEMMA ModesStep == ModesSound /\ [ModesNext]_uvars => ModesSound'
<1>. SUFFICES ASSUME ModesSound, [ModesNext]_uvars PROVE ModesSound'
  OBVIOUS
<1>1. CASE PointAt \/ Click \/ Key \/ RemoveSelection \/ Toggle
  BY <1>1, PickingKept
<1>2. CASE Escape
  BY <1>2, EscapeKept
<1>3. CASE EditText \/ SaveText \/ TextRefused
  BY <1>3, EditingKept
<1>4. CASE TextSaved
  BY <1>4, SavedKept
<1>5. CASE GoReplace \/ GoInsert \/ AcceptVariant \/ AcceptEnds \/ SessionEnds
  BY <1>5, SessionKept
<1>6. CASE ErrorElsewhere
  BY <1>6, ErrorKept
<1>7. CASE PageUpdated \/ Tick
  BY <1>7, PageKept
<1>8. CASE InjectedFromSource
  BY <1>8, InjectedKept
<1>9. CASE ServerIsLost
  BY <1>9, ServerLostKept
<1>10. CASE LoadAgain
  BY <1>10, LoadKept
<1>11. CASE UNCHANGED uvars
  BY <1>11 DEF uvars, ModesSound, ModesTypeOK, ModesInv
<1>. QED
  BY <1>1, <1>2, <1>3, <1>4, <1>5, <1>6, <1>7, <1>8, <1>9, <1>10, <1>11, Zenon DEF ModesNext

\* The inductive invariant of the modes: texts can be changed only while they are edited, and the
\* placeholder is of an insert (the variables of live-browser.js, and what its handlers do to them).
THEOREM ModesInvariance == ModesSpec => []ModesSound
BY ModesStart, ModesStep, PTL DEF ModesSpec

\* Types of the modes (the variables of live-browser.js).
THEOREM ModesTypeCorrect == ModesSpec => []ModesTypeOK
<1>1. ModesSound => ModesTypeOK
  BY DEF ModesSound
<1>. QED
  BY <1>1, ModesInvariance, PTL

\* A text that was neither saved nor taken back stays in the page only when a save was answered
\* late or an error sent the tab back to picking (hideBar, disableInlineEdit, applyEditing).
THEOREM NoDraftLeftHolds == ModesSpec => []NoDraftLeft
<1>1. ModesSound => NoDraftLeft
  BY DEF ModesSound, ModesInv, NoDraftLeft, TextsKept
<1>. QED
  BY <1>1, ModesInvariance, PTL

\* The placeholder is in the page only for an insert that is configured or whose session runs
\* (finalizeInsertSession, ensureInsertPlaceholder, cancelInsertConfigure).
THEOREM NoOrphanPlaceholderHolds == ModesSpec => []NoOrphanPlaceholder
<1>1. ModesSound => NoOrphanPlaceholder
  BY DEF ModesSound, ModesInv, NoOrphanPlaceholder, Owned
<1>. QED
  BY <1>1, ModesInvariance, PTL

-----------------------------------------------------------------------------
(* The review page's form: ReviewForm.                                      *)

Differ(s, n) == \A i, j \in 1 .. n : s[i] = s[j] => i = j
FirstOf(T, s, k) == T = {s[i] : i \in 1 .. k}
CountsFrom0(s, n) == \A i \in 1 .. n : s[i].number = i - 1

\* The first k of a sequence's different elements are k.
LEMMA FirstOnes ==
  ASSUME NEW n \in Nat, NEW s, Differ(s, n), NEW k \in 0 .. n, NEW T, FirstOf(T, s, k)
  PROVE  IsFiniteSet(T) /\ Cardinality(T) = k
<1> DEFINE f == [i \in 1 .. k |-> s[i]]
<1>1. \A i \in 1 .. k : i \in 1 .. n
  OBVIOUS
<1>2. f \in [1 .. k -> T] /\ (\A y \in T : \E i \in 1 .. k : f[i] = y) /\ \A i, j \in 1 .. k : f[i] = f[j] => i = j
  BY <1>1 DEF Differ, FirstOf
<1>3. IsFiniteSet(1 .. k) /\ Cardinality(1 .. k) = k
  <2>1. k \in Int /\ 1 \in Int /\ k >= 0
    OBVIOUS
  <2>2. IsFiniteSet(1 .. k) /\ Cardinality(1 .. k) = IF 1 > k THEN 0 ELSE k - 1 + 1
    BY <2>1, FS_Interval
  <2> QED BY <2>1, <2>2
<1> HIDE DEF f
<1>4. f \in Surjection(1 .. k, T) /\ f \in Injection(1 .. k, T)
  BY <1>2 DEF Surjection, Injection, IsInjective
<1>5. IsFiniteSet(T) /\ Cardinality(T) = Cardinality(1 .. k)
  BY <1>3, <1>4, FS_Surjection
<1> QED BY <1>3, <1>5

\* Sorting by numbers that count from 0 gives the order they were counted in.
LEMMA NumberedOrder ==
  ASSUME NEW n \in Nat, NEW s, CountsFrom0(s, n), NEW S, FirstOf(S, s, n)
  PROVE  ~Overwritten(S) /\ Cardinality(S) = n /\ \A i \in 1 .. n : ByNumber(S)[i] = s[i]
<1> USE DEF CountsFrom0
<1>7. S = {s[i] : i \in 1 .. n}
  BY DEF FirstOf
<1> DEFINE Below(x) == {y \in S : y.number < x.number}
<1>1. Differ(s, n)
  BY DEF Differ
<1>2. Cardinality(S) = n /\ IsFiniteSet(S)
  <2>1. n \in 0 .. n
    OBVIOUS
  <2> QED BY <1>1, <2>1, FirstOnes
<1>3. Cardinality({x.number : x \in S}) = n
  <2> DEFINE t == [i \in 1 .. n |-> i - 1]
  <2>1. {x.number : x \in S} = {t[i] : i \in 1 .. n}
    <3>1. \A i \in 1 .. n : s[i].number = t[i]
      OBVIOUS
    <3> HIDE DEF t
    <3> QED BY <1>7, <3>1
  <2>2. Differ(t, n)
    BY DEF Differ
  <2> DEFINE T == {x.number : x \in S}
  <2> HIDE DEF t, T
  <2>3. n \in 0 .. n
    OBVIOUS
  <2>4. FirstOf(T, t, n)
    BY <2>1, Zenon DEF T, FirstOf
  <2>5. Cardinality(T) = n
    BY <2>2, <2>3, <2>4, FirstOnes
  <2> QED BY <2>5 DEF T
<1>4. ASSUME NEW i \in 1 .. n PROVE Cardinality(Below(s[i])) = i - 1
  <2>1. Below(s[i]) = {s[j] : j \in 1 .. i - 1}
    <3>1. \A j \in 1 .. n : s[j].number < s[i].number <=> j \in 1 .. i - 1
      OBVIOUS
    <3>2. \A j \in 1 .. i - 1 : j \in 1 .. n
      OBVIOUS
    <3> QED BY <1>7, <3>1, <3>2
  <2>2. i - 1 \in 0 .. n
    OBVIOUS
  <2> DEFINE k == i - 1
             T == Below(s[i])
  <2> HIDE DEF k, T
  <2>3. k \in 0 .. n /\ FirstOf(T, s, k)
    BY <2>1, <2>2 DEF k, T, FirstOf
  <2>4. Cardinality(T) = k
    BY <1>1, <2>3, FirstOnes
  <2> QED BY <2>4 DEF k, T
<1>5. ASSUME NEW i \in 1 .. n PROVE ByNumber(S)[i] = s[i]
  <2> DEFINE x == CHOOSE y \in S : Cardinality(Below(y)) = i - 1
  <2>1. ByNumber(S)[i] = x
    BY <1>2 DEF ByNumber
  <2>2. s[i] \in S
    BY <1>7
  <2>3. x \in S /\ Cardinality(Below(x)) = i - 1
    BY <1>4, <2>2
  <2> HIDE DEF x, Below
  <2>4. PICK k \in 1 .. n : x = s[k]
    BY <1>7, <2>3
  <2>5. k - 1 = i - 1
    BY <1>4, <2>3, <2>4
  <2>6. k = i
    BY <2>5
  <2> QED BY <2>1, <2>4, <2>6
<1>6. ~Overwritten(S)
  BY <1>2, <1>3 DEF Overwritten
<1> QED BY <1>2, <1>5, <1>6

\* The parts of the form, without the bounds.
AnyDeduction == [id : Int, scope : Int, number : Int]
AnyBox == [scope : Int, add : Int, deductions : Seq(AnyDeduction)]
AnyLine == [id : Int, number : Int, box : AnyBox]

InOrder(D) == CountsFrom0(D, Len(D))
OfScope(D, scope) == \A j \in 1 .. Len(D) : D[j].scope = scope
BoxSound(b, scope) ==
  b \in AnyBox /\ b.scope = scope /\ b.add = scope /\ InOrder(b.deductions) /\ OfScope(b.deductions, scope)

\* Lines and deductions are numbered as they stand, and each deduction has the scope of its box.
LinesSound(L) ==
  L \in Seq(AnyLine) /\ InOrder(L) /\ \A i \in 1 .. Len(L) : BoxSound(L[i].box, i - 1)
FormInv == parts \in Nat /\ BoxSound(header, Header) /\ LinesSound(lines)

LEMMA RemovedAre ==
  ASSUME NEW S, NEW s \in Seq(S), NEW k \in DOMAIN s
  PROVE  RemoveAt(s, k) \in Seq(S) /\ \A i \in 1 .. Len(RemoveAt(s, k)) : \E j \in 1 .. Len(s) : RemoveAt(s, k)[i] = s[j]
<1>1. k \in 1 .. Len(s)
  OBVIOUS
<1>2. /\ RemoveAt(s, k) \in Seq(S) /\ Len(RemoveAt(s, k)) = Len(s) - 1
      /\ \A i \in 1 .. Len(s) - 1 : RemoveAt(s, k)[i] = IF i < k THEN s[i] ELSE s[i + 1]
  BY <1>1, RemovedAt
<1> DEFINE r == RemoveAt(s, k)
<1> HIDE DEF r
<1>3. ASSUME NEW i \in 1 .. Len(s) - 1 PROVE \E j \in 1 .. Len(s) : r[i] = s[j]
  <2>1. r[i] = IF i < k THEN s[i] ELSE s[i + 1]
    BY <1>2 DEF r
  <2>2. i \in 1 .. Len(s) /\ i + 1 \in 1 .. Len(s)
    OBVIOUS
  <2> QED BY <2>1, <2>2
<1> QED BY <1>2, <1>3 DEF r

\* renumberDeductions
LEMMA RenumberedDeductions ==
  ASSUME NEW D \in Seq(AnyDeduction)
  PROVE  /\ RenumberDeductions(D) \in Seq(AnyDeduction) /\ InOrder(RenumberDeductions(D))
         /\ \A scope : OfScope(D, scope) => OfScope(RenumberDeductions(D), scope)
<1> DEFINE R == [j \in 1 .. Len(D) |-> [D[j] EXCEPT !.number = j - 1]]
<1>1. \A j \in 1 .. Len(D) : D[j] \in AnyDeduction
  OBVIOUS
<1> DEFINE e(j) == [D[j] EXCEPT !.number = j - 1]
<1>2. ASSUME NEW j \in 1 .. Len(D) PROVE e(j) \in AnyDeduction /\ e(j).number = j - 1 /\ e(j).scope = D[j].scope
  <2>1. D[j] \in AnyDeduction /\ j - 1 \in Int
    BY <1>1
  <2> QED BY <2>1 DEF AnyDeduction
<1>5. R = [j \in 1 .. Len(D) |-> e(j)]
  OBVIOUS
<1> HIDE DEF e, R
<1>3. R \in Seq(AnyDeduction) /\ Len(R) = Len(D)
      /\ \A j \in 1 .. Len(D) : R[j].number = j - 1 /\ R[j].scope = D[j].scope
  BY <1>2, <1>5
<1>4. RenumberDeductions(D) = R
  BY DEF RenumberDeductions, R
<1> QED BY <1>3, <1>4 DEF InOrder, CountsFrom0, OfScope

\* renumberLines: whatever numbers and scopes the lines had.
LEMMA RenumberedLines ==
  ASSUME NEW L \in Seq(AnyLine), \A i \in 1 .. Len(L) : InOrder(L[i].box.deductions)
  PROVE  LinesSound(RenumberLines(L))
<1> DEFINE ds(i) == [j \in 1 .. Len(L[i].box.deductions) |-> [L[i].box.deductions[j] EXCEPT !.scope = i - 1]]
           bx(i) == [scope |-> i - 1, add |-> i - 1, deductions |-> ds(i)]
           ln(i) == [L[i] EXCEPT !.number = i - 1, !.box = bx(i)]
           R == [i \in 1 .. Len(L) |-> ln(i)]
<1>1. RenumberLines(L) = R
  BY DEF RenumberLines
<1>2. ASSUME NEW i \in 1 .. Len(L) PROVE ln(i) \in AnyLine /\ ln(i).number = i - 1 /\ BoxSound(ln(i).box, i - 1)
  <2> DEFINE D == L[i].box.deductions
  <2>8. L[i] \in AnyLine /\ i - 1 \in Int
    OBVIOUS
  <2>1. D \in Seq(AnyDeduction) /\ InOrder(D)
    BY <2>8 DEF AnyLine, AnyBox
  <2>2. \A j \in 1 .. Len(D) : D[j] \in AnyDeduction
    BY <2>1
  <2> HIDE DEF D
  <2> DEFINE E == [j \in 1 .. Len(D) |-> [D[j] EXCEPT !.scope = i - 1]]
  <2> DEFINE e(j) == [D[j] EXCEPT !.scope = i - 1]
  <2>3. ASSUME NEW j \in 1 .. Len(D) PROVE e(j) \in AnyDeduction /\ e(j).scope = i - 1 /\ e(j).number = D[j].number
    <3>1. D[j] \in AnyDeduction
      BY <2>2
    <3> QED BY <3>1, <2>8 DEF AnyDeduction
  <2>9. E = [j \in 1 .. Len(D) |-> e(j)]
    OBVIOUS
  <2>5. ds(i) = E
    BY DEF D
  <2> HIDE DEF e, E
  <2>4. E \in Seq(AnyDeduction) /\ Len(E) = Len(D)
        /\ \A j \in 1 .. Len(D) : E[j].scope = i - 1 /\ E[j].number = D[j].number
    BY <2>1, <2>3, <2>9
  <2>6. InOrder(E) /\ OfScope(E, i - 1)
    BY <2>1, <2>4 DEF InOrder, CountsFrom0, OfScope
  <2>7. bx(i) \in AnyBox /\ BoxSound(bx(i), i - 1)
    BY <2>8, <2>4, <2>5, <2>6 DEF AnyBox, BoxSound
  <2> HIDE DEF ds, bx
  <2> QED BY <2>8, <2>7 DEF AnyLine
<1> HIDE DEF ln
<1>3. R \in Seq(AnyLine) /\ Len(R) = Len(L) /\ \A i \in 1 .. Len(L) : R[i] = ln(i)
  BY <1>2
<1> HIDE DEF R
<1> QED BY <1>1, <1>2, <1>3 DEF LinesSound, InOrder, CountsFrom0

LEMMA RenderedSound ==
  ASSUME NEW scope \in Int, NEW ids \in Seq(Int)
  PROVE  BoxSound(Rendered(scope, ids), scope)
<1> DEFINE e(i) == [id |-> ids[i], scope |-> scope, number |-> i - 1]
           D == [i \in 1 .. Len(ids) |-> e(i)]
<1>1. ASSUME NEW i \in 1 .. Len(ids) PROVE e(i) \in AnyDeduction /\ e(i).number = i - 1 /\ e(i).scope = scope
  BY DEF AnyDeduction
<1>2. Rendered(scope, ids) = [scope |-> scope, add |-> scope, deductions |-> D]
  BY DEF Rendered
<1> HIDE DEF e
<1>3. D \in Seq(AnyDeduction) /\ Len(D) = Len(ids) /\ \A i \in 1 .. Len(ids) : D[i] = e(i)
  BY <1>1
<1> HIDE DEF D
<1>4. InOrder(D) /\ OfScope(D, scope)
  BY <1>1, <1>3 DEF InOrder, CountsFrom0, OfScope
<1> QED BY <1>2, <1>3, <1>4 DEF BoxSound, AnyBox

\* A box with other deductions of its scope.
LEMMA BoxOf ==
  ASSUME NEW b, NEW scope \in Int, BoxSound(b, scope), NEW D \in Seq(AnyDeduction), InOrder(D), OfScope(D, scope)
  PROVE  BoxSound([b EXCEPT !.deductions = D], scope)
BY DEF BoxSound, AnyBox

LEMMA WithDeductionSound ==
  ASSUME parts \in Nat, NEW b, NEW scope \in Int, BoxSound(b, scope)
  PROVE  BoxSound(WithDeduction(b, scope), scope)
<1> DEFINE d == [id |-> parts + 1, scope |-> scope, number |-> 0]
           D == Append(b.deductions, d)
           R == RenumberDeductions(D)
<1>1. b.deductions \in Seq(AnyDeduction) /\ OfScope(b.deductions, scope)
  BY DEF BoxSound, AnyBox
<1>2. d \in AnyDeduction /\ d.scope = scope
  BY DEF AnyDeduction
<1>3. WithDeduction(b, scope) = [b EXCEPT !.deductions = R]
  BY DEF WithDeduction
<1> HIDE DEF d
<1>4. D \in Seq(AnyDeduction) /\ OfScope(D, scope)
  BY <1>1, <1>2 DEF OfScope
<1> HIDE DEF D
<1>5. R \in Seq(AnyDeduction) /\ InOrder(R) /\ OfScope(R, scope)
  BY <1>4, RenumberedDeductions
<1> HIDE DEF R
<1> QED BY <1>3, <1>5, BoxOf

LEMMA WithoutDeductionSound ==
  ASSUME NEW b, NEW scope \in Int, BoxSound(b, scope), NEW j \in DOMAIN b.deductions
  PROVE  BoxSound([b EXCEPT !.deductions = RenumberDeductions(RemoveAt(b.deductions, j))], scope)
<1> DEFINE B == b.deductions
           D == RemoveAt(B, j)
           R == RenumberDeductions(D)
<1>1. B \in Seq(AnyDeduction) /\ OfScope(B, scope) /\ j \in DOMAIN B
  BY DEF BoxSound, AnyBox
<1> HIDE DEF B
<1>2. D \in Seq(AnyDeduction) /\ \A i \in 1 .. Len(D) : \E k \in 1 .. Len(B) : D[i] = B[k]
  BY <1>1, RemovedAre
<1> HIDE DEF D
<1>3. OfScope(D, scope)
  BY <1>1, <1>2 DEF OfScope
<1>4. R \in Seq(AnyDeduction) /\ InOrder(R) /\ OfScope(R, scope)
  BY <1>2, <1>3, RenumberedDeductions
<1>5. R = RenumberDeductions(RemoveAt(b.deductions, j))
  BY DEF D, B
<1> HIDE DEF R
<1> QED BY <1>4, <1>5, BoxOf

LEMMA LineOf ==
  ASSUME NEW L, LinesSound(L), NEW i \in 1 .. Len(L), NEW b, BoxSound(b, i - 1)
  PROVE  LinesSound([L EXCEPT ![i].box = b])
<1> DEFINE N == [L EXCEPT ![i].box = b]
<1>1. L \in Seq(AnyLine) /\ b \in AnyBox
  BY DEF LinesSound, BoxSound
<1>2. \A k \in 1 .. Len(L) : L[k] \in AnyLine
  BY <1>1
<1>3. [L[i] EXCEPT !.box = b] \in AnyLine
  BY <1>1, <1>2 DEF AnyLine
<1>4. N \in Seq(AnyLine) /\ Len(N) = Len(L)
  BY <1>1, <1>3
<1>5. \A k \in 1 .. Len(L) : N[k] = IF k = i THEN [L[i] EXCEPT !.box = b] ELSE L[k]
  BY <1>1
<1> HIDE DEF N
<1>6. \A k \in 1 .. Len(L) : N[k].number = L[k].number /\ N[k].box = IF k = i THEN b ELSE L[k].box
  BY <1>2, <1>5 DEF AnyLine
<1> QED BY <1>4, <1>6 DEF LinesSound, InOrder, CountsFrom0, N

LEMMA InitSound == FormInit => FormInv
<1> SUFFICES ASSUME FormInit PROVE FormInv
  OBVIOUS
<1>0. Header \in Int /\ << >> \in Seq(Int) /\ <<1>> \in Seq(Int) /\ <<4>> \in Seq(Int) /\ 0 \in Int /\ 1 \in Int
  BY DEF Header
<1> DEFINE h == Rendered(Header, << >>)
           h1 == Rendered(Header, <<1>>)
           r == Rendered(0, << >>)
           r1 == Rendered(1, <<4>>)
<1>1. BoxSound(h, Header) /\ BoxSound(h1, Header) /\ BoxSound(r, 0) /\ BoxSound(r1, 1)
  BY <1>0, RenderedSound
<1>2. r \in AnyBox /\ r1 \in AnyBox
  BY <1>1 DEF BoxSound
<1> HIDE DEF h, h1, r, r1
<1>3. LinesSound(<< [id |-> 2, number |-> 0, box |-> r], [id |-> 3, number |-> 1, box |-> r1] >>)
  <2> DEFINE a == [id |-> 2, number |-> 0, box |-> r]
             c == [id |-> 3, number |-> 1, box |-> r1]
  <2>1. a \in AnyLine /\ c \in AnyLine /\ a.number = 0 /\ c.number = 1 /\ a.box = r /\ c.box = r1
    BY <1>2 DEF AnyLine
  <2> HIDE DEF a, c
  <2>2. <<a, c>> \in Seq(AnyLine) /\ Len(<<a, c>>) = 2 /\ <<a, c>>[1] = a /\ <<a, c>>[2] = c
    BY <2>1
  <2> DEFINE L == <<a, c>>
  <2> HIDE DEF L
  <2>3. LinesSound(L)
    BY <1>1, <2>1, <2>2 DEF L, LinesSound, InOrder, CountsFrom0
  <2> QED BY <2>3 DEF L, a, c
<1>4. LinesSound(<< >>)
  BY DEF LinesSound, InOrder, CountsFrom0
<1>5. LinesSound(<< [id |-> 1, number |-> 0, box |-> r] >>)
  <2> DEFINE a == [id |-> 1, number |-> 0, box |-> r]
  <2>1. a \in AnyLine /\ a.number = 0 /\ a.box = r
    BY <1>2 DEF AnyLine
  <2> HIDE DEF a
  <2>2. <<a>> \in Seq(AnyLine) /\ Len(<<a>>) = 1 /\ <<a>>[1] = a
    BY <2>1
  <2> DEFINE L == <<a>>
  <2> HIDE DEF L
  <2>3. LinesSound(L)
    BY <1>1, <2>1, <2>2 DEF L, LinesSound, InOrder, CountsFrom0
  <2> QED BY <2>3 DEF L, a
<1> QED BY <1>1, <1>3, <1>4, <1>5 DEF FormInit, FormInv, h, h1, r, r1

LEMMA FormStep == FormInv /\ [FormNext]_fvars => FormInv'
<1> SUFFICES ASSUME FormInv, [FormNext]_fvars PROVE FormInv'
  OBVIOUS
<1>0. parts \in Nat /\ BoxSound(header, Header) /\ LinesSound(lines) /\ lines \in Seq(AnyLine) /\ Header \in Int
  BY DEF FormInv, LinesSound, Header
<1>1. \A i \in 1 .. Len(lines) :
        lines[i] \in AnyLine /\ BoxSound(lines[i].box, i - 1) /\ InOrder(lines[i].box.deductions)
  BY <1>0 DEF LinesSound, BoxSound
<1>2. CASE AddLine
  <2> DEFINE n == [lines[1] EXCEPT !.id = parts + 1, !.box.deductions = << >>]
             L == Append(lines, n)
  <2>1. 1 \in 1 .. Len(lines)
    BY <1>2, <1>0 DEF AddLine
  <2>2. lines[1] \in AnyLine
    BY <1>1, <2>1
  <2>3. n \in AnyLine /\ n.box.deductions = << >>
    <3> DEFINE b == [lines[1].box EXCEPT !.deductions = << >>]
    <3>1. b \in AnyBox /\ b.deductions = << >>
      <4> DEFINE x == lines[1].box
      <4>1. x \in AnyBox /\ << >> \in Seq(AnyDeduction)
        BY <2>2 DEF AnyLine
      <4> HIDE DEF x
      <4>2. [x EXCEPT !.deductions = << >>] \in AnyBox
        BY <4>1 DEF AnyBox
      <4>3. [x EXCEPT !.deductions = << >>].deductions = << >>
        BY <4>1 DEF AnyBox
      <4> QED BY <4>2, <4>3 DEF x
    <3>2. n = [lines[1] EXCEPT !.id = parts + 1, !.box = b]
      BY <2>2 DEF AnyLine
    <3> DEFINE x == lines[1]
               p == parts + 1
    <3>3. x \in AnyLine /\ p \in Int /\ n = [x EXCEPT !.id = p, !.box = b]
      BY <1>0, <2>2, <3>2
    <3> HIDE DEF b, n, x, p
    <3>4. n \in AnyLine /\ n.box = b
      BY <3>1, <3>3 DEF AnyLine
    <3> QED BY <3>1, <3>4
  <2>4. lines' = RenumberLines(L) /\ parts' = parts + 1 /\ header' = header
    BY <1>2 DEF AddLine
  <2> HIDE DEF n
  <2>5. InOrder(n.box.deductions)
    BY <2>3 DEF InOrder, CountsFrom0
  <2>6. L \in Seq(AnyLine) /\ \A i \in 1 .. Len(L) : InOrder(L[i].box.deductions)
    <3>1. /\ L \in Seq(AnyLine) /\ Len(L) = Len(lines) + 1
          /\ \A i \in 1 .. Len(lines) : L[i] = lines[i]
          /\ L[Len(lines) + 1] = n
      BY <1>0, <2>3
    <3> HIDE DEF L
    <3>2. ASSUME NEW i \in 1 .. Len(L) PROVE InOrder(L[i].box.deductions)
      <4>1. CASE i = Len(lines) + 1
        BY <2>5, <3>1, <4>1
      <4>2. CASE i # Len(lines) + 1
        <5>1. i \in 1 .. Len(lines)
          BY <1>0, <3>1, <4>2
        <5> QED BY <1>1, <3>1, <5>1
      <4> QED BY <4>1, <4>2
    <3> QED BY <3>1, <3>2
  <2> HIDE DEF L
  <2>7. LinesSound(lines')
    BY <2>4, <2>6, RenumberedLines
  <2>8. parts' \in Nat /\ BoxSound(header', Header)
    BY <1>0, <2>4
  <2> QED BY <2>7, <2>8 DEF FormInv, LinesSound, BoxSound, InOrder, CountsFrom0, OfScope, Header
<1>3. ASSUME NEW i \in DOMAIN lines, RemoveLine(i) PROVE FormInv'
  <2> DEFINE L == RemoveAt(lines, i)
  <2>1. L \in Seq(AnyLine) /\ \A k \in 1 .. Len(L) : \E j \in 1 .. Len(lines) : L[k] = lines[j]
    BY <1>0, RemovedAre
  <2>2. lines' = RenumberLines(L) /\ parts' = parts /\ header' = header
    BY <1>3 DEF RemoveLine
  <2> HIDE DEF L
  <2>3. \A k \in 1 .. Len(L) : InOrder(L[k].box.deductions)
    BY <1>1, <2>1
  <2>4. LinesSound(lines')
    BY <2>1, <2>2, <2>3, RenumberedLines
  <2>5. parts' \in Nat /\ BoxSound(header', Header)
    BY <1>0, <2>2
  <2> QED BY <2>4, <2>5 DEF FormInv, LinesSound, BoxSound, InOrder, CountsFrom0, OfScope, Header
<1>4. ASSUME NEW b \in Boxes, AddDeduction(b.add) PROVE FormInv'
  <2>1. parts' \in Nat
    BY <1>0, <1>4 DEF AddDeduction
  <2>2. CASE header.scope = b.add /\ header' = WithDeduction(header, b.add) /\ lines' = lines
    <3>1. b.add = Header
      BY <1>0, <2>2 DEF BoxSound
    <3>2. BoxSound(header', Header)
      BY <1>0, <2>2, <3>1, WithDeductionSound
    <3>3. LinesSound(lines')
      BY <1>0, <2>2
    <3> QED BY <2>1, <3>2, <3>3 DEF FormInv, LinesSound, BoxSound, InOrder, CountsFrom0, OfScope, Header
  <2>3. ASSUME NEW i \in DOMAIN lines, lines[i].box.scope = b.add,
               lines' = [lines EXCEPT ![i].box = WithDeduction(lines[i].box, b.add)], header' = header
        PROVE  FormInv'
    <3> DEFINE w == WithDeduction(lines[i].box, i - 1)
    <3>1. i \in 1 .. Len(lines) /\ i - 1 \in Int
      BY <1>0
    <3>2. BoxSound(lines[i].box, i - 1) /\ b.add = i - 1
      BY <1>1, <2>3, <3>1 DEF BoxSound
    <3>3. BoxSound(w, i - 1)
      BY <1>0, <3>1, <3>2, WithDeductionSound
    <3>4. lines' = [lines EXCEPT ![i].box = w]
      BY <2>3, <3>2
    <3> HIDE DEF w
    <3>5. LinesSound(lines')
      BY <1>0, <3>1, <3>3, <3>4, LineOf
    <3>6. BoxSound(header', Header)
      BY <1>0, <2>3
    <3> QED BY <2>1, <3>5, <3>6 DEF FormInv, LinesSound, BoxSound, InOrder, CountsFrom0, OfScope, Header
  <2> QED BY <1>4, <2>2, <2>3 DEF AddDeduction
<1>5. CASE RemoveDeduction
  <2>1. parts' \in Nat
    BY <1>0, <1>5 DEF RemoveDeduction
  <2>2. ASSUME NEW j \in DOMAIN header.deductions,
               header' = [header EXCEPT !.deductions = RenumberDeductions(RemoveAt(header.deductions, j))],
               lines' = lines
        PROVE  FormInv'
    <3>1. BoxSound(header', Header)
      BY <1>0, <2>2, WithoutDeductionSound
    <3>2. LinesSound(lines')
      BY <1>0, <2>2
    <3> QED BY <2>1, <3>1, <3>2 DEF FormInv, LinesSound, BoxSound, InOrder, CountsFrom0, OfScope, Header
  <2>3. ASSUME NEW i \in DOMAIN lines, NEW j \in DOMAIN lines[i].box.deductions,
               lines' = [lines EXCEPT ![i].box.deductions = RenumberDeductions(RemoveAt(lines[i].box.deductions, j))],
               header' = header
        PROVE  FormInv'
    <3> DEFINE b == lines[i].box
               w == [b EXCEPT !.deductions = RenumberDeductions(RemoveAt(b.deductions, j))]
    <3>1. i \in 1 .. Len(lines) /\ i - 1 \in Int
      BY <1>0
    <3>2. BoxSound(b, i - 1) /\ j \in DOMAIN b.deductions
      BY <1>1, <3>1
    <3>3. lines' = [lines EXCEPT ![i].box = w]
      BY <2>3, Zenon
    <3>5. BoxSound(w, i - 1)
      <4> HIDE DEF b
      <4> QED BY <3>1, <3>2, WithoutDeductionSound
    <3> HIDE DEF w
    <3>6. LinesSound(lines')
      BY <1>0, <3>1, <3>3, <3>5, LineOf
    <3>7. BoxSound(header', Header)
      BY <1>0, <2>3
    <3> QED BY <2>1, <3>6, <3>7 DEF FormInv, LinesSound, BoxSound, InOrder, CountsFrom0, OfScope, Header
  <2> QED BY <1>5, <2>2, <2>3 DEF RemoveDeduction
<1>6. CASE UNCHANGED fvars
  BY <1>0, <1>6 DEF fvars, FormInv, LinesSound, BoxSound, InOrder, CountsFrom0, OfScope, Header
<1> QED BY <1>2, <1>3, <1>4, <1>5, <1>6 DEF FormNext

\* The deductions whose fields have the scope of a box are those of that box.
LEMMA ReadOfBox ==
  ASSUME NEW c \in Int, NEW b \in Boxes, BoxSound(b, c),
         \A x \in Boxes : x # b => \E y \in Int : y # c /\ BoxSound(x, y)
  PROVE  ParsedDeductions(c) = Ids(b.deductions)
<1> DEFINE B == b.deductions
           n == Len(B)
           D == {d \in AllDeductions : d.scope = c}
<1>1. B \in Seq(AnyDeduction) /\ CountsFrom0(B, n) /\ OfScope(B, c) /\ n \in Nat
  BY DEF BoxSound, AnyBox, InOrder
<1>2. D = {B[j] : j \in 1 .. n}
  <2>1. ASSUME NEW j \in 1 .. n PROVE B[j] \in D
    <3>1. B[j].scope = c /\ j \in DOMAIN b.deductions
      BY <1>1 DEF OfScope
    <3> QED BY <3>1 DEF AllDeductions
  <2>2. ASSUME NEW d \in D PROVE d \in {B[j] : j \in 1 .. n}
    <3>1. PICK x \in Boxes : d \in {x.deductions[j] : j \in DOMAIN x.deductions}
      BY DEF AllDeductions
    <3>2. PICK k \in DOMAIN x.deductions : d = x.deductions[k]
      BY <3>1
    <3>3. CASE x # b
      <4>1. PICK y \in Int : y # c /\ BoxSound(x, y)
        BY <3>3
      <4>2. x.deductions \in Seq(AnyDeduction) /\ OfScope(x.deductions, y)
        BY <4>1 DEF BoxSound, AnyBox
      <4>3. d.scope = y
        BY <3>2, <4>2 DEF OfScope
      <4> QED BY <4>1, <4>3
    <3>4. CASE x = b
      BY <1>1, <3>2, <3>4
    <3> QED BY <3>3, <3>4
  <2> QED BY <2>1, <2>2
<1> HIDE DEF B, n, D
<1>3. FirstOf(D, B, n)
  BY <1>2 DEF FirstOf
<1>4. ~Overwritten(D) /\ Cardinality(D) = n /\ \A j \in 1 .. n : ByNumber(D)[j] = B[j]
  BY <1>1, <1>3, NumberedOrder
<1>5. ParsedDeductions(c) = [j \in 1 .. n |-> ByNumber(D)[j].id]
  BY <1>4 DEF ParsedDeductions, D
<1>6. [j \in 1 .. n |-> ByNumber(D)[j].id] = [j \in 1 .. n |-> B[j].id]
  BY <1>4
<1>7. DOMAIN B = 1 .. n
  BY <1>1 DEF n
<1> QED BY <1>5, <1>6, <1>7 DEF Ids, B

\* What was counted as it stands is read as it is seen.
LEMMA FormRead == FormInv => FormIsWhatIsSeen
<1> SUFFICES ASSUME FormInv PROVE Parsed = Seen
  BY DEF FormIsWhatIsSeen
<1> DEFINE n == Len(lines)
           L == {lines[i] : i \in DOMAIN lines}
<1>1. lines \in Seq(AnyLine) /\ CountsFrom0(lines, n) /\ n \in Nat /\ DOMAIN lines = 1 .. n
  BY DEF FormInv, LinesSound, InOrder
<1>2. BoxSound(header, Header) /\ \A i \in 1 .. n : BoxSound(lines[i].box, i - 1) /\ i - 1 \in Int /\ i - 1 # Header
  BY DEF FormInv, LinesSound, Header
<1>3. Boxes = {header} \cup {lines[i].box : i \in 1 .. n}
  BY <1>1 DEF Boxes
<1> HIDE DEF n
<1>4. ParsedDeductions(Header) = Ids(header.deductions)
  <2>1. \A x \in Boxes : x # header => \E y \in Int : y # Header /\ BoxSound(x, y)
    BY <1>2, <1>3
  <2>2. Header \in Int /\ header \in Boxes
    BY <1>3 DEF Header
  <2> QED BY <1>2, <2>1, <2>2, ReadOfBox
<1>5. ASSUME NEW i \in 1 .. n PROVE ParsedDeductions(i - 1) = Ids(lines[i].box.deductions)
  <2> DEFINE c == i - 1
             b == lines[i].box
  <2>1. c \in Int /\ c # Header /\ b \in Boxes /\ BoxSound(b, c) /\ Header \in Int
    BY <1>2, <1>3 DEF Header
  <2>2. \A x \in Boxes : x # b => \E y \in Int : y # c /\ BoxSound(x, y)
    <3>1. ASSUME NEW k \in 1 .. n, lines[k].box # b PROVE k - 1 \in Int /\ k - 1 # c /\ BoxSound(lines[k].box, k - 1)
      <4>1. k # i
        BY <3>1
      <4> QED BY <1>1, <1>2, <4>1
    <3> HIDE DEF b, c
    <3> QED BY <1>2, <1>3, <2>1, <3>1
  <2> HIDE DEF b, c
  <2>3. ParsedDeductions(c) = Ids(b.deductions)
    BY <2>1, <2>2, ReadOfBox
  <2> QED BY <2>3 DEF b, c
<1>6. FirstOf(L, lines, n)
  BY <1>1 DEF FirstOf
<1> HIDE DEF L
<1>7. ~Overwritten(L) /\ Cardinality(L) = n /\ \A i \in 1 .. n : ByNumber(L)[i] = lines[i]
  BY <1>1, <1>6, NumberedOrder
<1>8. Parsed = [header |-> ParsedDeductions(Header),
                lines |-> [i \in 1 .. n |-> <<ByNumber(L)[i].id, ParsedDeductions(ByNumber(L)[i].number)>>]]
  BY <1>7 DEF Parsed, L
<1>9. \A i \in 1 .. n : /\ ByNumber(L)[i].id = lines[i].id
                        /\ ParsedDeductions(ByNumber(L)[i].number) = Ids(lines[i].box.deductions)
  BY <1>5, <1>7, <1>1 DEF CountsFrom0
<1>10. Seen = [header |-> Ids(header.deductions),
               lines |-> [i \in 1 .. n |-> <<lines[i].id, Ids(lines[i].box.deductions)>>]]
  BY <1>1 DEF Seen
<1> QED BY <1>4, <1>8, <1>9, <1>10

\* FormIsWhatIsSeen for every bound: whatever was added and removed, the server reads the payment
\* the reviewer sees (renumberLines, renumberDeductions, parse_form_to_canonical).
THEOREM FormIsWhatIsSeenHolds == FormSpec => []FormIsWhatIsSeen
<1>1. FormInit => FormInv
  BY InitSound
<1>2. FormInv /\ [FormNext]_fvars => FormInv'
  BY FormStep
<1>3. FormInv => FormIsWhatIsSeen
  BY FormRead
<1> QED BY <1>1, <1>2, <1>3, PTL DEF FormSpec
=============================================================================
