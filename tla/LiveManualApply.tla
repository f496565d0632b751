--------------------------- MODULE LiveManualApply ---------------------------
(***************************************************************************)
(* Copy edits made by hand in the page: each is staged on the live server, *)
(* and Apply has the agent write what is staged into the source, which can *)
(* take minutes and ask for a decision.  The tab locks its controls while  *)
(* an apply is in flight, and learns of it by the answers to its requests  *)
(* and by the server's events, two channels that keep no common order.     *)
(*                                                                         *)
(* Left out: the texts themselves, where an edit is put back, the numbers  *)
(* of the progress shown and the dock's looks.  External: the server and   *)
(* the agent, as far as the tab's handlers tell them.                      *)
(***************************************************************************)
EXTENDS Integers, Sequences

CONSTANTS
  Posts,         \* bound: requests at once
  MaxStaged,     \* bound: edits staged
  MaxEvents,     \* bound: events on their way
  MaxFaults      \* bound: reloads and requests that fail

ASSUME ManualAssumption == MaxStaged \in Nat \ {0} /\ MaxEvents \in Nat \ {0} /\ MaxFaults \in Nat

VARIABLES
  dock,        \* the dock of the tab, with what it keeps in sessionStorage
  editing,     \* state = EDITING, with a text changed
  posts,       \* the tab's requests
  staged,      \* server: edits staged for the page
  job,         \* server: the apply
  events,      \* server to tab, in order
  faults,      \* bound
  odd          \* history: what happened of Oddities

mserver == <<staged, job>>
mvars == <<dock, editing, posts, mserver, events, faults, odd>>

\* count: what the pill shows; locked: pendingApplyInFlight; phase: of the stored state, if any;
\* offered: the buttons of the decision are shown; enabled: the pill takes clicks.
Dock ==
  [count : 0 .. MaxStaged, locked : BOOLEAN, offered : BOOLEAN, enabled : BOOLEAN,
   phase : {"none", "applying", "verifying", "repairing", "repair-decision"}]
EmptyDock == [count |-> 0, locked |-> FALSE, offered |-> FALSE, enabled |-> TRUE, phase |-> "none"]

NoPost == [do |-> "nothing"]
Asks == {"stash", "commit", "repair", "discard", "rollback", "count"}
\* An answer is a count, or none of one.
Waits == -1
Started == -2
Refused == -3
Events ==
  [type : {"stashed", "started", "restarted", "done"}, n : 0 .. MaxStaged]
  \cup [type : {"chunk", "last_chunk", "repair", "decide", "rolled_back", "failed", "discarded"}]

\* lost: an event or an answer.  overtaken: what is staged changed while an older count was on its
\* way to the tab.  disturbed: a count came while the tab held a decision open, and locked it.
Oddities == {"lost", "overtaken", "disturbed"}
Note(what, happened) == odd' = IF happened THEN odd \cup {what} ELSE odd

ManualTypeOK ==
  /\ dock \in Dock /\ editing \in BOOLEAN
  /\ posts \in [Posts -> {NoPost} \cup [do : Asks, answer : Refused .. MaxStaged]]
  /\ staged \in 0 .. MaxStaged /\ job \in {"none", "running", "decision"}
  /\ events \in Seq(Events) /\ Len(events) <= MaxEvents
  /\ faults \in 0 .. MaxFaults /\ odd \subseteq Oddities

ManualInit ==
  /\ dock = EmptyDock /\ editing = FALSE /\ posts = [p \in Posts |-> NoPost]
  /\ staged = 0 /\ job = "none" /\ events = << >>
  /\ faults = 0 /\ odd = {}

----------------------------------------------------------------------------
(* The dock.                                                               *)

\* storeManualApplyState: a phase that is given, else the one stored, else applying.
Store(d, n, phase) ==
  IF d.phase = "none" /\ n = 0 THEN d
  ELSE [d EXCEPT !.phase = IF phase # "none" THEN phase ELSE IF @ = "none" THEN "applying" ELSE @]

\* setPendingApplyLoading(true)
Lock(d, n) == [Store(d, n, "none") EXCEPT !.locked = TRUE, !.enabled = FALSE, !.offered = FALSE]

\* setPendingApplyLoading(false)
Unlock(d) == [d EXCEPT !.locked = FALSE, !.enabled = TRUE, !.phase = "none"]

\* updatePendingCounter, hidePendingApplyDock
Counted(d, n) ==
  IF n = 0 THEN EmptyDock
  ELSE LET e == [d EXCEPT !.count = n]
       IN IF e.locked \/ e.phase # "none" THEN Lock(e, n) ELSE e

\* updateManualApplyRepairState
Repairing(d) ==
  IF d.count = 0 /\ d.phase = "none" THEN d ELSE Lock(Store(d, d.count, "repairing"), d.count)

\* showManualApplyDecision
Decide(d, n) ==
  [Store(d, n, "repair-decision") EXCEPT !.locked = FALSE, !.enabled = FALSE, !.offered = TRUE]

----------------------------------------------------------------------------
(* Requests.                                                               *)

Ask(p, what) ==
  /\ posts[p] = NoPost
  /\ posts' = [posts EXCEPT ![p] = [do |-> what, answer |-> Waits]]

\* enterEditingMode, and the user changes a text.
Edit ==
  /\ ~dock.locked /\ ~editing /\ editing' = TRUE
  /\ UNCHANGED <<dock, posts, mserver, events, faults, odd>>

\* cancelEditing
Cancel ==
  /\ editing /\ editing' = FALSE
  /\ UNCHANGED <<dock, posts, mserver, events, faults, odd>>

\* applyEditing: nothing holds back a second save while the first is under way.
Save(p) ==
  /\ editing /\ ~dock.locked /\ Ask(p, "stash")
  /\ UNCHANGED <<dock, editing, mserver, events, faults, odd>>

\* onPendingPillClick: what an earlier apply stored is overwritten.
Apply(p) ==
  /\ dock.count > 0 /\ ~dock.locked /\ dock.enabled
  /\ dock' = Lock([dock EXCEPT !.phase = "applying"], dock.count) /\ Ask(p, "commit")
  /\ UNCHANGED <<editing, mserver, events, faults, odd>>

\* onPendingTrashClick: the button is gone while the decision is open.
Trash(p) ==
  /\ dock.count > 0 /\ ~dock.locked /\ dock.phase # "repair-decision" /\ Ask(p, "discard")
  /\ UNCHANGED <<dock, editing, mserver, events, faults, odd>>

KeepFixing(p) ==
  /\ dock.offered /\ (dock.count > 0 \/ dock.phase # "none")
  /\ dock' = Repairing(dock) /\ Ask(p, "repair")
  /\ UNCHANGED <<editing, mserver, events, faults, odd>>

Rollback(p) ==
  /\ dock.offered /\ Ask(p, "rollback")
  /\ UNCHANGED <<dock, editing, mserver, events, faults, odd>>

\* The end of onPendingPillClick: an apply that has started is left to the events.
AfterCommit(d, answer) ==
  CASE answer = Started -> d
    [] answer = Refused -> IF d.count > 0 THEN Unlock(d) ELSE EmptyDock
    [] OTHER -> LET e == Counted(d, answer) IN IF e.count > 0 THEN Unlock(e) ELSE EmptyDock

\* A request is answered, or fails.
Answered(p) ==
  LET a == posts[p].answer
      ok == a # Refused
  IN /\ posts[p] # NoPost /\ a # Waits
     /\ posts' = [posts EXCEPT ![p] = NoPost]
     /\ dock' = CASE posts[p].do = "commit" -> AfterCommit(dock, a)
                  [] posts[p].do \in {"stash", "count"} /\ ok -> Counted(dock, a)
                  [] posts[p].do = "discard" /\ ok -> Counted(dock, 0)
                  [] posts[p].do = "rollback" /\ ok -> Counted([dock EXCEPT !.phase = "none"], a)
                  [] posts[p].do = "repair" /\ ok -> [dock EXCEPT !.offered = FALSE]
                  [] posts[p].do = "repair" /\ ~ok -> Decide(dock, dock.count)
                  [] OTHER -> dock
     /\ editing' = (editing /\ ~(posts[p].do = "stash" /\ ok))
     /\ Note("disturbed", dock.phase = "repair-decision" /\ dock'.locked)
     /\ UNCHANGED <<mserver, events, faults>>

----------------------------------------------------------------------------
(* Events (handleManualEditActivity).                                      *)

\* Mutant of OnDone: only the counter.
OnDoneStillLocked(d, n) == Counted(d, n)

\* Mutant of OnDone: the counter is left for the next count.
OnDoneUncounted(d, n) == Unlock(d)

\* manual_edit_commit_done: unlocked before it is counted.
OnDone(d, n) == Counted(Unlock(d), n)

\* manual_edit_commit_started
OnStarted(d, n) ==
  LET e == IF n > 0 THEN [Counted(d, n) EXCEPT !.phase = "applying"] ELSE d IN Lock(e, n)

Handled(d, e) ==
  CASE e.type = "stashed" -> Counted(d, e.n)
    [] e.type = "started" -> OnStarted(d, e.n)
    [] e.type = "restarted" -> Lock(Repairing(IF e.n > 0 THEN Counted(d, e.n) ELSE d), e.n)
    [] e.type = "chunk" -> IF d.locked THEN Lock(Store(d, d.count, "applying"), d.count) ELSE d
    [] e.type = "last_chunk" -> IF d.locked THEN Lock(Store(d, d.count, "verifying"), d.count) ELSE d
    [] e.type = "repair" -> Repairing(d)
    [] e.type = "decide" -> Decide(d, d.count)
    [] e.type = "done" -> OnDone(d, e.n)
    [] e.type = "failed" -> Unlock(d)
    [] e.type = "rolled_back" -> [d EXCEPT !.phase = "none"]
    [] e.type = "discarded" -> d

\* Three of the events have the tab ask for the count.
Receive(p) ==
  /\ events # << >> /\ events' = Tail(events)
  /\ dock' = Handled(dock, Head(events))
  /\ IF Head(events).type \in {"failed", "rolled_back", "discarded"} THEN Ask(p, "count")
     ELSE posts[p] = NoPost /\ UNCHANGED posts
  /\ Note("disturbed", Head(events).type = "stashed" /\ dock.phase = "repair-decision")
  /\ UNCHANGED <<editing, mserver, faults>>

----------------------------------------------------------------------------
(* The server and the agent.                                               *)

Emit(e) == Len(events) + Len(e) <= MaxEvents /\ events' = events \o e

Reply(p, a) == posts' = [posts EXCEPT ![p].answer = a]

\* After a step for the requests S.
Overtake(S) ==
  Note("overtaken", staged' # staged /\ \E q \in Posts \ S : posts[q] # NoPost /\ posts[q].answer >= 0)

ServeStash(p) ==
  /\ posts[p].do = "stash" /\ staged < MaxStaged
  /\ staged' = staged + 1 /\ Reply(p, staged + 1) /\ Emit(<<[type |-> "stashed", n |-> staged + 1]>>)
  /\ UNCHANGED job

ServeCommit(p) ==
  /\ posts[p].do = "commit"
  /\ CASE job # "none" -> Reply(p, Refused) /\ UNCHANGED <<job, events>>
       [] job = "none" /\ staged = 0 -> Reply(p, 0) /\ UNCHANGED <<job, events>>
       [] OTHER -> Reply(p, Started) /\ job' = "running" /\ Emit(<<[type |-> "started", n |-> staged]>>)
  /\ UNCHANGED staged

ServeRepair(p) ==
  /\ posts[p].do = "repair"
  /\ IF job # "decision" THEN Reply(p, Refused) /\ UNCHANGED <<job, events>>
     ELSE Reply(p, Started) /\ job' = "running" /\ Emit(<<[type |-> "restarted", n |-> staged]>>)
  /\ UNCHANGED staged

ServeDiscard(p) ==
  /\ posts[p].do = "discard"
  /\ IF job # "none" THEN Reply(p, Refused) /\ UNCHANGED <<staged, events>>
     ELSE Reply(p, 0) /\ staged' = 0 /\ Emit(<<[type |-> "discarded"]>>)
  /\ UNCHANGED job

ServeRollback(p) ==
  /\ posts[p].do = "rollback"
  /\ IF job # "decision" THEN Reply(p, Refused) /\ UNCHANGED <<job, events>>
     ELSE Reply(p, staged) /\ job' = "none" /\ Emit(<<[type |-> "rolled_back"]>>)
  /\ UNCHANGED staged

ServeCount(p) == posts[p].do = "count" /\ Reply(p, staged) /\ UNCHANGED <<mserver, events>>

Serve(p) ==
  /\ posts[p] # NoPost /\ posts[p].answer = Waits
  /\ \/ ServeStash(p) \/ ServeCommit(p) \/ ServeRepair(p)
     \/ ServeDiscard(p) \/ ServeRollback(p) \/ ServeCount(p)
  /\ Overtake({p})
  /\ UNCHANGED <<dock, editing, faults>>

\* The agent works in chunks, repairs, gives up, asks, or finishes with some edits left.
Work ==
  /\ job = "running"
  /\ \/ UNCHANGED mserver /\ \E t \in {"chunk", "last_chunk", "repair"} : Emit(<<[type |-> t]>>)
     \/ job' = "none" /\ UNCHANGED staged /\ Emit(<<[type |-> "failed"]>>)
     \/ job' = "decision" /\ UNCHANGED staged /\ Emit(<<[type |-> "decide"]>>)
     \/ job' = "none" /\ \E n \in 0 .. staged : staged' = n /\ Emit(<<[type |-> "done", n |-> n]>>)
  /\ Overtake({})
  /\ UNCHANGED <<dock, editing, posts, faults>>

----------------------------------------------------------------------------
(* Faults.                                                                 *)

\* A request or its answer is lost.
LosePost(p) ==
  /\ posts[p] # NoPost /\ posts[p].answer # Refused /\ faults < MaxFaults
  /\ posts' = [posts EXCEPT ![p].answer = Refused]
  /\ faults' = faults + 1 /\ Note("lost", TRUE)
  /\ UNCHANGED <<dock, editing, mserver, events>>

\* The page is loaded again: events and answers are lost, the stored state is kept, and the
\* count is asked for.
ReloadPage(p) ==
  /\ faults < MaxFaults
  /\ faults' = faults + 1 /\ Note("lost", events # << >> \/ \E q \in Posts : posts[q] # NoPost)
  /\ dock' = [EmptyDock EXCEPT !.phase = dock.phase] /\ editing' = FALSE /\ events' = << >>
  /\ posts' = [[q \in Posts |-> NoPost] EXCEPT ![p] = [do |-> "count", answer |-> Waits]]
  /\ UNCHANGED mserver

ManualNext ==
  \/ Edit \/ Cancel \/ Work
  \/ \E p \in Posts : \/ Save(p) \/ Apply(p) \/ Trash(p) \/ KeepFixing(p) \/ Rollback(p)
                      \/ Answered(p) \/ Receive(p) \/ Serve(p) \/ LosePost(p) \/ ReloadPage(p)

ManualSpec == ManualInit /\ [][ManualNext]_mvars

----------------------------------------------------------------------------
(* Properties.                                                             *)

Quiet == events = << >> /\ \A p \in Posts : posts[p] = NoPost

\* The controls are locked for a reason: with nothing under way and no apply or decision open on
\* the server they are free, unless something was lost or a decision was disturbed; locked, every click and key of live mode is ignored
\* (handleManualEditActivity: "would otherwise leave the picker frozen forever").
LockedForAReason == Quiet /\ job = "none" /\ odd \cap {"lost", "disturbed"} = {} => ~dock.locked

\* With nothing under way the pill counts what is staged, whichever order the answers and the
\* events came in, unless an answer was overtaken by a later change or something was lost
\* (updatePendingCounter, handleManualEditActivity).
CountIsTrue == Quiet /\ odd \cap {"lost", "overtaken"} = {} => dock.count = staged

=============================================================================
