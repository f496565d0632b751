------------------------------ MODULE LiveMount ------------------------------
(***************************************************************************)
(* Variants that are compiled components (Svelte, Vue): live-browser.js    *)
(* imports them from the dev server and mounts them itself, in asynchronous*)
(* calls that interleave.  A call is an injection of the manifest or a     *)
(* switch to another variant; it holds a slot, and each of its steps is    *)
(* the code from one await to the next.                                    *)
(*                                                                         *)
(* Left out: properties and attributes, which URL a module is reached by,  *)
(* the runtime, what the parameters are, and what the user does before and *)
(* after the session (LiveSession).  Whether a variant can be imported and *)
(* mounted is up to the agent and the dev server, each time it is tried.   *)
(***************************************************************************)
EXTENDS Integers

CONSTANTS
  Slots,         \* bound: calls at once
  Variants,      \* manifest.count
  MayEnd,        \* whether the session may end while calls run
  MaxPublished   \* bound: publications

ASSUME MountAssumption ==
  /\ Variants \in Nat \ {0}
  /\ MayEnd \in BOOLEAN
  /\ MaxPublished \in Nat \ {0}

VARIABLES
  mode,        \* state: PICKING, GENERATING or CYCLING
  current,     \* whether currentSessionId is the session's
  arrived, visible,
  component,   \* svelteComponentSession
  card,        \* the variant of the mount-error card, 0 if it names none
  waiting,     \* pendingSvelteComponentRetryObserver
  reported,    \* lastReportedMountFailure
  calls,       \* the asynchronous calls
  target,      \* whether the element that is replaced is in the page
  manifest,    \* how many variants the agent has published
  published,   \* how often
  news,        \* a progress or done event is on its way
  ended,       \* the session was accepted or discarded
  silent       \* history: an injection failed and no report was sent since it began

mountui == <<mode, current, arrived, visible, card, waiting>>
world == <<manifest, published, news, ended>>
mountvars == <<mountui, component, reported, calls, target, world, silent>>

\* mounted: it holds an instance, and shown: which the page shows.
Component == [mounted : BOOLEAN, shown : BOOLEAN, variant : 0 .. Variants]
NoComponent == [mounted |-> FALSE, shown |-> FALSE]
NoCard == -1
Free == [at |-> "free"]
Failures == [variant : 1 .. Variants, what : {"manifest", "foreign", "module"}]
NoFailure == [what |-> "none"]

\* at: what the call waits for.  count: the variants of the manifest as it was read.  kind: first
\* and remount are injections; show is a switch, revert the way back.  stale: its mount target has
\* left the page.  told: a failure was reported since the call began.
Calls ==
  [at : {"manifest"}, told : BOOLEAN]
  \cup [at : {"params"}, count : 1 .. Variants, told : BOOLEAN]
  \cup [at : {"import", "unmount", "probe"}, kind : {"first", "remount", "show", "revert"},
        variant : 1 .. Variants, previous : 0 .. Variants, stale : BOOLEAN, told : BOOLEAN]

MountTypeOK ==
  /\ mode \in {"PICKING", "GENERATING", "CYCLING"} /\ current \in BOOLEAN
  /\ arrived \in 0 .. Variants /\ visible \in 0 .. Variants
  /\ component \in Component \cup {NoComponent}
  /\ card \in NoCard .. Variants /\ waiting \in BOOLEAN
  /\ reported \in Failures \cup {NoFailure}
  /\ calls \in [Slots -> Calls \cup {Free}]
  /\ target \in BOOLEAN
  /\ manifest \in 0 .. Variants
  /\ published \in 0 .. MaxPublished
  /\ news \in BOOLEAN /\ ended \in BOOLEAN /\ silent \in BOOLEAN

MountInit ==
  /\ mode = "GENERATING" /\ current = TRUE /\ arrived = 0 /\ visible = 0
  /\ component = NoComponent /\ card = NoCard /\ waiting = FALSE
  /\ reported = NoFailure /\ calls = [s \in Slots |-> Free]
  /\ target = TRUE /\ manifest = 0 /\ published = 0
  /\ news = FALSE /\ ended = FALSE /\ silent = FALSE

----------------------------------------------------------------------------
(* The agent publishes, and the page changes.                              *)

Publish ==
  /\ published < MaxPublished /\ ~ended
  /\ \E n \in manifest .. Variants : n > 0 /\ manifest' = n
  /\ published' = published + 1 /\ news' = TRUE
  /\ UNCHANGED <<mountui, component, reported, calls, target, ended, silent>>

TargetComesOrGoes ==
  /\ component = NoComponent /\ ~waiting
  /\ target' = ~target
  /\ UNCHANGED <<mountui, component, reported, calls, world, silent>>

----------------------------------------------------------------------------
(* Calls.                                                                  *)

\* Mutant of Forget: what was reported once is not reported again.
ForgetNothing(f) == f

\* Every injection is a fresh attempt.
Forget(f) == NoFailure

Inject(s) ==
  /\ calls[s] = Free
  /\ reported' = Forget(reported)
  /\ calls' = [calls EXCEPT ![s] = [at |-> "manifest", told |-> FALSE]]

\* variant_progress and done.
Announced(s) ==
  /\ news /\ news' = FALSE
  /\ IF current THEN Inject(s) ELSE calls[s] = Free /\ UNCHANGED <<calls, reported>>
  /\ UNCHANGED <<mountui, component, target, manifest, published, ended, silent>>

\* waitForSvelteComponentTargetAndRetry's observer.
TargetFound(s) ==
  /\ waiting
  /\ IF component # NoComponent THEN calls[s] = Free /\ UNCHANGED <<target, calls, reported>>
     ELSE target' = TRUE /\ Inject(s)
  /\ waiting' = FALSE
  /\ UNCHANGED <<mode, current, arrived, visible, card, component, world, silent>>

Retry(s) ==
  /\ card # NoCard /\ card' = NoCard
  /\ mode' = IF mode # "CYCLING" THEN "GENERATING" ELSE mode
  /\ Inject(s)
  /\ UNCHANGED <<current, arrived, visible, waiting, component, target, world, silent>>

\* The card is dismissed.
Dismiss ==
  /\ card # NoCard /\ card' = NoCard
  /\ mode' = IF mode = "GENERATING" THEN "PICKING" ELSE mode
  /\ UNCHANGED <<current, arrived, visible, waiting, component, reported, calls, target, world, silent>>

\* The call is in mountSvelteComponentVariant, or in what follows a failure of it.
Mounts(c) == c.at \in {"import", "unmount", "probe"}

\* selectVariant: one switch at a time.
Select(s, v) ==
  /\ mode = "CYCLING" /\ v \in 1 .. arrived /\ v # visible
  /\ component # NoComponent
  /\ calls[s] = Free
  /\ \A r \in Slots : Mounts(calls[r]) => calls[r].kind \notin {"show", "revert"}
  /\ visible' = v
  /\ calls' = [calls EXCEPT ![s] = [at |-> "import", kind |-> "show", variant |-> v, previous |-> visible,
                                    stale |-> FALSE, told |-> FALSE]]
  /\ UNCHANGED <<mode, current, arrived, card, waiting, component, reported, target, world, silent>>

\* reportVariantMountFailed: each distinct failure once; c is calls after the step.
Report(v, what, c) ==
  LET key == [variant |-> v, what |-> what]
  IN /\ reported' = key
     /\ calls' = IF reported = key THEN c
                 ELSE [s \in Slots |-> IF c[s] = Free THEN Free ELSE [c[s] EXCEPT !.told = TRUE]]

\* Whether an injection that ends now was ever reported.
Untold(s, v, what) == ~calls[s].told /\ reported = [variant |-> v, what |-> what]

\* teardownSvelteComponentSession: what other calls mount into is gone.
Orphaned(c) ==
  [s \in Slots |-> IF Mounts(c[s]) THEN [c[s] EXCEPT !.stale = TRUE] ELSE c[s]]

\* abortSvelteComponentInjection: the session keeps its identity, the element comes back.
Abort ==
  /\ component' = NoComponent /\ waiting' = FALSE
  /\ target' = (target \/ component # NoComponent)

\* Mutant of Shown: the variant that was shown, none at first.
ShownBefore(v, n) == IF v <= n THEN v ELSE 1

\* The variant to show of n: the one that was, if there is one and it arrived.
Shown(v, n) == IF v \in 1 .. n THEN v ELSE 1
Visible1 == IF visible > 0 THEN visible ELSE 1

\* The manifest is read: it cannot be, and the injection is aborted.
ManifestUnreadable(s) ==
  /\ calls[s].at = "manifest"
  /\ Report(Visible1, "manifest", Orphaned([calls EXCEPT ![s] = Free]))
  /\ silent' = (silent \/ Untold(s, Visible1, "manifest"))
  /\ card' = visible
  /\ Abort
  /\ UNCHANGED <<mode, current, arrived, visible, world>>

\* Mutant of ManifestForeign: the bare return it was.
ManifestForeignQuietly(s) ==
  /\ calls[s].at = "manifest"
  /\ Report(Visible1, "foreign", [calls EXCEPT ![s] = Free])
  /\ silent' = (silent \/ Untold(s, Visible1, "foreign"))
  /\ UNCHANGED <<mountui, component, target, world>>

\* It is another session's.
ManifestForeign(s) ==
  /\ calls[s].at = "manifest"
  /\ Report(Visible1, "foreign", [calls EXCEPT ![s] = Free])
  /\ silent' = (silent \/ Untold(s, Visible1, "foreign"))
  /\ card' = visible
  /\ UNCHANGED <<mode, current, arrived, visible, waiting, component, target, world>>

\* It is the session's, and the parameters are asked for.
ManifestRead(s) ==
  /\ calls[s].at = "manifest" /\ manifest > 0
  /\ calls' = [calls EXCEPT ![s] = [at |-> "params", count |-> manifest, told |-> calls[s].told]]
  /\ UNCHANGED <<mountui, component, reported, target, world, silent>>

\* What any manifest of the session sets, whether the session is still wanted or not.
Adopt(n) ==
  /\ current' = TRUE
  /\ arrived' = n /\ visible' = Shown(visible, n)

Mount(s, kind) ==
  calls' = [calls EXCEPT ![s] = [at |-> "import", kind |-> kind, variant |-> Shown(visible, calls[s].count),
                                 previous |-> 0, stale |-> FALSE, told |-> calls[s].told]]

\* The parameters are there, or none: what the manifest named is adopted, whatever was published
\* since, and mounted if the element is there.
ParamsRead(s) ==
  /\ calls[s].at = "params"
  /\ Adopt(calls[s].count)
  /\ \/ /\ component # NoComponent
        /\ mode' = IF mode = "CYCLING" THEN mode ELSE "GENERATING"
        /\ Mount(s, "remount")
        /\ UNCHANGED <<waiting, component, target>>
     \/ /\ component = NoComponent /\ target
        /\ mode' = IF mode = "CYCLING" THEN mode ELSE "GENERATING"
        /\ component' = [mounted |-> FALSE, shown |-> FALSE, variant |-> 0] /\ target' = FALSE /\ waiting' = FALSE
        /\ Mount(s, "first")
     \/ /\ component = NoComponent /\ ~target
        /\ mode' = "GENERATING" /\ waiting' = TRUE
        /\ calls' = [calls EXCEPT ![s] = Free]
        /\ UNCHANGED <<component, target>>
  /\ UNCHANGED <<card, reported, world, silent>>

----------------------------------------------------------------------------
(* mountSvelteComponentVariant.                                            *)

\* The module is there: what is mounted is unmounted, at once for the page and after an await
\* for the call.
Imported(s) ==
  /\ calls[s].at = "import" /\ component.mounted
  /\ component' = [component EXCEPT !.shown = FALSE]
  /\ calls' = [calls EXCEPT ![s].at = "unmount"]
  /\ UNCHANGED <<mountui, reported, target, world, silent>>

\* The handle is cleared, whatever another call has mounted since.
Unmounted(s) == calls[s].at = "unmount" \/ (calls[s].at = "import" /\ ~component.mounted)

\* Mounted, reported, and the session cycles, or the switch is done.
Mounted(s) ==
  LET c == calls[s]
  IN /\ Unmounted(s) /\ component # NoComponent
     /\ component' = [mounted |-> TRUE, shown |-> ~c.stale, variant |-> c.variant]
     /\ card' = IF card = c.variant THEN NoCard ELSE card
     /\ mode' = IF c.kind \in {"first", "remount"} THEN "CYCLING" ELSE mode
     /\ calls' = [calls EXCEPT ![s] = Free]
     /\ UNCHANGED <<current, arrived, visible, waiting, reported, target, world, silent>>

\* The import or the component throws, or the session is no longer there; the failure is
\* reported before the preview tree is probed.
MountFails(s) ==
  LET c == calls[s]
  IN /\ \/ /\ c.at = "import" \/ (c.at = "unmount" /\ component = NoComponent)
           /\ UNCHANGED component
        \/ /\ Unmounted(s) /\ component # NoComponent
           /\ component' = [component EXCEPT !.mounted = FALSE, !.shown = FALSE]
     /\ Report(c.variant, "module", [calls EXCEPT ![s].at = "probe"])
     /\ UNCHANGED <<mountui, target, world, silent>>

\* The probe is answered: the card is shown, a first mount is torn down, a switch turned back.
FailureShown(s) ==
  LET c == calls[s]
  IN /\ c.at = "probe"
     /\ card' = c.variant
     /\ silent' = (silent \/ (c.kind \in {"first", "remount"} /\ ~c.told))
     /\ \/ /\ c.kind = "first"
           /\ Abort
           /\ calls' = Orphaned([calls EXCEPT ![s] = Free])
           /\ UNCHANGED visible
        \/ /\ c.kind = "show" /\ component # NoComponent
           /\ visible' = c.previous
           /\ calls' = [calls EXCEPT ![s] = [c EXCEPT !.at = "import", !.kind = "revert", !.variant = c.previous]]
           /\ UNCHANGED <<waiting, component, target>>
        \/ /\ c.kind = "show" /\ component = NoComponent
           /\ visible' = c.previous
           /\ calls' = [calls EXCEPT ![s] = Free]
           /\ UNCHANGED <<waiting, component, target>>
        \/ /\ c.kind \in {"remount", "revert"}
           /\ calls' = [calls EXCEPT ![s] = Free]
           /\ UNCHANGED <<visible, waiting, component, target>>
     /\ UNCHANGED <<mode, current, arrived, reported, world>>

----------------------------------------------------------------------------
\* The session is accepted or discarded: cleanup.
End ==
  /\ MayEnd /\ current /\ ~ended
  /\ ended' = TRUE /\ current' = FALSE /\ mode' = "PICKING"
  /\ card' = NoCard /\ reported' = NoFailure
  /\ component' = NoComponent /\ calls' = Orphaned(calls)
  /\ target' = (target \/ component # NoComponent)
  /\ UNCHANGED <<arrived, visible, waiting, manifest, published, news, silent>>

CallStep(s) ==
  /\ calls[s] # Free
  /\ \/ ManifestUnreadable(s) \/ ManifestForeign(s) \/ ManifestRead(s) \/ ParamsRead(s)
     \/ Imported(s) \/ Mounted(s) \/ MountFails(s) \/ FailureShown(s)

MountNext ==
  \/ Publish \/ TargetComesOrGoes \/ Dismiss \/ End
  \/ \E s \in Slots : Announced(s) \/ TargetFound(s) \/ Retry(s) \/ CallStep(s)
  \/ \E s \in Slots, v \in 1 .. Variants : Select(s, v)

MountSpec == MountInit /\ [][MountNext]_mountvars

----------------------------------------------------------------------------
(* Properties.                                                             *)

Idle == \A s \in Slots : calls[s] = Free

\* An injection that ends in a failure is not silent: since it began, a failure was sent to the
\* agent, which would otherwise believe that its repair landed (injectSvelteComponentsFromManifest,
\* lastReportedMountFailure).  Calls share the one memory of what was reported.
EveryFailureIsReported == ~silent

\* The user is never left looking at "generating" over a publication the browser has finished
\* with: then a card says what failed, or the browser waits for the element
\* (showMountErrorCard, abortSvelteComponentInjection, waitForSvelteComponentTargetAndRetry).
NoSilentWait ==
  mode = "GENERATING" /\ published > 0 /\ Idle /\ ~news => card # NoCard \/ waiting
=============================================================================
