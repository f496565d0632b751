------------------------------ MODULE LiveModes ------------------------------
(***************************************************************************)
(* The modes of live mode: picking an element or a place to insert at,     *)
(* configuring a request, editing texts in place, and the life of a        *)
(* session as far as the modes see it.  Both pickers can be switched at    *)
(* any time, in any mode; an answer to a save and the messages of the      *)
(* server come in whichever mode the tab is in by then.                    *)
(*                                                                         *)
(* Left out: everything drawn (the bar too), which element is picked, the  *)
(* lock of an apply (LiveManualApply), the time the requests of a session  *)
(* take and what is restored of it (LiveSession), and a hot update that    *)
(* takes the placeholder away before there is a session.                   *)
(***************************************************************************)

VARIABLES
  ui,      \* the tab
  page,    \* what the page shows of the session: no wrapper, an empty one, one with variants
  sse,     \* the server's events still come
  strange  \* history: what happened of Strange

uvars == <<ui, page, sse, strange>>

Modes == {"IDLE", "PICKING", "CONFIGURING", "EDITING", "GENERATING", "CYCLING", "SAVING"}

\* pick, insert: the pickers switched on.  kind: configureKind.  line: a place to insert at is
\* pointed at.  anchor: the placeholder can be made again.  rows, draft: texts are editable, and
\* changed.  left: the page shows a change that was neither saved nor taken back.  save: a save
\* under way, of what is in the texts now or of something older.
Ui ==
  [mode : Modes, pick : BOOLEAN, insert : BOOLEAN, kind : {"replace", "insert"},
   selected : {"none", "element", "placeholder"}, hovered : BOOLEAN, line : BOOLEAN,
   placeholder : BOOLEAN, anchor : BOOLEAN,
   rows : BOOLEAN, draft : BOOLEAN, left : BOOLEAN, save : {"none", "current", "older"},
   session : {"none", "replace", "insert"}, arrived : BOOLEAN]

\* late_save: a save was answered when its texts were no longer those edited.  error: the error of
\* another session.  fallback: the variants were read from the source.
Strange == {"late_save", "error", "fallback"}

ModesTypeOK == ui \in Ui /\ page \in {"none", "empty", "variants"} /\ sse \in BOOLEAN /\ strange \subseteq Strange

Start(pick, insert) ==
  [mode |-> IF pick \/ insert THEN "PICKING" ELSE "IDLE", pick |-> pick, insert |-> insert,
   kind |-> "replace", selected |-> "none", hovered |-> FALSE, line |-> FALSE,
   placeholder |-> FALSE, anchor |-> FALSE,
   rows |-> FALSE, draft |-> FALSE, left |-> FALSE, save |-> "none",
   session |-> "none", arrived |-> FALSE]

ModesInit == ui = Start(FALSE, FALSE) /\ page = "none" /\ sse = TRUE /\ strange = {}

----------------------------------------------------------------------------
(* Parts of the handlers.                                                  *)

FinalizeInsert(u) ==
  [u EXCEPT !.placeholder = FALSE, !.anchor = FALSE, !.kind = "replace"]

ClearInsertPicking(u) == FinalizeInsert([u EXCEPT !.line = FALSE])

\* It forgets the drafts, and what the texts were before.
DisableInlineEdit(u) ==
  [u EXCEPT !.rows = FALSE, !.draft = FALSE, !.left = @ \/ u.draft,
            !.save = IF @ = "current" THEN "older" ELSE @]

RestoreDrafts(u) == [u EXCEPT !.draft = FALSE]

HideBar(u) ==
  LET v == IF u.kind = "insert" THEN ClearInsertPicking(u) ELSE u
  IN DisableInlineEdit(IF v.mode = "EDITING" THEN RestoreDrafts(v) ELSE v)

\* Mutant of TeardownConfigureChrome: inline edit is disabled first.
TeardownDisablingFirst(u) == HideBar(DisableInlineEdit(u))

TeardownConfigureChrome(u) == HideBar(u)

ExitConfigure(u) == [TeardownConfigureChrome(u) EXCEPT !.mode = "PICKING"]

CancelInsertConfigure(u) ==
  [ClearInsertPicking(HideBar(u)) EXCEPT
     !.kind = "replace", !.selected = "none", !.mode = IF u.insert THEN "PICKING" ELSE "IDLE"]

EnterEditing(u) == [HideBar([u EXCEPT !.mode = "EDITING"]) EXCEPT !.rows = u.selected # "none"]

CancelEditing(u) == [DisableInlineEdit(RestoreDrafts(u)) EXCEPT !.mode = "CONFIGURING"]

CancelEditingToPicking(u) ==
  [HideBar(DisableInlineEdit(RestoreDrafts(u))) EXCEPT !.mode = "PICKING", !.hovered = FALSE]

\* Mutant of Cleanup: the insert is left to hideBar.
CleanupLeavingInsert(u) ==
  [HideBar(u) EXCEPT !.selected = "none", !.hovered = FALSE, !.session = "none", !.arrived = FALSE,
                     !.mode = "PICKING"]

Cleanup(u) ==
  [FinalizeInsert(HideBar(u)) EXCEPT
     !.selected = "none", !.hovered = FALSE, !.session = "none", !.arrived = FALSE,
     !.mode = "PICKING"]

CleanupAccepted(u) ==
  [HideBar(u) EXCEPT !.selected = "none", !.hovered = FALSE, !.session = "none", !.arrived = FALSE,
                     !.mode = "PICKING"]

\* beginNewLiveConfiguration, for an element.
Configure(u) == [u EXCEPT !.selected = "element", !.mode = "CONFIGURING"]

Generate(u, kind) ==
  [DisableInlineEdit(u) EXCEPT !.session = kind, !.arrived = FALSE, !.mode = "GENERATING"]

\* ensureInsertPlaceholder: the anchor may be found again.
EnsureInsertPlaceholder(u) ==
  IF u.mode # "GENERATING" \/ u.session # "insert" \/ u.placeholder \/ ~u.anchor THEN {u}
  ELSE {u, [u EXCEPT !.placeholder = TRUE, !.selected = "placeholder"]}

\* The variant observer, for a wrapper w that was added.
VariantsObserved(u, w) ==
  CASE w = "empty" -> EnsureInsertPlaceholder(u)
    [] w = "variants" /\ ~u.arrived ->
         LET v == [u EXCEPT !.arrived = TRUE, !.mode = "CYCLING", !.selected = "element"]
         IN {DisableInlineEdit(IF u.session = "insert" THEN FinalizeInsert(v) ELSE v)}
    [] OTHER -> {u}

TogglePick(u) ==
  LET v == [u EXCEPT !.pick = ~@]
  IN CASE v.pick ->
            LET w == ClearInsertPicking([v EXCEPT !.insert = FALSE])
            IN [w EXCEPT !.mode = IF @ = "IDLE" THEN "PICKING" ELSE @]
       [] ~v.pick /\ v.kind = "insert" /\ v.mode = "CONFIGURING" -> CancelInsertConfigure(v)
       [] OTHER -> [TeardownConfigureChrome(v) EXCEPT
                      !.selected = "none", !.hovered = FALSE, !.kind = "replace",
                      !.mode = IF @ \in {"PICKING", "CONFIGURING"} THEN "IDLE" ELSE @]

ToggleInsert(u) ==
  IF u.insert
  THEN LET v == ClearInsertPicking([u EXCEPT !.insert = FALSE])
       IN [v EXCEPT !.mode = IF @ = "PICKING" /\ ~v.pick THEN "IDLE" ELSE @]
  ELSE LET v == [HideBar([u EXCEPT !.insert = TRUE, !.pick = FALSE]) EXCEPT
                   !.selected = "none", !.kind = "replace"]
       IN CASE v.mode = "CONFIGURING" -> CancelInsertConfigure(v)
            [] v.mode \in {"IDLE", "PICKING"} -> [v EXCEPT !.mode = "PICKING"]
            [] OTHER -> v

----------------------------------------------------------------------------
(* The user.                                                               *)

Become(u) == ui' = u /\ UNCHANGED <<page, sse, strange>>

\* handleMouseMove
PointAt ==
  /\ ui.mode = "PICKING"
  /\ IF ui.insert THEN \E on \in BOOLEAN : Become([ui EXCEPT !.line = on])
     ELSE ui.pick /\ Become([ui EXCEPT !.hovered = TRUE])

\* handleClick, in the order of its tests.
Click ==
  \/ ui.mode = "EDITING" /\ ui.selected # "none" /\ Become(CancelEditingToPicking(ui))
  \/ /\ ui.mode = "CONFIGURING" /\ ui.selected # "none"
     /\ IF ui.kind = "insert" THEN Become(CancelInsertConfigure(ui))
        ELSE Become([ExitConfigure(ui) EXCEPT !.hovered = FALSE])
  \/ /\ ui.mode = "PICKING" /\ ui.insert /\ ui.line
     /\ Become([ui EXCEPT !.placeholder = TRUE, !.anchor = TRUE, !.line = FALSE, !.kind = "insert",
                          !.selected = "placeholder", !.mode = "CONFIGURING"])
  \/ ui.mode = "PICKING" /\ ~ui.insert /\ ui.pick /\ ui.hovered /\ Become(Configure(ui))

\* handleKeyDown, Escape: in a text that is edited, and elsewhere.
Escape ==
  \/ ui.draft /\ Become([ui EXCEPT !.draft = FALSE, !.save = IF @ = "current" THEN "older" ELSE @])
  \/ ui.mode = "EDITING" /\ Become(CancelEditing(ui))
  \/ /\ ui.mode = "CONFIGURING"
     /\ Become(IF ui.kind = "insert" THEN CancelInsertConfigure(ui) ELSE ExitConfigure(ui))
  \/ /\ ui.mode = "PICKING"
     /\ Become(CASE ui.insert -> ToggleInsert(ui) [] ~ui.insert /\ ui.pick -> TogglePick(ui)
                 [] OTHER -> [ui EXCEPT !.mode = "IDLE"])

\* handleKeyDown: Enter picks what was last pointed at, whichever picker is on; an arrow goes to a
\* neighbour.
Key ==
  \/ ui.mode = "PICKING" /\ ui.hovered /\ Become(Configure(ui))
  \/ ui.mode = "CONFIGURING" /\ ui.selected # "none" /\ Become(DisableInlineEdit(Configure(ui)))

\* removeConfigureSelection
RemoveSelection ==
  /\ ui.mode = "CONFIGURING"
  /\ Become(IF ui.kind = "insert" THEN CancelInsertConfigure(ui)
            ELSE [ExitConfigure([ui EXCEPT !.selected = "none"]) EXCEPT !.hovered = FALSE])

Toggle == Become(TogglePick(ui)) \/ Become(ToggleInsert(ui))

\* enterEditingMode, and onInlineInput.
EditText ==
  \/ /\ ui.mode = "CONFIGURING" /\ ui.selected = "element" /\ ui.kind = "replace"
     /\ Become(EnterEditing(ui))
  \/ /\ ui.rows
     /\ Become([ui EXCEPT !.draft = TRUE, !.save = IF @ = "current" THEN "older" ELSE @])

\* applyEditing
SaveText ==
  /\ ui.mode = "EDITING" /\ ui.save = "none"
  /\ Become(IF ui.draft THEN [ui EXCEPT !.save = "current"] ELSE CancelEditing(ui))

\* The rest of applyEditing, in whichever mode: the texts that were saved stay in the page.
TextSaved ==
  /\ ui.save # "none"
  /\ ui' = [DisableInlineEdit(IF ui.save = "current" THEN RestoreDrafts(ui) ELSE ui) EXCEPT
              !.save = "none", !.mode = "CONFIGURING"]
  /\ strange' = strange \cup IF ui.save = "older" THEN {"late_save"} ELSE {}
  /\ UNCHANGED <<page, sse>>

TextRefused == ui.save # "none" /\ Become([ui EXCEPT !.save = "none"])

\* handleGo
GoReplace ==
  /\ ui.mode = "CONFIGURING" /\ ui.selected = "element" /\ ui.kind = "replace"
  /\ ui' = Generate(ui, "replace") /\ page' = "none"
  /\ UNCHANGED <<sse, strange>>

\* handleInsertCreate
GoInsert ==
  /\ ui.mode = "CONFIGURING" /\ ui.kind = "insert" /\ ui.placeholder
  /\ ui' = Generate([ui EXCEPT !.selected = "placeholder"], "insert") /\ page' = "none"
  /\ UNCHANGED <<sse, strange>>

\* handleAccept, and what ends it.
AcceptVariant == ui.mode = "CYCLING" /\ Become([ui EXCEPT !.mode = "SAVING"])

----------------------------------------------------------------------------
(* The server, the agent and the page.                                     *)

AcceptEnds ==
  /\ sse /\ ui.mode = "SAVING"
  /\ \/ ui' = CleanupAccepted(ui) /\ page' = "none"
     \/ ui' = [ui EXCEPT !.mode = "CYCLING"] /\ UNCHANGED page
  /\ UNCHANGED <<sse, strange>>

\* handleDiscard, or the agent's error for this session.
SessionEnds ==
  /\ sse /\ ui.session # "none" /\ ui.mode # "SAVING"
  /\ ui' = Cleanup(ui) /\ page' = "none"
  /\ UNCHANGED <<sse, strange>>

\* An error that names no session, or another.
ErrorElsewhere ==
  /\ sse /\ ui' = [HideBar(ui) EXCEPT !.mode = "PICKING"]
  /\ strange' = strange \cup {"error"}
  /\ UNCHANGED <<page, sse>>

\* The wrapper, or its variants, come by hot reload; a placeholder may go with what it replaces.
PageUpdated ==
  /\ sse /\ ui.session # "none"
  /\ \E w \in {"empty", "variants"}, lost \in BOOLEAN :
       /\ page = "variants" => w = "variants"
       /\ page' = w
       /\ ui' \in VariantsObserved([ui EXCEPT !.placeholder = @ /\ ~lost], w)
  /\ UNCHANGED <<sse, strange>>

\* startScrollTracking, at every frame.
Tick ==
  /\ page = "empty" /\ \E u \in EnsureInsertPlaceholder(ui) : u # ui /\ Become(u)

\* completeSourceInjection
InjectedFromSource ==
  /\ ui.mode = "GENERATING" /\ ~ui.arrived /\ sse
  /\ ui.session = "insert" => page = "empty"
  /\ ui' = DisableInlineEdit([ui EXCEPT !.arrived = TRUE, !.mode = "CYCLING", !.selected = "element"])
  /\ page' = "variants" /\ strange' = strange \cup {"fallback"}
  /\ UNCHANGED sse

\* handleServerLost
ServerIsLost ==
  /\ sse /\ sse' = FALSE
  /\ ui' = [HideBar(ui) EXCEPT !.selected = "none", !.mode = IF ui.session = "none" THEN "IDLE" ELSE @]
  /\ UNCHANGED <<page, strange>>

\* The page is loaded again: prefs and session are stored.
LoadAgain ==
  LET u == [Start(ui.pick, ui.insert) EXCEPT !.session = ui.session, !.anchor = ui.session = "insert"]
  IN /\ sse' = TRUE
     /\ ui' \in CASE ui.session = "none" -> {u}
                  [] ui.session # "none" /\ page = "variants" ->
                       VariantsObserved([u EXCEPT !.mode = "GENERATING"], page)
                  [] OTHER -> EnsureInsertPlaceholder([u EXCEPT !.mode = "GENERATING", !.selected = "element"])
     /\ UNCHANGED <<page, strange>>

ModesNext ==
  \/ PointAt \/ Click \/ Escape \/ Key \/ RemoveSelection \/ Toggle
  \/ EditText \/ SaveText \/ TextSaved \/ TextRefused
  \/ GoReplace \/ GoInsert \/ AcceptVariant \/ AcceptEnds \/ SessionEnds \/ ErrorElsewhere
  \/ PageUpdated \/ Tick \/ InjectedFromSource \/ ServerIsLost \/ LoadAgain

ModesSpec == ModesInit /\ [][ModesNext]_uvars

----------------------------------------------------------------------------
(* Properties.                                                             *)

\* However editing ends (saved, cancelled, a click elsewhere, a picker switched, the server lost),
\* the page keeps no text that was neither saved nor taken back, unless a save was answered late or
\* an error sent the tab back to picking ("hideBar() restores unsaved EDITING drafts before it
\* disables inline edit", at teardownConfigureChrome).
NoDraftLeft == ui.left => strange \cap {"late_save", "error"} # {}

\* The dotted placeholder of an insert is in the page only while the insert is configured or its
\* session runs, also when the page was loaded again or updated under it, unless something of
\* Strange happened, each of which leaves it there (finalizeInsertSession, ensureInsertPlaceholder).
NoOrphanPlaceholder ==
  ui.placeholder /\ strange = {} =>
    ui.session = "insert" \/ (ui.mode = "CONFIGURING" /\ ui.kind = "insert")
=============================================================================
