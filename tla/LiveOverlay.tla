----------------------------- MODULE LiveOverlay -----------------------------
(***************************************************************************)
(* What lies over and under the page while a session runs: the shader,     *)
(* which is built from a screenshot in steps with awaits between them, and *)
(* the lock that holds the page's scroll position.                         *)
(*                                                                         *)
(* Left out: drawing, taking the screenshot, when the request of the       *)
(* session is sent (LiveSession), and where the page scrolls to (the lock  *)
(* corrects to a target; here it only has one or not).                     *)
(***************************************************************************)
EXTENDS Naturals

CONSTANTS
  MaxCaptures,   \* bound: screenshots
  MaxEpoch       \* bound: epochs in which the server may be lost

ASSUME OverlayAssumption == MaxCaptures \in Nat /\ MaxEpoch \in Nat

VARIABLES
  omode,      \* state; PICKING stands for all that is no session
  captures,   \* how many screenshots were begun
  shots,      \* captureElementToBlob under way
  builds,     \* showShaderOverlay, suspended at createImageBitmap, each with its epoch
  shaderEpoch,
  shader,     \* shaderState: the screenshot shown, or 0
  canvas,     \* the node with the shader's id: of that screenshot, or 0
  scrollLock, \* a scroll target is held
  scrollKey,  \* sessionStorage has one
  leftOver    \* history: cleanup ended a generation, and no hideShaderOverlay ran since

overlay == <<shots, builds, shaderEpoch, shader, canvas, leftOver>>
ovars == <<omode, captures, overlay, scrollLock, scrollKey>>

Captures == 1 .. MaxCaptures

OverlayTypeOK ==
  /\ omode \in {"PICKING", "GENERATING", "CYCLING"}
  /\ captures \in 0 .. MaxCaptures
  /\ shots \subseteq Captures
  /\ builds \subseteq [shot : Captures, epoch : Nat]
  /\ shaderEpoch \in Nat
  /\ shader \in 0 .. MaxCaptures /\ canvas \in 0 .. MaxCaptures
  /\ scrollLock \in BOOLEAN /\ scrollKey \in BOOLEAN /\ leftOver \in BOOLEAN

OverlayInit ==
  /\ omode = "PICKING" /\ captures = 0 /\ shots = {} /\ builds = {} /\ shaderEpoch = 0
  /\ shader = 0 /\ canvas = 0 /\ scrollLock = FALSE /\ scrollKey = FALSE /\ leftOver = FALSE

----------------------------------------------------------------------------
\* hideShaderOverlay, removeStrayShaderNode
HideShader ==
  /\ shaderEpoch' = shaderEpoch + 1 /\ shader' = 0 /\ canvas' = 0 /\ leftOver' = FALSE

\* captureAndEmit, and the end of resumeSession.
BeginCapture ==
  /\ captures < MaxCaptures
  /\ captures' = captures + 1 /\ shots' = shots \cup {captures + 1}

\* handleGo, handleInsertCreate: startScrollLock begins by stopping the old lock.
OverlayGo ==
  /\ omode = "PICKING" /\ omode' = "GENERATING"
  /\ BeginCapture /\ scrollLock' = TRUE /\ scrollKey' = TRUE
  /\ UNCHANGED <<builds, shaderEpoch, shader, canvas, leftOver>>

\* The screenshot c is there: its session is not asked after, only the state.  The node is put in
\* the page, and is the overlay itself without WebGL; the shader may not compile.
Captured(c) ==
  /\ c \in shots /\ shots' = shots \ {c}
  /\ IF omode # "GENERATING" THEN UNCHANGED <<builds, shaderEpoch, shader, canvas, leftOver>>
     ELSE \/ UNCHANGED <<builds, shaderEpoch, shader, canvas, leftOver>>
          \/ HideShader /\ UNCHANGED builds
          \/ /\ shaderEpoch' = shaderEpoch + 1 /\ leftOver' = FALSE
             /\ canvas' = c /\ shader' = c /\ UNCHANGED builds
          \/ /\ shaderEpoch' = shaderEpoch + 1 /\ leftOver' = FALSE
             /\ canvas' = c /\ shader' = 0
             /\ builds' = builds \cup {[shot |-> c, epoch |-> shaderEpoch + 1]}
  /\ UNCHANGED <<omode, captures, scrollLock, scrollKey>>

\* Mutant of Abandoned: a build does not ask whether it was overtaken.
NeverAbandoned(b) == FALSE

Abandoned(b) == b.epoch # shaderEpoch

\* The bitmap is decoded, or cannot be and the screenshot itself is shown.
Decoded(b) ==
  /\ b \in builds /\ builds' = builds \ {b}
  /\ IF Abandoned(b)
     THEN canvas' = (IF canvas = b.shot THEN 0 ELSE canvas) /\ UNCHANGED shader
     ELSE shader' = b.shot /\ canvas' = b.shot
  /\ UNCHANGED <<omode, captures, shots, shaderEpoch, scrollLock, scrollKey, leftOver>>

\* Variants come, by whichever way.
VariantsShown ==
  /\ omode = "GENERATING" /\ omode' = "CYCLING" /\ HideShader
  /\ UNCHANGED <<captures, shots, builds, scrollLock, scrollKey>>

\* cleanup: a discard, an error, a session of another page.  It leaves the shader alone.
CleanedUp ==
  /\ omode # "PICKING" /\ omode' = "PICKING"
  /\ scrollLock' = FALSE /\ scrollKey' = FALSE
  /\ leftOver' = (leftOver \/ omode = "GENERATING")
  /\ UNCHANGED <<captures, shots, builds, shaderEpoch, shader, canvas>>

\* cleanupAcceptedSession
AcceptedAway ==
  /\ omode = "CYCLING" /\ omode' = "PICKING"
  /\ scrollLock' = FALSE /\ scrollKey' = FALSE
  /\ UNCHANGED <<captures, overlay>>

\* resetSvelteComponentSession
ResetAway ==
  /\ omode # "PICKING" /\ omode' = "PICKING" /\ HideShader /\ scrollLock' = FALSE
  /\ UNCHANGED <<captures, shots, builds, scrollKey>>

\* handleServerLost
OverlayLost ==
  /\ shaderEpoch < MaxEpoch
  /\ HideShader /\ scrollLock' = FALSE
  /\ UNCHANGED <<omode, captures, shots, builds, scrollKey>>

\* A session that was stored is resumed after a reload.
OverlayReloaded ==
  /\ shader' = 0 /\ canvas' = 0 /\ builds' = {} /\ leftOver' = FALSE
  /\ scrollLock' = (omode # "PICKING")
  /\ IF omode = "GENERATING" /\ captures < MaxCaptures
     THEN captures' = captures + 1 /\ shots' = {captures + 1}
     ELSE shots' = {} /\ UNCHANGED captures
  /\ shaderEpoch' = 0 /\ UNCHANGED <<omode, scrollKey>>

OverlayNext ==
  \/ OverlayGo \/ VariantsShown \/ CleanedUp \/ AcceptedAway \/ ResetAway \/ OverlayLost \/ OverlayReloaded
  \/ \E c \in shots : Captured(c)
  \/ \E b \in builds : Decoded(b)

OverlaySpec == OverlayInit /\ [][OverlayNext]_ovars

----------------------------------------------------------------------------
(* Properties.                                                             *)

\* A shader that is still being built when its generation ends never comes to lie over a page that
\* already cycles or picks; cleanup's own omission is set apart ("the generating loader frozen
\* over a page that already cycles", at shaderEpoch).
NoFrozenShader == shader # 0 /\ ~leftOver => omode = "GENERATING"

\* The one node of the shader belongs to what is shown or is being built, and the page's scroll
\* position is held only for a session (removeStrayShaderNode, stopScrollLock).
NothingStays ==
  /\ canvas # 0 => canvas = shader \/ \E b \in builds : b.shot = canvas
  /\ scrollLock => omode # "PICKING"
=============================================================================
