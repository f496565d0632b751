---------------------------- MODULE MCLivePanels ----------------------------
(* Small instances, for TLC, of the parts of live mode that share no state,  *)
(* and of the review pages: a behaviour steps one of them, its focus, and    *)
(* leaves the others as they began.                                          *)
EXTENDS LiveMount, LiveManualApply, LiveSweep, LiveModes, LiveSteer, LiveOverlay,
        LiveIgnores, LiveDetect, ReviewForm, ReviewLists, TLC

CONSTANTS c1, c2

VARIABLE focus

\* Calls, requests, sessions or messages: two of each, alike.
MCPair == {c1, c2}
Symmetry == Permutations(MCPair)

\* Two directories, one of them with a directory of its own name.
MCDirectories == {<< >>, <<"a">>, <<"b">>, <<"a", "a">>}

Parts == {"mount", "manual", "sweep", "modes", "steer", "overlay", "ignores", "detect", "form", "lists"}

\* What has several beginnings has one of them while it is out of focus.
PanelsInit ==
  /\ focus \in Parts
  /\ MountInit /\ ManualInit /\ SweepInit /\ ModesInit /\ SteerInit /\ OverlayInit /\ DetectInit /\ FormInit /\ ListsInit
  /\ focus = "sweep" \/ ~framework
  /\ focus = "form" \/ parts = 0
  /\ \/ focus = "ignores" /\ IgnoresInit
     \/ focus # "ignores" /\ visited = NoPage /\ waivers = {} /\ project = CHOOSE p \in Projects : TRUE

In(part) == focus = part /\ UNCHANGED focus

NotMount == UNCHANGED mountvars
NotManual == UNCHANGED mvars
NotSweep == UNCHANGED svars
NotModes == UNCHANGED uvars
NotSteer == UNCHANGED tvars
NotOverlay == UNCHANGED ovars
NotIgnores == UNCHANGED ivars
NotDetect == UNCHANGED dvars
NotForm == UNCHANGED fvars
NotLists == UNCHANGED lvars
NotBrowser == NotIgnores /\ NotDetect /\ NotForm /\ NotLists

PanelsNext ==
  \/ In("mount") /\ MountNext /\ NotManual /\ NotSweep /\ NotModes /\ NotSteer /\ NotOverlay /\ NotBrowser
  \/ In("manual") /\ ManualNext /\ NotMount /\ NotSweep /\ NotModes /\ NotSteer /\ NotOverlay /\ NotBrowser
  \/ In("sweep") /\ SweepNext /\ NotMount /\ NotManual /\ NotModes /\ NotSteer /\ NotOverlay /\ NotBrowser
  \/ In("modes") /\ ModesNext /\ NotMount /\ NotManual /\ NotSweep /\ NotSteer /\ NotOverlay /\ NotBrowser
  \/ In("steer") /\ SteerNext /\ NotMount /\ NotManual /\ NotSweep /\ NotModes /\ NotOverlay /\ NotBrowser
  \/ In("overlay") /\ OverlayNext /\ NotMount /\ NotManual /\ NotSweep /\ NotModes /\ NotSteer /\ NotBrowser
  \/ In("ignores") /\ IgnoresNext /\ NotMount /\ NotManual /\ NotSweep /\ NotModes /\ NotSteer /\ NotOverlay
     /\ NotDetect /\ NotForm /\ NotLists
  \/ In("detect") /\ DetectNext /\ NotMount /\ NotManual /\ NotSweep /\ NotModes /\ NotSteer /\ NotOverlay
     /\ NotIgnores /\ NotForm /\ NotLists
  \/ In("form") /\ FormNext /\ NotMount /\ NotManual /\ NotSweep /\ NotModes /\ NotSteer /\ NotOverlay
     /\ NotIgnores /\ NotDetect /\ NotLists
  \/ In("lists") /\ ListsNext /\ NotMount /\ NotManual /\ NotSweep /\ NotModes /\ NotSteer /\ NotOverlay
     /\ NotIgnores /\ NotDetect /\ NotForm

panelsvars ==
  <<focus, mountvars, mvars, svars, uvars, tvars, ovars, ivars, dvars, fvars, lvars>>

PanelsSpec == PanelsInit /\ [][PanelsNext]_panelsvars

\* Every part keeps to its types (the variables of live-browser.js and the fields of detail.html);
\* what is out of focus is as it began.
PanelsTypeOK ==
  CASE focus = "mount" -> MountTypeOK
    [] focus = "manual" -> ManualTypeOK
    [] focus = "sweep" -> SweepTypeOK
    [] focus = "modes" -> ModesTypeOK
    [] focus = "steer" -> SteerTypeOK
    [] focus = "overlay" -> OverlayTypeOK
    [] focus = "ignores" -> IgnoresTypeOK
    [] focus = "detect" -> DetectTypeOK
    [] focus = "form" -> FormTypeOK
    [] focus = "lists" -> ListsTypeOK
=============================================================================
