----------------------------- MODULE LiveDetect ------------------------------
(***************************************************************************)
(* The detect toggle: the detector's script is loaded when it is first     *)
(* wanted, and is then asked for scans by messages, whose results come     *)
(* when they come, the toggle used meanwhile.                              *)
(*                                                                         *)
(* Left out: the waivers a scan is given (LiveIgnores), the badge, and the *)
(* lock of an apply.  External: the script, as far as its messages tell.   *)
(***************************************************************************)
EXTENDS Naturals, Sequences

CONSTANTS
  MaxScans,     \* bound: scans requested
  MaxFound,     \* bound: findings of a scan
  MaxPosts      \* bound: messages before the toggle is switched off

ASSUME DetectAssumption == MaxScans \in Nat /\ MaxFound \in Nat /\ MaxPosts \in Nat

VARIABLES
  detect,       \* the tab
  script,       \* the detector
  messages,        \* messages of the window, in order
  scanning,     \* scans the detector is at
  found         \* what it found, by scan

dvars == <<detect, script, messages, scanning, found>>

Scans == 1 .. MaxScans

\* loaded, ready, pending: detectScriptLoaded, detectReady, detectPendingScan.  seq: detectScanSeq.
\* scan, awaited: activeDetectScanId, pendingDetectScanId, 0 for none.
Detect ==
  [active : BOOLEAN, loaded : BOOLEAN, ready : BOOLEAN, pending : BOOLEAN,
   seq : 0 .. MaxScans, scan : 0 .. MaxScans, awaited : 0 .. MaxScans, count : 0 .. MaxFound]

DetectTypeOK ==
  /\ detect \in Detect
  /\ script \in {"none", "loading", "failed", "runs"}
  /\ messages \in Seq([type : {"ready", "remove"}] \cup [type : {"scan"}, scan : Scans]
                   \cup [type : {"results"}, scan : Scans, count : 0 .. MaxFound])
  /\ scanning \subseteq Scans
  /\ found \in [Scans -> 0 .. MaxFound]

DetectInit ==
  /\ detect = [active |-> FALSE, loaded |-> FALSE, ready |-> FALSE, pending |-> FALSE,
               seq |-> 0, scan |-> 0, awaited |-> 0, count |-> 0]
  /\ script = "none" /\ messages = << >> /\ scanning = {}
  /\ found = [s \in Scans |-> 0]

----------------------------------------------------------------------------
\* requestDetectScan, for a tab d that has taken the messages P.
RequestDetectScan(d, P) ==
  /\ d.seq < MaxScans
  /\ detect' = [d EXCEPT !.seq = @ + 1, !.scan = d.seq + 1, !.awaited = d.seq + 1]
  /\ messages' = Append(P, [type |-> "scan", scan |-> d.seq + 1])

\* toggleDetect, loadDetectScript
SwitchOn ==
  /\ ~detect.active
  /\ LET d == [detect EXCEPT !.active = TRUE]
     IN \/ /\ ~d.loaded
           /\ detect' = [d EXCEPT !.pending = TRUE, !.loaded = TRUE] /\ script' = "loading"
           /\ UNCHANGED messages
        \/ d.loaded /\ d.ready /\ RequestDetectScan(d, messages) /\ UNCHANGED script
        \/ d.loaded /\ ~d.ready /\ detect' = [d EXCEPT !.pending = TRUE] /\ UNCHANGED <<script, messages>>
  /\ UNCHANGED <<scanning, found>>

SwitchOff ==
  /\ detect.active /\ Len(messages) < MaxPosts
  /\ detect' = [detect EXCEPT !.active = FALSE, !.scan = 0, !.awaited = 0, !.count = 0]
  /\ messages' = Append(messages, [type |-> "remove"])
  /\ UNCHANGED <<script, scanning, found>>

----------------------------------------------------------------------------
(* onDetectMessage                                                         *)

\* Mutant of OnReady: the request made before the script was ready is dropped.
OnReadyOnly ==
  /\ detect' = [detect EXCEPT !.ready = TRUE] /\ messages' = Tail(messages)
  /\ UNCHANGED <<script, scanning, found>>

OnReady ==
  /\ LET d == [detect EXCEPT !.ready = TRUE]
     IN IF d.pending /\ d.active THEN RequestDetectScan([d EXCEPT !.pending = FALSE], Tail(messages))
        ELSE detect' = d /\ messages' = Tail(messages)
  /\ UNCHANGED <<script, scanning, found>>

\* Mutant of Outdated: the result of an older scan is taken.
OutdatedIfOff(r) == ~detect.active

Outdated(r) == ~detect.active \/ (detect.scan # 0 /\ detect.scan # r.scan)

OnResults(r) ==
  /\ messages' = Tail(messages)
  /\ detect' = IF Outdated(r) THEN detect ELSE [detect EXCEPT !.count = r.count, !.awaited = 0]
  /\ UNCHANGED <<script, scanning, found>>

----------------------------------------------------------------------------
(* The script.                                                             *)

ScriptComes ==
  /\ script = "loading"
  /\ \/ script' = "runs" /\ messages' = Append(messages, [type |-> "ready"])
     \/ script' = "failed" /\ UNCHANGED messages
  /\ UNCHANGED <<detect, scanning, found>>

\* A scan is begun; one under way may go on after the overlays are removed.
OnCommand(c) ==
  /\ messages' = Tail(messages)
  /\ CASE c.type = "scan" -> scanning' = scanning \cup {c.scan}
       [] OTHER -> scanning' \in SUBSET scanning
  /\ UNCHANGED <<detect, script, found>>

ScanEnds(s) ==
  /\ s \in scanning /\ scanning' = scanning \ {s}
  /\ \E n \in 0 .. MaxFound :
       found' = [found EXCEPT ![s] = n] /\ messages' = Append(messages, [type |-> "results", scan |-> s, count |-> n])
  /\ UNCHANGED <<detect, script>>

Received ==
  /\ messages # << >>
  /\ LET m == Head(messages)
     IN CASE m.type = "ready" -> OnReady
          [] m.type = "results" -> OnResults(m)
          [] m.type \in {"scan", "remove"} -> OnCommand(m)

DetectNext ==
  \/ SwitchOn \/ SwitchOff \/ ScriptComes \/ Received
  \/ \E s \in scanning : ScanEnds(s)

DetectSpec == DetectInit /\ [][DetectNext]_dvars

----------------------------------------------------------------------------
(* Properties.                                                             *)

\* With nothing on its way, the count shown is what the scan made for this activation found, and
\* there was such a scan if the script runs, whether the toggle was used before the script was
\* there, or while an older scan was under way; switched off, it shows nothing (toggleDetect,
\* onDetectMessage).
CountIsOfThisScan ==
  /\ ~detect.active => detect.count = 0
  /\ detect.active /\ script = "runs" /\ messages = << >> /\ scanning = {} =>
       detect.scan # 0 /\ detect.count = found[detect.scan]
=============================================================================
