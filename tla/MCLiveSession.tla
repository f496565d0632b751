---------------------------- MODULE MCLiveSession ----------------------------
(* Small instances of LiveSession for TLC.                                   *)
EXTENDS LiveSession, TLC

CONSTANTS s1, s2, none

Symmetry == Permutations({s1, s2})
SomeFaults == {{"accept", "reply", "elsewhere"}, {"unmount", "unreadable"}, {"capture"}}
=============================================================================
