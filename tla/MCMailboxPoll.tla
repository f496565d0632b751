--------------------------- MODULE MCMailboxPoll ----------------------------
(* Small instances of MailboxPoll for TLC.                                   *)
EXTENDS MailboxPoll, TLC

CONSTANTS scheduler, pollNow, m1, m2, i1, i2

Distinct == m1 :> i1 @@ m2 :> i2
=============================================================================
