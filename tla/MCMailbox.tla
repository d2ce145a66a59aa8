----------------------------- MODULE MCMailbox -----------------------------
(* Mailbox with two posters and two executors.                             *)
EXTENDS Mailbox, TLC

CONSTANTS p1, p2, e1, e2

MCPosters == {p1, p2}
MCExecutors == {e1, e2}
=============================================================================
