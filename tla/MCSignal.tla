------------------------------ MODULE MCSignal ------------------------------
(* Signal for TLC: two threads, a signal below SIGKILL. *)
EXTENDS Signal

CONSTANTS t1, t2, idle

MCThreads == {t1, t2}
MCSigs == {1, 2}
=============================================================================
