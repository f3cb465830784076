------------------------------ MODULE MCSched ------------------------------
(* Sched for TLC: the constants are given in the MCSched*.cfg files. *)
EXTENDS Sched

\* Every pid a program could have learned from fork, and one that does not exist
MCKillAll == 0 .. MaxTasks

\* The same without idle, whose pid no fork returns
MCKillUser == 1 .. MaxTasks
=============================================================================
