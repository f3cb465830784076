---------------------------- MODULE MCOpenFiles -----------------------------
(* OpenFiles for TLC: three tasks of two descriptors, one of them opened by *)
(* thread_create, and two files.                                            *)
EXTENDS OpenFiles, TLC

CONSTANTS t1, t2, t3, f1, f2

MCTasks == {t1, t2, t3}
MCFiles == {f1, f2}
MCCounts == {1, 2}
MCOffsets == {-1, 0, 1}

Symmetry == Permutations(MCTasks) \cup Permutations(MCFiles)
=============================================================================
