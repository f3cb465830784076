------------------------------- MODULE MCKmem -------------------------------
(* Kmem for TLC: two clients, two caches, a spare page, pages of a few chunks. *)
EXTENDS Kmem, TLC

CONSTANTS t1, t2

MCClients == {t1, t2}

Symmetry == Permutations(MCClients)
=============================================================================
