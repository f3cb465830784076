------------------------------ MODULE MCLoader ------------------------------
(* Loader for TLC: bytes of three values, words of two bytes. *)
EXTENDS Loader

MCMagic == <<1, 2>>

\* All short ones, and some that are longer than the FIFO
MCKernels ==
    {k \in UNION {[1 .. n -> Byte] : n \in 1 .. 4} : Total(k) \in Words}
        \cup {<<0, 1, 0, 1, 0, 1, 0>>, <<2, 1, 0, 0, 0, 0, 0, 0>>}
=============================================================================
