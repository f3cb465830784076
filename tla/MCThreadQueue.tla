--------------------------- MODULE MCThreadQueue ----------------------------
(* ThreadQueue for TLC. *)
EXTENDS ThreadQueue
=============================================================================
