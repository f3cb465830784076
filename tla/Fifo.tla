------------------------------- MODULE Fifo --------------------------------
(***************************************************************************)
(* What a ring buffer promises: a bounded first-in first-out queue.  One   *)
(* put may add two elements (uart_async_putc turns '\r' into "\r\n").      *)
(***************************************************************************)
EXTENDS Integers, Sequences

CONSTANTS Elems, Capacity

VARIABLE queue

Init == queue = <<>>

Put ==
    \E s \in {<<c>> : c \in Elems} \cup (Elems \X Elems) :
        /\ Len(queue) + Len(s) <= Capacity
        /\ queue' = queue \o s

Get ==
    /\ queue # <<>>
    /\ queue' = Tail(queue)

Spec == Init /\ [][Put \/ Get]_queue
=============================================================================
