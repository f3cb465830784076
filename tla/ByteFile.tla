------------------------------ MODULE ByteFile ------------------------------
(***************************************************************************)
(* What a regular file promises: a sequence of bytes and, for each handle, *)
(* a position.  Nothing is promised of bytes that were never written.      *)
(***************************************************************************)
EXTENDS Integers, Sequences

CONSTANTS Handles, Buffers, MaxPos

VARIABLES content, pos, got

vars == <<content, pos, got>>

Init == content = <<>> /\ pos = [h \in Handles |-> 0] /\ got = <<>>

\* The bytes go where the handle stands; the others stay what they are
Write(h) ==
    \E buf \in Buffers :
        LET from == pos[h]
            to == from + Len(buf)
        IN  /\ Len(content') = IF to > Len(content) THEN to ELSE Len(content)
            /\ \A i \in DOMAIN content' :
                  /\ i \in from + 1 .. to => content'[i] = buf[i - from]
                  /\ (i \in DOMAIN content /\ i \notin from + 1 .. to) =>
                        content'[i] = content[i]
            /\ pos' = [pos EXCEPT ![h] = to]
            /\ got' = got

\* A read gives the bytes from the handle's position to the end at most
Read(h) ==
    LET end == pos'[h]
    IN  /\ pos[h] <= end /\ end <= Len(content)
        /\ pos' = [pos EXCEPT ![h] = end]
        /\ got' = SubSeq(content, pos[h] + 1, end)
        /\ content' = content

Seek(h) ==
    /\ \E p \in 0 .. MaxPos : pos' = [pos EXCEPT ![h] = p]
    /\ UNCHANGED <<content, got>>

Next == \E h \in Handles : Write(h) \/ Read(h) \/ Seek(h)

Spec == Init /\ [][Next]_vars
=============================================================================
