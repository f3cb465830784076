----------------------------- MODULE TmpfsFile ------------------------------
(***************************************************************************)
(* What a tmpfs file holds: tmpfs_open, tmpfs_close, tmpfs_write,          *)
(* tmpfs_read and tmpfs_lseek64 on one node that several handles may have  *)
(* open, as the system calls of syscall.c use them.  The buffer grows by   *)
(* doubling; what alloc returns is not cleared, so bytes that were never   *)
(* written are Junk.  A call is one step (Vfs and Kmem look inside calls). *)
(* The count of a read or write is the program's, unchecked, and is added  *)
(* to the position in a size_t: when that wraps, memcpy is handed the      *)
(* count, runs through memory, and behaviours end (runaway).               *)
(***************************************************************************)
EXTENDS Integers, SequencesExt

CONSTANTS
    Handles,            \* the open file descriptors' struct file
    Bytes, Junk,
    Buffers,            \* what programs write
    Counts,             \* how much they read
    Offsets,            \* what they pass to lseek64
    DEFAULT_FILE_SIZE,  \* 4096 in fs_vfs.h
    SIZE_MAX,           \* the largest size_t
    MaxPos              \* bound on positions

ASSUME TmpfsAssumption ==
    /\ Buffers \subseteq Seq(Bytes) /\ <<>> \notin Buffers /\ Junk \notin Bytes
    /\ Counts \subseteq 0 .. SIZE_MAX /\ Offsets \subseteq Int
    /\ DEFAULT_FILE_SIZE \in Nat \ {0}
    /\ SIZE_MAX \in Nat /\ MaxPos \in 0 .. SIZE_MAX

VARIABLES
    data,       \* tmpfs_node.data, a sequence of capacity bytes
    size,       \* tmpfs_node.size
    f_pos,      \* file.f_pos
    opened,     \* the handles with a vnode
    got,        \* what the last read gave
    runaway     \* has a memcpy been handed a count that wrapped?

vars == <<data, size, f_pos, opened, got, runaway>>

capacity == Len(data)

Fresh(n) == [i \in 1 .. n |-> Junk]

\* tmpfs_create_internal_node of a file
Init ==
    /\ data = Fresh(DEFAULT_FILE_SIZE)
    /\ size = 0
    /\ f_pos = [h \in Handles |-> 0]
    /\ opened = {}
    /\ got = <<>>
    /\ runaway = FALSE

tmpfs_open(h) ==
    /\ h \notin opened
    /\ opened' = opened \cup {h}
    /\ f_pos' = [f_pos EXCEPT ![h] = 0]
    /\ UNCHANGED <<data, size, got, runaway>>

tmpfs_close(h) ==
    /\ h \in opened
    /\ opened' = opened \ {h}
    /\ f_pos' = [f_pos EXCEPT ![h] = 0]
    /\ UNCHANGED <<data, size, got, runaway>>

\* memcpy with a count that goes past the end of all memory
RunAway == runaway' = TRUE /\ UNCHANGED <<data, size, f_pos, opened, got>>

\* (mutant: the buffer is doubled once)
Bug_NewCapacity(required) == IF required <= capacity THEN capacity ELSE 2 * capacity

\* The capacity, doubled until it is enough
NewCapacity(required) ==
    capacity * 2 ^ Min({k \in 0 .. required : capacity * 2 ^ k >= required})

\* (mutant: nothing is copied into the new buffer)
Bug_Grown(n) == IF n > capacity THEN Fresh(n) ELSE data

\* The buffer a write of the given capacity goes to: the first size bytes are
\* copied into a new one
Grown(n) ==
    IF n > capacity THEN SubSeq(data, 1, size) \o Fresh(n - size) ELSE data

\* A failed allocation leaves everything as it is
tmpfs_write(h, buf) ==
    LET to == f_pos[h] + Len(buf)
        buffer == Grown(NewCapacity(to))
    IN  /\ data' = [i \in DOMAIN buffer |->
              IF i \in f_pos[h] + 1 .. to THEN buf[i - f_pos[h]] ELSE buffer[i]]
        /\ f_pos' = [f_pos EXCEPT ![h] = to]
        /\ size' = IF to > size THEN to ELSE size
        /\ UNCHANGED <<opened, got, runaway>>

\* The program passes a buffer of its own and its length, or a count that
\* wraps: whatever the buffer grows to, memcpy does not stop at its end.
sys_write(h) ==
    /\ h \in opened
    /\ \/ \E buf \in Buffers : f_pos[h] + Len(buf) <= MaxPos /\ tmpfs_write(h, buf)
       \/ \E count \in Counts : f_pos[h] + count > SIZE_MAX /\ RunAway

\* How much is read from a position before the end: the count, unless the
\* size_t sum says that it goes past the end
Readable(from, count) ==
    IF (from + count) % (SIZE_MAX + 1) > size THEN size - from ELSE count

\* At or past the end nothing is read
tmpfs_read(h, count) ==
    LET n == Readable(f_pos[h], count)
    IN  /\ f_pos[h] < size
        /\ \/ /\ f_pos[h] + n <= size
              /\ got' = SubSeq(data, f_pos[h] + 1, f_pos[h] + n)
              /\ f_pos' = [f_pos EXCEPT ![h] = @ + n]
              /\ UNCHANGED <<data, size, opened, runaway>>
           \/ f_pos[h] + n > size /\ RunAway

sys_read(h) == \E count \in Counts : h \in opened /\ tmpfs_read(h, count)

\* A negative position is refused, one past the end is not
tmpfs_lseek64(h, offset, base) ==
    /\ base + offset >= 0
    /\ f_pos' = [f_pos EXCEPT ![h] = base + offset]
    /\ UNCHANGED <<data, size, opened, got, runaway>>

\* SEEK_SET, SEEK_CUR and SEEK_END
sys_lseek64(h) ==
    \E offset \in Offsets, base \in {0, f_pos[h], size} :
        /\ h \in opened /\ base + offset <= MaxPos
        /\ tmpfs_lseek64(h, offset, base)

Next ==
    /\ ~runaway
    /\ \E h \in Handles :
          \/ tmpfs_open(h) \/ tmpfs_close(h)
          \/ sys_write(h) \/ sys_read(h) \/ sys_lseek64(h)

Spec == Init /\ [][Next]_vars

-----------------------------------------------------------------------------
\* Type correctness of the node and its handles.
TypeOK ==
    /\ data \in Seq(Bytes \cup {Junk})
    /\ size \in 0 .. MaxPos
    /\ f_pos \in [Handles -> 0 .. MaxPos]
    /\ opened \subseteq Handles
    /\ got \in Seq(Bytes \cup {Junk})
    /\ runaway \in BOOLEAN

\* The state is well typed, the buffer always holds the whole file and is a
\* doubling of the default size: no write of any handle runs past its end,
\* wherever the handle stands, unless its count wraps around size_t.
FitsBuffer ==
    /\ TypeOK
    /\ size <= capacity
    /\ \E k \in 0 .. MaxPos : capacity = DEFAULT_FILE_SIZE * 2 ^ k

\* The node implements a file: what one handle writes is what any handle
\* reads, and a read never goes past the end, across seeks and reallocations of
\* the buffer, until a call's position and count wrap around size_t.
File == INSTANCE ByteFile WITH content <- SubSeq(data, 1, size), pos <- f_pos

Implements == File!Spec
=============================================================================
