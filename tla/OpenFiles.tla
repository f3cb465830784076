----------------------------- MODULE OpenFiles ------------------------------
(***************************************************************************)
(* Open files: the struct files behind the threads' fd_tables, through     *)
(* open, close, read, write and lseek64 of the devices (dev_uart.c,        *)
(* dev_framebuffer.c) and the archive (fs_initramfs.c), and through        *)
(* thread_create, fork, exit and kill_zombies.  What tmpfs files hold is   *)
(* TmpfsFile's; their open and close are those of the archive.             *)
(*                                                                         *)
(* A thread is the memory of its ThreadTask.  sys_fork never writes the    *)
(* child's fd_table: what was in the memory before is there, which is the  *)
(* table of a task that was freed, zeros in memory not used before, or     *)
(* anything at all (Wild) if it was used for something else in between.    *)
(* The entry of a file that is closed is cleared after the close: that of  *)
(* a thread killed in between is left with freed memory, Wild as well.     *)
(* Nothing is said about calls through a Wild or a NULL entry.             *)
(***************************************************************************)
EXTENDS Integers, FiniteSets, FiniteSetsExt

CONSTANTS
    Tasks,          \* memory for ThreadTasks
    Files,          \* memory for struct files
    THREAD_MAX_FD,  \* 16 in sched.h
    StdFds,         \* the descriptors thread_create opens: 3
    ArchiveSize,    \* bytes of the archive's file
    Counts, Offsets,
    MaxPos          \* bound on positions

Fds == 0 .. THREAD_MAX_FD - 1
NULL == "NULL"
Wild == "Wild"

ASSUME OpenFilesAssumption ==
    /\ {THREAD_MAX_FD, ArchiveSize, MaxPos} \subseteq Nat
    /\ StdFds \in 0 .. THREAD_MAX_FD
    /\ Counts \subseteq Nat \ {0} /\ Offsets \subseteq Int
    /\ {NULL, Wild} \cap Files = {}

Kinds == {"uart", "framebuffer", "initramfs"}

VARIABLES
    task,       \* "unused", "live", "exited" or "freed"
    fd_table,   \* ThreadTask.fd_table, also of tasks that are not live
    closing,    \* {fd} if the thread has closed fd's file and not yet cleared fd
    kind,       \* struct file.f_ops, "free" for memory not allocated
    f_pos       \* struct file.f_pos

vars == <<task, fd_table, closing, kind, f_pos>>

Empty == [fd \in Fds |-> NULL]

Live == {t \in Tasks : task[t] = "live"}

\* Threads that are inside of no close
Ready == {t \in Live : closing[t] = {}}

Free == {f \in Files : kind[f] = "free"}

Init ==
    /\ task = [t \in Tasks |-> "unused"]
    /\ fd_table = [t \in Tasks |-> Empty]
    /\ closing = [t \in Tasks |-> {}]
    /\ kind = [f \in Files |-> "free"]
    /\ f_pos = [f \in Files |-> 0]

-----------------------------------------------------------------------------
\* The outcomes of opening n files: distinct new struct files, or NULL without
\* memory.  (For a device, vfs_open allocates one more that dev_uart_open and
\* dev_framebuffer_open put their own in the place of; nobody has it then.)
Opened(n) ==
    {new \in [0 .. n - 1 -> Free \cup {NULL}] :
        \A a, b \in 0 .. n - 1 : new[a] = new[b] => a = b \/ new[a] = NULL}

\* The struct files of these are set up
SetUp(files, k) ==
    /\ kind' = [f \in Files |-> IF f \in files THEN k ELSE kind[f]]
    /\ f_pos' = [f \in Files |-> IF f \in files THEN 0 ELSE f_pos[f]]

dev_uart_open(files) == SetUp(files, "uart")

dev_framebuffer_open(files) == SetUp(files, "framebuffer")

initramfs_open(files) == SetUp(files, "initramfs")

\* thread_create: stdin, stdout and stderr are three files of the UART
thread_create(t) ==
    \E new \in Opened(StdFds) :
        /\ task[t] \in {"unused", "freed"}
        /\ task' = [task EXCEPT ![t] = "live"]
        /\ fd_table' = [fd_table EXCEPT ![t] =
                           [fd \in Fds |-> IF fd < StdFds THEN new[fd] ELSE NULL]]
        /\ dev_uart_open({new[k] : k \in 0 .. StdFds - 1})
        /\ UNCHANGED closing

\* (mutant: the child gets a copy of its parent's table)
Bug_sys_fork(t) ==
    \E child \in Tasks :
        /\ t \in Ready /\ task[child] \in {"unused", "freed"}
        /\ task' = [task EXCEPT ![child] = "live"]
        /\ fd_table' = [fd_table EXCEPT ![child] = fd_table[t]]
        /\ UNCHANGED <<closing, kind, f_pos>>

\* sys_fork: the child's table is what its memory holds
sys_fork(t) ==
    \E child \in Tasks : \E table \in {fd_table[child], [fd \in Fds |-> Wild]} :
        /\ t \in Ready /\ task[child] \in {"unused", "freed"}
        /\ task' = [task EXCEPT ![child] = "live"]
        /\ fd_table' = [fd_table EXCEPT ![child] = table]
        /\ UNCHANGED <<closing, kind, f_pos>>

\* A thread exits or is killed, also inside of a close
_exit(t) ==
    /\ t \in Live
    /\ task' = [task EXCEPT ![t] = "exited"]
    /\ fd_table' = [fd_table EXCEPT ![t] =
                       [fd \in Fds |-> IF fd \in closing[t] THEN Wild ELSE @[fd]]]
    /\ closing' = [closing EXCEPT ![t] = {}]
    /\ UNCHANGED <<kind, f_pos>>

\* (mutant: the files are closed on the way)
Bug_kill_zombies(t) ==
    /\ task[t] = "exited"
    /\ task' = [task EXCEPT ![t] = "freed"]
    /\ kind' = [f \in Files |-> IF \E fd \in Fds : fd_table[t][fd] = f
                                THEN "free" ELSE kind[f]]
    /\ UNCHANGED <<fd_table, closing, f_pos>>

\* kill_zombies frees the task and its stacks, and closes nothing
kill_zombies(t) ==
    /\ task[t] = "exited"
    /\ task' = [task EXCEPT ![t] = "freed"]
    /\ UNCHANGED <<fd_table, closing, kind, f_pos>>

-----------------------------------------------------------------------------
\* The first free descriptor; without memory it stays free
sys_open(t) ==
    \E new \in Opened(1) :
        LET free == {fd \in Fds : fd_table[t][fd] = NULL}
        IN  /\ t \in Ready /\ free # {}
            /\ fd_table' = [fd_table EXCEPT ![t][Min(free)] = new[0]]
            /\ \/ dev_uart_open({new[0]})
               \/ dev_framebuffer_open({new[0]})
               \/ initramfs_open({new[0]})
            /\ UNCHANGED <<task, closing>>

\* A device's close frees the struct file
dev_uart_close(f) ==
    /\ kind' = [kind EXCEPT ![f] = "free"]
    /\ UNCHANGED f_pos

dev_framebuffer_close(f) == dev_uart_close(f)

\* That of a regular file clears it and leaves it allocated
initramfs_close(f) ==
    /\ kind' = [kind EXCEPT ![f] = "closed"]
    /\ f_pos' = [f_pos EXCEPT ![f] = 0]

vfs_close(f) ==
    \/ kind[f] = "uart" /\ dev_uart_close(f)
    \/ kind[f] = "framebuffer" /\ dev_framebuffer_close(f)
    \/ kind[f] = "initramfs" /\ initramfs_close(f)

\* sys_close; of a descriptor that is not open it changes nothing
sys_close(t) ==
    \E fd \in Fds :
        /\ t \in Ready /\ fd_table[t][fd] \in Files
        /\ vfs_close(fd_table[t][fd])
        /\ closing' = [closing EXCEPT ![t] = {fd}]
        /\ UNCHANGED <<task, fd_table>>

\* The descriptor is cleared once its file is closed
ClearFd(t) ==
    /\ t \in Live /\ closing[t] # {}
    /\ fd_table' = [fd_table EXCEPT ![t] =
                       [fd \in Fds |-> IF fd \in closing[t] THEN NULL ELSE @[fd]]]
    /\ closing' = [closing EXCEPT ![t] = {}]
    /\ UNCHANGED <<task, kind, f_pos>>

\* A call moves the position of the file behind a descriptor.  A negative
\* position is refused.
MoveTo(f, pos) ==
    /\ pos \in 0 .. MaxPos
    /\ f_pos' = [f_pos EXCEPT ![f] = pos]
    /\ UNCHANGED <<task, fd_table, closing, kind>>

dev_uart_write(f, len) == MoveTo(f, f_pos[f] + len)

dev_framebuffer_write(f, len) == MoveTo(f, f_pos[f] + len)

\* The archive is read-only
sys_write(t) ==
    \E fd \in Fds, len \in Counts :
        LET f == fd_table[t][fd]
        IN  /\ t \in Ready /\ f \in Files
            /\ \/ kind[f] = "uart" /\ dev_uart_write(f, len)
               \/ kind[f] = "framebuffer" /\ dev_framebuffer_write(f, len)

\* Stops at a NUL
dev_uart_read(f, len) == \E bytes_read \in 0 .. len : MoveTo(f, f_pos[f] + bytes_read)

\* Stops at the end of the file
initramfs_read(f, len) ==
    /\ f_pos[f] < ArchiveSize
    /\ MoveTo(f, Min({f_pos[f] + len, ArchiveSize}))

\* The framebuffer cannot be read
sys_read(t) ==
    \E fd \in Fds, len \in Counts :
        LET f == fd_table[t][fd]
        IN  /\ t \in Ready /\ f \in Files
            /\ \/ kind[f] = "uart" /\ dev_uart_read(f, len)
               \/ kind[f] = "initramfs" /\ initramfs_read(f, len)

\* SEEK_SET and SEEK_CUR; SEEK_END stays where it is
dev_uart_lseek64(f, offset) == \E base \in {0, f_pos[f]} : MoveTo(f, base + offset)

dev_framebuffer_lseek64(f, offset) == dev_uart_lseek64(f, offset)

initramfs_lseek64(f, offset) ==
    \E base \in {0, f_pos[f], ArchiveSize} : MoveTo(f, base + offset)

sys_lseek64(t) ==
    \E fd \in Fds, offset \in Offsets :
        LET f == fd_table[t][fd]
        IN  /\ t \in Ready /\ f \in Files
            /\ \/ kind[f] = "uart" /\ dev_uart_lseek64(f, offset)
               \/ kind[f] = "framebuffer" /\ dev_framebuffer_lseek64(f, offset)
               \/ kind[f] = "initramfs" /\ initramfs_lseek64(f, offset)

Next ==
    \E t \in Tasks :
        \/ thread_create(t) \/ sys_fork(t) \/ _exit(t) \/ kill_zombies(t)
        \/ sys_open(t) \/ sys_close(t) \/ ClearFd(t)
        \/ sys_write(t) \/ sys_read(t) \/ sys_lseek64(t)

Spec == Init /\ [][Next]_vars

-----------------------------------------------------------------------------
\* All but those whose file is closed already
Descriptors == {d \in Tasks \X Fds : d[2] \notin closing[d[1]]}

FileOf(d) == fd_table[d[1]][d[2]]

\* Type correctness of the tasks, their tables and the files.
TypeOK ==
    /\ task \in [Tasks -> {"unused", "live", "exited", "freed"}]
    /\ fd_table \in [Tasks -> [Fds -> Files \cup {NULL, Wild}]]
    /\ closing \in [Tasks -> SUBSET Fds]
    /\ \A t \in Tasks : closing[t] # {} => t \in Live
    /\ kind \in [Files -> Kinds \cup {"free", "closed"}]
    /\ f_pos \in [Files -> 0 .. MaxPos]

\* No file has two descriptors and none is closed behind a descriptor's back,
\* although forked threads start with what their memory holds: a table of a
\* freed thread in it is one of files that were never closed and that nobody
\* else has.  (But for the descriptor of a thread killed inside of sys_close:
\* whoever gets that has a pointer to freed memory, which is Wild here.)
FilesOwned ==
    /\ TypeOK
    /\ \A d \in Descriptors : FileOf(d) \in Files => kind[FileOf(d)] \in Kinds
    /\ \A d, e \in Descriptors :
          (d # e /\ FileOf(d) \in Files) => FileOf(d) # FileOf(e)

\* A call of one thread moves only the position of its own descriptor: what any
\* other descriptor that stays open reads next stays the same.
PositionsApart ==
    [][LET moved == {d \in Descriptors \cap Descriptors' :
                        /\ FileOf(d) \in Files /\ FileOf(d)' = FileOf(d)
                        /\ f_pos[FileOf(d)]' # f_pos[FileOf(d)]}
       IN  Cardinality(moved) <= 1]_vars
=============================================================================
