---------------------------- MODULE DeviceProofs ----------------------------
(***************************************************************************)
(* TLAPS proofs about the two models at the edge of the system.            *)
(* OpenFiles, for every number of tasks, descriptors and files:            *)
(* FilesOwned is inductive by itself.  Loader, for every size of bytes,    *)
(* words, FIFO and kernel: Flow says where each byte of the header is, and *)
(* Account what one fault of the line has done to what was read.           *)
(***************************************************************************)
EXTENDS OpenFiles, Loader, FiniteSetTheorems, SequenceTheorems, TLAPS

\* Min of a non-empty set of natural numbers is its least element.
LEMMA MinFacts ==
    ASSUME NEW T, T \subseteq Nat, T # {}
    PROVE  Min(T) \in T /\ \A k \in T : Min(T) <= k
<1>1. PICK m \in T : \A k \in T : ~(<<k, m>> \in OpToRel(<, Nat))
  BY NatLessThanWellFounded, WFMin
<1>2. \A k \in T : ~(k < m)
  BY <1>1 DEF OpToRel
<1>3. \A k \in T : m <= k
  BY <1>2
<1> QED BY <1>3 DEF Min

\* Induction on the natural numbers, for a set
LEMMA SetInduction ==
    ASSUME NEW S, 0 \in S, \A n \in Nat : n \in S => n + 1 \in S
    PROVE  Nat \subseteq S
<1> SUFFICES ASSUME Nat \ S # {} PROVE FALSE
  OBVIOUS
<1> DEFINE m == Min(Nat \ S)
<1>1. m \in Nat \ S /\ \A k \in Nat \ S : m <= k
  BY MinFacts
<1> HIDE DEF m
<1>2. m # 0 /\ m - 1 \in Nat
  BY <1>1
<1>3. m - 1 \in S
  BY <1>1, <1>2
<1> QED BY <1>1, <1>2, <1>3

-----------------------------------------------------------------------------
(* Open files                                                              *)

\* Setting up struct files that were free keeps the files well typed and lets
\* the files of all others as they are.
LEMMA SetUpFacts ==
    ASSUME FilesOwned, NEW files, NEW k \in Kinds, SetUp(files, k)
    PROVE  /\ kind' \in [Files -> Kinds \cup {"free", "closed"}]
           /\ f_pos' \in [Files -> 0 .. MaxPos]
           /\ \A f \in Files : kind'[f] = IF f \in files THEN k ELSE kind[f]
           /\ \A f \in Files \ files : f_pos'[f] = f_pos[f]
  BY OpenFilesAssumption DEF FilesOwned, TypeOK, SetUp

\* Moving the position of one open file changes nothing else.
LEMMA MoveFacts ==
    ASSUME FilesOwned, NEW f \in Files, NEW pos, MoveTo(f, pos)
    PROVE  /\ f_pos' \in [Files -> 0 .. MaxPos]
           /\ \A g \in Files \ {f} : f_pos'[g] = f_pos[g]
           /\ UNCHANGED <<task, fd_table, closing, kind>>
  BY OpenFilesAssumption DEF FilesOwned, TypeOK, MoveTo

\* read, write and lseek64 of any file move the position of the file behind one
\* descriptor of the caller.
LEMMA CallMoves ==
    ASSUME FilesOwned, NEW t \in Tasks, sys_write(t) \/ sys_read(t) \/ sys_lseek64(t)
    PROVE  \E fd \in Fds : /\ fd_table[t][fd] \in Files
                           /\ \E pos : MoveTo(fd_table[t][fd], pos)
<1>1. ASSUME sys_write(t)
      PROVE  \E fd \in Fds : /\ fd_table[t][fd] \in Files
                             /\ \E pos : MoveTo(fd_table[t][fd], pos)
  BY <1>1 DEF sys_write, dev_uart_write, dev_framebuffer_write
<1>2. ASSUME sys_read(t)
      PROVE  \E fd \in Fds : /\ fd_table[t][fd] \in Files
                             /\ \E pos : MoveTo(fd_table[t][fd], pos)
  BY <1>2 DEF sys_read, dev_uart_read, initramfs_read
<1>3. ASSUME sys_lseek64(t)
      PROVE  \E fd \in Fds : /\ fd_table[t][fd] \in Files
                             /\ \E pos : MoveTo(fd_table[t][fd], pos)
  BY <1>3 DEF sys_lseek64, dev_uart_lseek64, dev_framebuffer_lseek64, initramfs_lseek64
<1> QED BY <1>1, <1>2, <1>3

\* A new thread: its table is three new files, and nobody else has them.
LEMMA ThreadCreateInv ==
    ASSUME FilesOwned, NEW t \in Tasks, thread_create(t)
    PROVE  FilesOwned'
<1>1. PICK new \in Opened(StdFds) :
          /\ task' = [task EXCEPT ![t] = "live"]
          /\ fd_table' = [fd_table EXCEPT ![t] =
                             [fd \in Fds |-> IF fd < StdFds THEN new[fd] ELSE NULL]]
          /\ dev_uart_open({new[k] : k \in 0 .. StdFds - 1})
          /\ task[t] \in {"unused", "freed"} /\ UNCHANGED closing
  BY DEF thread_create
<1> DEFINE files == {new[k] : k \in 0 .. StdFds - 1}
<1>2. /\ new \in [0 .. StdFds - 1 -> Free \cup {NULL}]
      /\ \A a, b \in 0 .. StdFds - 1 : new[a] = new[b] => a = b \/ new[a] = NULL
  BY DEF Opened
<1>3. /\ kind' \in [Files -> Kinds \cup {"free", "closed"}]
      /\ f_pos' \in [Files -> 0 .. MaxPos]
      /\ \A f \in Files : kind'[f] = IF f \in files THEN "uart" ELSE kind[f]
  BY <1>1, SetUpFacts DEF dev_uart_open, Kinds
<1>4. \A fd \in Fds : fd < StdFds => fd \in 0 .. StdFds - 1
  BY OpenFilesAssumption DEF Fds
<1>5. \A fd \in Fds : fd_table'[t][fd] \in Files =>
          fd < StdFds /\ fd_table'[t][fd] = new[fd] /\ new[fd] \in files
  BY <1>1, <1>4, OpenFilesAssumption DEF FilesOwned, TypeOK
<1>6. \A u \in Tasks \ {t} : fd_table'[u] = fd_table[u]
  BY <1>1 DEF FilesOwned, TypeOK
<1>7. TypeOK'
  BY <1>1, <1>2, <1>3, <1>4, OpenFilesAssumption DEF FilesOwned, TypeOK, Free, Live
<1> HIDE DEF files
<1>8. \A f \in files : f \in Files => kind[f] = "free"
  BY <1>2, OpenFilesAssumption DEF files, Free
<1>9. \A d \in Descriptors : FileOf(d)' \in Files => kind'[FileOf(d)'] \in Kinds
  BY <1>3, <1>5, <1>6, <1>8 DEF FilesOwned, Descriptors, FileOf, Kinds
<1>10. \A d, e \in Descriptors : (d # e /\ FileOf(d)' \in Files) => FileOf(d)' # FileOf(e)'
  <2> SUFFICES ASSUME NEW d \in Descriptors, NEW e \in Descriptors,
                      d # e, FileOf(d)' \in Files, FileOf(d)' = FileOf(e)'
               PROVE  FALSE
    OBVIOUS
  <2>1. CASE d[1] = t /\ e[1] = t
    BY <1>2, <1>4, <1>5, <2>1, OpenFilesAssumption DEF Descriptors, FileOf
  <2>2. CASE d[1] # t /\ e[1] # t
    BY <1>6, <2>2 DEF FilesOwned, Descriptors, FileOf
  <2>3. CASE d[1] = t /\ e[1] # t
    BY <1>5, <1>6, <1>8, <2>3 DEF FilesOwned, Descriptors, FileOf, Kinds
  <2>4. CASE d[1] # t /\ e[1] = t
    BY <1>5, <1>6, <1>8, <2>4 DEF FilesOwned, Descriptors, FileOf, Kinds
  <2> QED BY <2>1, <2>2, <2>3, <2>4
<1> QED BY <1>1, <1>7, <1>9, <1>10 DEF FilesOwned, Descriptors

\* A forked thread has the table its memory held: the files in it are nobody
\* else's.
LEMMA ForkInv ==
    ASSUME FilesOwned, NEW t \in Tasks, sys_fork(t)
    PROVE  FilesOwned'
<1>1. PICK child \in Tasks : \E table \in {fd_table[child], [fd \in Fds |-> Wild]} :
          /\ task' = [task EXCEPT ![child] = "live"]
          /\ fd_table' = [fd_table EXCEPT ![child] = table]
          /\ UNCHANGED <<closing, kind, f_pos>>
  BY DEF sys_fork
<1>2. TypeOK'
  BY <1>1 DEF FilesOwned, TypeOK, Live
<1>3. \A d \in Descriptors : FileOf(d)' \in Files => FileOf(d)' = FileOf(d)
  BY <1>1, OpenFilesAssumption DEF FilesOwned, TypeOK, Descriptors, FileOf
<1> QED BY <1>1, <1>2, <1>3 DEF FilesOwned, Descriptors

\* An open puts a file nobody has into a free descriptor.
LEMMA OpenInv ==
    ASSUME FilesOwned, NEW t \in Tasks, sys_open(t)
    PROVE  FilesOwned'
<1> DEFINE free == {fd \in Fds : fd_table[t][fd] = NULL}
           fd == Min(free)
<1>1. PICK new \in Opened(1) :
          /\ free # {}
          /\ fd_table' = [fd_table EXCEPT ![t][fd] = new[0]]
          /\ \/ dev_uart_open({new[0]})
             \/ dev_framebuffer_open({new[0]})
             \/ initramfs_open({new[0]})
          /\ UNCHANGED <<task, closing>>
  BY DEF sys_open
<1>2. fd \in free
  BY <1>1, MinFacts, OpenFilesAssumption DEF Fds
<1>3. PICK k \in Kinds : SetUp({new[0]}, k)
  BY <1>1 DEF dev_uart_open, dev_framebuffer_open, initramfs_open, Kinds
<1>4. new[0] \in Free \cup {NULL}
  BY DEF Opened
<1> HIDE DEF fd
<1>5. /\ kind' \in [Files -> Kinds \cup {"free", "closed"}]
      /\ f_pos' \in [Files -> 0 .. MaxPos]
      /\ \A f \in Files : kind'[f] = IF f \in {new[0]} THEN k ELSE kind[f]
  BY <1>3, SetUpFacts
<1>6. TypeOK'
  BY <1>1, <1>2, <1>4, <1>5 DEF FilesOwned, TypeOK, Free, Live
<1>7. \A d \in Descriptors : FileOf(d)' = IF d = <<t, fd>> THEN new[0] ELSE FileOf(d)
  BY <1>1, <1>2 DEF FilesOwned, TypeOK, Descriptors, FileOf
<1>8. new[0] \in Files => kind[new[0]] \notin Kinds
  BY <1>4, OpenFilesAssumption DEF Free, Kinds
<1>9. \A d \in Descriptors : FileOf(d)' \in Files => kind'[FileOf(d)'] \in Kinds
  BY <1>5, <1>7 DEF FilesOwned
<1>10. \A d, e \in Descriptors : (d # e /\ FileOf(d)' \in Files) => FileOf(d)' # FileOf(e)'
  BY <1>7, <1>8 DEF FilesOwned
<1> QED BY <1>1, <1>6, <1>9, <1>10 DEF FilesOwned, Descriptors

\* A close takes the only descriptor of the file from its thread.
LEMMA CloseInv ==
    ASSUME FilesOwned, NEW t \in Tasks, sys_close(t)
    PROVE  FilesOwned'
<1>1. PICK fd \in Fds :
          /\ fd_table[t][fd] \in Files
          /\ t \in Ready
          /\ vfs_close(fd_table[t][fd])
          /\ closing' = [closing EXCEPT ![t] = {fd}]
          /\ UNCHANGED <<task, fd_table>>
  BY DEF sys_close
<1> DEFINE f == fd_table[t][fd]
<1>2. /\ kind' \in [Files -> Kinds \cup {"free", "closed"}]
      /\ f_pos' \in [Files -> 0 .. MaxPos]
      /\ \A g \in Files \ {f} : kind'[g] = kind[g]
  BY <1>1, OpenFilesAssumption
     DEF FilesOwned, TypeOK, vfs_close, dev_uart_close, dev_framebuffer_close, initramfs_close
<1>3. TypeOK'
  BY <1>1, <1>2 DEF FilesOwned, TypeOK, Ready, Live
<1>4. Descriptors' = Descriptors \ {<<t, fd>>}
  BY <1>1 DEF FilesOwned, TypeOK, Descriptors, Ready
<1>5. <<t, fd>> \in Descriptors /\ FileOf(<<t, fd>>) = f
  BY <1>1 DEF Descriptors, FileOf, Ready
<1> HIDE DEF f
<1>6. \A d : FileOf(d)' = FileOf(d)
  BY <1>1 DEF FileOf
<1>7. \A d \in Descriptors' : FileOf(d) \in Files => FileOf(d) # f
  BY <1>4, <1>5 DEF FilesOwned
<1>8. \A d \in Descriptors' : FileOf(d)' \in Files => kind'[FileOf(d)'] \in Kinds
  BY <1>2, <1>4, <1>6, <1>7 DEF FilesOwned
<1>9. \A d, e \in Descriptors' : (d # e /\ FileOf(d)' \in Files) => FileOf(d)' # FileOf(e)'
  BY <1>4, <1>6 DEF FilesOwned
<1> QED BY <1>3, <1>8, <1>9 DEF FilesOwned

\* What ends a close, the thread itself or another that kills it, leaves no
\* file in its descriptor.
LEMMA ClearInv ==
    ASSUME FilesOwned, NEW t \in Tasks, ClearFd(t) \/ _exit(t)
    PROVE  FilesOwned'
<1>1. PICK v \in {NULL, Wild} :
          /\ fd_table' = [fd_table EXCEPT ![t] =
                             [fd \in Fds |-> IF fd \in closing[t] THEN v ELSE @[fd]]]
          /\ closing' = [closing EXCEPT ![t] = {}]
          /\ UNCHANGED kind
  BY DEF ClearFd, _exit
<1>2. TypeOK'
  BY <1>1 DEF FilesOwned, TypeOK, ClearFd, _exit, Live
<1>3. \A d \in Descriptors' :
          FileOf(d)' \in Files => d \in Descriptors /\ FileOf(d)' = FileOf(d)
  BY <1>1, OpenFilesAssumption DEF FilesOwned, TypeOK, Descriptors, FileOf
<1>4. \A d \in Descriptors' : FileOf(d)' \in Files => kind'[FileOf(d)'] \in Kinds
  BY <1>1, <1>3 DEF FilesOwned
<1>5. \A d, e \in Descriptors' : (d # e /\ FileOf(d)' \in Files) => FileOf(d)' # FileOf(e)'
  BY <1>3 DEF FilesOwned
<1> QED BY <1>2, <1>4, <1>5 DEF FilesOwned

\* FilesOwned is inductive.
LEMMA FilesOwnedNext == FilesOwned /\ [Next]_vars => FilesOwned'
<1> SUFFICES ASSUME FilesOwned, [Next]_vars PROVE FilesOwned'
  OBVIOUS
<1>1. ASSUME NEW t \in Tasks, thread_create(t) PROVE FilesOwned'
  BY <1>1, ThreadCreateInv
<1>2. ASSUME NEW t \in Tasks, sys_fork(t) PROVE FilesOwned'
  BY <1>2, ForkInv
<1>3. ASSUME NEW t \in Tasks, kill_zombies(t) PROVE FilesOwned'
  <2>1. TypeOK' /\ UNCHANGED <<fd_table, closing, kind>>
    BY <1>3 DEF FilesOwned, TypeOK, kill_zombies, Live
  <2> QED BY <2>1 DEF FilesOwned, Descriptors, FileOf
<1>4. ASSUME NEW t \in Tasks, sys_open(t) PROVE FilesOwned'
  BY <1>4, OpenInv
<1>5. ASSUME NEW t \in Tasks, sys_close(t) PROVE FilesOwned'
  BY <1>5, CloseInv
<1>6. ASSUME NEW t \in Tasks, sys_write(t) \/ sys_read(t) \/ sys_lseek64(t)
      PROVE  FilesOwned'
  <2>1. f_pos' \in [Files -> 0 .. MaxPos] /\ UNCHANGED <<task, fd_table, closing, kind>>
    BY <1>6, CallMoves, MoveFacts
  <2> QED BY <2>1 DEF FilesOwned, TypeOK, Descriptors, FileOf, Live
<1>7. ASSUME NEW t \in Tasks, ClearFd(t) \/ _exit(t) PROVE FilesOwned'
  BY <1>7, ClearInv
<1>8. CASE UNCHANGED vars
  BY <1>8 DEF FilesOwned, TypeOK, Descriptors, FileOf, Live, vars
<1> QED BY <1>1, <1>2, <1>3, <1>4, <1>5, <1>6, <1>7, <1>8 DEF Next

\* No struct file has two descriptors and none is closed behind a descriptor's
\* back, for any number of threads that are created, forked with the table of
\* whatever their memory was before, exit and are freed.
THEOREM OpenFilesOwned == Spec => []FilesOwned
<1>1. Init => FilesOwned
  BY OpenFilesAssumption
     DEF Init, FilesOwned, TypeOK, Empty, Descriptors, FileOf, Kinds
<1> QED BY <1>1, FilesOwnedNext, PTL DEF Spec

\* The descriptors that stay open and whose position a step moves: at most one.
LEMMA MovedAtMostOne ==
    ASSUME FilesOwned, NEW moved, moved \subseteq Descriptors, NEW f,
           \A d \in moved : FileOf(d) \in Files /\ FileOf(d) = f
    PROVE  Cardinality(moved) <= 1
<1>1. CASE moved = {}
  BY <1>1, FS_EmptySet
<1>2. CASE moved # {}
  <2>1. PICK d \in moved : TRUE
    BY <1>2
  <2>2. moved = {d}
    BY <2>1 DEF FilesOwned
  <2> QED BY <2>2, FS_Singleton
<1> QED BY <1>1, <1>2

\* No call moves the position behind a descriptor of another thread, or another
\* one of the same thread.
THEOREM OpenFilesPositionsApart == Spec => PositionsApart
<1> DEFINE moved == {d \in Descriptors \cap Descriptors' :
                        /\ FileOf(d) \in Files /\ FileOf(d)' = FileOf(d)
                        /\ f_pos[FileOf(d)]' # f_pos[FileOf(d)]}
<1>1. FilesOwned /\ [Next]_vars => [Cardinality(moved) <= 1]_vars
  <2> SUFFICES ASSUME FilesOwned, Next PROVE Cardinality(moved) <= 1
    OBVIOUS
  <2>1. ASSUME moved = {} PROVE Cardinality(moved) <= 1
    BY <2>1, FS_EmptySet
  <2>2. ASSUME NEW files, NEW k \in Kinds, SetUp(files, k),
               \A f \in files : f \in Files => kind[f] = "free"
        PROVE  moved = {}
    BY <2>2, SetUpFacts DEF FilesOwned, FileOf, Kinds
  <2>3. ASSUME NEW t \in Tasks, thread_create(t) PROVE Cardinality(moved) <= 1
    <3>1. PICK new \in Opened(StdFds) :
              SetUp({new[k] : k \in 0 .. StdFds - 1}, "uart")
      BY <2>3 DEF thread_create, dev_uart_open
    <3>2. \A f \in {new[k] : k \in 0 .. StdFds - 1} : f \in Files => kind[f] = "free"
      BY OpenFilesAssumption DEF Opened, Free
    <3> QED BY <2>1, <2>2, <3>1, <3>2 DEF Kinds
  <2>4. ASSUME NEW t \in Tasks, sys_open(t) PROVE Cardinality(moved) <= 1
    <3>1. PICK new \in Opened(1), k \in Kinds : SetUp({new[0]}, k)
      BY <2>4 DEF sys_open, dev_uart_open, dev_framebuffer_open, initramfs_open, Kinds
    <3>2. \A f \in {new[0]} : f \in Files => kind[f] = "free"
      BY OpenFilesAssumption DEF Opened, Free
    <3> QED BY <2>1, <2>2, <3>1, <3>2
  <2>5. ASSUME NEW t \in Tasks,
               sys_fork(t) \/ _exit(t) \/ kill_zombies(t) \/ ClearFd(t)
        PROVE  Cardinality(moved) <= 1
    <3>1. f_pos' = f_pos
      BY <2>5 DEF sys_fork, _exit, kill_zombies, ClearFd
    <3>2. moved = {}
      BY <3>1
    <3> QED BY <2>1, <3>2
  <2>6. ASSUME NEW t \in Tasks, sys_close(t) PROVE Cardinality(moved) <= 1
    <3>1. PICK fd \in Fds : fd_table[t][fd] \in Files /\ vfs_close(fd_table[t][fd])
      BY <2>6 DEF sys_close
    <3>2. \A g \in Files \ {fd_table[t][fd]} : f_pos'[g] = f_pos[g]
      BY <3>1 DEF FilesOwned, TypeOK, vfs_close, dev_uart_close, dev_framebuffer_close,
                  initramfs_close
    <3>3. \A d \in moved : FileOf(d) \in Files /\ FileOf(d) = fd_table[t][fd]
      BY <3>2
    <3> QED BY <3>3, MovedAtMostOne
  <2>7. ASSUME NEW t \in Tasks, sys_write(t) \/ sys_read(t) \/ sys_lseek64(t)
        PROVE  Cardinality(moved) <= 1
    <3>1. PICK fd \in Fds : /\ fd_table[t][fd] \in Files
                            /\ \E pos : MoveTo(fd_table[t][fd], pos)
      BY <2>7, CallMoves
    <3>2. \A g \in Files \ {fd_table[t][fd]} : f_pos'[g] = f_pos[g]
      BY <3>1, MoveFacts
    <3>3. \A d \in moved : FileOf(d) \in Files /\ FileOf(d) = fd_table[t][fd]
      BY <3>2
    <3> QED BY <3>3, MovedAtMostOne
  <2> QED BY <2>3, <2>4, <2>5, <2>6, <2>7 DEF Next
<1> QED BY <1>1, OpenFilesOwned, PTL DEF Spec, PositionsApart

-----------------------------------------------------------------------------
(* Words and sums: functions defined by recursion, which CHOOSE finds.     *)

\* f goes from start by the steps F.
Iterates(f, F, start, N) ==
    f[0] = start /\ \A n \in 1 .. N : f[n] = F[<<n, f[n - 1]>>]

\* A step function can be iterated as often as one likes.
LEMMA IterationExists ==
    ASSUME NEW T, NEW start \in T, NEW F \in [Nat \X T -> T]
    PROVE  \A N \in Nat : \E f \in [0 .. N -> T] : Iterates(f, F, start, N)
<1> DEFINE S == {N \in Nat : \E f \in [0 .. N -> T] : Iterates(f, F, start, N)}
<1>1. 0 \in S
  <2> DEFINE f == [n \in 0 .. 0 |-> start]
  <2>1. f \in [0 .. 0 -> T] /\ f[0] = start
    OBVIOUS
  <2>2. 1 .. 0 = {}
    OBVIOUS
  <2> HIDE DEF f
  <2>3. Iterates(f, F, start, 0)
    BY <2>1, <2>2 DEF Iterates
  <2> QED BY <2>1, <2>3
<1>2. ASSUME NEW N \in Nat, N \in S PROVE N + 1 \in S
  <2>1. PICK f \in [0 .. N -> T] : Iterates(f, F, start, N)
    BY <1>2
  <2> DEFINE g == [n \in 0 .. N + 1 |-> IF n = N + 1 THEN F[<<N + 1, f[N]>>] ELSE f[n]]
  <2>2. F[<<N + 1, f[N]>>] \in T
    OBVIOUS
  <2>3. g \in [0 .. N + 1 -> T]
    BY <2>2
  <2>4. \A n \in 0 .. N : g[n] = f[n]
    OBVIOUS
  <2>5. g[N + 1] = F[<<N + 1, f[N]>>]
    OBVIOUS
  <2> HIDE DEF g
  <2>6. \A n \in 1 .. N + 1 : g[n] = F[<<n, g[n - 1]>>]
    <3>1. ASSUME NEW n \in 1 .. N PROVE g[n] = F[<<n, g[n - 1]>>]
      <4>1. n \in 0 .. N /\ n - 1 \in 0 .. N
        OBVIOUS
      <4> QED BY <2>1, <2>4, <4>1 DEF Iterates
    <3>2. (N + 1) - 1 = N /\ N \in 0 .. N
      OBVIOUS
    <3>3. g[N + 1] = F[<<N + 1, g[(N + 1) - 1]>>]
      BY <2>4, <2>5, <3>2
    <3>4. \A n \in 1 .. N + 1 : n \in 1 .. N \/ n = N + 1
      OBVIOUS
    <3> QED BY <3>1, <3>3, <3>4
  <2>7. 0 \in 0 .. N /\ g[0] = start
    BY <2>1, <2>4 DEF Iterates
  <2> QED BY <2>3, <2>6, <2>7 DEF Iterates
<1> HIDE DEF S
<1>3. Nat \subseteq S
  BY <1>1, <1>2, SetInduction
<1> QED BY <1>3 DEF S

\* Each place is worth Base times the one before.
LEMMA PlaceFacts ==
    /\ \A k \in 0 .. WordBytes : Place[k] \in Nat \ {0}
    /\ Place[0] = 1
    /\ \A k \in 1 .. WordBytes : Place[k] = Base * Place[k - 1]
<1>1. Base \in Nat \ {0} /\ WordBytes \in Nat \ {0}
  BY LoaderAssumption
<1> DEFINE T == Nat \ {0}
           F == [x \in Nat \X T |-> Base * x[2]]
<1>2. F \in [Nat \X T -> T] /\ 1 \in T
  BY <1>1
<1>3. \A n \in Nat : \A v \in T : F[<<n, v>>] = Base * v
  OBVIOUS
<1> HIDE DEF F, T
<1>4. PICK g \in [0 .. WordBytes -> T] : Iterates(g, F, 1, WordBytes)
  BY <1>1, <1>2, IterationExists
<1>5. \A k \in 1 .. WordBytes : g[k] = Base * g[k - 1]
  <2>1. \A k \in 1 .. WordBytes : k \in Nat /\ k - 1 \in 0 .. WordBytes
    BY <1>1
  <2> QED BY <1>3, <1>4, <2>1 DEF Iterates
<1>6. g[0] = 1
  BY <1>4 DEF Iterates
<1>7. g = [k \in 0 .. WordBytes |-> IF k = 0 THEN 1 ELSE Base * g[k - 1]]
  <2>1. \A k \in 0 .. WordBytes : k = 0 \/ k \in 1 .. WordBytes
    BY <1>1
  <2>2. g = [k \in 0 .. WordBytes |-> g[k]]
    BY <1>4
  <2>3. \A k \in 0 .. WordBytes : g[k] = IF k = 0 THEN 1 ELSE Base * g[k - 1]
    BY <1>5, <1>6, <2>1
  <2> QED BY <2>2, <2>3
<1>8. Place = [k \in 0 .. WordBytes |-> IF k = 0 THEN 1 ELSE Base * Place[k - 1]]
  BY <1>7, Zenon DEF Place
<1> DEFINE S == {n \in Nat : n \in 0 .. WordBytes => Place[n] = g[n]}
<1>9. 0 \in S
  BY <1>1, <1>6, <1>8
<1>10. ASSUME NEW n \in Nat, n \in S PROVE n + 1 \in S
  <2>1. CASE n + 1 \in 0 .. WordBytes
    <3>1. n \in 0 .. WordBytes /\ n + 1 \in 1 .. WordBytes /\ (n + 1) - 1 = n /\ n + 1 # 0
      BY <1>1, <2>1
    <3>2. Place[n + 1] = Base * Place[n]
      BY <1>8, <2>1, <3>1
    <3> QED BY <1>5, <1>10, <3>1, <3>2
  <2>2. CASE n + 1 \notin 0 .. WordBytes
    BY <2>2
  <2> QED BY <2>1, <2>2
<1> HIDE DEF S
<1>11. Nat \subseteq S
  BY <1>9, <1>10, SetInduction
<1>12. \A n \in 0 .. WordBytes : Place[n] = g[n]
  BY <1>1, <1>11 DEF S
<1>13. \A k \in 1 .. WordBytes : k \in 0 .. WordBytes /\ k - 1 \in 0 .. WordBytes
  BY <1>1
<1>14. 0 \in 0 .. WordBytes
  BY <1>1
<1>15. ASSUME NEW k \in 0 .. WordBytes PROVE Place[k] \in Nat \ {0}
  BY <1>4, <1>12 DEF T
<1>16. ASSUME NEW k \in 1 .. WordBytes PROVE Place[k] = Base * Place[k - 1]
  BY <1>5, <1>12, <1>13
<1> QED BY <1>6, <1>12, <1>14, <1>15, <1>16

\* The remainder modulo the next place has one more digit.
LEMMA DigitFacts ==
    ASSUME NEW B \in Nat \ {0}, NEW P \in Nat \ {0}, NEW v \in Nat
    PROVE  v % (B * P) = (v % P) + ((v \div P) % B) * P
<1> DEFINE q == v \div P
           r == v % P
           t == q \div B
           d == q % B
<1>1. v = q * P + r /\ r \in 0 .. P - 1 /\ q \in Nat
  OBVIOUS
<1>2. q = t * B + d /\ d \in 0 .. B - 1 /\ t \in Nat
  BY <1>1
<1> HIDE DEF q, r, t, d
<1>3. v = t * (B * P) + (d * P + r)
  BY <1>1, <1>2
<1>4. d * P + r \in 0 .. B * P - 1
  <2>1. d * P + P <= B * P
    BY <1>2
  <2> QED BY <1>1, <1>2, <2>1
<1>5. v % (B * P) = d * P + r
  <2> DEFINE M == B * P
             s == d * P + r
  <2>1. M \in Nat \ {0} /\ s \in 0 .. M - 1 /\ v = t * M + s
    BY <1>3, <1>4
  <2> HIDE DEF M, s
  <2>2. v % M = s
    BY <1>2, <2>1
  <2> QED BY <2>2 DEF M, s
<1> QED BY <1>5 DEF d, q, r

\* f has the sums of the first bytes.
Summing(f, bytes) == f[0] = 0 /\ \A k \in 1 .. Len(bytes) : f[k] = f[k - 1] + bytes[k]

\* Two such functions agree.
LEMMA SummingUnique ==
    ASSUME NEW bytes, Len(bytes) \in Nat, NEW f, NEW g, Summing(f, bytes), Summing(g, bytes)
    PROVE  \A k \in 0 .. Len(bytes) : f[k] = g[k]
<1> DEFINE S == {n \in Nat : n \in 0 .. Len(bytes) => f[n] = g[n]}
<1>1. 0 \in S
  BY DEF Summing
<1>2. ASSUME NEW n \in Nat, n \in S PROVE n + 1 \in S
  <2>1. CASE n + 1 \in 0 .. Len(bytes)
    <3>1. n \in 0 .. Len(bytes) /\ n + 1 \in 1 .. Len(bytes) /\ (n + 1) - 1 = n
      BY <2>1
    <3>2. f[n + 1] = f[n] + bytes[n + 1] /\ g[n + 1] = g[n] + bytes[n + 1]
      BY <3>1 DEF Summing
    <3> QED BY <1>2, <3>1, <3>2
  <2>2. CASE n + 1 \notin 0 .. Len(bytes)
    BY <2>2
  <2> QED BY <2>1, <2>2
<1> HIDE DEF S
<1>3. Nat \subseteq S
  BY <1>1, <1>2, SetInduction
<1> QED BY <1>3 DEF S

\* Total is the last of the sums.
LEMMA TotalIs ==
    ASSUME NEW bytes \in Seq(Nat)
    PROVE  \E f \in [0 .. Len(bytes) -> Nat] : Summing(f, bytes) /\ Total(bytes) = f[Len(bytes)]
<1>1. /\ Len(bytes) \in Nat /\ \A k \in 1 .. Len(bytes) : bytes[k] \in Nat
  OBVIOUS
<1> DEFINE N == Len(bytes)
           F == [x \in Nat \X Nat |-> IF x[1] \in 1 .. N THEN x[2] + bytes[x[1]] ELSE 0]
<1>2. F \in [Nat \X Nat -> Nat] /\ \A n \in 1 .. N : \A v \in Nat : F[<<n, v>>] = v + bytes[n]
  BY <1>1
<1> HIDE DEF F
<1>3. PICK g \in [0 .. N -> Nat] : Iterates(g, F, 0, N)
  BY <1>1, <1>2, IterationExists
<1>4. Summing(g, bytes)
  <2>1. \A k \in 1 .. N : k - 1 \in 0 .. N
    BY <1>1
  <2> QED BY <1>2, <1>3, <2>1 DEF Iterates, Summing
<1>5. g = [k \in 0 .. N |-> IF k = 0 THEN 0 ELSE g[k - 1] + bytes[k]]
  <2>1. \A k \in 0 .. N : k = 0 \/ k \in 1 .. N
    BY <1>1
  <2>2. g = [k \in 0 .. N |-> g[k]]
    BY <1>3
  <2>3. \A k \in 0 .. N : g[k] = IF k = 0 THEN 0 ELSE g[k - 1] + bytes[k]
    BY <1>4, <2>1 DEF Summing
  <2> QED BY <2>2, <2>3
<1> DEFINE total == CHOOSE f : f = [k \in 0 .. Len(bytes) |->
                                      IF k = 0 THEN 0 ELSE f[k - 1] + bytes[k]]
<1>6. total = [k \in 0 .. Len(bytes) |-> IF k = 0 THEN 0 ELSE total[k - 1] + bytes[k]]
  BY <1>5, Zenon
<1>7. Total(bytes) = total[Len(bytes)]
  BY DEF Total
<1> HIDE DEF total
<1>8. Summing(total, bytes)
  <2>1. 0 \in 0 .. N /\ \A k \in 1 .. N : k \in 0 .. N /\ k # 0
    BY <1>1
  <2> QED BY <1>6, <2>1 DEF Summing
<1>9. \A k \in 0 .. N : g[k] = total[k]
  BY <1>1, <1>4, <1>8, SummingUnique
<1>10. N \in 0 .. N
  BY <1>1
<1> QED BY <1>3, <1>4, <1>7, <1>9, <1>10

\* The total is a number, and grows by the byte appended.
LEMMA TotalFacts ==
    ASSUME NEW bytes \in Seq(Nat), NEW b \in Nat
    PROVE  /\ Total(bytes) \in Nat
           /\ Total(Append(bytes, b)) = Total(bytes) + b
<1> DEFINE more == Append(bytes, b)
<1>1. /\ more \in Seq(Nat) /\ Len(bytes) \in Nat /\ Len(more) = Len(bytes) + 1
      /\ more[Len(bytes) + 1] = b /\ \A k \in 1 .. Len(bytes) : more[k] = bytes[k]
  OBVIOUS
<1> HIDE DEF more
<1>2. PICK f \in [0 .. Len(bytes) -> Nat] : Summing(f, bytes) /\ Total(bytes) = f[Len(bytes)]
  BY TotalIs
<1>3. PICK g \in [0 .. Len(more) -> Nat] : Summing(g, more) /\ Total(more) = g[Len(more)]
  BY <1>1, TotalIs
<1>4. Summing(g, bytes)
  <2>1. \A k \in 1 .. Len(bytes) : k \in 1 .. Len(more)
    BY <1>1
  <2> QED BY <1>1, <1>3, <2>1 DEF Summing
<1>5. f[Len(bytes)] = g[Len(bytes)] /\ f[Len(bytes)] \in Nat
  <2>1. Len(bytes) \in 0 .. Len(bytes)
    BY <1>1
  <2> QED BY <1>1, <1>2, <1>4, <2>1, SummingUnique
<1>6. g[Len(more)] = g[Len(bytes)] + b
  <2>1. Len(more) \in 1 .. Len(more) /\ Len(more) - 1 = Len(bytes)
    BY <1>1
  <2> QED BY <1>1, <1>3, <2>1 DEF Summing
<1> QED BY <1>2, <1>3, <1>5, <1>6 DEF more

\* The first n of the bytes
FirstBytes(bytes, n) == SubSeq(bytes, 1, n)

\* The first bytes are a sequence that grows by the next byte.
LEMMA FirstBytesFacts ==
    ASSUME NEW bytes \in Seq(Nat), NEW n \in 0 .. Len(bytes)
    PROVE  /\ FirstBytes(bytes, n) \in Seq(Nat) /\ Len(FirstBytes(bytes, n)) = n
           /\ \A k \in 1 .. n : FirstBytes(bytes, n)[k] = bytes[k]
           /\ FirstBytes(bytes, 0) = <<>>
           /\ n < Len(bytes) => FirstBytes(bytes, n + 1) = Append(FirstBytes(bytes, n), bytes[n + 1])
           /\ FirstBytes(bytes, Len(bytes)) = bytes
  BY DEF FirstBytes

\* What is left out of a sum that is already complete is zero.
LEMMA FirstBytesTotals ==
    ASSUME NEW bytes \in Seq(Nat), NEW n \in 0 .. Len(bytes)
    PROVE  /\ Total(FirstBytes(bytes, n)) <= Total(bytes)
           /\ Total(FirstBytes(bytes, n)) = Total(bytes) =>
                 \A k \in n + 1 .. Len(bytes) : bytes[k] = 0
<1> DEFINE T(m) == Total(FirstBytes(bytes, m))
           Above(m) == /\ T(n) <= T(m)
                       /\ T(n) = T(m) => \A k \in n + 1 .. m : bytes[k] = 0
           S == {d \in Nat : n + d <= Len(bytes) => Above(n + d)}
<1>1. Len(bytes) \in Nat /\ n \in Nat
  OBVIOUS
<1>2. \A m \in 0 .. Len(bytes) : T(m) \in Nat
  BY FirstBytesFacts, TotalFacts
<1>3. \A m \in 0 .. Len(bytes) - 1 : T(m + 1) = T(m) + bytes[m + 1] /\ bytes[m + 1] \in Nat
  <2> SUFFICES ASSUME NEW m \in 0 .. Len(bytes) - 1
               PROVE  T(m + 1) = T(m) + bytes[m + 1] /\ bytes[m + 1] \in Nat
    OBVIOUS
  <2>1. m \in 0 .. Len(bytes) /\ m < Len(bytes) /\ bytes[m + 1] \in Nat
    BY <1>1
  <2>2. FirstBytes(bytes, m) \in Seq(Nat) /\ FirstBytes(bytes, m + 1) = Append(FirstBytes(bytes, m), bytes[m + 1])
    BY <2>1, FirstBytesFacts
  <2> QED BY <2>1, <2>2, TotalFacts
<1> HIDE DEF T
<1>4. 0 \in S
  <2>1. n + 0 = n /\ n + 1 .. n = {}
    BY <1>1
  <2> QED BY <1>2, <2>1
<1>5. ASSUME NEW d \in Nat, d \in S PROVE d + 1 \in S
  <2> SUFFICES ASSUME n + (d + 1) <= Len(bytes) PROVE Above(n + (d + 1))
    OBVIOUS
  <2> DEFINE m == n + d
  <2>1. m \in 0 .. Len(bytes) - 1 /\ m \in Nat /\ n + (d + 1) = m + 1 /\ m >= n
    BY <1>1
  <2>2. Above(m)
    BY <1>5, <2>1
  <2> HIDE DEF m
  <2>3. T(m + 1) = T(m) + bytes[m + 1] /\ bytes[m + 1] \in Nat
    BY <1>3, <2>1
  <2>4. T(m) \in Nat /\ T(n) \in Nat
    BY <1>2, <2>1
  <2>5. T(n) <= T(m + 1)
    BY <2>2, <2>3, <2>4
  <2>6. ASSUME T(n) = T(m + 1), NEW k \in n + 1 .. m + 1 PROVE bytes[k] = 0
    <3>1. T(n) = T(m) /\ bytes[m + 1] = 0
      BY <2>2, <2>3, <2>4, <2>6
    <3>2. k \in n + 1 .. m \/ k = m + 1
      BY <2>1, <1>1
    <3> QED BY <2>2, <3>1, <3>2
  <2> QED BY <2>1, <2>5, <2>6
<1> DEFINE e == Len(bytes) - n
<1>6. e \in Nat /\ n + e = Len(bytes)
  BY <1>1
<1> HIDE DEF S, e
<1>7. Nat \subseteq S
  BY <1>4, <1>5, SetInduction
<1>8. Above(Len(bytes))
  <2>1. e \in S
    BY <1>6, <1>7
  <2> HIDE DEF Above
  <2>2. n + e <= Len(bytes) => Above(n + e)
    BY <2>1 DEF S
  <2> QED BY <1>1, <1>6, <2>2
<1>9. FirstBytes(bytes, Len(bytes)) = bytes
  BY FirstBytesFacts
<1> QED BY <1>8, <1>9 DEF T

\* Digits of kernel_size and of chksum that have been read
SizeDigits ==
    IF pc \in {"off", "flush", "magic", "print_magic"} THEN 0
    ELSE IF pc = "size" THEN i ELSE WordBytes

SumDigits ==
    IF pc \in {"off", "flush", "magic", "print_magic", "size", "print_size"} THEN 0
    ELSE IF pc = "chksum" THEN i ELSE WordBytes

\* Bytes load_kernel has read
Consumed ==
    IF pc \in {"off", "flush"} THEN 0
    ELSE IF pc = "magic" THEN i ELSE WordBytes + SizeDigits + SumDigits + Len(memory)

\* load_kernel past its last byte
Loaded == pc \in {"print_loaded", "verify", "started"}

\* The host and the line
LineTyped ==
    /\ kernel \in Kernels /\ sent \in 0 .. Len(Image)
    /\ lost \subseteq {"early", "full", "line"} \X (1 .. sent)
    /\ fifo \in Seq([byte : Byte, at : 1 .. sent])
    /\ faults \in 0 .. MaxFaults

\* load_kernel's variables at each point of it
LoadTyped ==
    /\ pc \in {"off", "flush", "returned"} \/ Reading \/ Loaded
    /\ pc \in {"magic", "size", "chksum"} => i \in 0 .. WordBytes - 1
    /\ pc \in {"off", "flush"} \/ Printing => i = 0
    /\ pc = "data" => i = Len(memory) /\ Len(memory) < kernel_size
    /\ memory \in Seq(Byte) /\ Len(memory) <= kernel_size
    /\ (Reading /\ pc # "data") \/ pc \in {"off", "flush"} => memory = <<>>
    /\ Loaded => Len(memory) = kernel_size
    /\ pc # "returned" => /\ kernel_size \in 0 .. Place[SizeDigits] - 1
                          /\ chksum \in 0 .. Place[SumDigits] - 1
    /\ {kernel_size, chksum} \subseteq Words

LoaderTyped == LineTyped /\ LoadTyped

\* What the assumption says of the parameters
LEMMA LoaderFacts ==
    /\ Base \in Nat \ {0} /\ Base > 1 /\ WordBytes \in Nat \ {0} /\ FifoSize \in Nat
    /\ FifoSize >= 2 * WordBytes /\ MaxFaults \in Nat
    /\ Magic \in Seq(Byte) /\ Len(Magic) = WordBytes
    /\ \A k \in Kernels : /\ k \in Seq(Byte) /\ Len(k) \in Nat /\ Len(k) > 0
                          /\ Total(k) \in Words /\ Len(k) \in Words
    /\ Place[WordBytes] \in Nat \ {0} /\ Words = 0 .. Place[WordBytes] - 1
    /\ Byte \subseteq Nat /\ 0 \in Byte
<1>1. WordBytes \in 0 .. WordBytes
  BY LoaderAssumption
<1>2. ASSUME NEW k \in Kernels
      PROVE  /\ k \in Seq(Byte) /\ Len(k) \in Nat /\ Len(k) > 0
             /\ Total(k) \in Words /\ Len(k) \in Words
  BY LoaderAssumption
<1>3. Byte \subseteq Nat /\ 0 \in Byte
  BY LoaderAssumption DEF Byte
<1>4. Place[WordBytes] \in Nat \ {0}
  BY <1>1, PlaceFacts
<1> QED BY <1>2, <1>3, <1>4, LoaderAssumption DEF Words

\* A digit of a word, lowest first
Digit(value, k) == (value \div Place[k - 1]) % Base

\* A packed word is a word of bytes, one for each digit.
LEMMA PackFacts ==
    ASSUME NEW v \in Nat
    PROVE  /\ Pack(v) \in Seq(Byte) /\ Len(Pack(v)) = WordBytes
           /\ \A k \in 1 .. WordBytes : Pack(v)[k] = Digit(v, k)
<1>1. \A k \in 1 .. WordBytes : Digit(v, k) \in Byte
  <2> SUFFICES ASSUME NEW k \in 1 .. WordBytes PROVE Digit(v, k) \in Byte
    OBVIOUS
  <2>1. k - 1 \in 0 .. WordBytes
    BY LoaderFacts
  <2>2. Place[k - 1] \in Nat \ {0}
    BY <2>1, PlaceFacts
  <2> DEFINE q == v \div Place[k - 1]
  <2>3. q \in Nat
    BY <2>2
  <2> HIDE DEF q
  <2>4. q % Base \in Byte
    BY <2>3, LoaderFacts DEF Byte
  <2> QED BY <2>4 DEF Digit, q
<1>2. Pack(v) = [k \in 1 .. WordBytes |-> Digit(v, k)]
  BY DEF Pack, Digit
<1> QED BY <1>1, <1>2, LoaderFacts

\* The sum of a kernel that may be sent does not wrap.
LEMMA SumIs ==
    ASSUME NEW k \in Kernels
    PROVE  Sum(k) = Total(k) /\ Sum(k) \in Nat
<1>1. Total(k) \in 0 .. Place[WordBytes] - 1 /\ Place[WordBytes] \in Nat \ {0}
  BY LoaderFacts
<1> DEFINE t == Total(k)
           M == Place[WordBytes]
<1>2. t \in Nat /\ t < M /\ M \in Nat
  BY <1>1
<1> HIDE DEF t, M
<1>3. t % M = t
  BY <1>2
<1> QED BY <1>2, <1>3 DEF Sum, t, M

\* r is p followed by q.
Joined(p, q, r) ==
    /\ r \in Seq(Byte) /\ Len(r) = Len(p) + Len(q)
    /\ \A k \in 1 .. Len(p) : r[k] = p[k]
    /\ \A k \in 1 .. Len(q) : r[Len(p) + k] = q[k]

\* A concatenation is its two parts, one after the other.
LEMMA JoinFacts ==
    ASSUME NEW p \in Seq(Byte), NEW q \in Seq(Byte)
    PROVE  Joined(p, q, p \o q)
  BY DEF Joined

\* What the host sends
LEMMA ImageFacts ==
    ASSUME kernel \in Kernels
    PROVE  /\ Len(Header) = 3 * WordBytes
           /\ Image \in Seq(Byte) /\ Len(Image) = 3 * WordBytes + Len(kernel)
           /\ \A k \in 1 .. WordBytes :
                 /\ Image[k] = Magic[k]
                 /\ Image[WordBytes + k] = Digit(Len(kernel), k)
                 /\ Image[2 * WordBytes + k] = Digit(Total(kernel), k)
           /\ \A k \in 1 .. Len(kernel) : Image[3 * WordBytes + k] = kernel[k]
           /\ kernel \in Seq(Byte) /\ Len(kernel) \in Nat /\ Len(kernel) > 0
<1> DEFINE a == Magic
           b == Pack(Len(kernel))
           c == Pack(Total(kernel))
           W == WordBytes
<1>1. /\ kernel \in Seq(Byte) /\ Len(kernel) \in Nat /\ Len(kernel) > 0
      /\ Total(kernel) \in Nat /\ Sum(kernel) = Total(kernel)
  BY LoaderFacts, SumIs
<1>2. /\ a \in Seq(Byte) /\ b \in Seq(Byte) /\ c \in Seq(Byte) /\ W \in Nat
      /\ Len(a) = W /\ Len(b) = W /\ Len(c) = W
      /\ \A k \in 1 .. W : b[k] = Digit(Len(kernel), k) /\ c[k] = Digit(Total(kernel), k)
  BY <1>1, PackFacts, LoaderFacts
<1>3. Header = (a \o b) \o c /\ Image = Header \o kernel
  BY <1>1 DEF Header, Image
<1> HIDE DEF a, b, c, W
<1> DEFINE d == a \o b
<1>4. /\ d \in Seq(Byte) /\ Len(d) = 2 * W
      /\ \A k \in 1 .. W : d[k] = a[k] /\ d[W + k] = b[k]
      /\ \A k \in 1 .. W : k \in 1 .. Len(d) /\ W + k \in 1 .. Len(d)
  <2>1. Joined(a, b, d)
    BY <1>2, JoinFacts
  <2> HIDE DEF d
  <2> QED BY <1>2, <2>1 DEF Joined
<1>5. /\ Header \in Seq(Byte) /\ Len(Header) = 3 * W
      /\ \A k \in 1 .. W : Header[k] = a[k] /\ Header[W + k] = b[k] /\ Header[2 * W + k] = c[k]
  <2>1. Header = d \o c
    BY <1>3
  <2> HIDE DEF d
  <2>2. Joined(d, c, Header)
    BY <1>2, <1>4, <2>1, JoinFacts
  <2>3. Len(d) = 2 * W /\ Len(c) = W /\ W \in Nat
    BY <1>2, <1>4
  <2>4. Header \in Seq(Byte) /\ Len(Header) = 3 * W
    <3>1. Header \in Seq(Byte) /\ Len(Header) = Len(d) + Len(c)
      BY <2>2 DEF Joined
    <3> QED BY <2>3, <3>1
  <2>5. \A k \in 1 .. Len(d) : Header[k] = d[k]
    BY <2>2 DEF Joined
  <2>6. \A k \in 1 .. W : Header[k] = a[k] /\ Header[W + k] = b[k]
    BY <1>4, <2>5
  <2>7. \A k \in 1 .. W : Header[2 * W + k] = c[k]
    BY <2>2, <2>3 DEF Joined
  <2> QED BY <2>4, <2>6, <2>7
<1>6. /\ Image \in Seq(Byte) /\ Len(Image) = 3 * W + Len(kernel)
      /\ \A k \in 1 .. 3 * W : Image[k] = Header[k]
      /\ \A k \in 1 .. Len(kernel) : Image[3 * W + k] = kernel[k]
  <2>1. Joined(Header, kernel, Image)
    BY <1>1, <1>3, <1>5, JoinFacts
  <2> QED BY <1>5, <2>1 DEF Joined
<1>7. \A k \in 1 .. W : k \in 1 .. 3 * W /\ W + k \in 1 .. 3 * W /\ 2 * W + k \in 1 .. 3 * W
  BY <1>2
<1> QED BY <1>1, <1>2, <1>5, <1>6, <1>7 DEF a, W

\* The image depends on the kernel alone.
LEMMA ImageStays ==
    ASSUME kernel' = kernel
    PROVE  Image' = Image /\ Header' = Header
  BY DEF Image, Header

\* Nothing is lost that the loader would read, but a byte of the kernel on the
\* line: the host waits with the kernel, and the FIFO holds the rest of the header.
Flow ==
    HeaderWhole =>
        /\ pc = "off" => sent = 0
        /\ pc = "flush" => sent = 0 \/ (sent = 1 /\ Len(fifo) = 1 /\ fifo[1].at = 1)
        /\ Reading /\ pc # "data" =>
              /\ lost = {} /\ sent <= 3 * WordBytes /\ Consumed + Len(fifo) = sent
              /\ \A k \in DOMAIN fifo : fifo[k].at = Consumed + k
        /\ pc = "data" =>
              /\ lost \subseteq {"line"} \X (3 * WordBytes + 1 .. sent)
              /\ sent >= 3 * WordBytes /\ Consumed + Len(fifo) <= sent
              /\ Len(fifo) <= 1 /\ \A k \in DOMAIN fifo : fifo[k].at = sent

\* What load_kernel has read is what the host sent.
SizeRight == kernel_size = Len(kernel) % Place[SizeDigits]
SumRight == chksum = Total(kernel) % Place[SumDigits]
DataRight == memory = FirstBytes(kernel, Len(memory))

\* One byte of the kernel was changed on the line.
DataNear ==
    LET d == Total(memory) - Total(FirstBytes(kernel, Len(memory)))
    IN  d # 0 /\ -Base < d /\ d < Base

Right(entry) == entry.byte = Image[entry.at]

FifoRight == \A k \in DOMAIN fifo : Right(fifo[k])
FifoNear == \A k, l \in DOMAIN fifo : k = l \/ Right(fifo[k]) \/ Right(fifo[l])

\* At most one part of what has been read is not right.
OneWrong ==
    /\ SizeRight \/ SumRight
    /\ SizeRight \/ DataRight
    /\ SumRight \/ DataRight
    /\ Len(memory) <= Len(kernel) /\ (DataRight \/ DataNear)

OneFault ==
    /\ OneWrong
    /\ FifoRight \/ (FifoNear /\ SizeRight /\ SumRight /\ DataRight)
    /\ Consumed + Len(fifo) = sent

\* What a single fault has done so far
Account ==
    HeaderWhole =>
        /\ Reading =>
              /\ faults = 0 => SizeRight /\ SumRight /\ DataRight /\ FifoRight /\ lost = {}
              /\ lost # {} => SizeRight /\ Consumed + Len(fifo) < sent
              /\ lost = {} => OneFault
        /\ Loaded => /\ OneWrong /\ Consumed <= sent
                     /\ Lost({"early", "full", "line"}) \cap 1 .. Consumed = {}
        /\ pc = "started" => Sum(memory) = chksum

-----------------------------------------------------------------------------
(* Types                                                                   *)

\* What becomes of the next byte the host writes
Kept(byte) ==
    /\ pc # "off" /\ Len(fifo) # FifoSize
    /\ fifo' = Append(fifo, [byte |-> byte, at |-> sent + 1]) /\ lost' = lost

Gone(cause) == fifo' = fifo /\ lost' = lost \cup {<<cause, sent + 1>>}

Faultless == faults' = faults
Faulty == faults < MaxFaults /\ faults' = faults + 1

Sending ==
    /\ sent < Len(Image) /\ sent' = sent + 1 /\ kernel' = kernel /\ Paced
    /\ sent = Len(Header) => Waiting \/ Stopped \/ pc = "off"
    /\ UNCHANGED loader
    /\ \/ \E byte \in Byte : /\ Kept(byte)
                             /\ Faulty \/ (Faultless /\ byte = Image[sent + 1])
       \/ Gone("early") /\ pc = "off" /\ (Faultless \/ Faulty)
       \/ Gone("full") /\ pc # "off" /\ Len(fifo) = FifoSize /\ (Faultless \/ Faulty)
       \/ Gone("line") /\ Faulty

Send == Transmit \/ Corrupt \/ Drop

\* The receiver keeps a byte, or loses it early or in a full FIFO.
LEMMA ReceiveCases ==
    ASSUME NEW byte, Receive(byte)
    PROVE  \/ Kept(byte)
           \/ Gone("early") /\ pc = "off"
           \/ Gone("full") /\ pc # "off" /\ Len(fifo) = FifoSize
  BY DEF Receive, Kept, Gone

\* What the three actions of the line have in common.
LEMMA SendCases ==
    ASSUME LineTyped, Send
    PROVE  Sending
<1>1. Image \in Seq(Byte) /\ sent \in Nat
  BY ImageFacts DEF LineTyped
<1>2. sent < Len(Image) => Image[sent + 1] \in Byte
  BY <1>1
<1>3. CASE Transmit
  <2>1. /\ sent < Len(Image) /\ sent' = sent + 1 /\ kernel' = kernel /\ Paced
        /\ sent = Len(Header) => Waiting \/ Stopped \/ pc = "off"
        /\ UNCHANGED loader /\ Faultless /\ Receive(Image[sent + 1])
    BY <1>3 DEF Transmit, Write, Faultless
  <2>2. \/ Kept(Image[sent + 1])
        \/ Gone("early") /\ pc = "off"
        \/ Gone("full") /\ pc # "off" /\ Len(fifo) = FifoSize
    BY <2>1, ReceiveCases
  <2> QED BY <1>2, <2>1, <2>2 DEF Sending
<1>4. CASE Corrupt
  <2>1. PICK byte \in Byte : Receive(byte)
    BY <1>4 DEF Corrupt
  <2>2. /\ sent < Len(Image) /\ sent' = sent + 1 /\ kernel' = kernel /\ Paced
        /\ sent = Len(Header) => Waiting \/ Stopped \/ pc = "off"
        /\ UNCHANGED loader /\ Faulty
    BY <1>4 DEF Corrupt, Write, Faulty
  <2>3. \/ Kept(byte)
        \/ Gone("early") /\ pc = "off"
        \/ Gone("full") /\ pc # "off" /\ Len(fifo) = FifoSize
    BY <2>1, ReceiveCases
  <2> QED BY <2>1, <2>2, <2>3 DEF Sending
<1>5. CASE Drop
  BY <1>5 DEF Drop, Write, Sending, Faulty, Gone
<1> QED BY <1>3, <1>4, <1>5 DEF Send

\* Sequences: larger ranges, one element more, one less
LEMMA SeqGrows ==
    ASSUME NEW S, NEW T, S \subseteq T, NEW q \in Seq(S)
    PROVE  q \in Seq(T)
OBVIOUS

\* The elements of a sequence over a set are in the set.
LEMMA Elements ==
    ASSUME NEW S, NEW q \in Seq(S)
    PROVE  \A k \in DOMAIN q : q[k] \in S
OBVIOUS

\* What Append does to length and elements.
LEMMA Appended ==
    ASSUME NEW S, NEW q \in Seq(S), NEW e \in S
    PROVE  /\ Append(q, e) \in Seq(S) /\ Len(Append(q, e)) = Len(q) + 1 /\ Len(q) \in Nat
           /\ \A k \in 1 .. Len(q) : Append(q, e)[k] = q[k]
           /\ Append(q, e)[Len(q) + 1] = e
OBVIOUS

\* What Tail does to length and elements.
LEMMA Taken ==
    ASSUME NEW S, NEW q \in Seq(S), q # <<>>
    PROVE  /\ Tail(q) \in Seq(S) /\ Len(Tail(q)) = Len(q) - 1 /\ Len(q) \in Nat \ {0}
           /\ Head(q) = q[1] /\ Head(q) \in S
           /\ \A k \in 1 .. Len(Tail(q)) : Tail(q)[k] = q[k + 1]
OBVIOUS

\* A byte on the line keeps the types.
LEMMA SendTyped ==
    ASSUME LoaderTyped, Sending
    PROVE  LoaderTyped'
<1>1. LoadTyped'
  BY DEF LoaderTyped, LoadTyped, Sending, loader, Reading, Loaded, Printing, SizeDigits, SumDigits
<1>2. Image' = Image /\ Image \in Seq(Byte) /\ Len(Image) \in Nat
  BY ImageStays, ImageFacts DEF Sending, LoaderTyped, LineTyped
<1>3. kernel' \in Kernels /\ sent \in Nat /\ sent' = sent + 1 /\ sent' \in 0 .. Len(Image)'
  BY <1>2 DEF Sending, LoaderTyped, LineTyped
<1>4. faults' \in 0 .. MaxFaults
  BY LoaderFacts DEF Sending, LoaderTyped, LineTyped, Faultless, Faulty
<1>5. lost' \subseteq {"early", "full", "line"} \X (1 .. sent')
  <2>1. \A e \in lost : e \in {"early", "full", "line"} \X (1 .. sent')
    <3>1. lost \subseteq {"early", "full", "line"} \X (1 .. sent)
      BY DEF LoaderTyped, LineTyped
    <3>2. 1 .. sent \subseteq 1 .. sent'
      BY <1>3
    <3> QED BY <3>1, <3>2
  <2>2. \A e \in lost' : e \in lost \/ \E c \in {"early", "full", "line"} : e = <<c, sent + 1>>
    BY DEF Sending, Kept, Gone
  <2>3. sent + 1 \in 1 .. sent'
    BY <1>3
  <2> QED BY <2>1, <2>2, <2>3
<1>6. fifo' \in Seq([byte : Byte, at : 1 .. sent'])
  <2>1. fifo \in Seq([byte : Byte, at : 1 .. sent'])
    <3>1. [byte : Byte, at : 1 .. sent] \subseteq [byte : Byte, at : 1 .. sent']
      BY <1>3
    <3>2. fifo \in Seq([byte : Byte, at : 1 .. sent])
      BY DEF LoaderTyped, LineTyped
    <3> QED BY <3>1, <3>2, SeqGrows
  <2>2. fifo' = fifo \/ \E byte \in Byte : fifo' = Append(fifo, [byte |-> byte, at |-> sent + 1])
    BY DEF Sending, Kept, Gone
  <2>3. \A byte \in Byte : [byte |-> byte, at |-> sent + 1] \in [byte : Byte, at : 1 .. sent']
    BY <1>3
  <2>4. CASE fifo' = fifo
    BY <2>1, <2>4
  <2>5. CASE \E byte \in Byte : fifo' = Append(fifo, [byte |-> byte, at |-> sent + 1])
    <3>1. PICK byte \in Byte : fifo' = Append(fifo, [byte |-> byte, at |-> sent + 1])
      BY <2>5
    <3>2. [byte |-> byte, at |-> sent + 1] \in [byte : Byte, at : 1 .. sent']
      BY <2>3
    <3> QED BY <2>1, <3>1, <3>2, Appended
  <2> QED BY <2>2, <2>4, <2>5
<1> QED BY <1>1, <1>3, <1>4, <1>5, <1>6 DEF LoaderTyped, LineTyped

\* No place is worth more than the one past the last.
LEMMA PlaceMono == \A k \in 0 .. WordBytes : Place[k] <= Place[WordBytes]
<1>1. WordBytes \in Nat /\ Base \in Nat \ {0}
  BY LoaderFacts
<1> DEFINE S == {n \in Nat : n <= WordBytes => Place[WordBytes - n] <= Place[WordBytes]}
<1>2. 0 \in S
  <2>1. WordBytes - 0 = WordBytes /\ Place[WordBytes] \in Nat
    BY <1>1, LoaderFacts
  <2> QED BY <2>1
<1>3. ASSUME NEW n \in Nat, n \in S PROVE n + 1 \in S
  <2>1. CASE n + 1 <= WordBytes
    <3> DEFINE k == WordBytes - n
    <3>1. k \in 1 .. WordBytes /\ k - 1 = WordBytes - (n + 1) /\ k - 1 \in 0 .. WordBytes
          /\ k \in 0 .. WordBytes /\ n <= WordBytes
      BY <1>1, <2>1
    <3>2. Place[k] <= Place[WordBytes]
      BY <1>3, <3>1
    <3> HIDE DEF k
    <3>3. Place[k] = Base * Place[k - 1] /\ Place[k] \in Nat /\ Place[k - 1] \in Nat \ {0}
      BY <3>1, PlaceFacts
    <3> DEFINE p == Place[k - 1]
               q == Place[k]
    <3>4. p <= q
      <4>1. p \in Nat /\ q = Base * p
        BY <3>3
      <4> HIDE DEF p, q
      <4> QED BY <1>1, <4>1
    <3>5. Place[WordBytes] \in Nat
      BY LoaderFacts
    <3>6. Place[k - 1] <= Place[WordBytes]
      BY <3>2, <3>3, <3>4, <3>5
    <3>7. Place[WordBytes - (n + 1)] <= Place[WordBytes]
      BY <3>1, <3>6
    <3> QED BY <3>7
  <2>2. CASE ~(n + 1 <= WordBytes)
    BY <2>2
  <2> QED BY <2>1, <2>2
<1> HIDE DEF S
<1>4. Nat \subseteq S
  BY <1>2, <1>3, SetInduction
<1>5. ASSUME NEW k \in 0 .. WordBytes PROVE Place[k] <= Place[WordBytes]
  <2>1. WordBytes - k \in Nat /\ WordBytes - (WordBytes - k) = k /\ WordBytes - k <= WordBytes
    BY <1>1
  <2>2. WordBytes - k \in S
    BY <1>4, <2>1
  <2>3. Place[WordBytes - (WordBytes - k)] <= Place[WordBytes]
    BY <2>1, <2>2 DEF S
  <2> QED BY <2>1, <2>3
<1> QED BY <1>5

\* One more byte of a word
LEMMA WordGrows ==
    ASSUME NEW k \in 0 .. WordBytes - 1, NEW x \in 0 .. Place[k] - 1, NEW b \in Byte
    PROVE  x + b * Place[k] \in 0 .. Place[k + 1] - 1 /\ x + b * Place[k] \in Words
<1>1. /\ k \in 0 .. WordBytes /\ k + 1 \in 1 .. WordBytes /\ k + 1 \in 0 .. WordBytes
      /\ (k + 1) - 1 = k
  BY LoaderFacts
<1>2. Place[k + 1] = Base * Place[k] /\ Place[k] \in Nat \ {0} /\ Place[k + 1] \in Nat
      /\ Place[k + 1] <= Place[WordBytes] /\ Place[WordBytes] \in Nat
  BY <1>1, PlaceFacts, PlaceMono, LoaderFacts
<1>3. b \in 0 .. Base - 1 /\ Base \in Nat
  BY LoaderFacts DEF Byte
<1> DEFINE P == Place[k]
           Q == Place[k + 1]
           M == Place[WordBytes]
<1>4. x + b * P \in 0 .. Q - 1
  <2>1. P \in Nat \ {0} /\ x \in 0 .. P - 1 /\ Q = Base * P
    BY <1>2
  <2> HIDE DEF P, Q
  <2>2. b * P + P <= Base * P
    BY <1>3, <2>1
  <2> QED BY <1>3, <2>1, <2>2
<1>5. x + b * P \in 0 .. M - 1
  <2>1. Q \in Nat /\ M \in Nat /\ Q <= M
    BY <1>2
  <2> HIDE DEF P, Q, M
  <2> QED BY <1>4, <2>1
<1> QED BY <1>4, <1>5 DEF Words

\* A step of the loader takes at most the first byte of the FIFO.
Takes == fifo # <<>> /\ fifo' = Tail(fifo)

\* What the loader's steps do to line and FIFO.
LEMMA BootLine ==
    ASSUME LineTyped, Boot
    PROVE  /\ LineTyped' /\ UNCHANGED <<kernel, sent, faults>>
           /\ fifo' = fifo \/ Takes
           /\ lost' = lost \/ (pc = "flush" /\ Takes /\ lost' = lost \cup {<<"early", Head(fifo).at>>})
<1>1. /\ UNCHANGED <<kernel, sent, faults>>
      /\ fifo' = fifo \/ Takes
      /\ lost' = lost \/ (pc = "flush" /\ Takes /\ lost' = lost \cup {<<"early", Head(fifo).at>>})
  BY DEF Boot, init_uart, uart_flush, ReadMagic, ReadSize, ReadChksum, uart_puts, ReadData,
         Verify, uart_getc, Takes
<1>2. Image' = Image
  BY <1>1, ImageStays
<1>3. Takes => /\ Tail(fifo) \in Seq([byte : Byte, at : 1 .. sent])
               /\ Head(fifo) \in [byte : Byte, at : 1 .. sent]
  BY Taken DEF Takes, LineTyped
<1>4. fifo' \in Seq([byte : Byte, at : 1 .. sent])
  BY <1>1, <1>3 DEF Takes, LineTyped
<1>5. lost' \subseteq {"early", "full", "line"} \X (1 .. sent)
  BY <1>1, <1>3 DEF LineTyped
<1> QED BY <1>1, <1>2, <1>4, <1>5 DEF LineTyped

\* What is read is a byte.
LEMMA Got ==
    ASSUME LineTyped, uart_getc
    PROVE  Head(fifo).byte \in Byte /\ Takes
<1>1. Head(fifo) \in [byte : Byte, at : 1 .. sent]
  BY Taken DEF LineTyped, uart_getc
<1> QED BY <1>1 DEF uart_getc, Takes

\* Start and flush keep the types.
LEMMA StartTyped ==
    ASSUME LoadTyped, init_uart \/ uart_flush
    PROVE  LoadTyped'
  BY LoaderFacts DEF init_uart, uart_flush, LoadTyped, Reading, Loaded, Printing,
                     SizeDigits, SumDigits

\* Reading the magic keeps the types.
LEMMA ReadMagicTyped ==
    ASSUME LoadTyped, ReadMagic
    PROVE  LoadTyped'
<1>1. WordBytes \in Nat \ {0}
  BY LoaderFacts
<1>2. CASE pc' = "returned"
  BY <1>2 DEF ReadMagic, LoadTyped, Reading, Loaded, Printing, SizeDigits, SumDigits
<1>3. CASE Round(WordBytes, "print_magic")
  BY <1>1, <1>3 DEF ReadMagic, Round, LoadTyped, Reading, Loaded, Printing, SizeDigits, SumDigits
<1> QED BY <1>2, <1>3 DEF ReadMagic

\* The size read so far stays below the place of the next byte.
LEMMA ReadSizeTyped ==
    ASSUME LoaderTyped, ReadSize
    PROVE  LoadTyped'
<1> DEFINE b == Head(fifo).byte
<1>1. WordBytes \in Nat \ {0} /\ b \in Byte
  BY Got, LoaderFacts DEF LoaderTyped, ReadSize
<1>2. /\ pc = "size" /\ i \in 0 .. WordBytes - 1 /\ kernel_size \in 0 .. Place[i] - 1
      /\ kernel_size' = kernel_size + b * Place[i] /\ Round(WordBytes, "print_size")
      /\ chksum' = chksum /\ memory' = memory /\ memory = <<>>
  BY DEF ReadSize, LoaderTyped, LoadTyped, SizeDigits, Reading
<1> HIDE DEF b
<1>3. kernel_size' \in 0 .. Place[i + 1] - 1 /\ kernel_size' \in Words
  BY <1>1, <1>2, WordGrows
<1>4. Words \subseteq Nat /\ Len(<<>>) = 0
  BY LoaderFacts
<1>5. CASE i + 1 < WordBytes
  BY <1>1, <1>2, <1>3, <1>4, <1>5
     DEF LoaderTyped, LoadTyped, Round, Reading, Loaded, Printing, SizeDigits, SumDigits
<1>6. CASE ~(i + 1 < WordBytes)
  <2>1. i + 1 = WordBytes
    BY <1>1, <1>2, <1>6
  <2> QED BY <1>1, <1>2, <1>3, <1>4, <1>6, <2>1
     DEF LoaderTyped, LoadTyped, Round, Reading, Loaded, Printing, SizeDigits, SumDigits
<1> QED BY <1>5, <1>6

\* The sum read so far stays below the place of the next byte.
LEMMA ReadChksumTyped ==
    ASSUME LoaderTyped, ReadChksum
    PROVE  LoadTyped'
<1> DEFINE b == Head(fifo).byte
<1>1. WordBytes \in Nat \ {0} /\ b \in Byte
  BY Got, LoaderFacts DEF LoaderTyped, ReadChksum
<1>2. /\ pc = "chksum" /\ i \in 0 .. WordBytes - 1 /\ chksum \in 0 .. Place[i] - 1
      /\ chksum' = chksum + b * Place[i] /\ Round(WordBytes, "print_chksum")
      /\ kernel_size' = kernel_size /\ memory' = memory /\ memory = <<>>
  BY DEF ReadChksum, LoaderTyped, LoadTyped, SumDigits, Reading
<1> HIDE DEF b
<1>3. chksum' \in 0 .. Place[i + 1] - 1 /\ chksum' \in Words
  BY <1>1, <1>2, WordGrows
<1>4. Words \subseteq Nat /\ Len(<<>>) = 0
  BY LoaderFacts
<1>5. CASE i + 1 < WordBytes
  BY <1>1, <1>2, <1>3, <1>4, <1>5
     DEF LoaderTyped, LoadTyped, Round, Reading, Loaded, Printing, SizeDigits, SumDigits
<1>6. CASE ~(i + 1 < WordBytes)
  <2>1. i + 1 = WordBytes
    BY <1>1, <1>2, <1>6
  <2> QED BY <1>1, <1>2, <1>3, <1>4, <1>6, <2>1
     DEF LoaderTyped, LoadTyped, Round, Reading, Loaded, Printing, SizeDigits, SumDigits
<1> QED BY <1>5, <1>6

\* Printing a message keeps the types.
LEMMA PrintTyped ==
    ASSUME LoadTyped, uart_puts
    PROVE  LoadTyped'
<1>1. WordBytes \in Nat \ {0} /\ Words \subseteq Nat /\ Len(<<>>) = 0
  BY LoaderFacts
<1>2. CASE pc \in {"print_magic", "print_size"}
  BY <1>1, <1>2 DEF uart_puts, LoadTyped, Reading, Loaded, Printing, SizeDigits, SumDigits
<1>3. CASE pc = "print_chksum"
  BY <1>1, <1>3 DEF uart_puts, LoadTyped, Reading, Loaded, Printing, SizeDigits, SumDigits
<1>4. CASE pc = "print_loaded"
  BY <1>1, <1>4 DEF uart_puts, LoadTyped, Reading, Loaded, Printing, SizeDigits, SumDigits
<1> QED BY <1>2, <1>3, <1>4 DEF uart_puts, Printing

\* The loop over the kernel stops at kernel_size bytes.
LEMMA ReadDataTyped ==
    ASSUME LoaderTyped, ReadData
    PROVE  LoadTyped'
<1> DEFINE b == Head(fifo).byte
<1>1. WordBytes \in Nat \ {0} /\ b \in Byte
  BY Got, LoaderFacts DEF LoaderTyped, ReadData
<1>2. /\ pc = "data" /\ i = Len(memory) /\ Len(memory) < kernel_size /\ memory \in Seq(Byte)
      /\ memory' = Append(memory, b) /\ Round(kernel_size, "print_loaded")
      /\ chksum' = chksum /\ kernel_size' = kernel_size /\ kernel_size \in Nat
  BY LoaderFacts DEF ReadData, LoaderTyped, LoadTyped
<1> HIDE DEF b
<1>3. memory' \in Seq(Byte) /\ Len(memory') = Len(memory) + 1 /\ Len(memory) \in Nat
  BY <1>1, <1>2, Appended
<1>4. CASE i + 1 < kernel_size
  BY <1>1, <1>2, <1>3, <1>4
     DEF LoaderTyped, LoadTyped, Round, Reading, Loaded, Printing, SizeDigits, SumDigits
<1>5. CASE ~(i + 1 < kernel_size)
  BY <1>1, <1>2, <1>3, <1>5
     DEF LoaderTyped, LoadTyped, Round, Reading, Loaded, Printing, SizeDigits, SumDigits
<1> QED BY <1>4, <1>5

\* The comparison of the sums keeps the types.
LEMMA VerifyTyped ==
    ASSUME LoadTyped, Verify
    PROVE  LoadTyped'
  BY LoaderFacts DEF Verify, LoadTyped, Reading, Loaded, Printing, SizeDigits, SumDigits

\* Every step of the loader keeps the types.
LEMMA BootTyped ==
    ASSUME LoaderTyped, Boot
    PROVE  LoaderTyped'
<1>1. LineTyped' /\ LoadTyped
  BY BootLine DEF LoaderTyped
<1>2. LoadTyped'
  BY <1>1, StartTyped, ReadMagicTyped, ReadSizeTyped, ReadChksumTyped, PrintTyped, ReadDataTyped,
     VerifyTyped DEF Boot
<1> QED BY <1>1, <1>2 DEF LoaderTyped

\* The initial states are typed.
LEMMA LoaderStarts == LoaderInit => LoaderTyped
<1> SUFFICES ASSUME LoaderInit PROVE LoaderTyped
  OBVIOUS
<1>1. Image \in Seq(Byte) /\ Len(Image) \in Nat
  BY ImageFacts DEF LoaderInit
<1>2. Place[0] = 1 /\ Words = 0 .. Place[WordBytes] - 1 /\ Place[WordBytes] \in Nat \ {0}
  BY PlaceFacts, LoaderFacts
<1>3. LineTyped
  BY <1>1, LoaderFacts DEF LoaderInit, LineTyped
<1>4. LoadTyped
  BY <1>2 DEF LoaderInit, LoadTyped, Reading, Loaded, Printing, SizeDigits, SumDigits
<1> QED BY <1>3, <1>4 DEF LoaderTyped

-----------------------------------------------------------------------------
(* Where the bytes are                                                     *)

\* A header read as a whole was read as a whole before.
LEMMA HeaderStays ==
    ASSUME LineTyped, kernel' = kernel, sent' \in Nat, sent <= sent', lost \subseteq lost', HeaderWhole'
    PROVE  /\ HeaderWhole
           /\ \A at \in 1 .. 3 * WordBytes :
                 at <= sent' => <<"early", at>> \notin lost' /\ <<"line", at>> \notin lost'
<1>1. Len(Header) = 3 * WordBytes /\ Len(Header)' = Len(Header) /\ sent \in Nat
  BY ImageFacts, ImageStays DEF LineTyped
<1>2. 1 .. sent \subseteq 1 .. sent'
  BY <1>1
<1>3. Lost({"early", "line"}) \subseteq Lost({"early", "line"})'
  BY <1>2 DEF Lost
<1>4. Lost({"early", "line"})' \cap 1 .. 3 * WordBytes = {}
  BY <1>1 DEF HeaderWhole
<1>5. HeaderWhole
  BY <1>1, <1>3, <1>4 DEF HeaderWhole
<1>6. ASSUME NEW at \in 1 .. 3 * WordBytes, at <= sent',
             <<"early", at>> \in lost' \/ <<"line", at>> \in lost'
      PROVE  FALSE
  <2>1. at \in 1 .. sent'
    BY <1>6, LoaderFacts
  <2>2. at \in Lost({"early", "line"})'
    BY <1>6, <2>1 DEF Lost
  <2> QED BY <1>4, <2>2
<1> QED BY <1>5, <1>6

\* Where load_kernel is in the header it has not read all of it.
LEMMA ConsumedFacts ==
    ASSUME LoaderTyped
    PROVE  /\ Consumed \in Nat
           /\ pc \in {"magic", "size", "chksum"} => Consumed < 3 * WordBytes
           /\ Printing /\ pc # "print_loaded" => Consumed >= WordBytes /\ Consumed <= 3 * WordBytes
           /\ pc = "data" \/ Loaded => Consumed = 3 * WordBytes + Len(memory)
           /\ Reading /\ pc # "data" => Consumed <= 3 * WordBytes
<1>1. WordBytes \in Nat \ {0} /\ Len(memory) \in Nat /\ Len(<<>>) = 0
  BY LoaderFacts DEF LoaderTyped, LoadTyped
<1>2. /\ SizeDigits \in 0 .. WordBytes /\ SumDigits \in 0 .. WordBytes
  BY <1>1 DEF SizeDigits, SumDigits, LoaderTyped, LoadTyped
<1>3. Consumed \in Nat
  BY <1>1, <1>2 DEF Consumed, LoaderTyped, LoadTyped
<1>4. pc \in {"magic", "size", "chksum"} => Consumed < 3 * WordBytes
  BY <1>1 DEF Consumed, LoaderTyped, LoadTyped, SizeDigits, SumDigits, Reading
<1>5. Printing /\ pc # "print_loaded" => Consumed >= WordBytes /\ Consumed <= 3 * WordBytes
  BY <1>1 DEF Consumed, LoaderTyped, LoadTyped, SizeDigits, SumDigits, Reading, Printing
<1>6. pc = "data" \/ Loaded => Consumed = 3 * WordBytes + Len(memory)
  BY <1>1 DEF Consumed, LoaderTyped, LoadTyped, SizeDigits, SumDigits, Loaded
<1>7. Reading /\ pc # "data" => Consumed <= 3 * WordBytes
  BY <1>4, <1>5, <1>1, <1>3 DEF Reading, Printing
<1> QED BY <1>3, <1>4, <1>5, <1>6, <1>7

\* What every byte on the line leaves alone.
LEMMA SendFacts ==
    ASSUME LoaderTyped, Sending
    PROVE  /\ sent \in Nat /\ sent' = sent + 1 /\ kernel' = kernel /\ LineTyped
           /\ fifo \in Seq([byte : Byte, at : 1 .. sent]) /\ Len(fifo) \in Nat
           /\ lost \subseteq lost'
<1>1. sent \in Nat /\ LineTyped /\ fifo \in Seq([byte : Byte, at : 1 .. sent])
  BY DEF LoaderTyped, LineTyped
<1>2. sent' = sent + 1 /\ kernel' = kernel
  BY DEF Sending
<1>3. lost \subseteq lost'
  BY DEF Sending, Kept, Gone
<1>4. Len(fifo) \in Nat
  BY <1>1
<1> QED BY <1>1, <1>2, <1>3, <1>4

\* A byte that is written while load_kernel reads the header or the kernel finds
\* room in the FIFO, or is a byte of the kernel lost on the line.
LEMMA SendRoom ==
    ASSUME LoaderTyped, Flow, Sending, HeaderWhole', Reading
    PROVE  /\ HeaderWhole
           /\ \/ Gone("line") /\ Faulty /\ pc = "data"
              \/ \E byte \in Byte :
                    Kept(byte) /\ (Faulty \/ (Faultless /\ byte = Image[sent + 1]))
           /\ pc # "data" => sent < 3 * WordBytes
           /\ pc = "data" => fifo = <<>>
<1>1. /\ sent \in Nat /\ sent' = sent + 1 /\ kernel' = kernel /\ fifo \in Seq([byte : Byte, at : 1 .. sent])
      /\ lost \subseteq lost' /\ LineTyped /\ Len(fifo) \in Nat
  BY SendFacts
<1>2. /\ HeaderWhole
      /\ \A at \in 1 .. 3 * WordBytes :
            at <= sent' => <<"early", at>> \notin lost' /\ <<"line", at>> \notin lost'
  BY <1>1, HeaderStays
<1>3. /\ WordBytes \in Nat \ {0} /\ FifoSize >= 2 * WordBytes /\ FifoSize \in Nat
      /\ Len(Header) = 3 * WordBytes
  BY LoaderFacts, ImageFacts DEF LoaderTyped, LineTyped
<1>4. pc # "data" => sent < 3 * WordBytes
  <2> SUFFICES ASSUME pc # "data" PROVE sent < 3 * WordBytes
    OBVIOUS
  <2>1. sent <= 3 * WordBytes /\ Consumed + Len(fifo) = sent
    BY <1>2 DEF Flow
  <2>2. ASSUME sent = 3 * WordBytes PROVE FALSE
    <3>1. fifo = <<>> /\ pc \in {"magic", "size", "chksum"}
      BY <1>3, <2>2 DEF Sending, Waiting, Stopped, Reading
    <3> QED BY <1>1, <2>1, <2>2, <3>1, ConsumedFacts
  <2> QED BY <1>1, <1>3, <2>1, <2>2
<1>5. Printing \/ fifo = <<>>
  BY DEF Sending, Paced, Reading, Stopped
<1>6. pc = "data" => fifo = <<>>
  BY <1>5 DEF Printing
<1>7. Len(fifo) < FifoSize
  <2>1. CASE Printing
    <3>1. pc # "data" /\ pc # "print_loaded"
      BY <2>1 DEF Printing, Reading
    <3>2. Consumed + Len(fifo) = sent /\ Consumed >= WordBytes /\ Consumed \in Nat
      BY <1>2, <2>1, <3>1, ConsumedFacts DEF Flow
    <3> QED BY <1>1, <1>3, <1>4, <3>1, <3>2
  <2>2. CASE fifo = <<>>
    BY <1>3, <2>2
  <2> QED BY <1>5, <2>1, <2>2
<1>8. Len(fifo) # FifoSize
  BY <1>1, <1>3, <1>7
<1>9. Gone("line") => pc = "data"
  <2> SUFFICES ASSUME Gone("line"), pc # "data" PROVE FALSE
    OBVIOUS
  <2>1. <<"line", sent + 1>> \in lost' /\ sent + 1 \in 1 .. 3 * WordBytes /\ sent + 1 <= sent'
    BY <1>1, <1>3, <1>4 DEF Gone
  <2> QED BY <1>1, <1>2, <2>1
<1>10. pc # "off"
  BY DEF Reading
<1>11. \/ Gone("line") /\ Faulty /\ pc = "data"
       \/ \E byte \in Byte : Kept(byte) /\ (Faulty \/ (Faultless /\ byte = Image[sent + 1]))
  BY <1>8, <1>9, <1>10 DEF Sending
<1> QED BY <1>2, <1>4, <1>6, <1>11

\* A byte on the line keeps the flow: the FIFO has room for what is left of the header.
LEMMA FlowSend ==
    ASSUME LoaderTyped, Flow, Sending
    PROVE  Flow'
<1> SUFFICES ASSUME HeaderWhole' PROVE Flow'
  BY DEF Flow
<1>1. /\ sent \in Nat /\ sent' = sent + 1 /\ kernel' = kernel /\ fifo \in Seq([byte : Byte, at : 1 .. sent])
      /\ lost \subseteq lost' /\ LineTyped /\ Len(fifo) \in Nat
  BY SendFacts
<1>2. /\ HeaderWhole
      /\ \A at \in 1 .. 3 * WordBytes :
            at <= sent' => <<"early", at>> \notin lost' /\ <<"line", at>> \notin lost'
  BY <1>1, HeaderStays
<1>3. /\ WordBytes \in Nat \ {0} /\ FifoSize >= 2 * WordBytes /\ FifoSize \in Nat
  BY LoaderFacts
<1>4. /\ pc' = pc /\ i' = i /\ memory' = memory /\ Consumed' = Consumed /\ (Reading' <=> Reading)
  BY DEF Sending, loader, Consumed, SizeDigits, SumDigits, Reading
<1>5. Consumed \in Nat
  BY ConsumedFacts
<1>6. pc = "off" => FALSE
  <2> SUFFICES ASSUME pc = "off" PROVE FALSE
    OBVIOUS
  <2>1. sent = 0 /\ 1 \in 1 .. 3 * WordBytes /\ 1 <= sent'
    BY <1>1, <1>2, <1>3 DEF Flow
  <2>2. <<"early", 1>> \in lost' \/ <<"line", 1>> \in lost'
    BY <2>1 DEF Sending, Kept, Gone
  <2> QED BY <1>2, <2>1, <2>2
<1>7. pc = "flush" => sent' = 1 /\ Len(fifo') = 1 /\ fifo'[1].at = 1
  <2> SUFFICES ASSUME pc = "flush" PROVE sent' = 1 /\ Len(fifo') = 1 /\ fifo'[1].at = 1
    OBVIOUS
  <2>1. fifo = <<>> /\ Len(<<>>) = 0
    BY DEF Sending, Paced, Printing, Stopped
  <2>2. sent = 0 /\ 1 \in 1 .. 3 * WordBytes /\ 1 <= sent' /\ sent' = 1
    BY <1>1, <1>2, <1>3, <2>1 DEF Flow
  <2>5. Len(fifo) # FifoSize
    BY <1>3, <2>1
  <2>6. ~Gone("line")
    <3>3. 1 \in 1 .. 3 * WordBytes /\ 1 <= sent' /\ sent + 1 = 1
      BY <2>2
    <3>1. <<"line", 1>> \notin lost' /\ sent + 1 = 1
      BY <1>2, <3>3, Zenon
    <3>2. Gone("line") => <<"line", sent + 1>> \in lost'
      BY DEF Gone
    <3> QED BY <3>1, <3>2
  <2>3. PICK byte \in Byte : Kept(byte)
    BY <2>5, <2>6 DEF Sending
  <2>4. fifo' = Append(fifo, [byte |-> byte, at |-> 1])
    BY <2>2, <2>3 DEF Kept
  <2> QED BY <2>1, <2>2, <2>4
<1>8. CASE Reading /\ pc # "data"
  <2>1. PICK byte \in Byte : Kept(byte)
    BY <1>8, SendRoom
  <2>2. sent < 3 * WordBytes
    BY <1>8, SendRoom
  <2>3. /\ lost = {} /\ Consumed + Len(fifo) = sent
        /\ \A k \in DOMAIN fifo : fifo[k].at = Consumed + k
    BY <1>2, <1>8 DEF Flow
  <2> DEFINE e == [byte |-> byte, at |-> sent + 1]
  <2>4. fifo' = Append(fifo, e) /\ lost' = {} /\ e.at = sent + 1
    BY <2>1, <2>3 DEF Kept
  <2> HIDE DEF e
  <2>5. /\ Len(fifo') = Len(fifo) + 1 /\ DOMAIN fifo' = 1 .. Len(fifo) + 1
        /\ \A k \in 1 .. Len(fifo) : fifo'[k] = fifo[k] /\ k \in DOMAIN fifo
        /\ fifo'[Len(fifo) + 1] = e
    BY <1>1, <2>4
  <2>6. \A k \in DOMAIN fifo' : fifo'[k].at = Consumed + k
    <3> SUFFICES ASSUME NEW k \in 1 .. Len(fifo) + 1 PROVE fifo'[k].at = Consumed + k
      BY <2>5
    <3>1. CASE k \in 1 .. Len(fifo)
      BY <2>3, <2>5, <3>1
    <3>2. CASE k = Len(fifo) + 1
      BY <1>1, <1>5, <2>3, <2>4, <2>5, <3>2
    <3> QED BY <1>1, <3>1, <3>2
  <2>7. pc' \notin {"off", "flush", "data"}
    BY <1>4, <1>8 DEF Reading
  <2>8. sent' <= 3 * WordBytes /\ Consumed' + Len(fifo') = sent'
    <3> DEFINE c == Consumed
               l == Len(fifo)
               m == Len(fifo')
    <3>1. c \in Nat /\ l \in Nat /\ c + l = sent /\ m = l + 1 /\ Consumed' = c
      BY <1>1, <1>4, <1>5, <2>3, <2>5
    <3>2. sent' <= 3 * WordBytes
      BY <1>1, <1>3, <2>2
    <3> HIDE DEF c, l, m
    <3>3. c + m = sent'
      BY <1>1, <3>1
    <3> QED BY <3>1, <3>2, <3>3 DEF m
  <2>9. \A k \in DOMAIN fifo' : fifo'[k].at = Consumed' + k
    BY <1>4, <2>6
  <2> QED BY <2>4, <2>7, <2>8, <2>9 DEF Flow
<1>9. CASE pc = "data"
  <2>1. Reading
    BY <1>9 DEF Reading
  <2>2. fifo = <<>> /\ Len(<<>>) = 0 /\ Consumed + Len(fifo) <= sent /\ sent >= 3 * WordBytes
        /\ lost \subseteq {"line"} \X (3 * WordBytes + 1 .. sent)
    BY <1>2, <1>9, <2>1, SendRoom DEF Flow
  <2>3. 3 * WordBytes + 1 .. sent \subseteq 3 * WordBytes + 1 .. sent'
    BY <1>1, <1>3
  <2>4. CASE Gone("line")
    <3>1. sent + 1 \in 3 * WordBytes + 1 .. sent'
      BY <1>1, <1>3, <2>2
    <3>2. lost' \subseteq {"line"} \X (3 * WordBytes + 1 .. sent')
      BY <2>2, <2>3, <2>4, <3>1 DEF Gone
    <3>3. fifo' = <<>> /\ DOMAIN fifo' = {}
      BY <2>2, <2>4 DEF Gone
    <3> QED BY <1>1, <1>3, <1>4, <1>5, <1>9, <2>2, <3>2, <3>3 DEF Flow, Reading
  <2>5. CASE \E byte \in Byte : Kept(byte)
    <3>1. PICK byte \in Byte : Kept(byte)
      BY <2>5
    <3>2. fifo' = <<[byte |-> byte, at |-> sent + 1]>> /\ lost' = lost
      BY <2>2, <3>1 DEF Kept
    <3>3. Len(fifo') = 1 /\ DOMAIN fifo' = {1} /\ fifo'[1].at = sent'
      BY <1>1, <3>2
    <3>4. lost' \subseteq {"line"} \X (3 * WordBytes + 1 .. sent')
      BY <2>2, <2>3, <3>2
    <3> QED BY <1>1, <1>3, <1>4, <1>5, <1>9, <2>2, <3>3, <3>4 DEF Flow, Reading
  <2> QED BY <2>1, <2>4, <2>5, SendRoom
<1>10. CASE pc \notin {"off", "flush"} /\ ~Reading
  BY <1>4, <1>10 DEF Flow, Reading
<1>11. CASE pc = "flush"
  BY <1>4, <1>7, <1>11 DEF Flow, Reading
<1> QED BY <1>6, <1>8, <1>9, <1>10, <1>11

\* Reading a byte is counted.
LEMMA ConsumedGrows ==
    ASSUME LoaderTyped,
           (ReadMagic /\ pc' # "returned") \/ ReadSize \/ ReadChksum \/ ReadData
    PROVE  Consumed' = Consumed + 1
<1>1. WordBytes \in Nat \ {0} /\ Len(<<>>) = 0
  BY LoaderFacts
<1>2. CASE ReadMagic /\ pc' # "returned"
  <2>1. /\ pc = "magic" /\ i \in 0 .. WordBytes - 1 /\ memory = <<>> /\ memory' = memory
        /\ Round(WordBytes, "print_magic") /\ Consumed = i
    BY <1>2 DEF ReadMagic, LoaderTyped, LoadTyped, Reading, Consumed
  <2>2. CASE i + 1 < WordBytes
    BY <1>1, <2>1, <2>2 DEF Round, Consumed
  <2>3. CASE ~(i + 1 < WordBytes)
    BY <1>1, <2>1, <2>3 DEF Round, Consumed, SizeDigits, SumDigits
  <2> QED BY <2>2, <2>3
<1>3. CASE ReadSize
  <2>1. /\ pc = "size" /\ i \in 0 .. WordBytes - 1 /\ memory = <<>> /\ memory' = memory
        /\ Round(WordBytes, "print_size") /\ Consumed = WordBytes + i
    BY <1>1, <1>3 DEF ReadSize, LoaderTyped, LoadTyped, Reading, Consumed, SizeDigits, SumDigits
  <2>2. CASE i + 1 < WordBytes
    BY <1>1, <2>1, <2>2 DEF Round, Consumed, SizeDigits, SumDigits
  <2>3. CASE ~(i + 1 < WordBytes)
    BY <1>1, <2>1, <2>3 DEF Round, Consumed, SizeDigits, SumDigits
  <2> QED BY <2>2, <2>3
<1>4. CASE ReadChksum
  <2>1. /\ pc = "chksum" /\ i \in 0 .. WordBytes - 1 /\ memory = <<>> /\ memory' = memory
        /\ Round(WordBytes, "print_chksum") /\ Consumed = 2 * WordBytes + i
    BY <1>1, <1>4 DEF ReadChksum, LoaderTyped, LoadTyped, Reading, Consumed, SizeDigits, SumDigits
  <2>2. CASE i + 1 < WordBytes
    BY <1>1, <2>1, <2>2 DEF Round, Consumed, SizeDigits, SumDigits
  <2>3. CASE ~(i + 1 < WordBytes)
    BY <1>1, <2>1, <2>3 DEF Round, Consumed, SizeDigits, SumDigits
  <2> QED BY <2>2, <2>3
<1>5. CASE ReadData
  <2>1. /\ pc = "data" /\ Len(memory) \in Nat /\ Len(memory') = Len(memory) + 1
        /\ pc' \in {"data", "print_loaded"} /\ Consumed = 3 * WordBytes + Len(memory)
    BY <1>1, <1>5, Got, Appended DEF ReadData, Round, LoaderTyped, LoadTyped, Reading, Consumed,
                                     SizeDigits, SumDigits
  <2> QED BY <1>1, <2>1 DEF Consumed, SizeDigits, SumDigits
<1> QED BY <1>2, <1>3, <1>4, <1>5

\* A byte of the header is taken from the FIFO.
LEMMA FlowTaken ==
    ASSUME LoaderTyped, Flow, HeaderWhole, Takes, lost' = lost, sent' = sent,
           Reading, pc # "data", Reading', pc' # "data", Consumed' = Consumed + 1
    PROVE  Flow'
<1>1. /\ fifo \in Seq([byte : Byte, at : 1 .. sent]) /\ sent \in Nat
  BY DEF LoaderTyped, LineTyped
<1>2. /\ lost = {} /\ sent <= 3 * WordBytes /\ Consumed + Len(fifo) = sent
      /\ \A k \in DOMAIN fifo : fifo[k].at = Consumed + k
  BY DEF Flow
<1>3. /\ Len(fifo') = Len(fifo) - 1 /\ Len(fifo) \in Nat /\ DOMAIN fifo' = 1 .. Len(fifo')
      /\ \A k \in 1 .. Len(fifo') : fifo'[k] = fifo[k + 1] /\ k + 1 \in DOMAIN fifo
  BY <1>1, Taken DEF Takes
<1>4. Consumed \in Nat
  BY ConsumedFacts
<1>5. Consumed' + Len(fifo') = sent'
  <2> DEFINE c == Consumed
             l == Len(fifo)
             m == Len(fifo')
  <2>1. c \in Nat /\ l \in Nat /\ m = l - 1 /\ c + l = sent /\ Consumed' = c + 1
    BY <1>2, <1>3, <1>4
  <2> HIDE DEF c, l, m
  <2>2. (c + 1) + m = sent
    BY <1>1, <2>1
  <2> QED BY <2>1, <2>2 DEF m
<1>6. \A k \in DOMAIN fifo' : fifo'[k].at = Consumed' + k
  <2> SUFFICES ASSUME NEW k \in 1 .. Len(fifo') PROVE fifo'[k].at = Consumed' + k
    BY <1>3
  <2>1. fifo'[k].at = Consumed + (k + 1)
    BY <1>2, <1>3
  <2> QED BY <1>4, <2>1
<1>7. pc' \notin {"off", "flush", "data"}
  BY DEF Reading
<1> QED BY <1>2, <1>5, <1>6, <1>7 DEF Flow

\* The loader's steps keep the flow: each byte is taken in the order in which it came.
LEMMA FlowBoot ==
    ASSUME LoaderTyped, Flow, Boot
    PROVE  Flow'
<1> SUFFICES ASSUME HeaderWhole' PROVE Flow'
  BY DEF Flow
<1>1. /\ LineTyped /\ kernel' = kernel /\ sent' = sent /\ sent \in Nat /\ lost \subseteq lost'
      /\ fifo' = fifo \/ Takes
      /\ LoaderTyped'
      /\ fifo \in Seq([byte : Byte, at : 1 .. sent])
  BY BootLine, BootTyped DEF LoaderTyped, LineTyped
<1>2. /\ HeaderWhole
      /\ \A at \in 1 .. 3 * WordBytes :
            at <= sent' => <<"early", at>> \notin lost' /\ <<"line", at>> \notin lost'
  <2>1. sent <= sent'
    BY <1>1
  <2> QED BY <1>1, <2>1, HeaderStays
<1>3. WordBytes \in Nat \ {0} /\ Len(<<>>) = 0
  BY LoaderFacts
<1>4. CASE init_uart
  BY <1>1, <1>2, <1>4 DEF init_uart, Flow, Reading
<1>5. CASE uart_flush
  <2>1. CASE fifo = <<>>
    <3>1. sent = 0
      BY <1>2, <1>3, <1>5, <2>1 DEF uart_flush, Flow
    <3>2. lost = {} /\ 0 <= 3 * WordBytes
      BY <1>1, <1>3, <3>1 DEF LineTyped
    <3>3. /\ pc' = "magic" /\ fifo' = <<>> /\ lost' = {} /\ i' = 0
      BY <1>5, <2>1, <3>2 DEF uart_flush, LoaderTyped, LoadTyped
    <3>4. Consumed' = 0 /\ DOMAIN fifo' = {} /\ Len(fifo') = 0
      BY <1>3, <3>3 DEF Consumed
    <3> QED BY <1>1, <3>1, <3>2, <3>3, <3>4 DEF Flow
  <2>2. CASE fifo # <<>>
    <3>1. Head(fifo) \in [byte : Byte, at : 1 .. sent] /\ Head(fifo) = fifo[1]
      BY <1>1, <2>2, Taken
    <3>2. sent = 1 /\ fifo[1].at = 1
      BY <1>1, <1>2, <1>5, <3>1 DEF uart_flush, Flow
    <3>3. <<"early", 1>> \in lost'
      BY <1>5, <2>2, <3>1, <3>2 DEF uart_flush
    <3>4. 1 \in 1 .. 3 * WordBytes /\ 1 <= sent'
      BY <1>1, <1>3, <3>2
    <3> QED BY <1>2, <3>3, <3>4, Zenon
  <2> QED BY <2>1, <2>2
<1>6. CASE ReadMagic /\ pc' = "returned"
  BY <1>6 DEF Flow, Reading
<1>7. CASE (ReadMagic /\ pc' # "returned") \/ ReadSize \/ ReadChksum
  <2>1. Consumed' = Consumed + 1
    BY <1>7, ConsumedGrows
  <2>2. Takes /\ lost' = lost
    BY <1>7 DEF ReadMagic, ReadSize, ReadChksum, uart_getc, Takes
  <2>3. Reading /\ pc # "data" /\ Reading' /\ pc' # "data"
    BY <1>7 DEF ReadMagic, ReadSize, ReadChksum, Round, Reading
  <2> QED BY <1>1, <1>2, <2>1, <2>2, <2>3, FlowTaken
<1>8. CASE uart_puts
  <2>1. UNCHANGED <<fifo, lost, memory, i>>
    BY <1>8 DEF uart_puts
  <2>2. CASE pc \in {"print_magic", "print_size"}
    <3>1. Reading /\ pc # "data" /\ Reading' /\ pc' \notin {"off", "flush", "data"}
      BY <1>8, <2>2 DEF uart_puts, Reading
    <3>2. Consumed' = Consumed
      BY <1>3, <1>8, <2>1, <2>2
         DEF uart_puts, Consumed, SizeDigits, SumDigits, LoaderTyped, LoadTyped, Printing
    <3> QED BY <1>1, <1>2, <2>1, <3>1, <3>2 DEF Flow
  <2>3. CASE pc = "print_chksum"
    <3>1. Reading /\ pc # "data" /\ pc' \in {"print_loaded", "data"}
      BY <1>8, <2>3 DEF uart_puts, Reading
    <3>2. /\ lost = {} /\ sent <= 3 * WordBytes /\ Consumed + Len(fifo) = sent
          /\ memory = <<>> /\ Consumed = 3 * WordBytes /\ Len(fifo) \in Nat
      <4>1. lost = {} /\ sent <= 3 * WordBytes /\ Consumed + Len(fifo) = sent
        BY <1>2, <3>1 DEF Flow
      <4>2. memory = <<>> /\ Len(fifo) \in Nat
        BY <1>1, <3>1 DEF LoaderTyped, LoadTyped
      <4>3. Consumed = 3 * WordBytes
        BY <1>3, <2>3, <4>2 DEF Consumed, SizeDigits, SumDigits
      <4> QED BY <4>1, <4>2, <4>3
    <3>3. sent = 3 * WordBytes /\ Len(fifo) = 0
      <4> DEFINE l == Len(fifo)
      <4>1. 3 * WordBytes + l = sent /\ l \in Nat
        BY <3>2
      <4> HIDE DEF l
      <4>2. sent = 3 * WordBytes /\ l = 0
        BY <1>1, <1>3, <3>2, <4>1
      <4> QED BY <4>2 DEF l
    <3>4. DOMAIN fifo = {}
      BY <1>1, <3>3
    <3>5. CASE pc' = "data"
      <4>1. Consumed' = 3 * WordBytes
        BY <1>3, <2>1, <3>2, <3>5 DEF Consumed, SizeDigits, SumDigits
      <4>2. Consumed' + Len(fifo') <= sent'
        BY <1>1, <1>3, <2>1, <3>3, <4>1
      <4>3. sent' >= 3 * WordBytes /\ Len(fifo') <= 1 /\ lost' = {} /\ DOMAIN fifo' = {}
        BY <1>1, <1>3, <2>1, <3>2, <3>3, <3>4
      <4> QED BY <3>5, <4>2, <4>3 DEF Flow
    <3>6. CASE pc' = "print_loaded"
      BY <3>6 DEF Flow, Reading
    <3> QED BY <3>1, <3>5, <3>6
  <2>4. CASE pc = "print_loaded"
    BY <1>8, <2>4 DEF uart_puts, Flow, Reading
  <2> QED BY <1>8, <2>2, <2>3, <2>4 DEF uart_puts, Printing
<1>9. CASE ReadData
  <2>1. Takes /\ lost' = lost /\ pc = "data" /\ pc' \in {"data", "print_loaded"}
    BY <1>9 DEF ReadData, Round, uart_getc, Takes
  <2>2. CASE pc' = "print_loaded"
    BY <2>2 DEF Flow, Reading
  <2>3. CASE pc' = "data"
    <3>1. /\ lost \subseteq {"line"} \X (3 * WordBytes + 1 .. sent)
          /\ sent >= 3 * WordBytes /\ Consumed + Len(fifo) <= sent /\ Len(fifo) <= 1
      BY <1>2, <2>1 DEF Flow
    <3>2. Len(fifo) \in Nat \ {0} /\ Len(fifo') = Len(fifo) - 1 /\ fifo' \in Seq([byte : Byte, at : 1 .. sent])
      BY <1>1, <2>1, Taken DEF Takes
    <3>3. Len(fifo) = 1 /\ Len(fifo') = 0 /\ DOMAIN fifo' = {}
      BY <3>1, <3>2
    <3>4. Consumed' = Consumed + 1 /\ Consumed \in Nat
      BY <1>9, ConsumedGrows, ConsumedFacts
    <3>5. Consumed + 1 <= sent
      BY <1>1, <3>1, <3>3, <3>4
    <3>6. Consumed' + Len(fifo') <= sent'
      BY <1>1, <3>3, <3>4, <3>5
    <3>7. /\ lost' \subseteq {"line"} \X (3 * WordBytes + 1 .. sent')
          /\ sent' >= 3 * WordBytes /\ Len(fifo') <= 1
      BY <1>1, <2>1, <3>1, <3>3
    <3> QED BY <2>3, <3>3, <3>6, <3>7 DEF Flow
  <2> QED BY <2>1, <2>2, <2>3
<1>10. CASE Verify
  BY <1>10 DEF Verify, Flow, Reading
<1> QED BY <1>4, <1>5, <1>6, <1>7, <1>8, <1>9, <1>10 DEF Boot

\* Nothing flows at first.
LEMMA FlowStarts == LoaderInit => Flow
  BY DEF LoaderInit, Flow, Reading

LoaderInv == LoaderTyped /\ Flow

\* Every step: the host and the line, the loader, or nothing.
LEMMA LoaderSteps ==
    ASSUME LoaderNext
    PROVE  Send \/ Boot \/ UNCHANGED loader_vars
  BY DEF LoaderNext, Send, Done

\* A stuttering step keeps the invariant.
LEMMA LoaderStays ==
    ASSUME LoaderInv, UNCHANGED loader_vars
    PROVE  LoaderInv'
<1>1. Image' = Image /\ Header' = Header
  BY ImageStays DEF loader_vars
<1>2. LoaderTyped'
  BY <1>1 DEF loader_vars, loader, LoaderInv, LoaderTyped, LineTyped, LoadTyped, Reading, Loaded,
              Printing, SizeDigits, SumDigits
<1>3. Flow'
  BY <1>1 DEF loader_vars, loader, LoaderInv, Flow, HeaderWhole, Lost, Reading, Consumed,
              SizeDigits, SumDigits
<1> QED BY <1>2, <1>3 DEF LoaderInv

\* Everything received and read is where the program says, whatever the line
\* does.
THEOREM LoaderInvariant == LoaderSpec => []LoaderInv
<1>1. LoaderInit => LoaderInv
  BY LoaderStarts, FlowStarts DEF LoaderInv
<1>2. ASSUME LoaderInv, LoaderNext PROVE LoaderInv'
  <2>1. CASE Send
    <3>1. Sending
      BY <1>2, <2>1, SendCases DEF LoaderInv, LoaderTyped
    <3> QED BY <1>2, <3>1, SendTyped, FlowSend DEF LoaderInv
  <2>2. CASE Boot
    BY <1>2, <2>2, BootTyped, FlowBoot DEF LoaderInv
  <2>3. CASE UNCHANGED loader_vars
    BY <1>2, <2>3, LoaderStays
  <2> QED BY <1>2, <2>1, <2>2, <2>3, LoaderSteps
<1>3. LoaderInv /\ UNCHANGED loader_vars => LoaderInv'
  BY LoaderStays
<1> QED BY <1>1, <1>2, <1>3, PTL DEF LoaderSpec

\* The invariant implies NoOverrun.
LEMMA NoOverrunFollows == LoaderInv => NoOverrun
<1> SUFFICES ASSUME LoaderInv PROVE NoOverrun
  OBVIOUS
<1>1. fifo \in Seq([byte : Byte, at : 1 .. sent]) /\ memory \in Seq(Byte)
  BY DEF LoaderInv, LoaderTyped, LineTyped, LoadTyped
<1>2. /\ \A k \in DOMAIN fifo : fifo[k].byte \in Byte /\ fifo[k].at \in 1 .. sent
      /\ Range(memory) \subseteq Byte
  <2>1. \A k \in DOMAIN fifo : fifo[k] \in [byte : Byte, at : 1 .. sent]
    BY <1>1, Elements
  <2>2. \A k \in DOMAIN memory : memory[k] \in Byte
    BY <1>1
  <2> QED BY <2>1, <2>2 DEF Range
<1>3. LoaderTypeOK
  BY <1>2 DEF LoaderInv, LoaderTyped, LineTyped, LoadTyped, LoaderTypeOK
<1>4. Reading /\ HeaderWhole => Lost({"full"}) = {}
  BY DEF LoaderInv, Flow, Lost
<1> QED BY <1>3, <1>4 DEF NoOverrun

\* As long as load_kernel has bytes to read, none of a send whose header arrives
\* whole was lost in a full FIFO.
THEOREM LoaderNoOverrun == LoaderSpec => []NoOverrun
  BY LoaderInvariant, NoOverrunFollows, PTL

-----------------------------------------------------------------------------
(* What one fault can do                                                   *)

\* The FIFO grows by a byte.
LEMMA FifoGrows ==
    ASSUME LineTyped, kernel' = kernel, NEW e, fifo' = Append(fifo, e)
    PROVE  /\ FifoRight /\ Right(e) => FifoRight'
           /\ FifoRight => FifoNear'
           /\ FifoNear /\ Right(e) => FifoNear'
<1>1. Image' = Image
  BY ImageStays
<1>2. /\ Len(fifo) \in Nat /\ DOMAIN fifo = 1 .. Len(fifo) /\ DOMAIN fifo' = 1 .. Len(fifo) + 1
      /\ \A k \in 1 .. Len(fifo) : fifo'[k] = fifo[k]
      /\ fifo'[Len(fifo) + 1] = e
  <2>1. fifo \in Seq([byte : Byte, at : 1 .. sent])
    BY DEF LineTyped
  <2> QED BY <2>1
<1>3. \A k \in DOMAIN fifo' : k \in 1 .. Len(fifo) \/ k = Len(fifo) + 1
  BY <1>2
<1>4. \A k \in DOMAIN fifo' :
         Right(fifo[k])' = (fifo'[k].byte = Image[fifo'[k].at])
  BY <1>1 DEF Right
<1>5. \A k \in 1 .. Len(fifo) : Right(fifo[k])' = Right(fifo[k])
  BY <1>1, <1>2 DEF Right
<1>6. \A k \in DOMAIN fifo' : k \notin 1 .. Len(fifo) => Right(fifo[k])' = Right(e)
  BY <1>1, <1>2, <1>3 DEF Right
<1>7. FifoRight /\ Right(e) => FifoRight'
  BY <1>2, <1>3, <1>5, <1>6 DEF FifoRight
<1>8. FifoRight => FifoNear'
  BY <1>2, <1>3, <1>5 DEF FifoRight, FifoNear
<1>9. FifoNear /\ Right(e) => FifoNear'
  BY <1>2, <1>3, <1>5, <1>6 DEF FifoNear
<1> QED BY <1>7, <1>8, <1>9

\* The FIFO gives up a byte.
LEMMA FifoShrinks ==
    ASSUME LineTyped, kernel' = kernel, Takes
    PROVE  /\ FifoRight => FifoRight' /\ Right(Head(fifo))
           /\ FifoNear => FifoNear'
           /\ FifoNear /\ ~Right(Head(fifo)) => FifoRight'
<1>1. Image' = Image
  BY ImageStays
<1>2. /\ Len(fifo) \in Nat \ {0} /\ DOMAIN fifo = 1 .. Len(fifo)
      /\ DOMAIN fifo' = 1 .. Len(fifo) - 1
      /\ \A k \in 1 .. Len(fifo) - 1 : fifo'[k] = fifo[k + 1]
      /\ Head(fifo) = fifo[1]
  <2>1. fifo \in Seq([byte : Byte, at : 1 .. sent])
    BY DEF LineTyped
  <2> QED BY <2>1, Taken DEF Takes
<1>3. /\ 1 \in DOMAIN fifo
      /\ \A k \in DOMAIN fifo' : k + 1 \in DOMAIN fifo /\ k + 1 # 1 /\ k \in Nat
  BY <1>2
<1>4. \A k \in DOMAIN fifo' : Right(fifo[k])' = Right(fifo[k + 1])
  BY <1>1, <1>2 DEF Right
<1>5. FifoRight => FifoRight' /\ Right(Head(fifo))
  BY <1>2, <1>3, <1>4 DEF FifoRight
<1>6. FifoNear => FifoNear'
  <2> SUFFICES ASSUME FifoNear, NEW k \in DOMAIN fifo', NEW l \in DOMAIN fifo', k # l
               PROVE  Right(fifo[k])' \/ Right(fifo[l])'
    BY DEF FifoNear
  <2>1. k + 1 # l + 1
    BY <1>3
  <2> QED BY <1>3, <1>4, <2>1 DEF FifoNear
<1>7. FifoNear /\ ~Right(Head(fifo)) => FifoRight'
  <2> SUFFICES ASSUME FifoNear, ~Right(fifo[1]), NEW k \in DOMAIN fifo'
               PROVE  Right(fifo[k])'
    BY <1>2 DEF FifoRight
  <2> QED BY <1>3, <1>4 DEF FifoNear
<1> QED BY <1>5, <1>6, <1>7

\* While the loader stands still what it has read is as right as it was.
LEMMA RightStays ==
    ASSUME kernel' = kernel, UNCHANGED loader
    PROVE  /\ SizeRight' = SizeRight /\ SumRight' = SumRight /\ DataRight' = DataRight
           /\ OneWrong' = OneWrong /\ Consumed' = Consumed
           /\ Reading' = Reading /\ Loaded' = Loaded /\ pc' = pc
           /\ Sum(memory)' = Sum(memory) /\ chksum' = chksum
  BY DEF loader, SizeRight, SumRight, DataRight, DataNear, OneWrong, Consumed, Reading, Loaded,
         SizeDigits, SumDigits

\* A byte on the line keeps the account: the one fault goes to the FIFO or the kernel.
LEMMA AccountSend ==
    ASSUME LoaderTyped, Flow, Account, Sending, MaxFaults <= 1
    PROVE  Account'
<1> SUFFICES ASSUME HeaderWhole' PROVE Account'
  BY DEF Account
<1>1. /\ sent \in Nat /\ sent' = sent + 1 /\ kernel' = kernel /\ LineTyped
      /\ fifo \in Seq([byte : Byte, at : 1 .. sent]) /\ Len(fifo) \in Nat
      /\ lost \subseteq lost'
  BY SendFacts
<1>2. HeaderWhole
  <2>1. sent <= sent' /\ sent' \in Nat
    BY <1>1
  <2> QED BY <1>1, <2>1, HeaderStays
<1>3. /\ SizeRight' = SizeRight /\ SumRight' = SumRight /\ DataRight' = DataRight
      /\ OneWrong' = OneWrong /\ Consumed' = Consumed
      /\ Reading' = Reading /\ Loaded' = Loaded /\ pc' = pc
      /\ Sum(memory)' = Sum(memory) /\ chksum' = chksum
  <2>1. UNCHANGED loader
    BY DEF Sending
  <2> QED BY <1>1, <2>1, RightStays
<1>4. Faulty => faults = 0 /\ faults' = 1
  BY LoaderFacts DEF Faulty, LoaderTyped, LineTyped
<1>5. Consumed \in Nat
  BY ConsumedFacts
<1>6. CASE Reading
  <2>1. /\ faults = 0 => SizeRight /\ SumRight /\ DataRight /\ FifoRight /\ lost = {}
        /\ lost # {} => SizeRight /\ Consumed + Len(fifo) < sent
        /\ lost = {} => OneFault
    BY <1>2, <1>6 DEF Account
  <2>2. ~Loaded' /\ pc' # "started"
    BY <1>3, <1>6 DEF Reading, Loaded
  <2>3. CASE Gone("line") /\ Faulty /\ pc = "data"
    <3>1. fifo = <<>> /\ Len(<<>>) = 0
      BY <1>2, <1>6, <2>3, SendRoom
    <3>2. SizeRight' /\ lost' # {} /\ faults' = 1 /\ fifo' = <<>>
      BY <1>3, <1>4, <2>1, <2>3, <3>1 DEF Gone
    <3>3. Consumed = sent
      BY <1>4, <1>5, <2>1, <2>3, <3>1 DEF OneFault
    <3>4. Consumed' + Len(fifo') < sent'
      BY <1>1, <1>3, <3>1, <3>2, <3>3
    <3> QED BY <2>2, <3>2, <3>4 DEF Account
  <2>4. CASE \E byte \in Byte : Kept(byte) /\ (Faulty \/ (Faultless /\ byte = Image[sent + 1]))
    <3>1. PICK byte \in Byte : Kept(byte) /\ (Faulty \/ (Faultless /\ byte = Image[sent + 1]))
      BY <2>4
    <3>2. PICK e : e = [byte |-> byte, at |-> sent + 1]
      OBVIOUS
    <3>3. fifo' = Append(fifo, e) /\ lost' = lost /\ Len(fifo') = Len(fifo) + 1
      BY <1>1, <3>1, <3>2 DEF Kept
    <3>4. /\ FifoRight /\ Right(e) => FifoRight'
          /\ FifoRight => FifoNear'
          /\ FifoNear /\ Right(e) => FifoNear'
      BY <1>1, <3>3, FifoGrows
    <3>5. Consumed + Len(fifo) = sent => Consumed' + Len(fifo') = sent'
      <4> DEFINE l == Len(fifo)
                 m == Len(fifo')
      <4>1. l \in Nat /\ m = l + 1
        BY <1>1, <3>3
      <4> HIDE DEF l, m
      <4>2. Consumed + l = sent => Consumed' + m = sent'
        BY <1>1, <1>3, <1>5, <4>1
      <4> QED BY <4>2 DEF l, m
    <3>6. CASE Faulty
      <4>1. FifoNear' /\ lost' = {} /\ faults' = 1 /\ OneFault
        BY <1>4, <2>1, <3>3, <3>4, <3>6
      <4>2. SizeRight' /\ SumRight' /\ DataRight'
        BY <1>3, <1>4, <2>1, <3>6
      <4>3. OneFault'
        BY <1>3, <3>5, <4>1, <4>2 DEF OneFault
      <4> QED BY <2>2, <4>1, <4>3 DEF Account
    <3>7. CASE Faultless /\ byte = Image[sent + 1]
      <4>1. faults' = faults /\ Right(e)
        BY <3>2, <3>7 DEF Faultless, Right
      <4>2. faults' = 0 => SizeRight' /\ SumRight' /\ DataRight' /\ FifoRight' /\ lost' = {}
        BY <1>3, <2>1, <3>3, <3>4, <4>1
      <4>3. lost' # {} => SizeRight' /\ Consumed' + Len(fifo') < sent'
        <5> SUFFICES ASSUME lost # {} PROVE SizeRight' /\ Consumed' + Len(fifo') < sent'
          BY <3>3
        <5> DEFINE l == Len(fifo)
                   m == Len(fifo')
        <5>1. l \in Nat /\ m = l + 1 /\ Consumed + l < sent
          BY <1>1, <2>1, <3>3
        <5> HIDE DEF l, m
        <5>2. Consumed' + m < sent'
          BY <1>1, <1>3, <1>5, <5>1
        <5> QED BY <1>3, <2>1, <5>2 DEF m
      <4>4. lost' = {} => OneFault'
        BY <1>3, <2>1, <3>3, <3>4, <3>5, <4>1 DEF OneFault
      <4> QED BY <2>2, <4>2, <4>3, <4>4 DEF Account
    <3> QED BY <3>1, <3>6, <3>7
  <2> QED BY <1>6, <2>3, <2>4, SendRoom
<1>7. CASE Loaded
  <2>1. /\ OneWrong /\ Consumed <= sent
        /\ Lost({"early", "full", "line"}) \cap 1 .. Consumed = {}
        /\ pc = "started" => Sum(memory) = chksum
    BY <1>2, <1>7 DEF Account
  <2>2. Lost({"early", "full", "line"})' \subseteq Lost({"early", "full", "line"}) \cup {sent + 1}
    <3> SUFFICES ASSUME NEW at \in 1 .. sent', at # sent + 1,
                        NEW c \in {"early", "full", "line"}, <<c, at>> \in lost'
                 PROVE  at \in 1 .. sent /\ <<c, at>> \in lost
      BY DEF Lost
    <3>1. at \in 1 .. sent
      BY <1>1
    <3>2. lost' = lost \/ \E d \in {"early", "full", "line"} : lost' = lost \cup {<<d, sent + 1>>}
      BY DEF Sending, Kept, Gone
    <3> QED BY <3>1, <3>2
  <2>3. sent + 1 \notin 1 .. Consumed /\ Consumed <= sent'
    BY <1>1, <1>5, <2>1
  <2>4. Lost({"early", "full", "line"})' \cap 1 .. Consumed = {}
    BY <2>1, <2>2, <2>3
  <2>5. ~Reading'
    BY <1>3, <1>7 DEF Reading, Loaded
  <2> QED BY <1>3, <2>1, <2>3, <2>4, <2>5 DEF Account
<1>8. CASE ~Reading /\ ~Loaded
  BY <1>3, <1>8 DEF Account, Loaded
<1> QED BY <1>6, <1>7, <1>8

\* One more digit of a word that is right so far
LEMMA DigitRead ==
    ASSUME NEW k \in 0 .. WordBytes - 1, NEW v \in Nat, NEW x, x = v % Place[k]
    PROVE  x + Digit(v, k + 1) * Place[k] = v % Place[k + 1]
<1>1. k \in 0 .. WordBytes /\ k + 1 \in 1 .. WordBytes /\ (k + 1) - 1 = k
  BY LoaderFacts
<1>2. Place[k + 1] = Base * Place[k] /\ Place[k] \in Nat \ {0} /\ Base \in Nat \ {0}
  BY <1>1, PlaceFacts, LoaderFacts
<1>3. v % (Base * Place[k]) = (v % Place[k]) + ((v \div Place[k]) % Base) * Place[k]
  BY <1>2, DigitFacts
<1>4. Digit(v, k + 1) = (v \div Place[k]) % Base
  BY <1>1 DEF Digit
<1> QED BY <1>2, <1>3, <1>4

\* A word whose digits have all been read is the word sent.
LEMMA WordRead ==
    ASSUME NEW v \in Words
    PROVE  v % Place[WordBytes] = v
<1> DEFINE M == Place[WordBytes]
<1>1. M \in Nat \ {0} /\ v \in 0 .. M - 1
  BY LoaderFacts
<1> HIDE DEF M
<1>2. v % M = v
  BY <1>1
<1> QED BY <1>2 DEF M

\* Where the bytes in the FIFO are from, and that nothing else was lost
LEMMA HeadOfHeader ==
    ASSUME LoaderTyped, Flow, HeaderWhole, Takes, Reading, pc # "data"
    PROVE  Head(fifo).at = Consumed + 1 /\ lost = {}
<1>1. fifo \in Seq([byte : Byte, at : 1 .. sent])
  BY DEF LoaderTyped, LineTyped
<1>2. Head(fifo) = fifo[1] /\ 1 \in DOMAIN fifo
  BY <1>1 DEF Takes
<1> QED BY <1>2 DEF Flow

\* The parts of Account for the header's bytes
HeaderAccount ==
    /\ faults = 0 => SizeRight /\ SumRight /\ DataRight /\ FifoRight
    /\ OneWrong
    /\ FifoRight \/ (FifoNear /\ SizeRight /\ SumRight /\ DataRight)

\* While the header is read, the account is about size, sum and FIFO only.
LEMMA HeaderAccountFacts ==
    ASSUME Flow, HeaderWhole, Reading, pc # "data"
    PROVE  Account <=> HeaderAccount
<1>1. lost = {} /\ Consumed + Len(fifo) = sent
  BY DEF Flow
<1>2. ~Loaded /\ pc # "started"
  BY DEF Loaded, Reading
<1> QED BY <1>1, <1>2 DEF Account, HeaderAccount, OneFault

\* The three reads of the header have these facts in common.
LEMMA HeaderRead ==
    ASSUME LoaderTyped, Flow, HeaderAccount, HeaderWhole, LoaderTyped', UNCHANGED <<kernel, sent, faults>>,
           (ReadMagic /\ pc' # "returned") \/ ReadSize \/ ReadChksum
    PROVE  /\ Takes /\ Head(fifo).at = Consumed + 1 /\ Reading' /\ pc' # "data"
           /\ FifoRight => FifoRight' /\ Right(Head(fifo))
           /\ FifoNear => FifoNear'
           /\ FifoNear /\ ~Right(Head(fifo)) => FifoRight'
           /\ memory' = memory /\ memory = <<>> /\ DataRight /\ DataRight' /\ Len(memory) <= Len(kernel)
<1>1. Takes /\ memory' = memory
  BY DEF ReadMagic, ReadSize, ReadChksum, uart_getc, Takes
<1>2. Reading /\ pc # "data" /\ Reading' /\ pc' # "data"
  BY DEF ReadMagic, ReadSize, ReadChksum, Round, Reading
<1>3. Head(fifo).at = Consumed + 1
  BY <1>1, <1>2, HeadOfHeader
<1>4. memory = <<>> /\ Len(<<>>) = 0
  BY <1>2 DEF LoaderTyped, LoadTyped
<1>5. kernel \in Seq(Byte) /\ Len(kernel) \in Nat /\ kernel' = kernel
  BY ImageFacts DEF LoaderTyped, LineTyped
<1>6. FirstBytes(kernel, 0) = <<>>
  BY <1>5 DEF FirstBytes
<1>7. DataRight /\ DataRight' /\ Len(memory) <= Len(kernel)
  BY <1>1, <1>4, <1>5, <1>6 DEF DataRight
<1>8. /\ FifoRight => FifoRight' /\ Right(Head(fifo))
      /\ FifoNear => FifoNear'
      /\ FifoNear /\ ~Right(Head(fifo)) => FifoRight'
  BY <1>1, <1>5, FifoShrinks DEF LoaderTyped
<1> QED BY <1>1, <1>2, <1>3, <1>4, <1>7, <1>8

\* A wrong byte in the magic is refused.
LEMMA ReadMagicAccount ==
    ASSUME LoaderTyped, Flow, HeaderAccount, HeaderWhole, LoaderTyped', UNCHANGED <<kernel, sent, faults>>,
           ReadMagic, pc' # "returned"
    PROVE  HeaderAccount'
<1>1. /\ Takes /\ Head(fifo).at = Consumed + 1
      /\ FifoRight => FifoRight' /\ Right(Head(fifo))
      /\ FifoNear => FifoNear'
      /\ FifoNear /\ ~Right(Head(fifo)) => FifoRight'
      /\ memory' = memory /\ memory = <<>> /\ DataRight /\ DataRight' /\ Len(memory) <= Len(kernel)
  BY HeaderRead
<1>2. /\ pc = "magic" /\ i \in 0 .. WordBytes - 1 /\ Head(fifo).byte = Magic[i + 1]
      /\ UNCHANGED <<kernel_size, chksum>> /\ pc' \in {"magic", "print_magic"}
  BY DEF ReadMagic, Round, LoaderTyped, LoadTyped
<1>3. SizeRight' = SizeRight /\ SumRight' = SumRight
  BY <1>2 DEF SizeRight, SumRight, SizeDigits, SumDigits
<1> QED BY <1>1, <1>3 DEF HeaderAccount, OneWrong

\* A wrong byte of the size makes the size wrong, and all the rest is right.
LEMMA ReadSizeAccount ==
    ASSUME LoaderTyped, Flow, HeaderAccount, HeaderWhole, LoaderTyped', UNCHANGED <<kernel, sent, faults>>,
           ReadSize
    PROVE  HeaderAccount'
<1>1. /\ Takes /\ Head(fifo).at = Consumed + 1
      /\ FifoRight => FifoRight' /\ Right(Head(fifo))
      /\ FifoNear => FifoNear'
      /\ FifoNear /\ ~Right(Head(fifo)) => FifoRight'
      /\ memory' = memory /\ memory = <<>> /\ DataRight /\ DataRight' /\ Len(memory) <= Len(kernel)
  BY HeaderRead
<1>2. /\ pc = "size" /\ i \in 0 .. WordBytes - 1 /\ chksum' = chksum
      /\ kernel_size' = kernel_size + Head(fifo).byte * Place[i]
      /\ Round(WordBytes, "print_size")
  BY DEF ReadSize, LoaderTyped, LoadTyped
<1>3. SizeDigits = i /\ Consumed = WordBytes + i /\ WordBytes \in Nat \ {0}
  BY <1>1, <1>2, LoaderFacts DEF SizeDigits, SumDigits, Consumed
<1>4. SizeDigits' = i + 1
  <2>1. CASE i + 1 < WordBytes
    BY <1>2, <2>1 DEF Round, SizeDigits
  <2>2. CASE ~(i + 1 < WordBytes)
    BY <1>2, <1>3, <2>2 DEF Round, SizeDigits
  <2> QED BY <2>1, <2>2
<1>5. SumRight' = SumRight
  BY <1>2 DEF SumRight, SumDigits, Round
<1>6. SizeRight /\ Right(Head(fifo)) => SizeRight'
  <2> SUFFICES ASSUME SizeRight, Right(Head(fifo)) PROVE SizeRight'
    OBVIOUS
  <2>1. i + 1 \in 1 .. WordBytes /\ Head(fifo).at = WordBytes + (i + 1)
    BY <1>1, <1>2, <1>3
  <2>2. Head(fifo).byte = Digit(Len(kernel), i + 1) /\ Len(kernel) \in Nat
    BY <2>1, ImageFacts DEF LoaderTyped, LineTyped, Right
  <2>3. kernel_size = Len(kernel) % Place[i]
    BY <1>3 DEF SizeRight
  <2>4. kernel_size' = Len(kernel) % Place[i + 1]
    BY <1>2, <2>2, <2>3, DigitRead
  <2> QED BY <1>4, <2>4 DEF SizeRight
<1>7. CASE Right(Head(fifo))
  BY <1>1, <1>5, <1>6, <1>7 DEF HeaderAccount, OneWrong
<1>8. CASE ~Right(Head(fifo))
  BY <1>1, <1>5, <1>8 DEF HeaderAccount, OneWrong
<1> QED BY <1>7, <1>8

\* A wrong byte of the sum makes the sum wrong, and all the rest is right.
LEMMA ReadChksumAccount ==
    ASSUME LoaderTyped, Flow, HeaderAccount, HeaderWhole, LoaderTyped', UNCHANGED <<kernel, sent, faults>>,
           ReadChksum
    PROVE  HeaderAccount'
<1>1. /\ Takes /\ Head(fifo).at = Consumed + 1
      /\ FifoRight => FifoRight' /\ Right(Head(fifo))
      /\ FifoNear => FifoNear'
      /\ FifoNear /\ ~Right(Head(fifo)) => FifoRight'
      /\ memory' = memory /\ memory = <<>> /\ DataRight /\ DataRight' /\ Len(memory) <= Len(kernel)
  BY HeaderRead
<1>2. /\ pc = "chksum" /\ i \in 0 .. WordBytes - 1 /\ kernel_size' = kernel_size
      /\ chksum' = chksum + Head(fifo).byte * Place[i]
      /\ Round(WordBytes, "print_chksum")
  BY DEF ReadChksum, LoaderTyped, LoadTyped
<1>3. SumDigits = i /\ Consumed = 2 * WordBytes + i /\ WordBytes \in Nat \ {0}
  BY <1>1, <1>2, LoaderFacts DEF SizeDigits, SumDigits, Consumed
<1>4. SumDigits' = i + 1
  <2>1. CASE i + 1 < WordBytes
    BY <1>2, <2>1 DEF Round, SumDigits
  <2>2. CASE ~(i + 1 < WordBytes)
    BY <1>2, <1>3, <2>2 DEF Round, SumDigits
  <2> QED BY <2>1, <2>2
<1>5. SizeRight' = SizeRight
  BY <1>2 DEF SizeRight, SizeDigits, Round
<1>6. SumRight /\ Right(Head(fifo)) => SumRight'
  <2> SUFFICES ASSUME SumRight, Right(Head(fifo)) PROVE SumRight'
    OBVIOUS
  <2>1. i + 1 \in 1 .. WordBytes /\ Head(fifo).at = 2 * WordBytes + (i + 1)
    BY <1>1, <1>2, <1>3
  <2>2. Head(fifo).byte = Digit(Total(kernel), i + 1) /\ Total(kernel) \in Nat
    <3>1. kernel \in Kernels
      BY DEF LoaderTyped, LineTyped
    <3>2. Total(kernel) \in Nat
      BY <3>1, LoaderFacts
    <3>3. Image[2 * WordBytes + (i + 1)] = Digit(Total(kernel), i + 1)
      BY <2>1, <3>1, ImageFacts
    <3> QED BY <2>1, <3>2, <3>3 DEF Right
  <2>3. chksum = Total(kernel) % Place[i]
    BY <1>3 DEF SumRight
  <2>4. chksum' = Total(kernel) % Place[i + 1]
    BY <1>2, <2>2, <2>3, DigitRead
  <2> QED BY <1>4, <2>4 DEF SumRight
<1>7. CASE Right(Head(fifo))
  BY <1>1, <1>5, <1>6, <1>7 DEF HeaderAccount, OneWrong
<1>8. CASE ~Right(Head(fifo))
  BY <1>1, <1>5, <1>8 DEF HeaderAccount, OneWrong
<1> QED BY <1>7, <1>8

\* A byte of the kernel is stored: right bytes keep the data as it was, a wrong
\* one makes the sum differ by less than Base.
LEMMA DataGrows ==
    ASSUME NEW k \in Seq(Byte), NEW m \in Seq(Byte), NEW b \in Byte, Len(m) < Len(k)
    PROVE  /\ b = k[Len(m) + 1] /\ m = FirstBytes(k, Len(m)) =>
                 Append(m, b) = FirstBytes(k, Len(m) + 1)
           /\ Total(Append(m, b)) - Total(FirstBytes(k, Len(m) + 1)) =
                 (Total(m) - Total(FirstBytes(k, Len(m)))) + (b - k[Len(m) + 1])
           /\ Total(m) \in Nat /\ Total(FirstBytes(k, Len(m))) \in Nat
           /\ k[Len(m) + 1] \in Byte
<1>1. m \in Seq(Nat) /\ k \in Seq(Nat) /\ b \in Nat
  BY LoaderFacts, SeqGrows
<1>2. Len(m) \in Nat /\ Len(m) \in 0 .. Len(k) /\ Len(m) + 1 \in 1 .. Len(k) /\ Len(k) \in Nat
  BY <1>1
<1>3. k[Len(m) + 1] \in Byte
  BY <1>2
<1>4. k[Len(m) + 1] \in Nat
  BY <1>3, LoaderFacts
<1> DEFINE f == FirstBytes(k, Len(m))
           g == FirstBytes(k, Len(m) + 1)
           c == k[Len(m) + 1]
<1>5. f \in Seq(Nat) /\ g = Append(f, c)
  BY <1>1, <1>2, FirstBytesFacts
<1>6. Total(m) \in Nat /\ Total(Append(m, b)) = Total(m) + b
  BY <1>1, TotalFacts
<1>7. Total(f) \in Nat /\ Total(g) = Total(f) + c
  BY <1>4, <1>5, TotalFacts
<1>8. b = c /\ m = f => Append(m, b) = g
  BY <1>5
<1> HIDE DEF f, g, c
<1>9. Total(Append(m, b)) - Total(g) = (Total(m) - Total(f)) + (b - c)
  <2> DEFINE p == Total(m)
             q == Total(f)
             r == Total(Append(m, b))
             s == Total(g)
  <2>1. p \in Nat /\ q \in Nat /\ r = p + b /\ s = q + c /\ c \in Nat
    BY <1>4, <1>6, <1>7 DEF c
  <2> HIDE DEF p, q, r, s
  <2>2. r - s = (p - q) + (b - c)
    BY <1>1, <2>1
  <2> QED BY <2>2 DEF p, q, r, s
<1> QED BY <1>3, <1>6, <1>7, <1>8, <1>9 DEF f, g, c

\* The first byte of the kernel that is not stored yet
LEMMA ReadDataAccount ==
    ASSUME LoaderTyped, Flow, Account, HeaderWhole, LoaderTyped', Flow', HeaderWhole',
           UNCHANGED <<kernel, sent, faults>>, ReadData
    PROVE  Account'
<1> DEFINE n == Len(kernel)
           b == Head(fifo).byte
<1>1. /\ kernel \in Kernels /\ kernel \in Seq(Byte) /\ n \in Nat /\ sent \in 0 .. 3 * WordBytes + n
      /\ WordBytes \in Nat \ {0}
      /\ fifo \in Seq([byte : Byte, at : 1 .. sent]) /\ LineTyped
  BY ImageFacts, LoaderFacts DEF LoaderTyped, LineTyped
<1>2. /\ pc = "data" /\ Takes /\ lost' = lost /\ b \in Byte
      /\ memory' = Append(memory, b) /\ UNCHANGED <<kernel_size, chksum>>
      /\ pc' \in {"data", "print_loaded"} /\ Reading /\ i = Len(memory)
      /\ pc' = "print_loaded" => i + 1 >= kernel_size
  <2>1. b \in Byte /\ Takes /\ lost' = lost
    BY Got DEF LoaderTyped, ReadData, uart_getc
  <2>2. i = Len(memory) /\ i \in Nat /\ kernel_size \in Nat
    BY LoaderFacts DEF ReadData, LoaderTyped, LoadTyped
  <2>3. pc' \in {"data", "print_loaded"} /\ (pc' = "print_loaded" => i + 1 >= kernel_size)
    BY <2>2 DEF ReadData, Round
  <2> QED BY <2>1, <2>2, <2>3 DEF ReadData, Reading
<1>3. memory \in Seq(Byte) /\ Len(memory) \in Nat /\ Len(memory') = Len(memory) + 1
  <2>1. memory \in Seq(Byte)
    BY DEF LoaderTyped, LoadTyped
  <2> QED BY <1>2, <2>1
<1>4. /\ Consumed = 3 * WordBytes + Len(memory) /\ Consumed' = Consumed + 1 /\ Consumed \in Nat
  BY <1>2, ConsumedFacts, ConsumedGrows
<1>5. Len(fifo) = 1 /\ Len(fifo') = 0 /\ Head(fifo).at = sent /\ Consumed + 1 <= sent
  <2>1. /\ Consumed + Len(fifo) <= sent /\ Len(fifo) <= 1
        /\ \A k \in DOMAIN fifo : fifo[k].at = sent
    BY <1>2 DEF Flow
  <2>2. /\ Len(fifo) \in Nat \ {0} /\ Len(fifo') = Len(fifo) - 1 /\ Head(fifo) = fifo[1]
        /\ 1 \in DOMAIN fifo
    BY <1>1, <1>2, Taken DEF Takes
  <2>3. Len(fifo) = 1
    BY <2>1, <2>2
  <2> QED BY <2>1, <2>2, <2>3
<1>6. /\ FifoRight => FifoRight' /\ Right(Head(fifo))
      /\ FifoNear => FifoNear'
      /\ FifoNear /\ ~Right(Head(fifo)) => FifoRight'
  BY <1>1, <1>2, FifoShrinks
<1>7. SizeDigits = WordBytes /\ SumDigits = WordBytes /\ SizeDigits' = WordBytes /\ SumDigits' = WordBytes
  BY <1>2 DEF SizeDigits, SumDigits
<1>8. SizeRight' = SizeRight /\ SumRight' = SumRight
  BY <1>2, <1>7 DEF SizeRight, SumRight
<1>9. /\ faults = 0 => SizeRight /\ SumRight /\ DataRight /\ FifoRight /\ lost = {}
      /\ lost # {} => SizeRight /\ Consumed + Len(fifo) < sent
      /\ lost = {} => OneFault
  BY <1>2 DEF Account
<1>10. Len(memory) < n
  BY <1>1, <1>3, <1>4, <1>5
<1> DEFINE c == kernel[Len(memory) + 1]
           d == Total(memory) - Total(FirstBytes(kernel, Len(memory)))
           e == Total(memory') - Total(FirstBytes(kernel, Len(memory) + 1))
<1>11. /\ b = c /\ memory = FirstBytes(kernel, Len(memory)) =>
             memory' = FirstBytes(kernel, Len(memory) + 1)
       /\ e = d + (b - c) /\ d \in Int /\ c \in Byte
       /\ memory = FirstBytes(kernel, Len(memory)) => d = 0
  <2>1. /\ b = kernel[Len(memory) + 1] /\ memory = FirstBytes(kernel, Len(memory)) =>
             Append(memory, b) = FirstBytes(kernel, Len(memory) + 1)
        /\ Total(Append(memory, b)) - Total(FirstBytes(kernel, Len(memory) + 1)) =
                 (Total(memory) - Total(FirstBytes(kernel, Len(memory)))) + (b - kernel[Len(memory) + 1])
        /\ Total(memory) \in Nat /\ Total(FirstBytes(kernel, Len(memory))) \in Nat
        /\ kernel[Len(memory) + 1] \in Byte
    BY <1>1, <1>2, <1>3, <1>10, DataGrows
  <2>2. d \in Int /\ (memory = FirstBytes(kernel, Len(memory)) => d = 0)
    BY <2>1
  <2> QED BY <1>2, <2>1, <2>2
<1>12. /\ DataRight <=> memory = FirstBytes(kernel, Len(memory))
       /\ DataNear <=> d # 0 /\ -Base < d /\ d < Base
       /\ DataRight' <=> memory' = FirstBytes(kernel, Len(memory) + 1)
       /\ DataNear' <=> e # 0 /\ -Base < e /\ e < Base
  BY <1>3 DEF DataRight, DataNear
<1>13. Right(Head(fifo)) /\ lost = {} => b = c
  <2> SUFFICES ASSUME Right(Head(fifo)), lost = {} PROVE b = c
    OBVIOUS
  <2>1. Consumed + Len(fifo) = sent
    BY <1>9 DEF OneFault
  <2>2. sent = 3 * WordBytes + (Len(memory) + 1)
    BY <1>1, <1>3, <1>4, <1>5, <2>1
  <2>3. Len(memory) + 1 \in 1 .. n
    BY <1>1, <1>3, <1>10
  <2>4. Image[sent] = c
    BY <1>1, <2>2, <2>3, ImageFacts
  <2> QED BY <1>5, <2>4 DEF Right
<1>14. ~Right(Head(fifo)) /\ lost = {} => b # c
  <2> SUFFICES ASSUME ~Right(Head(fifo)), lost = {} PROVE b # c
    OBVIOUS
  <2>1. Consumed + Len(fifo) = sent
    BY <1>9 DEF OneFault
  <2>2. sent = 3 * WordBytes + (Len(memory) + 1)
    BY <1>1, <1>3, <1>4, <1>5, <2>1
  <2>3. Len(memory) + 1 \in 1 .. n
    BY <1>1, <1>3, <1>10
  <2>4. Image[sent] = c
    BY <1>1, <2>2, <2>3, ImageFacts
  <2> QED BY <1>5, <2>4 DEF Right
<1> HIDE DEF b, c, d, e
<1>15. lost = {} =>
         OneWrong' /\ (FifoRight' \/ (FifoNear' /\ SizeRight' /\ SumRight' /\ DataRight'))
  <2> SUFFICES ASSUME lost = {}
               PROVE  OneWrong' /\ (FifoRight' \/ (FifoNear' /\ SizeRight' /\ SumRight' /\ DataRight'))
    OBVIOUS
  <2>1. /\ SizeRight \/ SumRight
        /\ SizeRight \/ DataRight
        /\ SumRight \/ DataRight
        /\ DataRight \/ DataNear
        /\ FifoRight \/ (FifoNear /\ SizeRight /\ SumRight /\ DataRight)
    BY <1>9 DEF OneFault, OneWrong
  <2>2. Len(memory)' <= Len(kernel)'
    BY <1>1, <1>3, <1>10
  <2>3. CASE Right(Head(fifo))
    <3>1. DataRight => DataRight'
      BY <1>11, <1>12, <1>13, <2>3
    <3>2. DataNear => DataNear'
      <4>1. b = c /\ c \in Nat
        BY <1>11, <1>13, <2>3, LoaderFacts
      <4>2. e = d
        BY <1>11, <4>1
      <4> QED BY <1>12, <4>2
    <3> QED BY <1>6, <1>8, <2>1, <2>2, <2>3, <3>1, <3>2 DEF OneWrong
  <2>4. CASE ~Right(Head(fifo))
    <3>1. SizeRight /\ SumRight /\ DataRight /\ FifoRight'
      BY <1>6, <2>1, <2>4
    <3>2. DataNear'
      <4>1. b # c /\ b \in 0 .. Base - 1 /\ c \in 0 .. Base - 1 /\ Base \in Nat /\ d = 0
        BY <1>2, <1>11, <1>12, <1>14, <2>4, <3>1, LoaderFacts DEF Byte
      <4>2. e = b - c
        BY <1>11, <4>1
      <4>3. e # 0 /\ -Base < e /\ e < Base
        BY <4>1, <4>2
      <4> QED BY <1>12, <4>3
    <3> QED BY <1>8, <2>2, <3>1, <3>2 DEF OneWrong
  <2> QED BY <2>3, <2>4
<1>16. CASE pc' = "data"
  <2>1. Reading' /\ ~Loaded' /\ pc' # "started"
    BY <1>16 DEF Reading, Loaded
  <2>2. faults' = 0 => SizeRight' /\ SumRight' /\ DataRight' /\ FifoRight' /\ lost' = {}
    BY <1>2, <1>6, <1>8, <1>9, <1>11, <1>12, <1>13
  <2>3. lost' # {} => SizeRight' /\ Consumed' + Len(fifo') < sent'
    <3> SUFFICES ASSUME lost # {} PROVE SizeRight' /\ Consumed' + Len(fifo') < sent'
      BY <1>2
    <3>1. Consumed + 1 < sent
      BY <1>5, <1>9
    <3> QED BY <1>1, <1>4, <1>5, <1>8, <1>9, <3>1
  <2>4. lost' = {} => OneFault'
    <3> SUFFICES ASSUME lost = {} PROVE OneFault'
      BY <1>2
    <3>1. Consumed + Len(fifo) = sent
      BY <1>9 DEF OneFault
    <3>2. Consumed' + Len(fifo') = sent'
      BY <1>1, <1>4, <1>5, <3>1
    <3> QED BY <1>15, <3>2 DEF OneFault
  <2> QED BY <2>1, <2>2, <2>3, <2>4 DEF Account
<1>17. CASE pc' = "print_loaded"
  <2>1. ~Reading' /\ pc' # "started"
    BY <1>17 DEF Reading
  <2>2. lost = {}
    <3> SUFFICES ASSUME lost # {} PROVE FALSE
      OBVIOUS
    <3>1. SizeRight /\ Consumed + 1 < sent
      BY <1>5, <1>9
    <3>2. n \in Words
      BY <1>1, LoaderFacts
    <3>3. kernel_size = n
      BY <1>7, <3>1, <3>2, WordRead DEF SizeRight
    <3>4. Len(memory) + 1 >= n
      BY <1>2, <1>17, <3>3
    <3> QED BY <1>1, <1>3, <1>4, <3>1, <3>4
  <2>3. Consumed' <= sent'
    BY <1>1, <1>4, <1>5
  <2>4. Lost({"early", "full", "line"})' = {}
    BY <1>2, <2>2 DEF Lost
  <2> QED BY <1>15, <2>1, <2>2, <2>3, <2>4 DEF Account
<1> QED BY <1>2, <1>16, <1>17

\* load_kernel starts reading with nothing read and nothing received.
LEMMA FlushAccount ==
    ASSUME LoaderTyped, Flow, HeaderWhole, LoaderTyped', Flow', HeaderWhole', uart_flush
    PROVE  Account'
<1>1. CASE pc' = "flush"
  BY <1>1 DEF Account, Reading, Loaded
<1>2. CASE pc' # "flush"
  <2>1. /\ pc = "flush" /\ pc' = "magic" /\ fifo = <<>> /\ fifo' = <<>> /\ i' = 0
        /\ UNCHANGED <<kernel, kernel_size, chksum, memory>>
    BY <1>2 DEF uart_flush, LoaderTyped, LoadTyped
  <2>2. kernel \in Kernels /\ Len(kernel) \in Nat /\ Total(kernel) \in Nat /\ kernel \in Seq(Byte)
    <3>1. kernel \in Kernels
      BY DEF LoaderTyped, LineTyped
    <3> QED BY <3>1, LoaderFacts
  <2>3. memory' = <<>> /\ kernel_size' = 0 /\ chksum' = 0
    BY <2>1, PlaceFacts DEF LoaderTyped, LoadTyped, SizeDigits, SumDigits
  <2>4. SizeDigits' = 0 /\ SumDigits' = 0 /\ Place[0] = 1
    BY <2>1, PlaceFacts DEF SizeDigits, SumDigits
  <2>5. SizeRight' /\ SumRight'
    BY <2>1, <2>2, <2>3, <2>4 DEF SizeRight, SumRight
  <2>6. DataRight' /\ Len(memory') <= Len(kernel')
    <3>1. FirstBytes(kernel, 0) = <<>> /\ Len(<<>>) = 0
      BY <2>2 DEF FirstBytes
    <3> QED BY <2>1, <2>2, <2>3, <3>1 DEF DataRight
  <2>7. FifoRight'
    BY <2>1 DEF FifoRight
  <2>8. Reading' /\ ~Loaded' /\ pc' # "started" /\ pc' # "data"
    BY <2>1 DEF Reading, Loaded
  <2>9. lost' = {} /\ Consumed' + Len(fifo') = sent'
    BY <2>8 DEF Flow
  <2> QED BY <2>5, <2>6, <2>7, <2>8, <2>9 DEF Account, OneFault, OneWrong
<1> QED BY <1>1, <1>2

\* A printed message keeps the account.
LEMMA PrintAccount ==
    ASSUME LoaderTyped, Flow, Account, HeaderWhole, LoaderTyped', Flow', HeaderWhole', uart_puts
    PROVE  Account'
<1>1. UNCHANGED <<kernel, sent, fifo, i, kernel_size, chksum, memory, faults, lost>> /\ Printing
  BY DEF uart_puts
<1>2. WordBytes \in Nat \ {0} /\ Len(<<>>) = 0
  BY LoaderFacts
<1>3. SizeDigits' = SizeDigits /\ SumDigits' = SumDigits /\ Consumed' = Consumed
  BY <1>1, <1>2 DEF uart_puts, Printing, SizeDigits, SumDigits, Consumed, LoaderTyped, LoadTyped
<1>4. Image' = Image
  BY <1>1, ImageStays
<1>5. /\ SizeRight' = SizeRight /\ SumRight' = SumRight /\ DataRight' = DataRight
      /\ OneWrong' = OneWrong /\ FifoRight' = FifoRight /\ FifoNear' = FifoNear
      /\ OneFault' = OneFault
  BY <1>1, <1>3, <1>4 DEF SizeRight, SumRight, DataRight, DataNear, OneWrong, FifoRight, FifoNear,
                          Right, OneFault
<1>6. CASE pc = "print_loaded"
  <2>1. Loaded /\ Loaded' /\ ~Reading' /\ pc' # "started"
    BY <1>6 DEF uart_puts, Loaded, Reading
  <2>2. Lost({"early", "full", "line"})' = Lost({"early", "full", "line"})
    BY <1>1 DEF Lost
  <2> QED BY <1>1, <1>3, <1>5, <2>1, <2>2 DEF Account
<1>7. CASE pc # "print_loaded"
  <2>1. Reading /\ pc # "data" /\ pc' # "started" /\ (Reading' \/ pc' = "print_loaded")
    BY <1>1, <1>7 DEF uart_puts, Printing, Reading
  <2>2. lost = {} /\ Consumed + Len(fifo) = sent
    BY <2>1 DEF Flow
  <2>3. /\ faults = 0 => SizeRight /\ SumRight /\ DataRight /\ FifoRight
        /\ OneFault
    BY <2>1, <2>2 DEF Account
  <2>4. CASE Reading'
    <3>1. ~Loaded'
      BY <2>4 DEF Loaded, Reading
    <3> QED BY <1>1, <1>5, <2>1, <2>2, <2>3, <3>1 DEF Account
  <2>5. CASE pc' = "print_loaded"
    <3>1. ~Reading'
      BY <2>5 DEF Reading
    <3>2. Consumed <= sent
      <4>1. Len(fifo) \in Nat /\ Consumed \in Nat /\ sent \in Nat
        <5>1. fifo \in Seq([byte : Byte, at : 1 .. sent]) /\ sent \in Nat
          BY DEF LoaderTyped, LineTyped
        <5> QED BY <5>1, ConsumedFacts
      <4> QED BY <2>2, <4>1
    <3>3. Lost({"early", "full", "line"})' = {}
      BY <1>1, <2>2 DEF Lost
    <3> QED BY <1>1, <1>3, <1>5, <2>1, <2>3, <3>1, <3>2, <3>3 DEF Account, OneFault
  <2> QED BY <2>1, <2>4, <2>5
<1> QED BY <1>6, <1>7

\* The sums agree only if what was loaded is the kernel.
LEMMA VerifyAccount ==
    ASSUME LoaderTyped, Account, HeaderWhole, Verify
    PROVE  Account'
<1>1. /\ UNCHANGED <<kernel, sent, fifo, i, kernel_size, chksum, memory, faults, lost>>
      /\ pc = "verify" /\ pc' \in {"started", "returned"}
      /\ pc' = "started" => Sum(memory) = chksum
  BY DEF Verify
<1>2. Loaded /\ ~Reading' /\ (Loaded' => pc' = "started")
  BY <1>1 DEF Loaded, Reading
<1>3. Consumed' = Consumed /\ OneWrong' = OneWrong
  BY <1>1 DEF Consumed, SizeDigits, SumDigits, OneWrong, SizeRight, SumRight, DataRight, DataNear
<1>4. Lost({"early", "full", "line"})' = Lost({"early", "full", "line"})
  BY <1>1 DEF Lost
<1> QED BY <1>1, <1>2, <1>3, <1>4 DEF Account

\* Every step of the loader keeps the account.
LEMMA AccountBoot ==
    ASSUME LoaderTyped, Flow, Account, Boot
    PROVE  Account'
<1> SUFFICES ASSUME HeaderWhole' PROVE Account'
  BY DEF Account
<1>1. /\ LineTyped /\ UNCHANGED <<kernel, sent, faults>> /\ sent \in Nat /\ lost \subseteq lost'
      /\ LoaderTyped' /\ Flow'
  BY BootLine, BootTyped, FlowBoot DEF LoaderTyped, LineTyped
<1>2. HeaderWhole
  <2>1. sent <= sent' /\ sent' \in Nat /\ kernel' = kernel
    BY <1>1
  <2> QED BY <1>1, <2>1, HeaderStays
<1>3. CASE init_uart
  BY <1>3 DEF init_uart, Account, Reading, Loaded
<1>4. CASE uart_flush
  BY <1>1, <1>2, <1>4, FlushAccount
<1>5. CASE ReadMagic /\ pc' = "returned"
  BY <1>5 DEF Account, Reading, Loaded
<1>6. CASE (ReadMagic /\ pc' # "returned") \/ ReadSize \/ ReadChksum
  <2>1. Reading /\ pc # "data" /\ Reading' /\ pc' # "data" /\ lost' = lost
    BY <1>6 DEF ReadMagic, ReadSize, ReadChksum, Round, Reading, uart_getc
  <2>2. HeaderAccount
    BY <1>2, <2>1, HeaderAccountFacts
  <2>3. HeaderAccount'
    BY <1>1, <1>2, <1>6, <2>2, ReadMagicAccount, ReadSizeAccount, ReadChksumAccount
  <2>4. lost' = {} /\ Consumed' + Len(fifo') = sent'
    BY <1>1, <2>1 DEF Flow
  <2>5. ~Loaded' /\ pc' # "started"
    BY <2>1 DEF Loaded, Reading
  <2> QED BY <2>1, <2>3, <2>4, <2>5 DEF Account, HeaderAccount, OneFault
<1>7. CASE uart_puts
  BY <1>1, <1>2, <1>7, PrintAccount
<1>8. CASE ReadData
  BY <1>1, <1>2, <1>8, ReadDataAccount
<1>9. CASE Verify
  BY <1>2, <1>9, VerifyAccount
<1> QED BY <1>3, <1>4, <1>5, <1>6, <1>7, <1>8, <1>9 DEF Boot

\* A stuttering step keeps the account.
LEMMA AccountStays ==
    ASSUME Account, UNCHANGED loader_vars
    PROVE  Account'
<1>1. Image' = Image /\ Header' = Header
  BY ImageStays DEF loader_vars
<1>2. UNCHANGED <<kernel, sent, fifo, pc, i, kernel_size, chksum, memory, faults, lost>>
  BY DEF loader_vars, loader
<1>3. /\ SizeDigits' = SizeDigits /\ SumDigits' = SumDigits /\ Consumed' = Consumed
      /\ Reading' = Reading /\ Loaded' = Loaded /\ HeaderWhole' = HeaderWhole
      /\ Lost({"early", "full", "line"})' = Lost({"early", "full", "line"})
  BY <1>1, <1>2 DEF SizeDigits, SumDigits, Consumed, Reading, Loaded, HeaderWhole, Lost
<1>4. /\ SizeRight' = SizeRight /\ SumRight' = SumRight /\ DataRight' = DataRight
      /\ OneWrong' = OneWrong /\ FifoRight' = FifoRight
      /\ OneFault' = OneFault
  BY <1>1, <1>2, <1>3 DEF SizeRight, SumRight, DataRight, DataNear, OneWrong, FifoRight, FifoNear,
                          Right, OneFault
<1> QED BY <1>2, <1>3, <1>4 DEF Account

\* What is entered is right: of the size, the sum and the data at most one is
\* not, and a wrong size with a sum that fits leaves out zeros only.
LEMMA StartsSentKernelFollows == LoaderInv /\ Account => StartsSentKernel
<1> SUFFICES ASSUME LoaderInv, Account, pc = "started", HeaderWhole
             PROVE  /\ Lost({"early", "full", "line"}) \cap 1 .. Len(Header) + Len(memory) = {}
                    /\ IsPrefix(memory, kernel)
                    /\ \A k \in Len(memory) + 1 .. Len(kernel) : kernel[k] = 0
  BY DEF StartsSentKernel
<1> DEFINE n == Len(kernel)
           v == Total(kernel)
           M == Place[WordBytes]
           m == Len(memory)
           t == Total(memory)
<1>1. /\ kernel \in Kernels /\ kernel \in Seq(Byte) /\ n \in Nat /\ n \in Words /\ v \in Words
      /\ Len(Header) = 3 * WordBytes /\ memory \in Seq(Byte) /\ m = kernel_size /\ m \in Nat
      /\ Loaded
  <2>1. kernel \in Kernels /\ memory \in Seq(Byte) /\ Len(memory) = kernel_size /\ Loaded
    BY DEF LoaderInv, LoaderTyped, LineTyped, LoadTyped, Loaded
  <2> QED BY <2>1, LoaderFacts, ImageFacts
<1>2. /\ OneWrong /\ Sum(memory) = chksum
      /\ Lost({"early", "full", "line"}) \cap 1 .. Consumed = {}
  BY <1>1 DEF Account
<1>3. Consumed = Len(Header) + Len(memory)
  BY <1>1, ConsumedFacts DEF LoaderInv
<1>4. SizeDigits = WordBytes /\ SumDigits = WordBytes
  BY DEF SizeDigits, SumDigits
<1>5. /\ SizeRight <=> m = n
      /\ SumRight <=> t % M = v
  BY <1>1, <1>2, <1>4, WordRead DEF SizeRight, SumRight, Sum
<1>6. M \in Nat \ {0} /\ v \in Nat /\ v < M /\ Base \in Nat /\ Base <= M
  <2>1. M \in Nat \ {0} /\ v \in 0 .. M - 1 /\ Base \in Nat /\ WordBytes \in Nat \ {0}
    BY <1>1, LoaderFacts
  <2>2. 1 \in 0 .. WordBytes /\ 1 \in 1 .. WordBytes
    BY <2>1
  <2>3. Place[1] = Base * Place[1 - 1] /\ 1 - 1 = 0 /\ Place[0] = 1
    BY <2>2, PlaceFacts
  <2>4. Place[1] = Base
    BY <2>1, <2>3
  <2>5. Place[1] <= M
    BY <2>2, PlaceMono
  <2> QED BY <2>1, <2>4, <2>5
<1>7. /\ kernel \in Seq(Nat) /\ memory \in Seq(Nat) /\ m <= n
      /\ FirstBytes(kernel, n) = kernel /\ t \in Nat
  <2>1. kernel \in Seq(Nat) /\ memory \in Seq(Nat)
    BY <1>1, LoaderFacts, SeqGrows
  <2>2. t \in Nat
    BY <2>1, TotalFacts
  <2>3. n \in 0 .. Len(kernel)
    BY <1>1
  <2>4. FirstBytes(kernel, n) = kernel
    BY <2>1, <2>3, FirstBytesFacts
  <2> QED BY <1>2, <2>1, <2>2, <2>4 DEF OneWrong
<1>8. DataRight
  <2> SUFFICES ASSUME ~DataRight PROVE FALSE
    OBVIOUS
  <2>1. m = n /\ t % M = v /\ DataNear
    BY <1>2, <1>5 DEF OneWrong
  <2>2. /\ t - v # 0 /\ -Base < t - v /\ t - v < Base
    BY <1>7, <2>1 DEF DataNear
  <2> HIDE DEF n, v, M, m, t
  <2>3. t = v + (t - v) /\ t \in Nat
    BY <1>6, <1>7
  <2>4. CASE t < M
    <3>1. t % M = t
      BY <1>6, <1>7, <2>4
    <3> QED BY <1>6, <1>7, <2>1, <2>2, <3>1
  <2>5. CASE t >= M
    <3> DEFINE u == t - M
    <3>1. u \in 0 .. M - 1 /\ t = 1 * M + u
      BY <1>6, <1>7, <2>2, <2>5
    <3> HIDE DEF u
    <3>2. t % M = u
      BY <1>6, <3>1
    <3>3. u = v /\ t = M + v
      BY <1>6, <2>1, <3>1, <3>2
    <3> QED BY <1>6, <1>7, <2>2, <3>3
  <2> QED BY <1>6, <1>7, <2>4, <2>5
<1>9. memory = FirstBytes(kernel, m)
  BY <1>8 DEF DataRight
<1>10. /\ t <= v /\ t = v => \A k \in m + 1 .. n : kernel[k] = 0
  <2>1. m \in 0 .. Len(kernel)
    BY <1>1, <1>7
  <2>2. /\ Total(FirstBytes(kernel, m)) <= Total(kernel)
        /\ Total(FirstBytes(kernel, m)) = Total(kernel) =>
                 \A k \in m + 1 .. Len(kernel) : kernel[k] = 0
    BY <1>7, <2>1, FirstBytesTotals
  <2> QED BY <1>9, <2>2
<1>11. t <= v
  <2>1. m \in 0 .. Len(kernel)
    BY <1>1, <1>7
  <2>2. Total(FirstBytes(kernel, m)) <= Total(kernel)
    BY <1>7, <2>1, FirstBytesTotals
  <2> QED BY <1>9, <2>2
<1>12. t = v
  <2>1. m = n \/ t % M = v
    BY <1>2, <1>5 DEF OneWrong
  <2>2. CASE m = n
    BY <1>7, <1>9, <2>2
  <2>3. CASE t % M = v
    <3> HIDE DEF n, v, M, m, t
    <3>1. t % M = t
      BY <1>6, <1>7, <1>11
    <3> QED BY <2>3, <3>1
  <2> QED BY <2>1, <2>2, <2>3
<1>13. \A k \in m + 1 .. n : kernel[k] = 0
  BY <1>10, <1>11, <1>12
<1>14. IsPrefix(memory, kernel)
  <2>1. SubSeq(memory, 1, Len(memory)) = memory
    BY <1>1
  <2> QED BY <1>7, <1>9, <2>1 DEF IsPrefix, FirstBytes
<1> QED BY <1>2, <1>3, <1>13, <1>14

\* With at most one fault on the line and the header read as a whole, load_kernel
\* enters nothing, or the kernel that was sent but perhaps for zeros at its end.
THEOREM LoaderStartsSentKernel ==
    ASSUME MaxFaults <= 1
    PROVE  LoaderSpec => []StartsSentKernel
<1>1. LoaderInit => Account
  BY DEF LoaderInit, Account, Reading, Loaded
<1>2. LoaderInv /\ Account /\ [LoaderNext]_loader_vars => Account'
  <2> SUFFICES ASSUME LoaderInv, Account, [LoaderNext]_loader_vars PROVE Account'
    OBVIOUS
  <2>1. CASE Send
    <3>1. Sending
      BY <2>1, SendCases DEF LoaderInv, LoaderTyped
    <3> QED BY <3>1, AccountSend DEF LoaderInv
  <2>2. CASE Boot
    BY <2>2, AccountBoot DEF LoaderInv
  <2>3. CASE UNCHANGED loader_vars
    BY <2>3, AccountStays
  <2> QED BY <2>1, <2>2, <2>3, LoaderSteps
<1> QED BY <1>1, <1>2, LoaderInvariant, StartsSentKernelFollows, PTL DEF LoaderSpec
=============================================================================
