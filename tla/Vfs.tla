-------------------------------- MODULE Vfs ---------------------------------
(***************************************************************************)
(* The file system's name space: the vnodes, mounts and path lookup of     *)
(* fs_vfs.c, the directories of fs_tmpfs.c and fs_initramfs.c, and the     *)
(* system calls open, mkdir, mount and chdir.  Open files are OpenFiles',  *)
(* what they hold is TmpfsFile's; an open that creates nothing is no step. *)
(*                                                                         *)
(* A vnode is an index into vnodes; a path is a sequence of components,    *)
(* absolute or relative.  A system call that only fails is not a step.     *)
(* Lookups are one step, creates and mounts are not: other threads run     *)
(* between the lookup, the checks, and the loads and stores that link what *)
(* is new.  Where they run into each other there, a fault ends what is     *)
(* followed: their stores then undo each other or a NULL pointer is used.  *)
(*                                                                         *)
(* vfs_init's tree is here "/" and "/initramfs", the mount of the archive  *)
(* that lies at cpio_addr; the devices under "/dev" are left out.          *)
(***************************************************************************)
EXTENDS Cpio

CONSTANTS
    Threads,
    Names,          \* names of vnodes, "initramfs" among them
    Components,     \* those a path can have as components: without a "/"
    strlen,         \* the length of a name
    Prefix,         \* its first MAX_FILE_NAME characters
    Archives,       \* what may be at cpio_addr: sequences of the entries of Cpio
    cpio_addr,
    Paths,          \* what paths each thread uses: [abs |-> BOOLEAN, comps |-> Seq]
    MAX_CHILDREN,   \* 16 in fs_vfs.h
    MaxVnodes       \* bound on the number of vnodes

MAX_FILE_NAME == 64   \* also the size of name in struct initramfs_node

ASSUME VfsAssumption ==
    /\ IsFiniteSet(Threads)
    \* no file is called as the archive's end is
    /\ {"initramfs", ".", ".."} \subseteq Components
    /\ Components \subseteq Names /\ Trailer.name \notin Names
    /\ strlen \in [Names -> Nat] /\ strlen["initramfs"] = 9
    /\ Prefix \in [Names -> Names]
    /\ \A n \in Names : strlen[n] <= MAX_FILE_NAME => Prefix[n] = n
    /\ Archives \subseteq Seq([name : Names, namesize : Nat, filesize : Nat])
    \* a name is stored with its zero byte
    /\ \A a \in Archives : \A i \in DOMAIN a : a[i].namesize = strlen[a[i].name] + 1
    /\ cpio_addr \in Nat /\ cpio_addr % 4 = 0
    /\ \A t \in Threads : Paths[t] \subseteq [abs : BOOLEAN, comps : Seq(Components)]
    /\ MAX_CHILDREN \in Nat \ {0}
    /\ MaxVnodes \in Nat /\ \A a \in Archives : Len(a) + 3 <= MaxVnodes

NULL == 0
Root == 1

ENOENT_VFS == -2
ENOMEM_VFS == -3
EINVAL_VFS == -4
EACCES_VFS == -6
EEXIST_VFS == -7
EINTERR_VFS == -8
OVERRUN == 1      \* written past a directory's children, or past filename
STALE == 2        \* a store that undoes another thread's
NULL_READ == 3    \* a pointer used that another thread is about to store

VARIABLES
    vnodes,      \* [name, dir, fs, parent, mount (its root), parent_is_mount]
    children,    \* per vnode: its internal node's children
    cwd,         \* ThreadTask.cwd
    archive,     \* what is at cpio_addr
    creating,    \* per thread: the create, mkdir or mount it is inside
    overlapped,  \* (history) <<directory, name>> of creates during which another
                 \* thread has linked a vnode into the directory
    fault        \* the error of a create whose NULL vnode open went on with, or
                 \* OVERRUN, STALE or NULL_READ

vfs_vars == <<vnodes, children, cwd, archive, creating, overlapped, fault>>

\* vnode is what vfs_open's variable of that name holds when create is called;
\* mount and slot are the directory's mount and num_children when they are read
Create(pc, dir, name, isDir, vnode) ==
    [pc |-> pc, dir |-> dir, name |-> name, isDir |-> isDir, vnode |-> vnode,
     mount |-> NULL, slot |-> 0]

NoCreate == Create("none", NULL, "", FALSE, NULL)

Vnode(name, dir, fs, parent, mount, isRoot) ==
    [name |-> name, dir |-> dir, fs |-> fs, parent |-> parent, mount |-> mount,
     parent_is_mount |-> isRoot]

\* The names initramfs_init makes files of, of which name holds the first 64
\* characters; what is copied behind it is written again.  Past MAX_CHILDREN
\* their vnodes overwrite num_children, which lies behind children.
\* (num_children of the root is not initialised; here it is 0, as in memory not
\* used before.)
initramfs_init(a) ==
    LET image == Image(a, cpio_addr)
        visited == Visited(image, cpio_addr)
    IN  [i \in DOMAIN visited |-> Prefix[image[visited[i]].name]]

\* A name of the archive is longer than the walks can copy
TooLong(a) == \E i \in DOMAIN a : a[i].namesize > FILENAME_SIZE

vfs_init ==
    /\ archive \in Archives
    /\ LET files == initramfs_init(archive)
       IN  /\ vnodes = <<Vnode("/", TRUE, "tmpfs", NULL, NULL, TRUE),
                         Vnode("initramfs", TRUE, "tmpfs", Root, 3, FALSE),
                         Vnode("/", TRUE, "initramfs", 2, NULL, TRUE)>>
                       \o [i \in DOMAIN files |->
                              Vnode(files[i], FALSE, "initramfs", 3, NULL, FALSE)]
           /\ children = << <<2>>, <<>>, [i \in DOMAIN files |-> 3 + i]>>
                         \o [i \in DOMAIN files |-> <<>>]
           /\ fault = IF Len(files) > MAX_CHILDREN \/ TooLong(archive) THEN OVERRUN ELSE 0
    /\ cwd = [t \in Threads |-> Root]
    /\ creating = [t \in Threads |-> NoCreate]
    /\ overlapped = {}

-----------------------------------------------------------------------------
\* The children of a directory by name
tmpfs_lookup(dir, name) == {c \in ToSet(children[dir]) : vnodes[c].name = name}

initramfs_lookup(dir, name) == {c \in ToSet(children[dir]) : vnodes[c].name = name}

Named(dir, name) ==
    IF vnodes[dir].fs = "initramfs" THEN initramfs_lookup(dir, name)
                                    ELSE tmpfs_lookup(dir, name)

\* Where a mount on a vnode leads
Through(v) == IF vnodes[v].mount # NULL THEN vnodes[v].mount ELSE v

Fail(r, err) == [r EXCEPT !.err = err]

\* (mutant: the root of a mount has the covered directory as its parent)
Bug_DotDot(v) == IF v = Root THEN v ELSE vnodes[v].parent

\* ".." from a vnode that is not the root: the root of a mount leads to the
\* parent of the directory it covers
DotDot(v) ==
    LET p == vnodes[v].parent
    IN  IF v = Root THEN v
        ELSE IF vnodes[p].mount # v THEN p
        ELSE IF p = Root THEN Root ELSE vnodes[p].parent

\* One component of a lookup: v is the vnode reached, t what *target holds
Step(r, c) ==
    LET d == Through(r.v)
        found == Named(d, c)
    IN  CASE r.err # 0 \/ c = "." -> r
          [] r.err = 0 /\ c = ".." ->
                IF r.v = Root THEN r ELSE [r EXCEPT !.v = DotDot(r.v), !.t = DotDot(r.v)]
          [] OTHER ->
                IF ~vnodes[d].dir THEN Fail(r, EACCES_VFS)
                ELSE IF found = {} THEN Fail(r, ENOENT_VFS)
                ELSE [r EXCEPT !.v = Through(Min(found))]

\* vfs_lookup with the given working directory.  (The singletons make TLC
\* evaluate each step of the walk once.)
vfs_lookup(dir, path) ==
    LET start == IF path.abs THEN Root ELSE dir
        walk[i \in 0 .. Len(path.comps)] ==
            IF i = 0 THEN [v |-> start, t |-> NULL, err |-> 0]
            ELSE CHOOSE next \in {Step(r, path.comps[i]) : r \in {walk[i - 1]}} : TRUE
        r == walk[Len(path.comps)]
    IN  IF start = NULL THEN [v |-> NULL, t |-> NULL, err |-> EINTERR_VFS]
        ELSE IF r.err = 0 THEN [r EXCEPT !.t = r.v] ELSE r

\* (mutant: a path of one component is always taken from the root)
Bug_LookupParent(dir, path) ==
    IF Len(path.comps) = 1 THEN [v |-> Root, t |-> Root, err |-> 0]
    ELSE vfs_lookup(dir, [path EXCEPT !.comps = Front(@)])

\* The directory a new name goes to.  A path of one component takes the
\* working directory as it is, also when a file system is mounted on it.
LookupParent(dir, path) ==
    IF Len(path.comps) = 1 /\ ~path.abs
    THEN [v |-> dir, t |-> dir, err |-> IF dir = NULL THEN EINTERR_VFS ELSE 0]
    ELSE vfs_lookup(dir, [path EXCEPT !.comps = Front(@)])

\* The checks of tmpfs_create_or_mkdir; the archive is read-only
CreateError(dir, name) ==
    IF vnodes[dir].fs = "initramfs" \/ ~vnodes[dir].dir THEN EACCES_VFS
    ELSE IF strlen[name] >= MAX_FILE_NAME THEN EINVAL_VFS
    ELSE IF Named(dir, name) # {} THEN EEXIST_VFS
    ELSE IF Len(children[dir]) >= MAX_CHILDREN THEN ENOMEM_VFS
    ELSE 0

-----------------------------------------------------------------------------
Running == fault = 0

Ready(t) == Running /\ creating[t] = NoCreate

\* There are vnodes left within the bound, also for the creates in progress
Room ==
    Len(vnodes) + Cardinality({t \in Threads : creating[t] # NoCreate}) < MaxVnodes

\* A name is refused only if it is empty: "." and ".." can be created
Creatable(path) == path.comps # <<>>

\* (mutant: the new vnode is not told its parent)
Bug_NewVnode(c) == Vnode(c.name, c.isDir, "tmpfs", Root, NULL, FALSE)

\* The vnode of a create, with the mount of its directory
NewVnode(c) == Vnode(c.name, c.isDir, "tmpfs", c.dir, c.mount, FALSE)

\* (mutant: the last slot is used again)
Bug_AddChild(list, v) == IF list = <<>> THEN <<v>> ELSE Append(Front(list), v)

\* children[num_children++]
AddChild(list, v) == Append(list, v)

\* What vfs_open with O_CREAT creates a name in: without a working directory
\* it is the root
CreateDir(t, path) ==
    LookupParent(IF cwd[t] = NULL /\ Len(path.comps) = 1 THEN Root ELSE cwd[t], path)

\* The directory has been looked up and its create or mkdir is called
CallCreate(t, p, path, isDir, vnode) ==
    /\ Ready(t) /\ Creatable(path) /\ Room
    /\ p.err = 0
    /\ creating' = [creating EXCEPT ![t] = Create("check", p.v, Last(path.comps), isDir, vnode)]
    /\ UNCHANGED <<vnodes, children, cwd, overlapped, fault>>

vfs_mkdir(t, path) == CallCreate(t, LookupParent(cwd[t], path), path, TRUE, NULL)

sys_mkdir(t) == \E path \in Paths[t] : vfs_mkdir(t, path)

\* sys_open, vfs_open of a path that does not exist, with O_CREAT.  If a create
\* fails, vnode is used, which the archive leaves as the lookup did.
OpenCreate(t) ==
    \E path \in Paths[t] :
        LET r == vfs_lookup(cwd[t], path)
            p == CreateDir(t, path)
        IN  /\ r.err # 0
            /\ CallCreate(t, p, path, FALSE, IF vnodes[p.v].fs = "initramfs" THEN r.t ELSE NULL)

\* The checks have passed
CreateCheck(t) ==
    LET c == creating[t]
    IN  /\ Running /\ c.pc = "check"
        /\ CreateError(c.dir, c.name) = 0
        /\ creating' = [creating EXCEPT ![t].pc = "link"]
        /\ UNCHANGED <<vnodes, children, cwd, overlapped, fault>>

\* A check fails: mkdir returns; open does not look at the error
CreateFails(t) ==
    LET c == creating[t]
        err == CreateError(c.dir, c.name)
    IN  /\ Running /\ c.pc = "check"
        /\ err # 0
        /\ creating' = [creating EXCEPT ![t] = NoCreate]
        /\ fault' = IF c.isDir \/ c.vnode # NULL THEN 0 ELSE err
        /\ UNCHANGED <<vnodes, children, cwd, overlapped>>

\* The vnode is made, with the mount of its directory, and num_children is read
CreateLoad(t) ==
    LET c == creating[t]
    IN  /\ Running /\ c.pc = "link"
        /\ creating' = [creating EXCEPT ![t].pc = "store", ![t].mount = vnodes[c.dir].mount,
                                        ![t].slot = Len(children[c.dir])]
        /\ UNCHANGED <<vnodes, children, cwd, overlapped, fault>>

\* num_children and the vnode are stored, also if the directory is full by now
CreateStore(t) ==
    LET c == creating[t]
        v == Len(vnodes) + 1
    IN  /\ Running /\ c.pc = "store" /\ Len(children[c.dir]) = c.slot
        /\ vnodes' = Append(vnodes, NewVnode(c))
        /\ children' = Append([children EXCEPT ![c.dir] = AddChild(@, v)], <<>>)
        /\ fault' = IF c.slot < MAX_CHILDREN THEN 0 ELSE OVERRUN
        /\ creating' = [creating EXCEPT ![t] = NoCreate]
        /\ overlapped' = overlapped \cup
              {<<c.dir, creating[u].name>> :
                  u \in {w \in Threads \ {t} : creating[w].dir = c.dir /\ creating[w].pc # "mount"}}
        /\ UNCHANGED cwd

\* The check of vfs_mount, of a tmpfs on what a lookup has given
vfs_mount(t, r) ==
    /\ r.err = 0
    /\ vnodes[r.v].mount = NULL /\ ~vnodes[r.v].parent_is_mount
    /\ creating' = [creating EXCEPT ![t] = Create("mount", r.v, "/", TRUE, NULL)]
    /\ UNCHANGED <<vnodes, children, cwd, overlapped, fault>>

sys_mount(t) ==
    \E path \in Paths[t] :
        /\ Ready(t) /\ Room
        /\ vfs_mount(t, vfs_lookup(cwd[t], path))

\* A new tmpfs is mounted on v
Mounted(v) ==
    /\ vnodes' = Append([vnodes EXCEPT ![v].mount = Len(vnodes) + 1],
                        Vnode("/", TRUE, "tmpfs", v, NULL, TRUE))
    /\ children' = Append(children, <<>>)

\* The mount is stored and its root set up
MountStore(t) ==
    LET c == creating[t]
    IN  /\ Running /\ c.pc = "mount" /\ vnodes[c.dir].mount = NULL
        /\ Mounted(c.dir)
        /\ creating' = [creating EXCEPT ![t] = NoCreate]
        /\ UNCHANGED <<cwd, overlapped, fault>>

\* Another thread has linked a vnode into the slot that t is about to write, or
\* mounted on the vnode: the vnode or the mount of one of them is lost
StaleStore(t) ==
    LET c == creating[t]
    IN  /\ Running
        /\ \/ c.pc = "store" /\ Len(children[c.dir]) # c.slot
           \/ c.pc = "mount" /\ vnodes[c.dir].mount # NULL
        /\ fault' = STALE
        /\ UNCHANGED <<vnodes, children, cwd, creating, overlapped>>

\* A call of t, or its check for the name, comes between two stores of another
\* thread: num_children counts a child that is still NULL, or a mount has no
\* root yet
NullRead(t) ==
    /\ Running
    /\ creating[t] = NoCreate \/ creating[t].pc = "check"
    /\ \E u \in Threads \ {t} : creating[u].pc \in {"store", "mount"}
    /\ fault' = NULL_READ
    /\ UNCHANGED <<vnodes, children, cwd, creating, overlapped>>

\* sys_chdir passes the address of cwd itself to vfs_lookup, which sets it to
\* NULL before it reads the path: only absolute paths that exist can be
\* changed to, any other leaves the thread without a working directory.
sys_chdir(t) ==
    \E path \in Paths[t] :
        LET r == vfs_lookup(NULL, path)
        IN  /\ Ready(t)
            /\ cwd' = [cwd EXCEPT ![t] = r.t]
            /\ UNCHANGED <<vnodes, children, creating, overlapped, fault>>

VfsNext ==
    \E t \in Threads :
        \/ sys_mkdir(t) \/ OpenCreate(t) \/ sys_mount(t) \/ sys_chdir(t)
        \/ CreateCheck(t) \/ CreateFails(t) \/ CreateLoad(t) \/ CreateStore(t)
        \/ MountStore(t) \/ StaleStore(t) \/ NullRead(t)

VfsSpec == vfs_init /\ [][VfsNext /\ UNCHANGED archive]_vfs_vars

-----------------------------------------------------------------------------
Vnodes == 1 .. Len(vnodes)

\* Type correctness of the vnodes and of what the threads are in.
VfsTypeOK ==
    /\ Len(vnodes) <= MaxVnodes /\ Len(children) = Len(vnodes)
    /\ \A v \in Vnodes :
          /\ vnodes[v].parent \in Vnodes \cup {NULL}
          /\ vnodes[v].mount \in Vnodes \cup {NULL}
          /\ children[v] \in Seq(Vnodes)
    /\ cwd \in [Threads -> Vnodes \cup {NULL}]
    /\ archive \in Archives
    /\ \A t \in Threads :
          /\ creating[t].pc \in {"none", "check", "link", "store", "mount"}
          /\ {creating[t].dir, creating[t].vnode} \subseteq Vnodes \cup {NULL}
    /\ overlapped \subseteq Vnodes \X Names
    /\ fault \in {0, EINVAL_VFS, EACCES_VFS, ENOMEM_VFS, EEXIST_VFS,
                  OVERRUN, STALE, NULL_READ}

\* Each vnode but the root is either once among the children of its parent or
\* the root of the mount on it, and never both.
IsTree ==
    \A v \in Vnodes \ {Root} :
        LET p == vnodes[v].parent
            places == {at \in Vnodes \X (1 .. MAX_CHILDREN) :
                          at[2] \in DOMAIN children[at[1]] /\ children[at[1]][at[2]] = v}
        IN  IF vnodes[v].parent_is_mount
            THEN vnodes[p].mount = v /\ places = {}
            ELSE \E i \in 1 .. MAX_CHILDREN : places = {<<p, i>>}

\* "Check if name already exists": no directory of a tmpfs has two entries of one
\* name, but for a name whose create was overtaken by another thread's.  (What
\* the archive holds twice is there twice.)
UniqueNames ==
    \A d \in Vnodes : \A i, j \in DOMAIN children[d] :
        LET name == vnodes[children[d][i]].name
        IN  (vnodes[d].fs = "tmpfs" /\ i # j /\ name = vnodes[children[d][j]].name) =>
                <<d, name>> \in overlapped

\* "Directory full": more than MAX_CHILDREN is what the archive held, or creates
\* that overlap
FullChecked ==
    fault = OVERRUN => Len(archive) > MAX_CHILDREN \/ TooLong(archive) \/ overlapped # {}

\* "Indicate whether this vnode is a mount point": a vnode's mount is what was
\* mounted on it.  Only a name created in a covered directory, which some
\* thread still had as its working directory, has that of its directory.
MountPoints ==
    \A v \in Vnodes : vnodes[v].mount # NULL =>
        LET on == vnodes[vnodes[v].mount].parent
        IN  on = v \/ (on = vnodes[v].parent /\ vnodes[on].mount = vnodes[v].mount)

\* The vnodes are well typed and form a tree with unique names and mounts where
\* they were made, whatever calls of open, mkdir and mount succeed and fail, and
\* whatever other calls run inside of them, until two of them store into one
\* slot of a directory or mount on one vnode (STALE).  Those lose a vnode or the
\* root of a mount; other creates in one directory that overlap can make a name
\* twice or run past a directory's children.
TreeOK ==
    /\ VfsTypeOK /\ MountPoints /\ FullChecked
    /\ fault \notin {OVERRUN, STALE} => IsTree /\ UniqueNames

AbsPaths == {p.comps : p \in {q \in UNION {Paths[t] : t \in Threads} : q.abs}}

Resolve(comps) == vfs_lookup(NULL, [abs |-> TRUE, comps |-> comps])

\* What every absolute path leads to
Leads == [comps \in AbsPaths |-> Resolve(comps)]

\* ".." undoes a component, also across mounts and mounts in mounts: whatever
\* exists, what follows it by ".." is what its parent path leads to.
DotDotInverse ==
    \A comps \in AbsPaths :
        (comps # <<>> /\ Last(comps) \notin {".", ".."} /\ Resolve(comps).err = 0) =>
            LET up == Resolve(Append(comps, ".."))
            IN  up.err = 0 /\ up.v = Resolve(Front(comps)).v

\* The walks over the archive find the first file of a name where it is, unless
\* a name up to there does not fit the array it is copied to
WalksFind ==
    LET image == Image(archive, cpio_addr)
    IN  \A k \in DOMAIN archive :
           (/\ \A j \in 1 .. k - 1 : archive[j].name # archive[k].name
            /\ \A j \in 1 .. k : archive[j].namesize <= FILENAME_SIZE) =>
              /\ cpio_get_file_size(image, cpio_addr, archive[k].name) = archive[k].filesize
              /\ cpio_get_exec(image, cpio_addr, archive[k].name)
                    = {DataAt(archive, cpio_addr, k)}

\* The kernel's walks find every file of the archive where the cpio tool put
\* it, whatever the sizes of names and files, as long as no name up to there is
\* longer than filename.  If there is none and there are at most MAX_CHILDREN
\* files, one whose name can be a component of a path and is not longer than 64
\* characters is found under /initramfs, at any later time: itself, or the first
\* file whose name begins or is like that.
ArchiveListed ==
    /\ WalksFind
    /\ fault # OVERRUN =>
          /\ Len(archive) <= MAX_CHILDREN /\ ~TooLong(archive)
          /\ \A k \in DOMAIN archive :
                LET name == archive[k].name
                    r == Resolve(<<"initramfs", name>>)
                    like == {j \in DOMAIN archive : Prefix[archive[j].name] = name}
                IN  (name \in Components \ {".", ".."} /\ strlen[name] <= MAX_FILE_NAME) =>
                        r.err = 0 /\ r.v = Through(3 + Min(like))

\* Only a mount changes what an absolute path leads to: creating, opening and
\* changing directory, by any thread, never make a path lead elsewhere.
NamesStable ==
    [][(/\ <<vnodes, children>>' # <<vnodes, children>>
        /\ \A v \in Vnodes : vnodes'[v].mount = vnodes[v].mount) =>
          LET before == Leads
              after == Leads'
          IN  \A comps \in AbsPaths :
                  before[comps].err = 0 => after[comps] = before[comps]]_vfs_vars

\* The vnodes from v up to the root
Ancestors(v) ==
    LET up[k \in 0 .. Len(vnodes)] ==
            IF k = 0 THEN v
            ELSE IF up[k - 1] = NULL THEN NULL ELSE vnodes[up[k - 1]].parent
    IN  {up[k] : k \in 0 .. Len(vnodes)} \ {NULL}

\* A mount covers a thread's working directory or a directory above it
Covered(t) ==
    \E v \in Ancestors(cwd[t]) : vnodes[v].mount \notin Ancestors(cwd[t]) \cup {NULL}

\* The lookup of an open and the create that follows it agree on which names
\* exist: an open goes on with a NULL vnode because of a full directory, a
\* parent that is a file or the archive; because the name exists only in a
\* thread whose working directory was lost by chdir or covered by a mount, or
\* when another thread has created the name in between.
NamesAgree ==
    fault = EEXIST_VFS =>
        overlapped # {} \/ \E t \in Threads : cwd[t] = NULL \/ Covered(t)
=============================================================================
