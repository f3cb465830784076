# A verification project for the OSDI kernel

TLA+ models of a small teaching kernel for the Raspberry Pi 3: one core, preemptive
threads, a buddy and a chunk allocator, an interrupt-driven UART, a timer list, signals
and a virtual file system, and of the boot loader that receives it.  TLC checks the models on small instances; TLAPS proves the safety
of ten of them - scheduler, page allocator, chunk allocator, timer, UART rings, signals, open files, tmpfs
files, the name space with the archive below it, and the boot loader - and two refinements for every value of
their constants.  `PROJECT.json` lists, for machines, the
runs, the source lines behind each definition, the hazards and the theorems.

Run a check with `tlc -config MCSched.cfg MCSched`, the proofs of a part with `tlapm SchedProofs.tla`; the
proofs are in the modules `*Proofs`.

## 1. Inventory of the system

| part (source) | state | operations | interacts with |
|---|---|---|---|
| scheduler (`sched.c`, `sched_asm.S`, `exec.c`) | `tpidr_el1` (current), `ready_queue`, `zombie_queue`, `thread_cnt`, the `ThreadTask` fields | `thread_create`, `schedule`, `_exit`, `_kill`, `_exec`, `idle`, `kill_zombies` | called by the timer interrupt and by system calls |
| system calls (`syscall.c`, `exception.c`) | the trap frame | fork, exec, exit, kill, signal, sigkill, sigreturn, open, close, read, write, lseek64, mkdir, mount, chdir, ioctl, getpid, uart, mbox | everything; interrupts are enabled inside |
| interrupt entry (`exception.c`, `exception_table.S`, `tasks.c`) | trap frames on the kernel stack, the task list | `irq_entry`, `add_task`, `execute_task` | timer, UART, signals |
| timer (`timer.c`) | the sorted timer list, the compare register, the enable bit | `add_timer`, `core_timer_handler`, the callbacks `keep_schedule`, `print_uptime`, `print_msg` | calls `schedule` |
| page allocator (`mm.c`) | `page_list`, a free list per order | `mm_init`, `reserve`, `_alloc`, `_free`, `split` | below the chunk allocator |
| chunk allocator (`alloc.c`) | a free list per cache | `alloc`, `free`, `kmalloc`, `kfree`, `request_page` | used by everything, interrupt handlers included |
| UART (`uart.c`) | two rings with head and tail, the interrupt enable register | the two handlers, `uart_async_getc/putc/puts` | `test_uart_async`, the shell's `test_async` |
| signals (`signal.c`) | `pending_sig`, `sig_handlers`, `sig_frame` | `check_pending_signals`, `handle_signal`, sigreturn | exception exit, the scheduler's `cpu_context` |
| VFS, tmpfs, initramfs (`fs_vfs.c`, `fs_tmpfs.c`, `fs_initramfs.c`) | vnodes, mounts, `cwd`, `fd_table`, file buffers | lookup, open, close, mkdir, mount, chdir, read, write, seek | called in preemptible system calls |
| archive (`cpio.c`) | the archive at `cpio_addr`, constant | `cpio_list`, `cpio_cat`, `cpio_get_exec`, `cpio_get_file_size` | initramfs, exec, the shell |
| device files (`dev_uart.c`, `dev_framebuffer.c`) | struct files and their positions | open, close, read, write, lseek64, ioctl | the `fd_table` of every thread starts with three of the UART |
| boot loader (`bootloader/`, `send_kernel.py`) | the bytes received so far, size and sum | `load_kernel`; on the host: header, sleep, kernel | a serial line without flow control, an 8-byte FIFO |
| mailbox, device tree, strings | device registers, constant data | copies and parsing | - |
| shell (`shell.c`) | the command line | reads a line and calls the others | the first thread, at EL0 (`main.c:517`) |

What is hard here:

* **Concurrency on one core.**  The timer may interrupt a thread anywhere; system calls run
  with interrupts enabled and no lock is taken anywhere; handlers nest.
* **Pointers kept across a window.**  `_kill` and `_exec` keep a task, `kmalloc`, `kfree` and `request_page` a list head,
  `sys_sigreturn` a frame pointer, handlers the tick they read at their start, and every walk
  along a queue the task it stands on.
* **Lists threaded through the objects.**  A task linked twice cuts a queue in two.
* **Memory used again.**  `sys_fork` leaves the child the `fd_table` of whoever had its memory before.
* **An unreliable line.**  The loader's only defence against lost and damaged bytes is a sum.
* **Boundaries.**  Rings at capacity, blocks of the highest order, buffers that grow.
* **Two-sided responsibilities.**  An exiting task is made a zombie by `schedule` or by `_kill`;
  the timer is re-armed by the handler or by a callback.

* **Read, change, store.**  `pending_sig`, `num_children`, the interrupt enable register and a vnode's mount are
  read and written in separate accesses.

Correctness, per part: the queues partition the live tasks, nothing is freed while in use,
everyone gets a turn and zombies are reaped as long as the timer ticks; no page or byte has two owners and free
buddies are merged; the rings are queues and drain; the timer list is sorted and preemption
never stops; the vnodes form a tree whose paths are stable and whose `..` undoes a step;
a tmpfs file is a byte file; an open file belongs to one descriptor; a signal interrupts the
program and leads back to it; the kernel that is started is the one that was sent.

## 2. Modules and how they correspond to the code

Each definition carries the name of the function it models.  A call that can be disturbed in the middle is cut at the
accesses to what it shares with others, as far as section 6 does not say otherwise.

* **Sched** - the scheduler and the thread system calls.  A task is its pid (`Boot` is the
  task of `main`).  `schedule` is an operator with the queues as parameters since its callers
  change them first; `Switch` and `Stay` are its two outcomes.  `context` says whether
  `cpu_context` is still the one of `thread_create`; `el1` collects threads that were entered by
  it after `exec`.  `_kill` is `KillLookup` then `KillApply`, `_exec` is `ExecCreate` then
  `ExecEnter`.  An allocation failure makes `exec` dereference -1: the thread is stuck
  (`fault`).  `timer` is what Sched needs to know of Timer: on, left off by a handler that found nothing due
  (`StaleTick`) until the thread calls `schedule` again, or without `keep_schedule` for good after a failed
  allocation.  The environment is described by the constants: `KillTargets` (which pids programs
  kill), `AllocFails` and `Preemptible` (may a tick land inside `_kill` and `_exec`; in the code it
  may).  `wait_queue` never holds a task.
* **ThreadQueue** - the queues of `sched.c` at the level of `next`: every read and write of
  `add_thread_task`, `rm_thread_task` and `get_thread_task_by_id` as fork, exit and kill make them is a step, and
  a tick may come between any two.  `schedule` and the idle loop run masked and are one step.  `Stale` says when
  something an interrupted call has read is no longer so; behaviours end there, since after it the code follows
  links of tasks that are elsewhere.
* **Buddy** - `mm.c`.  Free lists are sequences of page indices; `page_list` keeps order,
  status and list membership.  `Reserve` is the phase of `main` before clients run.
* **Kmem** - `alloc.c` at byte level; `AllocPage` and `FreePage` are external, namely what Buddy promises for a
  page.  Every access to a free list is a step between which other clients run: `kmalloc` reads the head for its
  test (`kmalloc`), for `entry` (`KmallocEntry`), for `tmp` and again in `kmem_freelist_pop` (`PopRead`), reads the
  head's `next` (`PopNext`) and stores it (`PopUnlink`); a push, in `kfree` or in `request_page`'s loop, reads the head
  into the new entry (`PushNext`) and stores the entry (`PushLink`).  The build does not optimise, so each access of the
  source is one of the machine.  `Stale` says when a client's next access rests on an earlier one that no longer holds;
  then `raced` is set and the behaviour ends, since the lists are damaged from there on.  `prev` is never read and left out.
  `request_page` never uses one chunk of its page; the model keeps that.
* **UartRing** - rings, handlers and `test_uart_async`, the only user of the asynchronous
  functions.  Load and store of the interrupt enable register are separate steps.  `aliased`
  says whether the two ring pointers are equal (without `init_uart`, which nothing calls, both are NULL), `Inputs`
  what may be typed.  **Fifo** is the abstract
  specification: a bounded queue; `TxRefines` maps the transmit ring to it.
* **Timer** - the timer list, `core_timer_handler` with its loop, callbacks, reset and
  switch as steps, a stack of interrupted handlers per thread, thread switches inside a handler, and
  exit by a pending SIGKILL at the end of an interrupt (for a thread that has waited in the ready
  queue, where `sys_sigkill` looks); `abandoned` remembers that such a thread left a handler unfinished, whose
  reset of the timer then never comes.  The middle insertion of `add_timer` sets `prev` to the
  wrong node (`timer.c:193`); nothing reads `prev` there, so the list is modelled by `next`.  `CallbackFails`
  is a periodic callback whose `add_timer` gets no memory.
* **Cpio** - the walks over the archive, as operators on a memory that holds one, beside what the newc format says
  of where headers and data are.  A walk is not followed past a name that `filename` cannot hold.
* **Vfs** - vnodes, mounts and lookup, with tmpfs and initramfs directories and the system calls on
  names, in any order and also where they go wrong: a chdir that loses `cwd`, an open that ignores
  the error of create, a mount over a directory somebody is in.  A create is four steps: the lookup (`CallCreate`), the
  checks (`CreateCheck`, `CreateFails`), the new vnode with the loads of its directory's mount and `num_children`
  (`CreateLoad`), and the stores (`CreateStore`); a mount is two: lookup and check (`vfs_mount`), and the stores
  (`MountStore`).  Other threads run in between; `overlapped` remembers which creates were overtaken.  Behaviours end when
  two threads store into one slot or mount on one vnode (`StaleStore`: a vnode or a root is lost), and when a call comes
  between two stores of another and uses a pointer that is not stored yet (`NullRead`).  It
  starts from what `initramfs_init` makes of the archive, with names cut to the 64 bytes of a node.  `/dev` is left out, and open files are OpenFiles'.
* **OpenFiles** - the struct files behind the descriptors: opened and closed by the operations of the two devices and
  of the archive, kept by threads over fork, exit and the reuse of a task's memory.  A close is two steps, since the
  thread may be killed after the file is closed and before its descriptor is cleared (`ClearFd`).  `Wild` is memory that
  was freed or used for something else.
* **Loader** - the host, the line (`Transmit`, `Corrupt`, `Drop`: external), the FIFO and `load_kernel`, byte by byte.
  Bytes have `Base` values and words `WordBytes` bytes.  The loader keeps up with the line except while it prints
  (also "Kernel loaded.", when a header with too small a size leaves the rest of a kernel on its way);
  the host's `sleep(1)` outlasts what the loader can do without further bytes.
* **TmpfsFile** - the contents of one tmpfs node with several handles; bytes that `alloc` did not
  clear are `Junk`.  **ByteFile** is what a file promises: a sequence of bytes that may be anything
  where nothing was written; `Implements` is the refinement.  `sys_lseek64` drops its result.  Counts come unchecked
  from the program and are added to the position in a `size_t`: where that wraps, `memcpy` runs through memory
  (`RunAway`), and behaviours end.
* **Signal** - pending signals, handlers, trap frames, and what each thread runs (program, handler,
  kernel at a depth).  What a kernel context has in its registers is in the context: where the loop over the signals is, and
  an update of `pending_sig` that is loaded and not yet stored (`sys_sigkill` and `SigkillStore`,
  `check_pending_signals` and `handle_signal`).  `Interrupt` may switch threads and then overwrites `cpu_context.fp`; the copy of a
  trap frame over `sig_frame` also runs over `cwd`.  `nested` collects the threads that were interrupted, or made
  a system call, inside a handler or the kernel, after which some properties no longer speak of them.

`MC*` modules give the constants' values; each `.cfg` is one run.  **SchedProofs**, **BuddyProofs**, **KmemProofs**,
**TimerProofs**, **UartRingProofs** and **SignalProofs** extend the module they are named after with its theorems
(section 5); **FileSystemProofs** has those of Vfs with Cpio and of TmpfsFile, **DeviceProofs** those of OpenFiles and
Loader.

## 3. What the runs show

### Runs that pass

| run | instance | shows |
|---|---|---|
| `sched` | idle, boot and 3 more tasks, all pids killed, failing allocations | queues are lists, no use after free, no task lost; newcomers go behind those that wait (`NoOvertaking`); an exited thread runs on only if idle was killed; while idle lives, no program runs at EL1 and the timer is on again and again, every ready thread runs or is killed and zombies are reaped |
| `thread_queue` | 4 tasks, 2 of them inside list operations at a time | the lists survive every tick that leaves no call with stale links (`ListsIntact`); a fork that is preempted in its walk is safe, and as long as nobody exits only two windows are not: before and after the link of the new tail (`ForkWindow`); the ready queue is first-in first-out at every step, and only a switch makes a call's links stale (`ListSteps`) |
| `buddy` | 2 blocks of 4 pages, 2 reservations | lists agree with `page_list`, blocks do not overlap, grants fit, free buddies are merged, and what `_free` loses is whole maximal blocks |
| `kmem` | 2 clients, 2 caches, 3 pages | chunks return to their cache; one owner per byte and at most one chunk per page unused, with preemption between any two accesses to a free list, until one is stale |
| `uart_ring` | rings of 4 slots, 4 typed characters, rings apart or at one address | both rings are FIFO, the echo is in order, the transmit ring refines `Fifo`, and everything typed is eventually sent; in rings that share their memory only the numbers are right |
| `timer` | 2 threads, 2 added timers, 7 ticks, failing allocations | list sorted, the head is what is unlinked, exactly one `keep_schedule` alive or about to be re-added until its allocation fails, while timers wait and no thread was killed in the middle of a handler, the timer is armed or some handler is still going to arm it |
| `vfs` | 2 threads with 10 and 4 paths, 8 vnodes, 11 names, 5 archives of 2 to 5 files for a directory of 2 | a tree until two threads store into one slot or mount on one vnode; unique names and directories within their limit, unless creates in one directory overlap; mount pointers are right, or inherited in a covered directory; `..` undoes a component; no call but mount changes what a path means; lookup and create agree on names where the working directory is intact and no creates overlap; the walks over the archive find every file where the format puts it up to a name that is too long for them, and under `/initramfs` every name of at most 64 characters if all fit |
| `open_files` | 3 tasks with 2 descriptors, 2 struct files | a struct file has one descriptor and none is closed behind it, also in forked threads that find the table of a freed one; a call moves only its own position |
| `tmpfs_file` | 2 handles, buffer 2 to 8 bytes, a `size_t` of 4 bits | the buffer always covers the file; refines `ByteFile`, until position and count wrap |
| `signal` | 2 threads, 2 signals, 2 handler stacks, kernel stacks of 2 frames | the program is found again and no handler stack leaks in any thread whose handlers and system calls were not interrupted; each handler costs exactly one kernel-stack frame; a pending SIGKILL kills if no two updates of a `pending_sig` overlap, the kernel stacks have room and the timer ticks on (`Undisturbed`, `Scheduled`) |
| `loader` | words of 2 bytes of 3 values, all kernels of up to 4 bytes and two longer than the FIFO, a FIFO of 4, one fault | if the header arrives whole, no byte is lost in a full FIFO as long as the loader has bytes to read (`NoOverrun`); then also what is started is the kernel sent, or all of it but zeros at its end when the size was damaged (`StartsSentKernel`); over a clean line to a loader that is ready the kernel is started (`CleanSendStarts`) |

### The run that ends in a violation

`sched_stale_kill` checks `KillsLiveTask`, what the message at `sched.c:183` says: a tick inside `_kill`, and
the target exits and is then made a zombie a second time.  It is why `sched` and the proofs exclude ticks
inside `_kill` and `_exec`; what such ticks do to the links is in ThreadQueue.

### Where the code and its comments part, in the passing runs

Some passing properties state what the code does where its comments promise more:

* `ExitSwitches` and the premises of `ReadyRuns`: a program may kill pid 0, after which `_exit` can
  return to its caller (`sched.c:177` says "Switch to the next task"); and a task left by `exec` before its
  first preemption is resumed at EL1 (`exec.c:26`).  `TimerRecurs` is a premise since the code does not guarantee it: when
  `keep_schedule` gets no memory for its timer, preemption ends (`timer.c:157`), and a thread that a stale tick leaves
  with the timer off keeps the core until it calls `schedule` itself (`timer.c:114`).
* `Coalesced`: a block freed at, or merged to, the highest order is put on no list (`mm.c:230`).
* `TreeOK` (`MountPoints`): a name created in a covered directory inherits its mount pointer (`fs_tmpfs.c:149`).
* `TreeOK` (`UniqueNames`, `FullChecked`): "Check if name already exists" and "Directory full" hold when they are
  checked, not when the vnode is linked (`fs_tmpfs.c:125`, `fs_tmpfs.c:134`).
* `NamesAgree`: `vfs_open` goes on with a NULL vnode when create fails (`fs_vfs.c:84`); `sys_chdir` loses
  `cwd` for every relative or failing path (`syscall.c:423`).
* `FramesLeft`: `handle_signal` never gives its trap frame back (`signal.c:51`).
* `ForkWindow`, `ListsIntact`: fork, exit and kill change the queues with interrupts enabled, without any lock.
* `TreeOK` (`STALE`): two links into one directory that overlap in `children[num_children++]`, and two mounts that
  have both passed "Target path is already mounted", lose a vnode or a root (`fs_tmpfs.c:156`, `fs_vfs.c:305`).
* `NoOverlap` and `ChunksKept` of Kmem: push and pop are several preemptible accesses.  A client that another one
  overtakes between them gives out a chunk twice, or loses one (`alloc.c:33`, `alloc.c:42`, `alloc.c:153`).
* `SigkillKills`: `pending_sig |=` and `&= ~` are a load and a store; a signal that another thread sends, or that is taken,
  in between is lost, or back (`syscall.c:223`, `signal.c:10`).
* `FitsBuffer`, `Implements`: `f_pos + len` is a `size_t` and `len` whatever the program passes; if the sum wraps, a read
  is not cut at the end of the file and a write does not grow the buffer (`fs_tmpfs.c:205`, `fs_tmpfs.c:247`).
* `ProgramKept`, `StacksOwned`: sigreturn frees what `cpu_context.fp` holds, which a switch inside the handler
  overwrites (`syscall.c:235`), and a second handler overwrites `sig_frame` (`signal.c:45`).
* `EchoInOrder`: the rings are allocated in `init_uart`, which nothing calls (`uart.c:49`).
* `ArchiveListed`: a seventeenth file in the archive overruns `children` (`fs_initramfs.c:99`), a name of more than 255
  characters `filename` (`fs_initramfs.c:71`); one of more than 64 overruns `name`, what lies behind is written
  again, and the node has the first 64 characters (`fs_initramfs.c:78`).  A name with a slash, or longer, is there but no path leads to it.
* `TimerSet`: a thread that is killed while it is suspended in a handler takes its "Reset the timer" along, and the
  timer can stay off though timers wait (`timer.c:123`, `signal.c:3`).  Without any failure, a handler that
  interrupts another and finds nothing due may switch threads while the older one, of a thread that now
  waits, has the reset still to do: the new thread runs with the timer off until it gives up the processor.
* `FilesOwned`: a child's `fd_table` is not the parent's but what was in the memory (`syscall.c:115`); exit and
  `kill_zombies` close nothing, and opening a device allocates a second struct file that nobody has.
  The property holds since nothing is ever closed for a thread that exits.  One killed inside of `sys_close` leaves
  a descriptor with freed memory (`syscall.c:283`), which is `Wild`.
* Typed carriage returns are left out of `Inputs`: `uart_async_putc` checks for one slot and then
  writes two (`uart.c:281`).  The greeting's `\r\n` is in.
* Not visible in any property: `sys_open` returns the negated, hence positive, error, and nothing when
  the table is full (`syscall.c:258`); `sys_read` and `sys_write` use the entry of a descriptor without
  a test for NULL (`syscall.c:313`); `cpio_get_exec` ends without a value when the file is missing (`cpio.c:128`);
  the loader's `main` returns into `memzero` when a kernel is refused (`bootloader/src/boot.S:56`).

### Bounds

All counters the code leaves unbounded are bounded by a named constant in a guard
(`MaxTasks`, `MaxRegions`, `MaxHeld`, `MaxTyped`, `MaxRequests`, `MaxTime`, `MaxVnodes`, `MaxPos`,
`MaxSignals`, `MaxStacks`, `MaxFrames`, `MaxInside`, `MaxFaults`).  Five tasks are a killer, a victim, a waiting thread, idle and
the boot task at once; three orders allow a split, a merge and a block of the highest order next to
another; a ring of four slots wraps around; seven ticks let a handler be interrupted, switched
out and resumed after the next period; eight vnodes allow a mount on a mount, and the archives have names at both sides of 64 and of 256 bytes; three pages are
one for each of two caches and one to request; two struct files and three tasks are a table that two threads could
share and one that is freed; the file buffer
grows twice, and counts reach from 1 to one that wraps with the position; a second signal meets a handler that is running; two threads inside list operations and two
others are all that a stale link takes; words of two bytes have a byte order and sums that carry, a FIFO of
two words is what the loader's eight bytes are to its words, and a kernel longer than the FIFO fills it when the
size that was read is too small.  Sizes
(`MAX_ORDER`, `PAGE_SIZE`, `BUFFER_SIZE`, `DEFAULT_FILE_SIZE`, `CACHE_NUM`, `HEADER`) are parameters with small
values.  The deadlock check is off where the bounds end a behaviour,
and where the system really stops: in Sched a thread that dereferences exec's -1 with the timer off, in Kmem, Vfs
and TmpfsFile what is said above to end behaviours.

## 4. Fairness

* **Sched**: weak fairness of the tick while the timer is on and the current thread runs with interrupts enabled (a
  thread in `el1` runs masked and gets no tick), of the idle loop and of the rest of
  `_kill` and `_exec`, which are straight-line code.  That the timer is on again and again is no fairness but a premise
  of `ReadyRuns` and `ZombieReaped` (`TimerRecurs`): it may not be.  Nothing is assumed of programs: they need never exit.
* **UartRing**: weak fairness of the two handlers (a pending interrupt is taken) and of the
  program, whose loop polls.  Typing is not fair.
* **Loader**: weak fairness of the host, which writes on without waiting for anybody, and of the loader, which polls.
  Faults of the line are not fair.
* **Signal**: weak fairness of the kernel's and the handlers' steps, which are straight-line code.  That interrupts come
  and that every thread gets its turn is the premise `Scheduled` of `SigkillKills`: ReadyRuns of Sched establishes it
  only under its own premises.

## 5. Proofs

The theorems hold for every value of the constants that the module's named assumption (`SchedAssumption`,
`KmemAssumption`, ...) allows, and for behaviours of any length.  TLC evaluates these assumptions in the runs, and
every property named here is also checked by a run, where the inductive invariants were tried first.

| module | theorems (property) | further hypothesis |
|---|---|---|
| SchedProofs | `SchedSafety` (`SchedInv`), `SchedQueueDiscipline`, `SchedNoUseAfterFree`, `SchedNoLostTask`, `SchedExitSwitches`, and of the steps `SchedNoOvertaking` | `~Preemptible` |
| BuddyProofs | `BuddyInvariant` (`BuddyInv`), `BuddyListsAgree`, `BuddyNoOverlap`, `BuddyGrantFits`, `BuddyCoalesced` | - |
| KmemProofs | `KmemRightCache`, `KmemNoOverlap`, `KmemChunksKept` | - |
| TimerProofs | `TimerUnlinksHead`, `TimerOneKeepSchedule`, `TimerStaysSet` (`TimerSet`) | - |
| UartRingProofs | `UartReceives` (`TypeOK` and the receive ring is a queue) | - |
| | `UartRingsFifo`, `UartEchoInOrder`, and the refinement `UartTxRefines` to `Fifo` | `GreetingFits` |
| SignalProofs | `SignalStacksOwned`, `SignalProgramKept`, `SignalFramesLeft` | - |
| FileSystemProofs | `VfsInvariant` (`VfsInv`), `VfsTreeOK`, `VfsDotDotInverse`, `VfsArchiveListed`, `VfsNamesAgree`, and of the steps `VfsNamesStable` | - |
| | `TmpfsFitsBuffer`, and the refinement `TmpfsImplements` to `ByteFile` | - |
| DeviceProofs | `OpenFilesOwned` (`FilesOwned`), and of the steps `OpenFilesPositionsApart` | - |
| | `LoaderInvariant` (`LoaderInv`), `LoaderNoOverrun` | - |
| | `LoaderStartsSentKernel` | `MaxFaults <= 1` |

Three hypotheses go beyond the assumptions.  `~Preemptible` excludes ticks inside `_kill` and `_exec`: with them
the theorems are false, as `sched_stale_kill` shows.  `GreetingFits` says that the greeting, as
`uart_async_puts` encodes it, is shorter than the buffer, and that no carriage return is typed.  The greeting is a
few dozen characters and the buffer 4096; without either, `uart_async_putc`, which checks for one
free slot and may write two, overruns the ring (`uart.c:281`).  `MaxFaults <= 1` is what a sum can promise:
two bytes that are changed in opposite directions pass it.

### The invariants and why they are needed

* **Sched.**  `KillApply` removes `arg` from the ready queue and appends it to the zombies: that the task is still
  queued needs "a task held in a call is queued and its holder is the running thread".  `NewTask` appends the pid
  `thread_cnt`: that it is in no queue needs "pids from `thread_cnt` on have state NONE".  `ExecEnter` leaves the old
  task behind: that it does not come back needs the conjunct on `replaced`.  Freed tasks must be EXITED, so that none
  is READY again.  `SchedInv` adds exactly these; `ExitInv` adds what `ExitSwitches` needs.  `Core` is the part that
  concerns the queues, with the queues as parameters; `ScheduleCore` shows that `schedule` preserves it from any
  argument that satisfies it, which serves all its callers.
* **Buddy.**  `Core` says of the lists, `page_list` and the clients' blocks that listed blocks and held ones are
  aligned to their orders and end before the next begins (`Heads`); with `Entries`, a page that `page_list` calls free
  below the highest order is on a list, which is why `_free` may unlink the buddy it finds.  What a split, an
  allocation and a merge do to such a set of blocks is arithmetic on multiples of powers of two
  (`HalvingFacts`, `MergingFacts`): it stays one and covers the same pages.  `LostWhole` makes the second part of
  `Coalesced` inductive.  Before the first allocation `Booting` holds too: every page is free or reserved, and a page
  whose order is not 0 is listed or well inside a region, so that `reserve`, which looks only at the order, never
  splits a block that is gone (`SplitListed`).  Its first loop ends with the region's ends in blocks of one page
  (`SplitAllFacts`); a split leaves two buddies free only if one of them holds an end (`Derived`), and the second loop
  takes that one.  The second loop steps from block to block and meets all that start in the region
  (`VisitedFacts`).  Both loops are recursive functions, so that a function with the loop's equation must be shown to
  exist first (`RoundsExist`, `WalkExists`).
* **Kmem.**  `InPlace` says that list entries, held chunks and what a client still has to push (`todo`) lie where
  `request_page` cuts chunks of their cache, and that a free page is one that no cache owns; with `ReadIn`, what a
  preempted `kmalloc` has read does too.  From these alone follows `RightCache`.  `Exclusive` says that lists and
  `todo` are without duplicates and share no chunk with each other or a client; `Kept`, that every chunk of a page but
  one is on a list, to be pushed, or held.  An access that is not stale is to the head as it is, so that a push and a
  pop move one chunk however many steps they take; a stale one only sets `raced`, which ends the behaviour.
  That chunks do not overlap is arithmetic on pages, chunk numbers and powers of two
  (`Division`, `Cutting`, `Apart`), proved once and used by all steps.  `ChunksKept` counts bytes: a bijection
  between the chunks of a page and their numbers (`CoverCount`).
* **Timer.**  That the head a handler has read is still the head when it is unlinked needs to know of all calls in
  progress, of all threads and at all depths, that only the innermost call of the running thread is at work on a
  timer, and with the timer off (`InHand`).  This in turn holds since a handler can only be interrupted when nothing
  on the list is due for any handler in progress (`InOrder`, `Off`), so that a resumed one finds nothing to
  remove.  `OneKeep` says where the keep_schedule is; the counts of `OneKeepSchedule` follow from it.  `Armed` is `TimerSet`
  made inductive: a call that has removed a timer and not yet reset, the timer itself, or the
  handler that has just started.
* **UartRing.**  `Base` has the types and the arithmetic of the indices modulo `BUFFER_SIZE`; `RxFifo` and the like
  say that a ring's slots from head to tail hold what was put in and not taken out.  For the transmit ring
  `UartInv` adds the prefix of the encoded text that is already in the ring at each point of the program, and that
  there is room for what `uart_async_putc` writes (`EchoInv`, from `GreetingFits`).
  `Encode` flattens a sequence of sequences; what `FlattenSeq` returns is reached through its
  partial joins (`JoinsExists`), since its recursion is out of reach.
* **Signal.**  The way back to a program runs through trap frames on the kernel stack, `sig_frame` and
  `cpu_context`.  `WayBack` says for every thread that was never interrupted inside a handler which of them it is;
  `Shapes` that the lowest frame of every kernel stack is the program's.  Neither depends on which signals are pending,
  so that a lost or returning signal (a stale store of `pending_sig`) does them no harm.  `FramesCounted` adds the count
  of `FramesLeft`.
* **OpenFiles.**  `FilesOwned` is inductive by itself: a wild descriptor table of a reused task names only files
  that nobody else has, because nothing is closed for a thread that exits.  The descriptor of a close in progress is
  not among `Descriptors`: what ends the close, or the thread inside it, leaves no file there (`ClearInv`).  The loop of `sys_open` stops at a free
  descriptor by `MinFacts`.
* **TmpfsFile.**  `FitsBuffer` is inductive.  That the buffer's growth suffices needs a power of two above
  every size; it comes by way of the subsets of `1 .. n`, whose number is 2^n (`FS_SUBSET`).  The refinement goes
  through the operations of `Next`: each is the operation of the same name of `ByteFile`, or a stutter, as is the step
  in which a count wraps.
* **Vfs.**  The tree is a matter of age: a vnode is created after its parent, and the entries of a directory are in the
  order of their creation (`Older`, `Placed`), so that walks upwards end and no vnode has two places.  What a name created
  in a covered directory inherits (`Inherits`) must be shown to do no harm: nothing is created below such a vnode and no
  thread has it as its `cwd`, since a lookup that reaches it goes on to its mount (`MountsRight`).  `ArchiveKept` says
  that "/initramfs" stays mounted with all its files if their names fit, `InProgress` what a create or a mount has checked between its steps: only what
  overlaps it can have changed that, and a store into a slot or a mount pointer that was changed since is `StaleStore`.  From this `NameSpace` follow `TreeOK`, `ArchiveListed` and `DotDotInverse`: a lookup
  that succeeds ends at a vnode that its parent's lookup leads to by one step.  `NamesAgree` needs `Explained`: a
  relative path is looked up as its absolute form unless a mount covers `cwd`.  Then the lookup of an open and that of
  its create see the same directory.  `NamesStable` compares two lookups component by component.  What the
  loops of `vfs_lookup` and of the archive's walk do round by round comes from their recursive functions, which must be shown
  to exist first; that the walk meets header after header of the format is `align` against `Filled`, modulo 4.
* **Loader.**  `LoaderTyped` gives at each point of `load_kernel` how much is read.  `Flow` says that while the header is
  read, what was read and what is in the FIFO are together what was sent, in order: at most two words then wait behind
  the one being printed about, since the host sleeps after the third.  `NoOverrun` follows.
  `Account` says what a single fault can have done: one of size, sum, data and the bytes in the FIFO is not what was
  sent, and if it is the data, their sum differs by less than `Base`.  Such a difference is never a multiple of the word, so
  the comparison fails; a wrong size that passes leaves out bytes whose sum is zero (`FirstBytesTotals`).  That digits
  add up to the word they were packed from is arithmetic on `Place`.

### What is only model-checked

* Liveness - `ReadyRuns`, `ZombieReaped`, `Quiesces`, `SigkillKills`, `CleanSendStarts` - which needs fairness
  and ENABLED, out of the prover's reach.
* The properties of ThreadQueue - `ListsIntact`, `ForkWindow`, `ListSteps` - which need an invariant about every point of
  every walk along a linked list (section 7).

## 6. Not modelled

* Mailbox, power, device tree and string functions: I/O or pure conversion without state that a property could be about.
* The shell.  It is the first thread (`main.c:517`; the direct call at `main.c:522` is commented out) and has no state
  but the command line.  Its commands call what is modelled, from a thread with interrupts enabled; the command line
  goes through the polling UART.
* What devices do with the bytes: the screen's memory and the ioctl that asks the firmware for it, the polling UART.
* The assembly that starts the kernel and relocates the loader, `simple_alloc` (one command of the shell), `/dev` in Vfs,
  `uart_async_gets` (never called).
* What is inside a step: Vfs takes lookups and chdir as one step each, and so the stores of one link and those of one
  mount, save that another call may come between them and use what is not stored yet (`NullRead`).  TmpfsFile takes
  a call as one step.  The list operations are atomic in Buddy and in Sched (ThreadQueue and Kmem look inside theirs).
* What a behaviour does after `raced` (Kmem), `STALE` and `NULL_READ` (Vfs) and `runaway` (TmpfsFile): memory is shared,
  lost or overwritten then, and the code has nothing that would repair it.
* Allocation failures inside Vfs and Signal, where the code has no error path.
* Calls through a descriptor that is NULL or wild (OpenFiles), and `cwd` of a forked child, which is left
  uninitialised like the `fd_table`.
* exec inside ThreadQueue; its `thread_create` links like fork.
* Strings without end: `magic` and `header_magic` of `cpio.c` are compared as strings of six characters and no NUL.
* Signals to the idle thread and to a thread that exec has just entered.

## 7. Plan

Done, in this order: Sched with its proofs, Buddy, UartRing with Fifo, Kmem, Timer, Vfs, TmpfsFile with
ByteFile, Signal; then ThreadQueue, Loader, OpenFiles, Cpio with the archives of Vfs, the failing
allocations of Timer, the overlapping creates of Vfs; and the smaller steps: the free lists of Kmem access by access,
the mounts and links of Vfs, `pending_sig` in Signal, the close of OpenFiles, the timer of Sched.  Then the proofs of
section 5: all safety properties of Sched, Buddy, Kmem, Timer, UartRing, Signal, OpenFiles, TmpfsFile, Vfs with Cpio
and Loader, and both refinements.  Next:

1. Theorems: `ForkWindow` and `ListsIntact` of ThreadQueue, from an invariant that gives for each point of a walk the
   links it has passed.
2. As a model: a composition of Kmem and Buddy, `AllocPage` implemented by `_alloc`.
