------------------------------- MODULE Signal -------------------------------
(***************************************************************************)
(* Signals: signal.c, the system calls signal, sigkill and sigreturn, and  *)
(* the entry and exit of exceptions around them (exception.c and           *)
(* exception_table.S).                                                     *)
(*                                                                         *)
(* A context is what runs: a thread's program, a handler on its stack, or  *)
(* the kernel with so many trap frames on the thread's kernel stack.  An   *)
(* exception pushes the context it interrupts (save_all); its end checks   *)
(* the pending signals and pops it (load_all).  handle_signal leaves by    *)
(* eret instead, and what was pushed stays on the kernel stack.            *)
(*                                                                         *)
(* pending_sig is set and cleared by a load, an operation in a register    *)
(* and a store; an interrupt may come between, so that the update of       *)
(* another thread is lost.                                                 *)
(*                                                                         *)
(* Who runs next is Sched's; here it is any thread.  All threads but the   *)
(* running one are in the ready queue, where sigkill looks for them (one   *)
(* that exec has just entered is there too, which is left out).            *)
(***************************************************************************)
EXTENDS Integers, SequencesExt

CONSTANTS
    Threads,      \* the user threads
    Idle,
    Sigs,         \* signal numbers, 0 .. 31 in signal.h
    SIGKILL,      \* 9 in signal.h
    MaxSignals,   \* bound on the number of signals sent
    MaxStacks,    \* bound on the handler stacks allocated
    MaxFrames     \* bound on the trap frames of a thread

ASSUME SignalAssumption ==
    /\ Idle \notin Threads /\ Sigs \subseteq Nat /\ SIGKILL \in Sigs
    /\ {MaxSignals, MaxStacks, MaxFrames} \subseteq Nat

\* The kernel's registers: where the loop over the signals goes on, and of an
\* update begun the thread whose pending_sig it is (Idle: of none) and the value
\* to be stored
Registers(next, word, value) == [next |-> next, word |-> word, value |-> value]

From(next) == Registers(next, Idle, {})

Program == [kind |-> "program", id |-> 0, regs |-> From(0)]
Handler(stack) == [kind |-> "handler", id |-> stack, regs |-> From(0)]
Kernel(regs) == [kind |-> "kernel", id |-> 0, regs |-> regs]

\* What cpu_switch_to leaves in cpu_context.fp
KernelFp == -1

VARIABLES
    current, alive,
    pending_sig,   \* a set for the bit mask
    sig_handlers,
    sig_frame,     \* the frame copied over the field and what follows it
    cwd,           \* what the field behind sig_frame holds
    fp,            \* cpu_context.fp
    ctx,           \* what each thread runs
    kstack,        \* the contexts in the trap frames on its kernel stack
    held,          \* the handler stacks allocated for it
    stacks, sent,  \* how many stacks were allocated and signals sent
    nested         \* the threads for which an exception, other than the handler's
                   \* own sigreturn, came inside a handler or inside the kernel

vars == <<current, alive, pending_sig, sig_handlers, sig_frame, cwd, fp, ctx,
          kstack, held, stacks, sent, nested>>

\* thread_create: SIGKILL ends the thread, the others are only reported
DefaultHandler(sig) == IF sig = SIGKILL THEN "sigkill" ELSE "default"

Init ==
    /\ current = Idle /\ alive = Threads
    /\ pending_sig = [t \in Threads |-> {}]
    /\ sig_handlers = [t \in Threads |-> [sig \in Sigs |-> DefaultHandler(sig)]]
    /\ sig_frame = [t \in Threads |-> Program]
    /\ cwd = [t \in Threads |-> "vnode"]
    /\ fp = [t \in Threads |-> KernelFp]
    /\ ctx = [t \in Threads |-> Program]
    /\ kstack = [t \in Threads |-> <<>>]
    /\ held = [t \in Threads |-> {}]
    /\ stacks = 0 /\ sent = 0 /\ nested = {}

-----------------------------------------------------------------------------
\* save_all: frame is what the trap frame holds when the kernel goes on
save_all(t, frame, regs) ==
    /\ kstack' = [kstack EXCEPT ![t] = Append(@, frame)]
    /\ ctx' = [ctx EXCEPT ![t] = Kernel(regs)]

\* (mutant: the stack pointer is not moved back)
Bug_load_all(t) ==
    /\ ctx' = [ctx EXCEPT ![t] = Last(kstack[t])]
    /\ kstack' = kstack

\* load_all and eret: what was interrupted goes on
load_all(t) ==
    /\ ctx' = [ctx EXCEPT ![t] = Last(kstack[t])]
    /\ kstack' = [kstack EXCEPT ![t] = Front(@)]

InUser(t) == current = t /\ ctx[t].kind \in {"program", "handler"}

InKernel(t) == current = t /\ ctx[t].kind = "kernel"

\* An exception enters the kernel and keeps what it interrupts
Enter(t, regs) ==
    /\ Len(kstack[t]) < MaxFrames
    /\ save_all(t, ctx[t], regs)
    /\ nested' = IF ctx[t] = Program THEN nested ELSE nested \cup {t}

\* irq_entry: the handler may switch to another thread, whose fp is then lost
Interrupt(t) ==
    /\ InUser(t) \/ InKernel(t)
    /\ Enter(t, From(0))
    /\ current' \in alive \cup {Idle}
    /\ fp' = IF current' = t THEN fp ELSE [fp EXCEPT ![t] = KernelFp]
    /\ UNCHANGED <<alive, pending_sig, sig_handlers, sig_frame, cwd, held, stacks, sent>>

\* The idle thread runs when nothing else does
IdleSwitch ==
    /\ current = Idle
    /\ current' \in IF alive = {} THEN {Idle} ELSE alive
    /\ UNCHANGED <<alive, pending_sig, sig_handlers, sig_frame, cwd, fp, ctx,
                   kstack, held, stacks, sent, nested>>

sys_signal(t) ==
    \E sig \in Sigs : \E handler \in {"custom", DefaultHandler(sig)} :
        /\ InUser(t) /\ Enter(t, From(0))
        /\ sig_handlers' = [sig_handlers EXCEPT ![t][sig] = handler]
        /\ UNCHANGED <<current, alive, pending_sig, sig_frame, cwd, fp, held, stacks, sent>>

\* The thread is looked for in the queues: nobody signals itself.  Its
\* pending_sig is loaded ...
sys_sigkill(t) ==
    \E pid \in alive \ {t}, sig \in Sigs :
        /\ InUser(t) /\ Enter(t, Registers(0, pid, pending_sig[pid] \cup {sig}))
        /\ sent < MaxSignals
        /\ sent' = sent + 1
        /\ UNCHANGED <<current, alive, pending_sig, sig_handlers, sig_frame, cwd, fp, held,
                       stacks>>

\* An update that has been loaded is stored
Store(t) ==
    pending_sig' = [pending_sig EXCEPT ![ctx[t].regs.word] = ctx[t].regs.value]

\* ... and stored
SigkillStore(t) ==
    /\ InKernel(t) /\ ctx[t].regs.word \in Threads \ {t}
    /\ Store(t)
    /\ ctx' = [ctx EXCEPT ![t] = Kernel(From(0))]
    /\ UNCHANGED <<current, alive, sig_handlers, sig_frame, cwd, fp, kstack, held, stacks,
                   sent, nested>>

\* (mutant: the trap frame is not restored)
Bug_sys_sigreturn(t) ==
    /\ current = t /\ ctx[t].kind = "handler"
    /\ save_all(t, ctx[t], From(0))
    /\ held' = [held EXCEPT ![t] = @ \ {fp[t]}]
    /\ UNCHANGED <<current, alive, pending_sig, sig_handlers, sig_frame, cwd, fp,
                   stacks, sent, nested>>

\* sighander_user_wrapper ends a handler by sigreturn: the stack that ends at
\* cpu_context.fp is freed, and the trap frame is the one saved in sig_frame
sys_sigreturn(t) ==
    /\ current = t /\ ctx[t].kind = "handler"
    /\ save_all(t, sig_frame[t], From(0))
    /\ held' = [held EXCEPT ![t] = @ \ {fp[t]}]
    /\ UNCHANGED <<current, alive, pending_sig, sig_handlers, sig_frame, cwd, fp,
                   stacks, sent, nested>>

-----------------------------------------------------------------------------
\* The signals that the loop of check_pending_signals still finds
Found(t) == {sig \in pending_sig[t] : sig >= ctx[t].regs.next}

\* It finds none: the exception ends
Resume(t) ==
    /\ InKernel(t) /\ ctx[t].regs.word = Idle /\ Found(t) = {}
    /\ load_all(t)
    /\ UNCHANGED <<current, alive, pending_sig, sig_handlers, sig_frame, cwd, fp, held,
                   stacks, sent, nested>>

\* (mutant: the whole mask is cleared)
Bug_Cleared(loaded, sig) == {}

\* "Clear the signal"
Cleared(loaded, sig) == loaded \ {sig}

\* It finds one, the lowest first: pending_sig is loaded to be cleared of it ...
check_pending_signals(t) ==
    LET sig == Min(Found(t))
    IN  /\ InKernel(t) /\ ctx[t].regs.word = Idle /\ Found(t) # {}
        /\ ctx' = [ctx EXCEPT ![t] =
              Kernel(Registers(sig + 1, t, Cleared(pending_sig[t], sig)))]
        /\ UNCHANGED <<current, alive, pending_sig, sig_handlers, sig_frame, cwd, fp,
                       kstack, held, stacks, sent, nested>>

\* default_handler reports the signal, and the loop goes on
default_handler(t) ==
    /\ ctx' = [ctx EXCEPT ![t] = Kernel(From(ctx[t].regs.next))]
    /\ UNCHANGED <<current, alive, sig_frame, cwd, fp, kstack, held, stacks>>

\* default_sigkill_handler, _exit
default_sigkill_handler(t) ==
    /\ alive' = alive \ {t}
    /\ current' \in alive' \cup {Idle}
    /\ UNCHANGED <<sig_frame, cwd, fp, ctx, kstack, held, stacks>>

\* (mutant: the stack is allocated, but cpu_context.fp is not set)
Bug_custom_handler(t) ==
    /\ sig_frame' = [sig_frame EXCEPT ![t] = Last(kstack[t])]
    /\ cwd' = [cwd EXCEPT ![t] = "register"]
    /\ stacks < MaxStacks
    /\ stacks' = stacks + 1
    /\ held' = [held EXCEPT ![t] = @ \cup {stacks + 1}]
    /\ ctx' = [ctx EXCEPT ![t] = Handler(stacks + 1)]
    /\ UNCHANGED <<current, alive, fp, kstack>>

\* A custom handler: the trap frame is copied to the place of the sig_frame
\* pointer, over cwd and fd_table; the kernel is left by eret
custom_handler(t) ==
    /\ sig_frame' = [sig_frame EXCEPT ![t] = Last(kstack[t])]
    /\ cwd' = [cwd EXCEPT ![t] = "register"]
    /\ stacks < MaxStacks
    /\ stacks' = stacks + 1
    /\ fp' = [fp EXCEPT ![t] = stacks + 1]
    /\ held' = [held EXCEPT ![t] = @ \cup {stacks + 1}]
    /\ ctx' = [ctx EXCEPT ![t] = Handler(stacks + 1)]
    /\ UNCHANGED <<current, alive, kstack>>

\* ... and stored, and the signal is handled
handle_signal(t) ==
    LET handler == sig_handlers[t][ctx[t].regs.next - 1]
    IN  /\ InKernel(t) /\ ctx[t].regs.word = t
        /\ Store(t)
        /\ \/ handler = "default" /\ default_handler(t)
           \/ handler = "sigkill" /\ default_sigkill_handler(t)
           \/ handler = "custom" /\ custom_handler(t)
        /\ UNCHANGED <<sig_handlers, sent, nested>>

Next ==
    \/ IdleSwitch
    \/ \E t \in Threads :
          \/ Interrupt(t) \/ sys_signal(t) \/ sys_sigkill(t) \/ SigkillStore(t)
          \/ sys_sigreturn(t) \/ Resume(t) \/ check_pending_signals(t) \/ handle_signal(t)

Spec == Init /\ [][Next]_vars

\* The kernel and the handlers are straight-line code.
FairSpec ==
    /\ Spec
    /\ \A t \in Threads :
          /\ WF_vars(SigkillStore(t)) /\ WF_vars(sys_sigreturn(t)) /\ WF_vars(Resume(t))
          /\ WF_vars(check_pending_signals(t)) /\ WF_vars(handle_signal(t))

-----------------------------------------------------------------------------
\* Type correctness of the tasks' signal fields and of what runs.
TypeOK ==
    /\ alive \subseteq Threads /\ current \in alive \cup {Idle}
    /\ pending_sig \in [Threads -> SUBSET Sigs]
    /\ sig_handlers \in [Threads -> [Sigs -> {"default", "sigkill", "custom"}]]
    /\ \A t \in Threads :
          /\ {ctx[t].kind, sig_frame[t].kind} \subseteq {"program", "handler", "kernel"}
          /\ ctx[t].kind = "kernel" => kstack[t] # <<>>
          /\ held[t] \subseteq 1 .. stacks
    /\ cwd \in [Threads -> {"vnode", "register"}]
    /\ fp \in [Threads -> {KernelFp} \cup (1 .. stacks)]
    /\ nested \subseteq Threads
    /\ stacks \in 0 .. MaxStacks /\ sent \in 0 .. MaxSignals

\* "Saved context before jumping to signal handler": while a thread runs a
\* handler or the kernel, what leads back to its program is where the way back
\* will look for it.  Only an exception inside a handler or inside the kernel,
\* of that thread itself, can make it forget its program.
ProgramKept ==
    \A t \in alive \ nested :
        LET user == IF ctx[t].kind = "kernel" THEN Last(kstack[t]) ELSE ctx[t]
        IN  user = Program \/ (user.kind = "handler" /\ sig_frame[t] = Program)

\* The state is well typed, a thread has a handler stack exactly while it runs
\* a handler, and sigreturn will "Free the handler stack" it runs on: none
\* leaks and none is freed early, whatever the order of the signals.  Only an
\* exception inside the thread's own handler or kernel can break this.
StacksOwned ==
    /\ TypeOK
    /\ \A t \in Threads \ nested :
          IF ctx[t].kind = "handler" THEN held[t] = {ctx[t].id} /\ fp[t] = ctx[t].id
                                     ELSE held[t] = {}

\* The updates of t's pending_sig that have been loaded and not yet stored, each
\* with its thread and its place on that thread's kernel stack
Updates(t) ==
    {<<u, 0>> : u \in {v \in alive : ctx[v].regs.word = t}} \cup
    UNION {{<<u, i>> : i \in {j \in DOMAIN kstack[u] : kstack[u][j].regs.word = t}} :
               u \in alive}

\* What a SIGKILL needs to arrive: of two updates of one pending_sig one is stored
\* before the other is loaded, and the frames that handlers leave do not fill the
\* kernel stack of a program or handler;
Undisturbed ==
    \A t \in Threads :
        /\ Cardinality(Updates(t)) <= 1
        /\ ctx[t].kind # "kernel" => Len(kstack[t]) < MaxFrames

\* and the timer ticks on, so that a program is interrupted and the scheduler gives
\* every thread its turn, which is not certain (Sched, ReadyRuns).
Scheduled ==
    \A t \in Threads :
        /\ WF_vars(Interrupt(t))
        /\ SF_vars(current' = t /\ (IdleSwitch \/ \E u \in Threads \ {t} : Interrupt(u)))

\* Under these conditions a SIGKILL that is pending is neither lost nor put off
\* for ever by other signals and their handlers, unless the thread replaces its
\* handler; two updates that overlap can lose it (syscall.c:223, signal.c:10).
SigkillKills ==
    []Undisturbed /\ Scheduled => \A t \in Threads :
        (SIGKILL \in pending_sig[t] /\ sig_handlers[t][SIGKILL] = "sigkill") ~>
            (t \notin alive \/ sig_handlers[t][SIGKILL] # "sigkill")

\* How many trap frames lie below the one in use on t's kernel stack
Below(t) == Len(kstack[t]) - (IF ctx[t].kind = "kernel" THEN 1 ELSE 0)

Leaked == UNION {{t} \X (1 .. Below(t)) : t \in Threads}

\* The kernel stack leaks one trap frame for every handler that is entered, by
\* handle_signal's eret, and none otherwise, as long as exceptions do not nest.
FramesLeft == nested = {} => Cardinality(Leaked) = stacks
=============================================================================
