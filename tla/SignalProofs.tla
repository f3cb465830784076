---------------------------- MODULE SignalProofs ----------------------------
(***************************************************************************)
(* TLAPS proofs about Signal, for every number of threads, signals, stacks *)
(* and frames.  StacksOwned, ProgramKept and FramesLeft follow from one    *)
(* inductive invariant, which says where the way back to each program is   *)
(* (WayBack) and that the first frame of a kernel stack is the program's   *)
(* (Shapes).                                                               *)
(***************************************************************************)
EXTENDS Signal, FiniteSetTheorems, TLAPS

Regs == [next : Nat, word : Threads \cup {Idle}, value : SUBSET Sigs]

Contexts == {c \in [kind : {"program", "handler", "kernel"}, id : Nat, regs : Regs] :
                 c.kind = "program" => c = Program}

\* The type of contexts and kernel stacks; the lowest frame is the program's.
Shapes ==
    /\ ctx \in [Threads -> Contexts] /\ sig_frame \in [Threads -> Contexts]
    /\ kstack \in [Threads -> Seq(Contexts)]
    /\ held \in [Threads -> SUBSET (1 .. stacks)]
    /\ \A t \in Threads :
          /\ kstack[t] # <<>> => kstack[t][1] = Program
          /\ ctx[t].kind # "program" => kstack[t] # <<>>

\* Where a thread that had no nested exception finds its program and its stack
WayBackOf(t) ==
    \/ ctx[t] = Program /\ held[t] = {}
    \/ ctx[t].kind = "kernel" /\ Last(kstack[t]) = Program /\ held[t] = {}
    \/ /\ ctx[t].kind = "handler" /\ sig_frame[t] = Program
       /\ held[t] = {ctx[t].id} /\ fp[t] = ctx[t].id

WayBack == \A t \in Threads \ nested : WayBackOf(t)

SignalInv == TypeOK /\ Shapes /\ WayBack

-----------------------------------------------------------------------------
\* A non-empty set of natural numbers has a least element, which Min gives: the
\* loop of check_pending_signals stops at a pending signal.
LEMMA MinFacts ==
    ASSUME NEW T, T \subseteq Nat, T # {}
    PROVE  Min(T) \in T
<1>1. PICK m \in T : \A k \in T : ~(<<k, m>> \in OpToRel(<, Nat))
  BY NatLessThanWellFounded, WFMin
<1>2. \A k \in T : ~(k < m)
  BY <1>1 DEF OpToRel
<1>3. \A k \in T : m <= k
  BY <1>2
<1> QED BY <1>3 DEF Min

\* The three kinds of contexts are told apart.
LEMMA ContextFacts ==
    /\ \A c \in Contexts : c.kind = "program" <=> c = Program
    /\ Program \in Contexts /\ Program.kind = "program"
    /\ \A n \in Nat : From(n) \in Regs
    /\ \A n \in Nat : /\ Handler(n) \in Contexts /\ Handler(n).kind = "handler"
                      /\ Handler(n).id = n
    /\ \A r \in Regs : Kernel(r) \in Contexts /\ Kernel(r).kind = "kernel"
<1>1. \A n \in Nat : From(n) \in Regs
  BY DEF From, Registers, Regs
<1> QED BY <1>1 DEF Contexts, Program, Handler, Kernel

\* save_all pushes one context and runs the kernel on top of it.
LEMMA SaveFacts ==
    ASSUME SignalInv, NEW t \in Threads, NEW frame \in Contexts, NEW regs \in Regs,
           save_all(t, frame, regs), kstack[t] # <<>> \/ frame = Program
    PROVE  /\ ctx' \in [Threads -> Contexts] /\ kstack' \in [Threads -> Seq(Contexts)]
           /\ ctx'[t].kind = "kernel" /\ kstack'[t] # <<>> /\ kstack'[t][1] = Program
           /\ Last(kstack'[t]) = frame /\ Len(kstack'[t]) = Len(kstack[t]) + 1
           /\ \A u \in Threads \ {t} : ctx'[u] = ctx[u] /\ kstack'[u] = kstack[u]
<1>1. kstack[t] \in Seq(Contexts) /\ Len(kstack[t]) \in Nat
  BY DEF SignalInv, Shapes
<1>2. /\ ctx' \in [Threads -> Contexts] /\ ctx'[t].kind = "kernel"
      /\ kstack' \in [Threads -> Seq(Contexts)] /\ kstack'[t] = Append(kstack[t], frame)
      /\ \A u \in Threads \ {t} : ctx'[u] = ctx[u] /\ kstack'[u] = kstack[u]
  BY <1>1, ContextFacts DEF SignalInv, Shapes, save_all
<1>3. /\ Len(Append(kstack[t], frame)) = Len(kstack[t]) + 1
      /\ Append(kstack[t], frame)[Len(kstack[t]) + 1] = frame
      /\ kstack[t] # <<>> => Append(kstack[t], frame)[1] = kstack[t][1]
      /\ kstack[t] = <<>> => Append(kstack[t], frame)[1] = frame
  BY <1>1
<1> QED BY <1>1, <1>2, <1>3 DEF SignalInv, Shapes, Last

\* load_all pops one context; below the last one there is the program.
LEMMA LoadFacts ==
    ASSUME SignalInv, NEW t \in Threads, ctx[t].kind = "kernel", load_all(t)
    PROVE  /\ ctx' \in [Threads -> Contexts] /\ kstack' \in [Threads -> Seq(Contexts)]
           /\ ctx'[t] = Last(kstack[t]) /\ Len(kstack'[t]) = Len(kstack[t]) - 1
           /\ kstack'[t] # <<>> => kstack'[t][1] = Program
           /\ ctx'[t].kind # "program" => kstack'[t] # <<>>
           /\ \A u \in Threads \ {t} : ctx'[u] = ctx[u] /\ kstack'[u] = kstack[u]
<1>1. /\ kstack[t] \in Seq(Contexts) /\ kstack[t] # <<>> /\ kstack[t][1] = Program
      /\ Len(kstack[t]) \in Nat \ {0}
  BY DEF SignalInv, Shapes
<1>2. Last(kstack[t]) \in Contexts
  BY <1>1 DEF Last
<1>3. /\ Front(kstack[t]) \in Seq(Contexts)
      /\ Len(Front(kstack[t])) = Len(kstack[t]) - 1
      /\ \A i \in 1 .. Len(kstack[t]) - 1 : Front(kstack[t])[i] = kstack[t][i]
  BY <1>1 DEF Front
<1>4. /\ ctx' \in [Threads -> Contexts] /\ ctx'[t] = Last(kstack[t])
      /\ kstack' \in [Threads -> Seq(Contexts)] /\ kstack'[t] = Front(kstack[t])
      /\ \A u \in Threads \ {t} : ctx'[u] = ctx[u] /\ kstack'[u] = kstack[u]
  BY <1>2, <1>3 DEF SignalInv, Shapes, load_all
<1>5. Len(kstack[t]) = 1 => Last(kstack[t]) = Program
  BY <1>1 DEF Last
<1>6. Len(kstack'[t]) = Len(kstack[t]) - 1
  BY <1>3, <1>4
<1>7. ASSUME kstack'[t] # <<>> PROVE kstack'[t][1] = Program
  BY <1>1, <1>3, <1>4, <1>7
<1>8. ASSUME ctx'[t].kind # "program" PROVE kstack'[t] # <<>>
  <2>1. Len(kstack[t]) # 1
    BY <1>4, <1>5, <1>8, ContextFacts
  <2>2. Len(kstack'[t]) # 0
    BY <1>1, <1>6, <2>1
  <2> QED BY <2>2
<1> QED BY <1>4, <1>6, <1>7, <1>8
-----------------------------------------------------------------------------
\* The part of the type invariant that the kernel stacks and contexts carry.
LEMMA TypeFromShapesNext ==
    ASSUME Shapes'
    PROVE  \A t \in Threads :
              /\ {ctx'[t].kind, sig_frame'[t].kind} \subseteq {"program", "handler", "kernel"}
              /\ ctx'[t].kind = "kernel" => kstack'[t] # <<>>
              /\ held'[t] \subseteq 1 .. stacks'
  BY DEF Shapes, Contexts

\* An exception keeps the way back, unless it interrupts a handler or the kernel.
LEMMA EnterInv ==
    ASSUME SignalInv, NEW t \in Threads, NEW regs \in Regs, Enter(t, regs),
           UNCHANGED <<sig_frame, held, stacks>>,
           fp' \in [Threads -> {KernelFp} \cup (1 .. stacks)],
           \A u \in Threads \ {t} : fp'[u] = fp[u]
    PROVE  /\ Shapes' /\ WayBack' /\ nested' \subseteq Threads
           /\ \A u \in Threads \ nested' : Below(u)' = Below(u)
<1>1. /\ ctx[t] \in Contexts /\ (kstack[t] # <<>> \/ ctx[t] = Program)
      /\ kstack[t] \in Seq(Contexts)
      /\ t \notin nested => WayBackOf(t)
  BY ContextFacts DEF SignalInv, Shapes, WayBack
<1>2. /\ save_all(t, ctx[t], regs)
      /\ nested' = IF ctx[t] = Program THEN nested ELSE nested \cup {t}
  BY DEF Enter
<1>3. /\ ctx' \in [Threads -> Contexts] /\ kstack' \in [Threads -> Seq(Contexts)]
      /\ ctx'[t].kind = "kernel" /\ kstack'[t] # <<>> /\ kstack'[t][1] = Program
      /\ Last(kstack'[t]) = ctx[t] /\ Len(kstack'[t]) = Len(kstack[t]) + 1
      /\ \A u \in Threads \ {t} : ctx'[u] = ctx[u] /\ kstack'[u] = kstack[u]
  BY <1>1, <1>2, SaveFacts
<1>4. Shapes'
  BY <1>3 DEF SignalInv, Shapes
<1>5. t \notin nested' => ctx[t] = Program /\ held[t] = {}
  BY <1>1, <1>2, ContextFacts DEF WayBackOf
<1>6. \A u \in Threads \ nested' : u # t => WayBackOf(u)'
  BY <1>2, <1>3 DEF SignalInv, WayBack, WayBackOf
<1>7. t \notin nested' => WayBackOf(t)'
  BY <1>3, <1>5 DEF WayBackOf
<1>8. t \notin nested' => Below(t)' = Below(t)
  <2>1. Len(kstack[t]) \in Nat
    BY <1>1
  <2>2. Below(t)' = Len(kstack[t])
    <3>1. Below(t)' = Len(kstack'[t]) - 1
      BY <1>3 DEF Below
    <3>2. Len(kstack'[t]) = Len(kstack[t]) + 1
      BY <1>3
    <3> QED BY <2>1, <3>1, <3>2
  <2>3. ctx[t] = Program => Below(t) = Len(kstack[t]) - 0
    BY ContextFacts DEF Below
  <2> QED BY <1>5, <2>1, <2>2, <2>3
<1>9. \A u \in Threads : u # t => Below(u)' = Below(u)
  BY <1>3 DEF Below
<1> QED BY <1>2, <1>4, <1>6, <1>7, <1>8, <1>9 DEF WayBack, SignalInv, TypeOK

\* A thread that leaves the kernel for what was interrupted
LEMMA ResumeInv ==
    ASSUME SignalInv, NEW t \in Threads, Resume(t)
    PROVE  /\ SignalInv'
           /\ \A u \in Threads \ nested' : Below(u)' = Below(u)
<1>1. ctx[t].kind = "kernel" /\ load_all(t) /\ kstack[t] \in Seq(Contexts)
  BY DEF Resume, InKernel, SignalInv, Shapes
<1>2. /\ ctx' \in [Threads -> Contexts] /\ kstack' \in [Threads -> Seq(Contexts)]
      /\ ctx'[t] = Last(kstack[t]) /\ Len(kstack'[t]) = Len(kstack[t]) - 1
      /\ kstack'[t] # <<>> => kstack'[t][1] = Program
      /\ ctx'[t].kind # "program" => kstack'[t] # <<>>
      /\ \A u \in Threads \ {t} : ctx'[u] = ctx[u] /\ kstack'[u] = kstack[u]
  BY <1>1, LoadFacts
<1>3. UNCHANGED <<current, alive, pending_sig, sig_handlers, sig_frame, cwd, fp, held,
                  stacks, sent, nested>>
  BY DEF Resume
<1>4. Shapes'
  BY <1>2, <1>3 DEF SignalInv, Shapes
<1>7. TypeOK'
  <2>1. \A u \in Threads :
              /\ {ctx'[u].kind, sig_frame'[u].kind} \subseteq {"program", "handler", "kernel"}
              /\ ctx'[u].kind = "kernel" => kstack'[u] # <<>>
              /\ held'[u] \subseteq 1 .. stacks'
    BY <1>4, TypeFromShapesNext
  <2> QED BY <1>3, <2>1 DEF SignalInv, TypeOK
<1>8. t \notin nested' => ctx'[t] = Program /\ held'[t] = {}
  BY <1>1, <1>2, <1>3, ContextFacts DEF SignalInv, WayBack, WayBackOf
<1>9. WayBack'
  BY <1>2, <1>3, <1>8 DEF SignalInv, WayBack, WayBackOf
<1>10. t \notin nested' => Below(t)' = Below(t)
  <2>1. Below(t) = Len(kstack[t]) - 1
    BY <1>1 DEF Below
  <2>2. ctx'[t] = Program => Below(t)' = Len(kstack'[t]) - 0
    BY ContextFacts DEF Below
  <2>3. Len(kstack[t]) \in Nat /\ Len(kstack'[t]) = Len(kstack[t]) - 1
    BY <1>1, <1>2
  <2> QED BY <1>8, <2>1, <2>2, <2>3
<1>11. \A u \in Threads : u # t => Below(u)' = Below(u)
  BY <1>2 DEF Below
<1> QED BY <1>4, <1>7, <1>9, <1>10, <1>11 DEF SignalInv

\* sigreturn frees the stack of the handler and goes back to the saved frame.
LEMMA SigreturnInv ==
    ASSUME SignalInv, NEW t \in Threads, sys_sigreturn(t)
    PROVE  /\ SignalInv'
           /\ \A u \in Threads \ nested' : Below(u)' = Below(u)
<1>1. /\ ctx[t].kind = "handler" /\ save_all(t, sig_frame[t], From(0)) /\ From(0) \in Regs
      /\ kstack[t] \in Seq(Contexts) /\ kstack[t] # <<>> /\ sig_frame[t] \in Contexts
  BY ContextFacts DEF sys_sigreturn, SignalInv, Shapes
<1>2. /\ ctx' \in [Threads -> Contexts] /\ kstack' \in [Threads -> Seq(Contexts)]
      /\ ctx'[t].kind = "kernel" /\ kstack'[t] # <<>> /\ kstack'[t][1] = Program
      /\ Last(kstack'[t]) = sig_frame[t] /\ Len(kstack'[t]) = Len(kstack[t]) + 1
      /\ \A u \in Threads \ {t} : ctx'[u] = ctx[u] /\ kstack'[u] = kstack[u]
  BY <1>1, SaveFacts
<1>3. UNCHANGED <<current, alive, pending_sig, sig_handlers, sig_frame, cwd, fp,
                  stacks, sent, nested>>
  BY DEF sys_sigreturn
<1>4. /\ held' \in [Threads -> SUBSET (1 .. stacks)]
      /\ held'[t] = held[t] \ {fp[t]}
      /\ \A u \in Threads \ {t} : held'[u] = held[u]
  BY DEF sys_sigreturn, SignalInv, Shapes
<1>5. Shapes'
  BY <1>2, <1>3, <1>4 DEF SignalInv, Shapes
<1>6. TypeOK'
  BY <1>3, <1>5, TypeFromShapesNext DEF SignalInv, TypeOK
<1>8. t \notin nested => WayBackOf(t)'
  BY <1>1, <1>2, <1>4, ContextFacts DEF SignalInv, WayBack, WayBackOf
<1>9. WayBack'
  BY <1>2, <1>3, <1>4, <1>8 DEF SignalInv, WayBack, WayBackOf
<1>10. Below(t)' = Below(t)
  <2>1. Below(t) = Len(kstack[t]) - 0
    BY <1>1 DEF Below
  <2>2. Below(t)' = Len(kstack'[t]) - 1
    BY <1>2 DEF Below
  <2>3. Len(kstack[t]) \in Nat /\ Len(kstack'[t]) = Len(kstack[t]) + 1
    BY <1>1, <1>2
  <2> QED BY <2>1, <2>2, <2>3
<1>11. \A u \in Threads : u # t => Below(u)' = Below(u)
  BY <1>2 DEF Below
<1> QED BY <1>5, <1>6, <1>9, <1>10, <1>11 DEF SignalInv

\* The timer and the system calls that do not return from a handler
LEMMA ExceptionInv ==
    ASSUME SignalInv, NEW t \in Threads, Interrupt(t) \/ sys_signal(t) \/ sys_sigkill(t)
    PROVE  /\ SignalInv' /\ stacks' = stacks
           /\ \A u \in Threads \ nested' : Below(u)' = Below(u)
<1>1. PICK regs \in Regs : Enter(t, regs)
  <2>1. CASE sys_sigkill(t)
    <3>1. PICK pid \in alive, sig \in Sigs :
              Enter(t, Registers(0, pid, pending_sig[pid] \cup {sig}))
      BY <2>1 DEF sys_sigkill
    <3>2. Registers(0, pid, pending_sig[pid] \cup {sig}) \in Regs
      BY DEF Registers, Regs, SignalInv, TypeOK
    <3> QED BY <3>1, <3>2
  <2>2. CASE Interrupt(t) \/ sys_signal(t)
    BY <2>2, ContextFacts DEF Interrupt, sys_signal
  <2> QED BY <2>1, <2>2
<1>2. /\ UNCHANGED <<alive, pending_sig, sig_frame, cwd, held, stacks>>
      /\ fp' \in [Threads -> {KernelFp} \cup (1 .. stacks)]
      /\ \A u \in Threads \ {t} : fp'[u] = fp[u]
      /\ current' \in alive \cup {Idle}
  BY DEF Interrupt, sys_signal, sys_sigkill, SignalInv, TypeOK
<1>3. /\ Shapes' /\ WayBack' /\ nested' \subseteq Threads
      /\ \A u \in Threads \ nested' : Below(u)' = Below(u)
  BY <1>1, <1>2, EnterInv
<1>4. /\ sig_handlers' \in [Threads -> [Sigs -> {"default", "sigkill", "custom"}]]
      /\ sent' \in 0 .. MaxSignals
  <2>1. /\ sig_handlers \in [Threads -> [Sigs -> {"default", "sigkill", "custom"}]]
        /\ sent \in 0 .. MaxSignals /\ MaxSignals \in Nat
    BY SignalAssumption DEF SignalInv, TypeOK
  <2>2. CASE Interrupt(t)
    BY <2>1, <2>2 DEF Interrupt
  <2>3. CASE sys_signal(t)
    <3>1. PICK sig \in Sigs, handler \in {"custom", "default", "sigkill"} :
              sig_handlers' = [sig_handlers EXCEPT ![t][sig] = handler]
      BY <2>3 DEF sys_signal, DefaultHandler
    <3>2. sent' = sent
      BY <2>3 DEF sys_signal
    <3> QED BY <2>1, <3>1, <3>2
  <2>4. CASE sys_sigkill(t)
    <3>1. sig_handlers' = sig_handlers /\ sent < MaxSignals /\ sent' = sent + 1
      BY <2>4 DEF sys_sigkill
    <3> QED BY <2>1, <3>1
  <2> QED BY <2>2, <2>3, <2>4
<1>5. TypeOK'
  BY <1>2, <1>3, <1>4, TypeFromShapesNext DEF SignalInv, TypeOK
<1> QED BY <1>2, <1>3, <1>5 DEF SignalInv

\* A step of the kernel on its own stack
KernelStep(t) ==
    /\ ctx[t].kind = "kernel"
    /\ \E regs \in Regs : ctx' = [ctx EXCEPT ![t] = Kernel(regs)]
    /\ pending_sig' \in [Threads -> SUBSET Sigs]
    /\ UNCHANGED <<current, alive, sig_handlers, sig_frame, cwd, fp, kstack, held, stacks,
                   sent, nested>>

\* leaves the way back where it is.
LEMMA KernelStepInv ==
    ASSUME SignalInv, NEW t \in Threads, KernelStep(t)
    PROVE  SignalInv' /\ \A u \in Threads : Below(u)' = Below(u)
<1>1. PICK regs \in Regs : ctx' = [ctx EXCEPT ![t] = Kernel(regs)]
  BY DEF KernelStep
<1>2. /\ ctx' \in [Threads -> Contexts] /\ ctx'[t].kind = "kernel"
      /\ \A u \in Threads \ {t} : ctx'[u] = ctx[u]
  BY <1>1, ContextFacts DEF SignalInv, Shapes
<1>3. Shapes'
  BY <1>2 DEF KernelStep, SignalInv, Shapes
<1>4. TypeOK'
  BY <1>3, TypeFromShapesNext DEF KernelStep, SignalInv, TypeOK
<1>5. t \notin nested => WayBackOf(t)'
  BY <1>2, ContextFacts DEF KernelStep, SignalInv, WayBack, WayBackOf
<1>6. WayBack'
  BY <1>2, <1>5 DEF KernelStep, SignalInv, WayBack, WayBackOf
<1>7. \A u \in Threads : Below(u)' = Below(u)
  BY <1>2 DEF KernelStep, Below
<1> QED BY <1>3, <1>4, <1>6, <1>7 DEF SignalInv

\* An update that has been loaded stores a set of signals.
LEMMA StoreType ==
    ASSUME SignalInv, NEW t \in Threads, Store(t)
    PROVE  pending_sig' \in [Threads -> SUBSET Sigs]
<1>1. ctx[t].regs.value \in SUBSET Sigs
  BY DEF SignalInv, Shapes, Contexts, Regs
<1> QED BY <1>1 DEF Store, SignalInv, TypeOK

\* sigkill's store, and the load with which the loop clears a signal
LEMMA UpdateInv ==
    ASSUME SignalInv, NEW t \in Threads, SigkillStore(t) \/ check_pending_signals(t)
    PROVE  KernelStep(t)
<1>1. CASE SigkillStore(t)
  BY <1>1, StoreType, ContextFacts DEF SigkillStore, InKernel, KernelStep
<1>2. CASE check_pending_signals(t)
  <2> DEFINE sig == Min(Found(t))
             regs == Registers(sig + 1, t, Cleared(pending_sig[t], sig))
  <2>1. Found(t) \subseteq Nat /\ Found(t) # {}
    BY <1>2, SignalAssumption DEF check_pending_signals, Found, SignalInv, TypeOK
  <2>2. sig \in Nat
    BY <2>1, MinFacts
  <2>3. ctx' = [ctx EXCEPT ![t] = Kernel(regs)]
    BY <1>2 DEF check_pending_signals
  <2> HIDE DEF sig
  <2>4. regs \in Regs
    BY <2>2 DEF Registers, Regs, Cleared, SignalInv, TypeOK
  <2> HIDE DEF regs
  <2>5. UNCHANGED <<current, alive, pending_sig, sig_handlers, sig_frame, cwd, fp,
                    kstack, held, stacks, sent, nested>> /\ ctx[t].kind = "kernel"
    BY <1>2 DEF check_pending_signals, InKernel
  <2> QED BY <2>3, <2>4, <2>5 DEF KernelStep, SignalInv, TypeOK
<1> QED BY <1>1, <1>2

\* A handler starts on a new stack; what the exception interrupted is in
\* sig_frame, and its trap frame stays.
LEMMA HandleInv ==
    ASSUME SignalInv, NEW t \in Threads, ctx[t].kind = "kernel", Store(t),
           custom_handler(t), UNCHANGED <<sig_handlers, sent, nested>>
    PROVE  /\ SignalInv' /\ stacks' = stacks + 1 /\ Below(t)' = Below(t) + 1
           /\ \A u \in Threads \ {t} : Below(u)' = Below(u)
<1>1. /\ stacks \in Nat /\ stacks + 1 \in Nat /\ 1 .. stacks \subseteq 1 .. stacks + 1
      /\ stacks' = stacks + 1 /\ stacks' \in 0 .. MaxStacks
  BY SignalAssumption DEF custom_handler, SignalInv, TypeOK
<1>2. /\ kstack[t] \in Seq(Contexts) /\ kstack[t] # <<>>
  BY DEF SignalInv, Shapes
<1>3. Last(kstack[t]) \in Contexts
  BY <1>2 DEF Last
<1>4. UNCHANGED <<current, alive, sig_handlers, kstack, sent, nested>>
  BY DEF custom_handler
<1>5. /\ ctx' \in [Threads -> Contexts] /\ ctx'[t] = Handler(stacks + 1)
      /\ sig_frame' \in [Threads -> Contexts] /\ sig_frame'[t] = Last(kstack[t])
      /\ \A u \in Threads \ {t} : ctx'[u] = ctx[u] /\ sig_frame'[u] = sig_frame[u]
  BY <1>1, <1>3, ContextFacts DEF custom_handler, SignalInv, Shapes
<1>6. /\ held' \in [Threads -> SUBSET (1 .. stacks')]
      /\ held'[t] = held[t] \cup {stacks + 1}
      /\ \A u \in Threads \ {t} : held'[u] = held[u]
  BY <1>1 DEF custom_handler, SignalInv, Shapes
<1>7. /\ fp' \in [Threads -> {KernelFp} \cup (1 .. stacks')] /\ fp'[t] = stacks + 1
      /\ \A u \in Threads \ {t} : fp'[u] = fp[u]
      /\ cwd' \in [Threads -> {"vnode", "register"}]
  BY <1>1 DEF custom_handler, SignalInv, TypeOK
<1>8. Shapes'
  BY <1>2, <1>4, <1>5, <1>6 DEF SignalInv, Shapes
<1>9. TypeOK'
  BY <1>1, <1>4, <1>7, <1>8, StoreType, TypeFromShapesNext DEF SignalInv, TypeOK
<1>10. t \notin nested => WayBackOf(t)'
  <2>1. t \notin nested => Last(kstack[t]) = Program /\ held[t] = {}
    BY ContextFacts DEF SignalInv, WayBack, WayBackOf
  <2> QED BY <1>1, <1>5, <1>6, <1>7, <2>1, ContextFacts DEF WayBackOf
<1>11. WayBack'
  BY <1>4, <1>5, <1>6, <1>7, <1>10 DEF SignalInv, WayBack, WayBackOf
<1>12. Below(t)' = Below(t) + 1
  <2>1. Below(t) = Len(kstack[t]) - 1
    BY DEF Below
  <2>2. Below(t)' = Len(kstack[t]) - 0
    BY <1>1, <1>4, <1>5, ContextFacts DEF Below
  <2> QED BY <1>2, <2>1, <2>2
<1>13. \A u \in Threads \ {t} : Below(u)' = Below(u)
  BY <1>4, <1>5 DEF Below
<1> QED BY <1>1, <1>8, <1>9, <1>11, <1>12, <1>13 DEF SignalInv

\* The default action of SIGKILL takes the thread out of the living.
LEMMA KillInv ==
    ASSUME SignalInv, NEW t \in Threads, Store(t), default_sigkill_handler(t),
           UNCHANGED <<sig_handlers, sent, nested>>
    PROVE  SignalInv' /\ stacks' = stacks /\ \A u \in Threads : Below(u)' = Below(u)
<1>1. UNCHANGED <<sig_handlers, sig_frame, cwd, fp, ctx, kstack, held, stacks, sent, nested>>
  BY DEF default_sigkill_handler
<1>2. alive' \subseteq Threads /\ current' \in alive' \cup {Idle}
  BY DEF default_sigkill_handler, SignalInv, TypeOK
<1> QED BY <1>1, <1>2, StoreType DEF SignalInv, TypeOK, Shapes, WayBack, WayBackOf, Below

\* What one step does to the frames left on the kernel stacks: handle_signal
\* leaves one more on its thread's.
FramesStep ==
    \/ stacks' = stacks /\ \A u \in Threads \ nested' : Below(u)' = Below(u)
    \/ /\ stacks' = stacks + 1
       /\ \E t \in Threads : /\ Below(t)' = Below(t) + 1
                             /\ \A u \in Threads \ {t} : Below(u)' = Below(u)

\* Every step keeps the invariant.
LEMMA SignalNext ==
    ASSUME SignalInv, [Next]_vars
    PROVE  SignalInv' /\ FramesStep /\ nested \subseteq nested'
<1>1. ASSUME NEW t \in Threads, Interrupt(t) \/ sys_signal(t) \/ sys_sigkill(t)
      PROVE  SignalInv' /\ FramesStep /\ nested \subseteq nested'
  <2>1. nested \subseteq nested'
    BY <1>1 DEF Interrupt, sys_signal, sys_sigkill, Enter
  <2> QED BY <1>1, <2>1, ExceptionInv DEF FramesStep
<1>2. ASSUME NEW t \in Threads, sys_sigreturn(t)
      PROVE  SignalInv' /\ FramesStep /\ nested \subseteq nested'
  <2>1. UNCHANGED <<nested, stacks>>
    BY <1>2 DEF sys_sigreturn
  <2> QED BY <1>2, <2>1, SigreturnInv DEF FramesStep
<1>3. ASSUME NEW t \in Threads, Resume(t)
      PROVE  SignalInv' /\ FramesStep /\ nested \subseteq nested'
  <2>1. UNCHANGED <<nested, stacks>>
    BY <1>3 DEF Resume
  <2> QED BY <1>3, <2>1, ResumeInv DEF FramesStep
<1>4. ASSUME NEW t \in Threads, SigkillStore(t) \/ check_pending_signals(t)
      PROVE  SignalInv' /\ FramesStep /\ nested \subseteq nested'
  BY <1>4, UpdateInv, KernelStepInv DEF KernelStep, FramesStep
<1>5. ASSUME NEW t \in Threads, handle_signal(t)
      PROVE  SignalInv' /\ FramesStep /\ nested \subseteq nested'
  <2>1. /\ ctx[t].kind = "kernel" /\ Store(t) /\ UNCHANGED <<sig_handlers, sent, nested>>
        /\ default_handler(t) \/ default_sigkill_handler(t) \/ custom_handler(t)
    BY <1>5 DEF handle_signal, InKernel
  <2>2. CASE default_handler(t)
    <3>1. From(ctx[t].regs.next) \in Regs
      <4>1. ctx[t].regs.next \in Nat
        BY DEF SignalInv, Shapes, Contexts, Regs
      <4> QED BY <4>1, ContextFacts
    <3>2. KernelStep(t)
      BY <2>1, <2>2, <3>1, StoreType DEF KernelStep, default_handler
    <3> QED BY <3>2, KernelStepInv DEF KernelStep, FramesStep
  <2>3. CASE default_sigkill_handler(t)
    BY <2>1, <2>3, KillInv DEF FramesStep
  <2>4. CASE custom_handler(t)
    BY <2>1, <2>4, HandleInv DEF FramesStep
  <2> QED BY <2>1, <2>2, <2>3, <2>4
<1>6. CASE IdleSwitch
  <2>1. /\ UNCHANGED <<alive, pending_sig, sig_handlers, sig_frame, cwd, fp, ctx, kstack,
                       held, stacks, sent, nested>>
        /\ current' \in alive \cup {Idle}
    BY <1>6 DEF IdleSwitch
  <2> QED BY <2>1 DEF SignalInv, TypeOK, Shapes, WayBack, WayBackOf, Below, FramesStep
<1>7. CASE UNCHANGED vars
  BY <1>7 DEF vars, SignalInv, TypeOK, Shapes, WayBack, WayBackOf, Below, FramesStep
<1> QED BY <1>1, <1>2, <1>3, <1>4, <1>5, <1>6, <1>7 DEF Next

\* The invariant holds at the start, where nothing has been interrupted.
LEMMA SignalInit == Init => SignalInv /\ nested = {} /\ \A t \in Threads : Below(t) = 0
<1> SUFFICES ASSUME Init PROVE SignalInv /\ nested = {} /\ \A t \in Threads : Below(t) = 0
  OBVIOUS
<1>3. TypeOK
  BY ContextFacts, SignalAssumption DEF Init, TypeOK, DefaultHandler
<1>4. Shapes /\ WayBack
  BY ContextFacts DEF Init, Shapes, WayBack, WayBackOf
<1>5. \A t \in Threads : Below(t) = 0
  BY ContextFacts DEF Init, Below
<1> QED BY <1>3, <1>4, <1>5 DEF Init, SignalInv

-----------------------------------------------------------------------------
\* The invariant holds of every behaviour of signal.c's handlers.
LEMMA SignalSafety == Spec => []SignalInv
  BY SignalInit, SignalNext, PTL DEF Spec

\* For any number of threads and signals, a handler stack exists exactly while its
\* handler runs and sigreturn frees that one, unless exceptions nest.
THEOREM SignalStacksOwned == Spec => []StacksOwned
<1>1. SignalInv => StacksOwned
  BY ContextFacts DEF SignalInv, StacksOwned, WayBack, WayBackOf
<1> QED BY <1>1, SignalSafety, PTL

\* For any number of threads and signals, the way back to a thread's program is
\* kept, unless exceptions nest.
THEOREM SignalProgramKept == Spec => []ProgramKept
<1>1. SignalInv => ProgramKept
  BY ContextFacts DEF SignalInv, TypeOK, ProgramKept, WayBack, WayBackOf
<1> QED BY <1>1, SignalSafety, PTL

\* Leaked pairs each thread with the numbers up to Below, now and in the next state,
LEMMA LeakedIs ==
    /\ \A p : p \in Leaked <=> /\ p = <<p[1], p[2]>>
                               /\ p[1] \in Threads /\ p[2] \in 1 .. Below(p[1])
    /\ \A p : p \in Leaked' <=> /\ p = <<p[1], p[2]>>
                                /\ p[1] \in Threads /\ p[2] \in 1 .. Below(p[1])'
  BY DEF Leaked

\* which is a number.
LEMMA BelowNat == ASSUME SignalInv, NEW t \in Threads PROVE Below(t) \in Nat
<1>1. kstack[t] \in Seq(Contexts) /\ (ctx[t].kind = "kernel" => kstack[t] # <<>>)
  BY DEF SignalInv, Shapes
<1> QED BY <1>1 DEF Below

FramesCounted == nested = {} => IsFiniteSet(Leaked) /\ Cardinality(Leaked) = stacks

\* A step that enters a handler leaves one frame, any other none.
LEMMA FramesNext ==
    ASSUME SignalInv, FramesCounted, FramesStep, nested \subseteq nested'
    PROVE  FramesCounted'
<1> SUFFICES ASSUME nested' = {} PROVE IsFiniteSet(Leaked') /\ Cardinality(Leaked') = stacks'
  BY DEF FramesCounted
<1>1. IsFiniteSet(Leaked) /\ Cardinality(Leaked) = stacks
  BY DEF FramesCounted
<1>2. CASE stacks' = stacks /\ \A u \in Threads \ nested' : Below(u)' = Below(u)
  <2>1. Leaked' = Leaked
    BY <1>2 DEF Leaked
  <2> QED BY <1>1, <1>2, <2>1
<1>3. ASSUME stacks' = stacks + 1, NEW t \in Threads, Below(t)' = Below(t) + 1,
             \A u \in Threads \ {t} : Below(u)' = Below(u)
      PROVE  IsFiniteSet(Leaked') /\ Cardinality(Leaked') = stacks'
  <2> DEFINE new == <<t, Below(t) + 1>>
  <2>1. Below(t) \in Nat
    BY BelowNat
  <2>2. new \notin Leaked
    BY <2>1, LeakedIs
  <2>3. \A i : i \in 1 .. Below(t) + 1 <=> i \in 1 .. Below(t) \/ i = Below(t) + 1
    BY <2>1
  <2>4. ASSUME NEW p \in Leaked' PROVE p \in Leaked \cup {new}
    BY <1>3, <2>3, <2>4, LeakedIs
  <2>5. ASSUME NEW p \in Leaked \cup {new} PROVE p \in Leaked'
    BY <1>3, <2>3, <2>5, LeakedIs
  <2>6. Leaked' = Leaked \cup {new}
    BY <2>4, <2>5
  <2> QED BY <1>1, <1>3, <2>2, <2>6, FS_AddElement
<1> QED BY <1>2, <1>3 DEF FramesStep

\* For any number of threads and signals, the trap frames left on the kernel
\* stacks are as many as the handlers that were entered.
THEOREM SignalFramesLeft == Spec => []FramesLeft
<1>1. Init => SignalInv /\ FramesCounted
  <2>1. ASSUME Init PROVE Leaked = {}
    BY <2>1, SignalInit DEF Leaked
  <2> QED BY <2>1, SignalInit, FS_EmptySet DEF FramesCounted, Init
<1>2. SignalInv /\ FramesCounted /\ [Next]_vars => SignalInv' /\ FramesCounted'
  BY SignalNext, FramesNext
<1>3. FramesCounted => FramesLeft
  BY DEF FramesCounted, FramesLeft
<1> QED BY <1>1, <1>2, <1>3, PTL DEF Spec

=============================================================================
