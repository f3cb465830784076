------------------------------- MODULE Sched -------------------------------
(***************************************************************************)
(* The thread scheduler: sched.c, sched_asm.S, exec.c, the thread system   *)
(* calls of syscall.c and create_shell_thread of main.c.                   *)
(*                                                                         *)
(* One core runs one thread, `current' (tpidr_el1).  The ready and the     *)
(* zombie queue are the lists threaded through ThreadTask.next.  A task is *)
(* named by its pid; Boot is the task sched_init allocates for main(),     *)
(* whose id field is never written.  wait_queue is left out: no code ever  *)
(* sets TASK_BLOCKED, so it stays empty.                                   *)
(*                                                                         *)
(* System calls run with interrupts enabled, so a timer tick may land      *)
(* inside one.  _exec and _kill, which keep a task pointer across such a   *)
(* window, are two steps each; Preemptible says whether a tick may land    *)
(* between them.  The list operations themselves are atomic here.          *)
(*                                                                         *)
(* Of the timer, which Timer models, three states matter: it is on with    *)
(* keep_schedule in its list, a handler that found no timer expired has    *)
(* left it off (schedule() turns it on again), or keep_schedule is lost    *)
(* because its add_timer got no memory.                                    *)
(***************************************************************************)
EXTENDS Integers, SequencesExt

CONSTANTS
    MaxTasks,     \* bound on thread_cnt (the code's counter is unbounded)
    KillTargets,  \* the pids user programs pass to kill
    AllocFails,   \* may alloc return NULL?
    Preemptible   \* may a tick land inside _exec and _kill?

ASSUME SchedAssumption ==
    /\ MaxTasks \in Nat /\ MaxTasks >= 2
    /\ KillTargets \subseteq Int
    /\ {AllocFails, Preemptible} \subseteq BOOLEAN

Idle  == 0
Shell == 1
Boot  == -1

Pids  == 0 .. MaxTasks - 1
Tasks == Pids \cup {Boot}

VARIABLES
    current,       \* tpidr_el1
    state,         \* ThreadTask.state, "NONE" for a task not created
    ready_queue,
    zombie_queue,
    thread_cnt,
    context,       \* cpu_context: "entry" from thread_create, else "saved"
    el1,           \* user programs that were started at EL1
    call, arg,     \* the call each thread is inside, the task it holds
    freed,         \* tasks whose memory kill_zombies gave back
    replaced,      \* tasks left behind when exec entered another one
    timer          \* "on", "off" or "lost"

vars == <<current, state, ready_queue, zombie_queue, thread_cnt, context,
          el1, call, arg, freed, replaced, timer>>

Queued == ToSet(ready_queue)
Zombies == ToSet(zombie_queue)

-----------------------------------------------------------------------------
\* Where a list first holds a task
Place(queue, task) ==
    CHOOSE i \in DOMAIN queue :
        queue[i] = task /\ \A j \in 1 .. i - 1 : queue[j] # task

\* (mutant: the task is linked at the head)
Bug_add_thread_task(queue, task) == <<task>> \o queue

\* add_thread_task, rm_thread_task and pop_thread_task on a list of tasks
add_thread_task(queue, task) == Append(queue, task)

rm_thread_task(queue, task) ==
    IF task \in ToSet(queue) THEN RemoveAt(queue, Place(queue, task)) ELSE queue

pop_thread_task(queue) == Tail(queue)

\* get_thread_task_by_id: the queues are searched, the running task is not in one
Found(pid) == pid \in Queued

-----------------------------------------------------------------------------
\* sched_init: the first created thread is idle, main() runs as Boot
sched_init ==
    /\ current = Boot
    /\ state = [t \in Tasks |-> IF t = Boot THEN "RUNNING"
                                ELSE IF t = Idle THEN "READY" ELSE "NONE"]
    /\ ready_queue = <<Idle>>
    /\ zombie_queue = <<>>
    /\ thread_cnt = 1
    /\ context = [t \in Tasks |-> "entry"]
    /\ el1 = {}
    /\ call = [t \in Tasks |-> "none"]
    /\ arg = [t \in Tasks |-> t]
    /\ freed = {}
    /\ replaced = {}
    /\ timer = "on"

(***************************************************************************)
(* schedule() with the queues and states its caller has just written.      *)
(* cpu_switch_to saves prev's context and jumps to next's: a context of    *)
(* thread_create is entered by `ret', at EL1, which only idle is meant for.*)
(***************************************************************************)
Stay(rq, zq, st) ==
    /\ ready_queue' = rq
    /\ zombie_queue' = zq
    /\ state' = st
    /\ UNCHANGED <<current, context, el1>>

cpu_switch_to(prev, next) ==
    /\ current' = next
    /\ context' = [context EXCEPT ![prev] = "saved"]
    /\ el1' = IF context[next] = "entry" /\ next # Idle
              THEN el1 \cup {next} ELSE el1

\* (mutant: an exited prev is not put on the zombie queue)
BugZombie_Switch(rq, zq, st) ==
    /\ ready_queue' = pop_thread_task(IF st[current] = "RUNNING"
                                      THEN add_thread_task(rq, current) ELSE rq)
    /\ zombie_queue' = zq
    /\ state' = [st EXCEPT ![current] = IF @ = "RUNNING" THEN "READY" ELSE @,
                           ![Head(rq)] = "RUNNING"]
    /\ cpu_switch_to(current, Head(rq))

Switch(rq, zq, st) ==
    LET prev == current
        next == Head(rq)
        requeued == IF st[prev] = "RUNNING" THEN add_thread_task(rq, prev) ELSE rq
    IN  /\ ready_queue' = pop_thread_task(requeued)
        /\ zombie_queue' = IF st[prev] = "EXITED"
                           THEN add_thread_task(zq, prev) ELSE zq
        /\ state' = [st EXCEPT ![prev] = IF @ = "RUNNING" THEN "READY" ELSE @,
                               ![next] = "RUNNING"]
        /\ cpu_switch_to(prev, next)

schedule(rq, zq, st) ==
    IF rq = <<>> \/ Head(rq) = current THEN Stay(rq, zq, st)
                                       ELSE Switch(rq, zq, st)

-----------------------------------------------------------------------------
\* The pid thread_create or sys_fork gives out; a failed stack allocation
\* after the pid was taken loses it, a failed task allocation does not.
AllocFailure ==
    /\ AllocFails
    /\ thread_cnt' \in {thread_cnt, thread_cnt + 1}
    /\ UNCHANGED <<state, ready_queue, context>>

\* A new READY task at the tail of the ready queue
NewTask(ctx) ==
    /\ state' = [state EXCEPT ![thread_cnt] = "READY"]
    /\ context' = [context EXCEPT ![thread_cnt] = ctx]
    /\ ready_queue' = add_thread_task(ready_queue, thread_cnt)
    /\ thread_cnt' = thread_cnt + 1

InUser == current # Idle /\ call[current] = "none"

\* Where a tick may land; the idle loop is only interruptible while the ready
\* queue is empty.
Interruptible ==
    /\ timer = "on"
    /\ current = Idle => ready_queue = <<>>
    /\ Preemptible \/ call[current] \in {"none", "fault"}

\* core_timer_handler with keep_schedule expired: the callback adds itself
\* again, or fails to, and the running thread is preempted.
Tick ==
    /\ Interruptible
    /\ schedule(ready_queue, zombie_queue, state)
    /\ timer' \in {"on"} \cup (IF AllocFails THEN {"lost"} ELSE {})
    /\ UNCHANGED <<thread_cnt, call, arg, freed, replaced>>

\* core_timer_handler on the stale interrupt a nested handler leaves behind: no
\* timer has expired, it is not reset and schedule() is not called.
StaleTick ==
    /\ Interruptible
    /\ timer' = "off"
    /\ UNCHANGED <<current, state, ready_queue, zombie_queue, thread_cnt,
                   context, el1, call, arg, freed, replaced>>

\* schedule() enables the timer on each of its ways out
timer_enable_irq == timer' = IF timer = "lost" THEN "lost" ELSE "on"

\* idle: kill_zombies gives back every zombie, then schedule
kill_zombies == freed' = freed \cup Zombies

\* (mutant: kill_zombies walks the queue and leaves it in place)
BugKeep_IdleLoop ==
    /\ current = Idle
    /\ kill_zombies
    /\ schedule(ready_queue, zombie_queue, state)
    /\ timer_enable_irq
    /\ UNCHANGED <<thread_cnt, call, arg, replaced>>

\* (mutant: the loop does not call kill_zombies)
Bug_IdleLoop ==
    /\ current = Idle
    /\ schedule(ready_queue, zombie_queue, state)
    /\ timer_enable_irq
    /\ UNCHANGED <<thread_cnt, call, arg, freed, replaced>>

IdleLoop ==
    /\ current = Idle
    /\ kill_zombies
    /\ schedule(ready_queue, <<>>, state)
    /\ timer_enable_irq
    /\ UNCHANGED <<thread_cnt, call, arg, replaced>>

\* sys_fork: the child starts from a copy of the parent's kernel stack
sys_fork ==
    /\ InUser /\ current # Boot
    /\ thread_cnt < MaxTasks
    /\ NewTask("saved") \/ AllocFailure
    /\ UNCHANGED <<current, zombie_queue, el1, call, arg, freed, replaced, timer>>

\* (mutant: the task is not taken off the ready queue)
Bug_exit ==
    /\ InUser /\ current # Boot
    /\ schedule(ready_queue, zombie_queue, [state EXCEPT ![current] = "EXITED"])
    /\ timer_enable_irq
    /\ UNCHANGED <<thread_cnt, call, arg, freed, replaced>>

\* (mutant: the final schedule() is missing)
BugStay_exit ==
    /\ InUser /\ current # Boot
    /\ Stay(rm_thread_task(ready_queue, current), zombie_queue,
            [state EXCEPT ![current] = "EXITED"])
    /\ UNCHANGED <<thread_cnt, call, arg, freed, replaced, timer>>

\* _exit, from sys_exit or default_sigkill_handler
_exit ==
    /\ InUser /\ current # Boot
    /\ schedule(rm_thread_task(ready_queue, current), zombie_queue,
                [state EXCEPT ![current] = "EXITED"])
    /\ timer_enable_irq
    /\ UNCHANGED <<thread_cnt, call, arg, freed, replaced>>

\* sys_kill, _kill: look the pid up ...
KillLookup ==
    \E pid \in KillTargets :
        /\ InUser /\ current # Boot
        /\ Found(pid)
        /\ call' = [call EXCEPT ![current] = "kill"]
        /\ arg' = [arg EXCEPT ![current] = pid]
        /\ UNCHANGED <<current, state, ready_queue, zombie_queue, thread_cnt,
                       context, el1, freed, replaced, timer>>

\* ... and turn the task it found into a zombie
KillApply ==
    LET task == arg[current]
        rq == rm_thread_task(ready_queue, task)
        st == [state EXCEPT ![task] = "EXITED"]
    IN  /\ call[current] = "kill"
        /\ IF task = current
           THEN schedule(rq, zombie_queue, st) /\ timer_enable_irq
           ELSE Stay(rq, add_thread_task(zombie_queue, task), st) /\ UNCHANGED timer
        /\ call' = [call EXCEPT ![current] = "none"]
        /\ UNCHANGED <<thread_cnt, arg, freed, replaced>>

\* sys_exec and create_shell_thread: thread_create the new program.  A failed
\* thread_create returns -1, which _exec dereferences: the caller faults at
\* the same instruction for ever.
ExecCreate ==
    /\ InUser
    /\ thread_cnt < MaxTasks
    /\ \/ /\ NewTask("entry")
          /\ call' = [call EXCEPT ![current] = "exec"]
          /\ arg' = [arg EXCEPT ![current] = thread_cnt]
       \/ /\ AllocFailure
          /\ call' = [call EXCEPT ![current] = "fault"]
          /\ arg' = arg
    /\ UNCHANGED <<current, zombie_queue, el1, freed, replaced, timer>>

\* ... and enter it at EL0 by eret: tpidr_el1 is the new task, which stays
\* READY and queued; the caller is not marked in any way.
ExecEnter ==
    /\ call[current] = "exec"
    /\ current' = arg[current]
    /\ el1' = el1 \ {arg[current]}
    /\ call' = [call EXCEPT ![current] = "none"]
    /\ replaced' = IF current \in Queued THEN replaced ELSE replaced \cup {current}
    /\ UNCHANGED <<state, ready_queue, zombie_queue, thread_cnt, context, arg,
                   freed, timer>>

Next ==
    \/ Tick \/ StaleTick \/ IdleLoop \/ sys_fork \/ _exit
    \/ KillLookup \/ KillApply \/ ExecCreate \/ ExecEnter

Spec == sched_init /\ [][Next]_vars

(***************************************************************************)
(* Fairness.  A thread at EL0 is interrupted when keep_schedule expires,   *)
(* as long as the timer stays on; a program that runs at EL1 has           *)
(* interrupts masked and is not.  The idle loop and the calls are          *)
(* straight-line code.                                                     *)
(***************************************************************************)
Fairness ==
    /\ WF_vars(Tick /\ timer' = "on" /\ current \notin el1)
    /\ WF_vars(IdleLoop)
    /\ WF_vars(KillApply)
    /\ WF_vars(ExecEnter)

FairSpec == Spec /\ Fairness

-----------------------------------------------------------------------------
States == {"NONE", "READY", "RUNNING", "EXITED"}

\* Type correctness of the scheduler's state: the ThreadTask fields, the two
\* queues and thread_cnt.
TypeOK ==
    /\ current \in Tasks
    /\ state \in [Tasks -> States]
    /\ ready_queue \in Seq(Tasks)
    /\ zombie_queue \in Seq(Tasks)
    /\ thread_cnt \in 1 .. MaxTasks
    /\ context \in [Tasks -> {"entry", "saved"}]
    /\ el1 \subseteq Tasks
    /\ call \in [Tasks -> {"none", "kill", "exec", "fault"}]
    /\ arg \in [Tasks -> Tasks]
    /\ freed \subseteq Tasks
    /\ replaced \subseteq Tasks
    /\ timer \in {"on", "off", "lost"}

\* The lists of sched.c stay lists: no task is linked into a queue twice (the
\* second add_thread_task would cut the list), none into both queues, and the
\* state field says READY exactly for the tasks schedule() can pick.
QueueDiscipline ==
    /\ IsInjective(ready_queue)
    /\ IsInjective(zombie_queue)
    /\ \A t \in Tasks : t \in Queued <=> state[t] = "READY"
    /\ \A t \in Zombies : state[t] = "EXITED"

\* kill_zombies frees a task and its two stacks once, and only when no thread
\* runs on them and no queue or system call still holds the task.
NoUseAfterFree ==
    /\ current \notin freed \cup Zombies
    /\ freed \cap (Queued \cup Zombies) = {}
    /\ \A t \in Tasks : call[t] \in {"kill", "exec"} => arg[t] \notin freed

\* No task is lost: every task that was created is running, in a queue or
\* freed, save those an exec has left behind.
NoLostTask ==
    \A t \in Tasks :
        state[t] # "NONE" => t \in {current} \cup Queued \cup Zombies
                                  \cup freed \cup replaced

\* The inductive invariant behind the three properties above: they hold, and
\* a task pointer kept inside a call is that of a queued task, held by the
\* running thread; tasks left behind or not yet created are in no queue.
SchedInv ==
    /\ TypeOK
    /\ QueueDiscipline
    /\ NoUseAfterFree
    /\ NoLostTask
    /\ \A t \in Tasks : call[t] \in {"kill", "exec"} =>
                          t = current /\ arg[t] \in Queued
    /\ call[current] = "exec" => arg[current] # current
    /\ call[Idle] = "none"
    /\ \A t \in replaced : /\ t # current /\ state[t] # "NONE"
                           /\ t \notin Queued \cup Zombies \cup freed
    /\ \A t \in freed : state[t] = "EXITED"
    /\ \A t \in Pids : t >= thread_cnt => state[t] = "NONE"
    /\ state[current] # "NONE"

\* Round robin: schedule(), fork, exec, exit and kill never put a thread, one
\* that waits or one that arrives, before another that has waited longer.
NoOvertaking ==
    [][\A a \in Queued \cap Queued' : \A b \in Queued' \ {a} :
          (b \in Queued => Place(ready_queue, a) < Place(ready_queue, b)) =>
              Place(ready_queue', a) < Place(ready_queue', b)]_vars

\* "Switch to the next task" in _exit: an exited thread never runs on, unless
\* some program has killed the idle thread and the ready queue can be empty.
ExitSwitches == state[current] = "EXITED" => state[Idle] = "EXITED"

\* What everyone's progress depends on: idle is not killed, and no program is
\* resumed at EL1, with interrupts masked (a task that is left by exec before
\* any switch has saved its context is) ...
Undisturbed == state[Idle] # "EXITED" /\ el1 = {}

\* ... and the timer is never off for good: keep_schedule gets its memory, and
\* a thread that a stale tick leaves with the timer off calls schedule() again.
TimerRecurs == []<>(timer = "on")

\* Every thread that waits in the ready queue gets the core, or is killed.
ReadyRuns ==
    []Undisturbed /\ TimerRecurs =>
        \A t \in Tasks : t \in Queued ~> (t = current \/ state[t] = "EXITED")

\* Every exited thread's task and stacks are given back by the idle thread.
ZombieReaped ==
    []Undisturbed /\ TimerRecurs =>
        \A t \in Tasks : t \in Zombies ~> t \in freed

\* _kill refuses a pid with "no running task with pid": the task it goes on
\* to turn into a zombie is one that has not exited.
KillsLiveTask ==
    call[current] = "kill" => state[arg[current]] # "EXITED"
=============================================================================
