---------------------------- MODULE ThreadQueue -----------------------------
(***************************************************************************)
(* The thread queues of sched.c at the level of ThreadTask.next: what      *)
(* add_thread_task, rm_thread_task and get_thread_task_by_id read and      *)
(* write one by one, as sys_fork, _exit and _kill call them with           *)
(* interrupts enabled.  schedule() masks interrupts and is one step; so is *)
(* a round of the idle loop, which runs masked.                            *)
(*                                                                         *)
(* Sched takes the list operations as atomic.  Here a tick may land        *)
(* between any two of their memory accesses, and the module says which of  *)
(* these ticks do harm: those after which something the interrupted call   *)
(* has read is no longer so (Stale).  Behaviours end there: what the code  *)
(* goes on to do to such a list is not followed.                           *)
(*                                                                         *)
(* exec, whose thread_create adds like sys_fork, is left to Sched.         *)
(***************************************************************************)
EXTENDS Integers, SequencesExt

CONSTANTS
    MaxTasks,    \* bound on thread_cnt
    MaxInside    \* bound on the threads inside a list operation at a time

ASSUME ThreadQueueAssumption == MaxTasks \in Nat /\ MaxTasks >= 2 /\ MaxInside \in Nat

Tasks == 0 .. MaxTasks - 1
Idle  == 0
Shell == 1
NULL  == -1

VARIABLES
    next,        \* ThreadTask.next
    queue,       \* ready_queue and zombie_queue: the first task or NULL
    state,       \* ThreadTask.state, "NONE" for a task not created
    current,     \* tpidr_el1
    thread_cnt,
    op,          \* the list operation each thread is inside
    freed        \* tasks kill_zombies gave back

vars == <<next, queue, state, current, thread_cnt, op, freed>>

\* A list operation of a call: the list, the task it is about, and the local
\* variables of the walk; nx is what was read in the link of the task to be
\* unlinked, and what stood in the link of the one appended
Op(call, pc, list, task, at, prev, nx) ==
    [call |-> call, pc |-> pc, list |-> list, task |-> task, at |-> at,
     prev |-> prev, nx |-> nx]

NoOp == Op("user", "none", "ready", NULL, NULL, NULL, NULL)

-----------------------------------------------------------------------------
\* The tasks that can be reached from one, itself first, by the given links;
\* longer than the number of tasks if they form a cycle
Follow(links, first) ==
    LET from[k \in 0 .. MaxTasks + 1, task \in Tasks \cup {NULL}] ==
            IF k = 0 \/ task = NULL THEN <<>> ELSE <<task>> \o from[k - 1, links[task]]
    IN  from[MaxTasks + 1, first]

List(q) == Follow(next, queue[q])

On(q, task) == task \in ToSet(List(q))

Init ==
    \* The shell was entered by exec: it runs, and it is READY and queued
    /\ next = [t \in Tasks |-> IF t = Idle THEN Shell ELSE NULL]
    /\ queue = [ready |-> Idle, zombie |-> NULL]
    /\ state = [t \in Tasks |-> IF t \in {Idle, Shell} THEN "READY" ELSE "NONE"]
    /\ current = Shell
    /\ thread_cnt = 2
    /\ op = [t \in Tasks |-> NoOp]
    /\ freed = {}

-----------------------------------------------------------------------------
\* schedule(), with interrupts masked, from the given states
Enqueue(q, task) ==
    IF queue[q] = NULL THEN [next EXCEPT ![task] = NULL]
    ELSE [next EXCEPT ![Last(List(q))] = task, ![task] = NULL]

\* (mutant: the running thread is queued again also when it is READY)
Bug_schedule(st) ==
    LET prev == current
        to == queue["ready"]
        q == IF st[prev] = "EXITED" THEN "zombie" ELSE "ready"
        links == Enqueue(q, prev)
    IN  IF to = NULL \/ to = prev THEN state' = st /\ UNCHANGED <<next, queue, current>>
        ELSE /\ next' = links
             /\ queue' = [ready |-> links[to],
                          zombie |-> IF q = "zombie" /\ queue.zombie = NULL
                                     THEN prev ELSE queue.zombie]
             /\ state' = [st EXCEPT ![prev] = IF @ = "RUNNING" THEN "READY" ELSE @,
                                    ![to] = "RUNNING"]
             /\ current' = to

schedule(st) ==
    LET prev == current
        to == queue["ready"]
        q == IF st[prev] = "EXITED" THEN "zombie" ELSE "ready"
        links == IF st[prev] = "READY" THEN next ELSE Enqueue(q, prev)
    IN  IF to = NULL \/ to = prev THEN state' = st /\ UNCHANGED <<next, queue, current>>
        ELSE /\ next' = links
             /\ queue' = [ready |-> links[to],
                          zombie |-> IF q = "zombie" /\ queue.zombie = NULL
                                     THEN prev ELSE queue.zombie]
             /\ state' = [st EXCEPT ![prev] = IF @ = "RUNNING" THEN "READY" ELSE @,
                                    ![to] = "RUNNING"]
             /\ current' = to

\* core_timer_handler with need_schedule set
Tick ==
    /\ current # Idle
    /\ schedule(state)
    /\ UNCHANGED <<thread_cnt, op, freed>>

\* idle: kill_zombies, then schedule.  The masked loop comes round for ever.
IdleLoop ==
    /\ current = Idle
    /\ freed' = freed \cup ToSet(List("zombie"))
    /\ IF queue.ready = NULL
       THEN queue' = [queue EXCEPT !.zombie = NULL] /\ UNCHANGED <<next, state, current>>
       ELSE /\ queue' = [ready |-> Enqueue("ready", Idle)[queue.ready], zombie |-> NULL]
            /\ next' = Enqueue("ready", Idle)
            /\ state' = [state EXCEPT ![Idle] = "READY", ![queue.ready] = "RUNNING"]
            /\ current' = queue.ready
    /\ UNCHANGED <<thread_cnt, op>>

-----------------------------------------------------------------------------
\* A step of the running thread's call: what it is inside, and what is next
my == op[current]

Goto(o) == op' = [op EXCEPT ![current] = o]

InUser ==
    /\ current # Idle /\ my = NoOp
    /\ Cardinality({t \in Tasks : op[t] # NoOp}) < MaxInside

\* (mutant: the walk is not taken to the end of the list)
Bug_AddWalk ==
    /\ my.pc = "walk"
    /\ Goto([my EXCEPT !.pc = "link"])
    /\ UNCHANGED <<next, queue, state, current, thread_cnt, freed>>

\* add_thread_task: the test for an empty queue and the start of the walk ...
AddEnter ==
    /\ my.pc = "add"
    /\ Goto([my EXCEPT !.pc = IF queue[my.list] = NULL THEN "head" ELSE "walk",
                       !.at = queue[my.list]])
    /\ UNCHANGED <<next, queue, state, current, thread_cnt, freed>>

AddHead ==
    /\ my.pc = "head"
    /\ queue' = [queue EXCEPT ![my.list] = my.task]
    /\ Goto([my EXCEPT !.pc = "clear", !.nx = next[my.task]])
    /\ UNCHANGED <<next, state, current, thread_cnt, freed>>

\* ... while (current->next != NULL) current = current->next ...
AddWalk ==
    /\ my.pc = "walk"
    /\ Goto(IF next[my.at] # NULL THEN [my EXCEPT !.at = next[my.at]]
                                  ELSE [my EXCEPT !.pc = "link"])
    /\ UNCHANGED <<next, queue, state, current, thread_cnt, freed>>

\* ... current->next = task ...
AddLink ==
    /\ my.pc = "link"
    /\ next' = [next EXCEPT ![my.at] = my.task]
    /\ Goto([my EXCEPT !.pc = "clear", !.nx = next[my.task]])
    /\ UNCHANGED <<queue, state, current, thread_cnt, freed>>

\* ... task->next = NULL, and the call is over
AddClear ==
    /\ my.pc = "clear"
    /\ next' = [next EXCEPT ![my.task] = NULL]
    /\ Goto(NoOp)
    /\ UNCHANGED <<queue, state, current, thread_cnt, freed>>

\* rm_thread_task of the ready queue: look for the task ...
RmEnter ==
    /\ my.pc = "rm"
    /\ Goto([my EXCEPT !.pc = "seek", !.at = queue.ready, !.prev = NULL])
    /\ UNCHANGED <<next, queue, state, current, thread_cnt, freed>>

RmWalk ==
    /\ my.pc = "seek"
    /\ Goto(IF my.at = NULL THEN [my EXCEPT !.pc = "removed"]
            ELSE IF my.at = my.task
                 THEN [my EXCEPT !.pc = "unlink", !.nx = next[my.at]]
                 ELSE [my EXCEPT !.prev = my.at, !.at = next[my.at]])
    /\ UNCHANGED <<next, queue, state, current, thread_cnt, freed>>

\* (mutant: the first task of the queue is not treated by itself)
Bug_RmUnlink ==
    /\ my.pc = "unlink"
    /\ next' = IF my.prev = NULL THEN next ELSE [next EXCEPT ![my.prev] = my.nx]
    /\ Goto([my EXCEPT !.pc = "removed"])
    /\ UNCHANGED <<queue, state, current, thread_cnt, freed>>

\* ... and unlink it
RmUnlink ==
    /\ my.pc = "unlink"
    /\ IF my.prev = NULL THEN queue' = [queue EXCEPT !.ready = my.nx] /\ next' = next
                         ELSE next' = [next EXCEPT ![my.prev] = my.nx] /\ queue' = queue
    /\ Goto([my EXCEPT !.pc = "removed"])
    /\ UNCHANGED <<state, current, thread_cnt, freed>>

-----------------------------------------------------------------------------
\* sys_fork up to its add_thread_task
sys_fork ==
    /\ InUser /\ thread_cnt < MaxTasks
    /\ state' = [state EXCEPT ![thread_cnt] = "READY"]
    /\ thread_cnt' = thread_cnt + 1
    /\ Goto(Op("fork", "add", "ready", thread_cnt, NULL, NULL, NULL))
    /\ UNCHANGED <<next, queue, current, freed>>

_exit ==
    /\ InUser
    /\ Goto(Op("exit", "rm", "ready", current, NULL, NULL, NULL))
    /\ UNCHANGED <<next, queue, state, current, thread_cnt, freed>>

\* ... and its end: TASK_EXITED and schedule()
ExitEnd ==
    /\ my.pc = "removed" /\ my.task = current
    /\ schedule([state EXCEPT ![current] = "EXITED"])
    /\ Goto(NoOp)
    /\ UNCHANGED <<thread_cnt, freed>>

\* _kill: get_thread_task_by_id walks the ready queue ...
_kill ==
    \E pid \in Tasks \ {Idle} :
        /\ InUser
        /\ Goto(Op("kill", "find", "ready", pid, queue.ready, NULL, NULL))
        /\ UNCHANGED <<next, queue, state, current, thread_cnt, freed>>

Find ==
    /\ my.pc = "find"
    /\ Goto(IF my.at = NULL THEN NoOp
            ELSE IF my.at = my.task THEN [my EXCEPT !.pc = "rm"]
                 ELSE [my EXCEPT !.at = next[my.at]])
    /\ UNCHANGED <<next, queue, state, current, thread_cnt, freed>>

\* ... and what it found, taken off the queue, becomes a zombie
KillEnd ==
    /\ my.pc = "removed" /\ my.task # current
    /\ state' = [state EXCEPT ![my.task] = "EXITED"]
    /\ Goto([my EXCEPT !.pc = "add", !.list = "zombie"])
    /\ UNCHANGED <<next, queue, current, thread_cnt, freed>>

-----------------------------------------------------------------------------
\* A walk goes on where it stood, perhaps from the walker's own task, which
\* schedule() took off the queue with its link to the task behind it
Standing(t, o) == IsSuffix(Follow(next, o.at), <<t>> \o List(o.list))

\* What rm_thread_task is about to change leads to the task it unlinks
Linked(o) ==
    /\ o.prev # NULL => On("ready", o.prev)
    /\ o.at = IF o.prev = NULL THEN queue.ready ELSE next[o.prev]

\* The task a call has linked is the tail no more, or gone
Appended(o) == o.task \in freed \/ next[o.task] # o.nx

\* Something a thread's call has read is no longer so when it goes on.  Or
\* others come to rely on what a call has still to store: the end of the
\* zombie list it has linked, the EXITED of a thread off the ready queue.
Stale(t) ==
    LET o == op[t]
    IN  \/ /\ current = t
           /\ \/ o.pc \in {"walk", "find", "seek"} /\ ~Standing(t, o)
              \/ o.pc = "seek" /\ o.at = t /\ ~On("ready", t)
              \/ o.pc = "seek" /\ On("ready", o.task)
                               /\ o.task \notin ToSet(Follow(next, o.at))
              \/ o.pc = "link" /\ (~On(o.list, o.at) \/ next[o.at] # NULL)
              \/ o.pc = "head" /\ queue[o.list] # NULL
              \/ o.pc = "clear" /\ Appended(o)
              \/ o.pc \in {"seek", "unlink"} /\ o.at = o.task /\ ~Linked(o)
              \/ o.pc = "unlink" /\ o.nx # next[o.at]
              \/ o.call = "kill" /\ o.task # t /\ o.pc \in {"rm", "seek", "unlink"}
                                 /\ ~On("ready", o.task)
        \/ /\ current # t
           /\ \/ o.pc = "clear" /\ o.list = "zombie" /\ next[o.task] # NULL
              \/ o.pc = "removed" /\ o.task = t /\ ~On("ready", t)

Intact == \A t \in Tasks : ~Stale(t)

Call ==
    \/ AddEnter \/ AddHead \/ AddWalk \/ AddLink \/ AddClear
    \/ RmEnter \/ RmWalk \/ RmUnlink
    \/ sys_fork \/ _exit \/ ExitEnd \/ _kill \/ Find \/ KillEnd

Next == Intact /\ (Tick \/ IdleLoop \/ Call)

Spec == Init /\ [][Next]_vars

-----------------------------------------------------------------------------
\* The tasks in the hands of a call: not yet linked, or between two queues
InTransit == {op[t].task : t \in {u \in Tasks :
                 \/ op[u].pc \in {"add", "head", "walk", "link"}
                 \/ op[u].pc = "removed" /\ op[u].task # u}}

\* Type correctness of the tasks' links, the queues and the calls.
TypeOK ==
    /\ next \in [Tasks -> Tasks \cup {NULL}]
    /\ queue \in [{"ready", "zombie"} -> Tasks \cup {NULL}]
    /\ state \in [Tasks -> {"NONE", "READY", "RUNNING", "EXITED"}]
    /\ current \in Tasks /\ thread_cnt \in 2 .. MaxTasks /\ freed \subseteq Tasks
    /\ \A t \in Tasks :
          /\ op[t].call \in {"user", "fork", "exit", "kill"}
          /\ {op[t].task, op[t].at, op[t].prev, op[t].nx} \subseteq Tasks \cup {NULL}

\* The lists stay lists, with ticks anywhere that leave no call with something
\* stale, also in the middle of a walk: no cycle, no task in both queues or
\* freed while in one, and none lost: each task that was created runs, is in
\* the queue that its state says, is in transit between them, or is freed.
ListsIntact ==
    LET ready == List("ready")
        zombies == List("zombie")
    IN  /\ TypeOK
        /\ Intact /\ my.pc # "clear" =>
            /\ IsInjective(ready) /\ IsInjective(zombies)
            /\ \A t \in ToSet(zombies) : state[t] = "EXITED" /\ ~On("ready", t)
            /\ \A t \in freed : t # current /\ ~On("ready", t) /\ ~On("zombie", t)
            /\ \A t \in Tasks : CASE
                   state[t] = "READY" -> On("ready", t) \/ t \in InTransit \/ t = current
                [] state[t] = "RUNNING" -> t = current
                [] state[t] = "EXITED" ->
                       On("zombie", t) \/ t \in InTransit \cup freed \cup {current}
                [] OTHER -> ~On("ready", t)

\* As long as no thread is killed or exits, a tick does harm in two windows
\* only: between add_thread_task's last look at the tail and its store there,
\* and from that store to the one that ends the list.  A fork may be preempted
\* anywhere else, in the middle of its walk too.
ForkWindow ==
    \A t \in Tasks :
        (Stale(t) /\ \A u \in Tasks : op[u].call \in {"user", "fork"}
                                      /\ state[u] # "EXITED") =>
            op[t].pc \in {"link", "clear"}

\* The queue is first-in first-out: a step takes at most one task out of the
\* ready queue and puts at most one at its tail, and the others keep their
\* order.  And it takes a switch to spoil a call: as long as its thread runs on,
\* what it has read stays so.
ListSteps ==
    [][LET before == List("ready")
           after == List("ready")'
           kept == SelectSeq(before, LAMBDA t : t \in ToSet(after))
       IN  /\ Intact' => /\ Len(kept) >= Len(before) - 1
                         /\ IsPrefix(kept, after) /\ Len(after) <= Len(kept) + 1
           /\ current' = current => ~Stale(current)']_vars
=============================================================================
