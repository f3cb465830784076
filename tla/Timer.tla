------------------------------- MODULE Timer --------------------------------
(***************************************************************************)
(* The timer list of timer.c and its interrupt handler.                    *)
(*                                                                         *)
(* core_timer_handler turns the timer off, unmasks interrupts and calls    *)
(* the expired timers' callbacks.  A callback that adds a timer turns the  *)
(* timer on again, so the handler may be interrupted by itself; and a      *)
(* handler may switch threads (schedule) while an older one of its thread  *)
(* is still in the middle of its loop, with the tick it read at its start. *)
(*                                                                         *)
(* A pending interrupt that is not masked is taken before the next step of *)
(* the program.  add_timer works on the list with the timer turned off, so *)
(* its insertion is one step.                                              *)
(***************************************************************************)
EXTENDS Integers, SequencesExt

CONSTANTS
    Threads, Idle,   \* Idle is the thread that is never killed
    Period,          \* [kind |-> ticks]: what each callback's add_timer asks for
    Requests,        \* the kinds of timer a program adds
    MaxRequests,     \* how many programs add at most
    MaxTime          \* the time at which the model's clock stops

Kinds == {"keep_schedule", "print_uptime", "print_msg"}

ASSUME TimerAssumption ==
    /\ Idle \in Threads /\ Requests \subseteq Kinds \ {"keep_schedule"}
    /\ Period \in [Kinds -> Nat \ {0}]
    /\ MaxRequests \in Nat /\ MaxTime \in Nat

VARIABLES
    now,            \* cntpct_el0
    timer_list,     \* from timer_head: [exp |-> expiration, kind |-> callback]
    enabled,        \* cntp_ctl_el0 and CORE0_TIMER_IRQ_CTRL
    cval,           \* when the timer's condition is met (cntp_tval_el0 sets it)
    need_schedule,
    current, alive, \* the running thread; the threads that have not exited
    frames,         \* per thread: its unfinished calls, the innermost one last
    requests,       \* timers programs have added
    lost,           \* (history) keep_schedule could not be added again
    abandoned       \* (history) a thread was killed in the middle of a handler

vars == <<now, timer_list, enabled, cval, need_schedule, current, alive, frames,
          requests, lost, abandoned>>

\* A call of core_timer_handler or, from a program, of add_timer: where it is,
\* the tick it has read, whether it has removed a timer, the timer it holds
\* and the tick add_timer has read.
Frame(pc, tick, curr, at) ==
    [pc |-> pc, tick |-> tick, removed |-> FALSE, curr |-> curr, at |-> at]

NoTimer == [exp |-> 0, kind |-> "print_msg"]

Top == Last(frames[current])

\* The innermost call of the running thread is at pc, and no interrupt pends
At(pc) ==
    /\ frames[current] # <<>> /\ Top.pc = pc
    /\ ~(enabled /\ cval <= now)

\* ... and goes on as frame f
Goto(f) == frames' = [frames EXCEPT ![current] = Append(Front(@), f)]

Return == frames' = [frames EXCEPT ![current] = Front(@)]

\* timer_init: the first keep_schedule
timer_init ==
    /\ now = 0
    /\ timer_list = <<[exp |-> Period["keep_schedule"], kind |-> "keep_schedule"]>>
    /\ enabled = TRUE /\ cval = Period["keep_schedule"]
    /\ need_schedule = FALSE
    /\ current = Idle /\ alive = Threads
    /\ frames = [t \in Threads |-> <<>>]
    /\ requests = 0
    /\ lost = FALSE /\ abandoned = FALSE

-----------------------------------------------------------------------------
\* How many timers of the list add_timer passes before it links a new one
Before(exp) ==
    Cardinality({i \in DOMAIN timer_list : \A j \in 1 .. i : timer_list[j].exp < exp})

\* add_timer from timer_disable_irq on, with the tick read before
add_timer(timer, at) ==
    LET k == Before(timer.exp)
    IN  /\ timer_list' = InsertAt(timer_list, k + 1, timer)
        /\ cval' = IF k = 0 THEN now + (timer.exp - at) ELSE cval
        /\ enabled' = TRUE

\* A program adds a timer (set_timeout; print_uptime): it reads the tick ...
set_timeout ==
    \E kind \in Requests :
        /\ frames[current] = <<>> /\ ~(enabled /\ cval <= now)
        /\ requests < MaxRequests
        /\ requests' = requests + 1
        /\ frames' = [frames EXCEPT ![current] = <<Frame("program", 0,
                         [exp |-> now + Period[kind], kind |-> kind], now)>>]
        /\ UNCHANGED <<now, timer_list, enabled, cval, need_schedule, current,
                       alive, lost, abandoned>>

\* ... and adds the timer
ProgramInsert ==
    /\ At("program")
    /\ add_timer(Top.curr, Top.at)
    /\ Return
    /\ UNCHANGED <<now, need_schedule, current, alive, requests, lost, abandoned>>

-----------------------------------------------------------------------------
\* The timer interrupt: core_timer_handler up to its loop
Interrupt ==
    /\ enabled /\ cval <= now
    /\ enabled' = FALSE
    /\ frames' = [frames EXCEPT ![current] = Append(@, Frame("loop", now, NoTimer, 0))]
    /\ UNCHANGED <<now, timer_list, cval, need_schedule, current, alive,
                   requests, lost, abandoned>>

\* (mutant: the loop reads the tick anew)
Bug_Loop ==
    /\ At("loop")
    /\ IF timer_list # <<>> /\ Head(timer_list).exp <= now
       THEN Goto([Top EXCEPT !.pc = "unlink", !.curr = Head(timer_list)])
       ELSE Goto([Top EXCEPT !.pc = "reset"])
    /\ UNCHANGED <<now, timer_list, enabled, cval, need_schedule, current, alive,
                   requests, lost, abandoned>>

\* The loop's condition, with the tick of the handler's start
Loop ==
    /\ At("loop")
    /\ IF timer_list # <<>> /\ Head(timer_list).exp <= Top.tick
       THEN Goto([Top EXCEPT !.pc = "unlink", !.curr = Head(timer_list)])
       ELSE Goto([Top EXCEPT !.pc = "reset"])
    /\ UNCHANGED <<now, timer_list, enabled, cval, need_schedule, current, alive,
                   requests, lost, abandoned>>

\* timer_head = curr->next.  Were curr no longer the head, the list would be
\* cut at a freed timer.
Unlink ==
    /\ At("unlink")
    /\ timer_list' = IF Contains(timer_list, Top.curr) THEN Tail(timer_list) ELSE <<>>
    /\ Goto([Top EXCEPT !.pc = "callback", !.removed = TRUE])
    /\ UNCHANGED <<now, enabled, cval, need_schedule, current, alive,
                   requests, lost, abandoned>>

\* (mutant: keep_schedule is not periodic)
Bug_Callback ==
    /\ At("callback")
    /\ IF Top.curr.kind # "print_uptime" THEN Goto([Top EXCEPT !.pc = "loop"])
       ELSE Goto([Top EXCEPT !.pc = "insert", !.at = now])
    /\ UNCHANGED <<now, timer_list, enabled, cval, need_schedule, current, alive,
                   requests, lost, abandoned>>

\* The callback: print_msg prints, the others read the tick for add_timer
Callback ==
    /\ At("callback")
    /\ IF Top.curr.kind = "print_msg" THEN Goto([Top EXCEPT !.pc = "loop"])
       ELSE Goto([Top EXCEPT !.pc = "insert", !.at = now])
    /\ UNCHANGED <<now, timer_list, enabled, cval, need_schedule, current, alive,
                   requests, lost, abandoned>>

\* ... unless add_timer has no memory for it: its callback goes on without
CallbackFails ==
    /\ At("callback") /\ Top.curr.kind # "print_msg"
    /\ lost' = (lost \/ Top.curr.kind = "keep_schedule")
    /\ Goto([Top EXCEPT !.pc = "added"])
    /\ UNCHANGED <<now, timer_list, enabled, cval, need_schedule, current, alive,
                   requests, abandoned>>

CallbackInsert ==
    /\ At("insert")
    /\ add_timer([Top.curr EXCEPT !.exp = Top.at + Period[Top.curr.kind]], Top.at)
    /\ Goto([Top EXCEPT !.pc = "added"])
    /\ UNCHANGED <<now, need_schedule, current, alive, requests, lost, abandoned>>

\* keep_schedule asks for a switch; the timer is freed
CallbackEnd ==
    /\ At("added")
    /\ need_schedule' = (need_schedule \/ Top.curr.kind = "keep_schedule")
    /\ Goto([Top EXCEPT !.pc = "loop"])
    /\ UNCHANGED <<now, timer_list, enabled, cval, current, alive,
                   requests, lost, abandoned>>

\* (mutant: the timer is left off)
Bug_Reset ==
    /\ At("reset")
    /\ cval' = IF Top.removed /\ timer_list # <<>>
               THEN now + (Head(timer_list).exp - Top.tick) ELSE cval
    /\ Goto([Top EXCEPT !.pc = "switch"])
    /\ UNCHANGED <<now, timer_list, enabled, need_schedule, current, alive,
                   requests, lost, abandoned>>

\* Set the timer for the first of the list, if this handler removed one
Reset ==
    /\ At("reset")
    /\ IF Top.removed /\ timer_list # <<>>
       THEN /\ cval' = now + (Head(timer_list).exp - Top.tick)
            /\ enabled' = TRUE
       ELSE UNCHANGED <<cval, enabled>>
    /\ Goto([Top EXCEPT !.pc = "switch"])
    /\ UNCHANGED <<now, timer_list, need_schedule, current, alive,
                   requests, lost, abandoned>>

\* schedule(): another thread runs, and the timer is turned on
schedule(threads) ==
    /\ current' \in IF threads \ {current} = {} THEN {current} ELSE threads \ {current}
    /\ enabled' = TRUE

SwitchIfNeeded ==
    /\ At("switch")
    /\ need_schedule' = FALSE
    /\ IF need_schedule THEN schedule(alive) ELSE UNCHANGED <<current, enabled>>
    /\ Goto([Top EXCEPT !.pc = IF need_schedule THEN "resumed" ELSE "return"])
    /\ UNCHANGED <<now, timer_list, cval, alive, requests, lost, abandoned>>

HandlerReturn ==
    /\ At("return") \/ At("resumed")
    /\ Return
    /\ UNCHANGED <<now, timer_list, enabled, cval, need_schedule, current, alive,
                   requests, lost, abandoned>>

\* Where a handler no longer resets the timer; a program's call is not counted on
Finishing == {"program", "switch", "return", "resumed"}

\* irq_entry finds a SIGKILL that was sent while the thread was waiting in the
\* ready queue: the thread exits, and the older handlers it was suspended in
\* are never ended
ExitFromInterrupt ==
    /\ At("resumed") /\ current # Idle
    /\ alive' = alive \ {current}
    /\ frames' = [frames EXCEPT ![current] = <<>>]
    /\ schedule(alive')
    /\ abandoned' = (abandoned \/ \E i \in DOMAIN frames[current] :
                        frames[current][i].pc \notin Finishing)
    /\ UNCHANGED <<now, timer_list, cval, need_schedule, requests, lost>>

\* Time passes at any point (external: the system counter)
Advance ==
    /\ now < MaxTime
    /\ now' = now + 1
    /\ UNCHANGED <<timer_list, enabled, cval, need_schedule, current, alive, frames,
                   requests, lost, abandoned>>

core_timer_handler ==
    \/ Interrupt \/ Loop \/ Unlink
    \/ Callback \/ CallbackFails \/ CallbackInsert \/ CallbackEnd
    \/ Reset \/ SwitchIfNeeded \/ HandlerReturn \/ ExitFromInterrupt

Next == Advance \/ set_timeout \/ ProgramInsert \/ core_timer_handler

Spec == timer_init /\ [][Next]_vars

-----------------------------------------------------------------------------
Frames == UNION {ToSet(frames[t]) : t \in Threads}

\* Type correctness of the timer list and the calls in progress.
TypeOK ==
    /\ now \in 0 .. MaxTime
    /\ timer_list \in Seq([exp : Nat, kind : Kinds])
    /\ enabled \in BOOLEAN /\ need_schedule \in BOOLEAN /\ cval \in Nat
    /\ {lost, abandoned} \subseteq BOOLEAN
    /\ current \in alive /\ alive \subseteq Threads
    /\ \A f \in Frames :
          /\ f.pc \in {"program", "loop", "unlink", "callback", "insert", "added",
                       "reset", "switch", "return", "resumed"}
          /\ f.tick \in 0 .. now /\ f.at \in 0 .. now

\* The state is well typed, the list is ordered by expiration, also after
\* insertions by handlers inside handlers, and the timer a handler is about to
\* unlink is still the head of the list: no handler that interrupts it, and no
\* thread that runs in between, has fired and freed the same timer.  So each
\* timer fires once, and none that is due waits behind one that is not.
UnlinksHead ==
    /\ TypeOK
    /\ \A i, j \in DOMAIN timer_list : i < j => timer_list[i].exp <= timer_list[j].exp
    /\ \A f \in Frames : f.pc = "unlink" => /\ timer_list # <<>>
                                            /\ Head(timer_list) = f.curr

\* The calls in progress, by thread and depth
Places == UNION {{t} \X DOMAIN frames[t] : t \in Threads}

\* Preemption ends only when add_timer has no memory: until then there is one
\* keep_schedule, on the list or in the hands of a handler that is going to add
\* it again, and after it none.
OneKeepSchedule ==
    Cardinality({i \in DOMAIN timer_list : timer_list[i].kind = "keep_schedule"})
      + Cardinality({p \in Places :
            /\ frames[p[1]][p[2]].curr.kind = "keep_schedule"
            /\ frames[p[1]][p[2]].pc \in {"callback", "insert"}})
    = IF lost THEN 0 ELSE 1

\* "Reset the timer": while timers are waiting, the timer is on and not set before
\* the first expiration (the handler would find nothing to remove and leave it
\* off for good), or a handler is in progress, of a thread that is waiting
\* perhaps, that has removed a timer or is about to, and so sets it anew.  A
\* thread killed in the middle of a handler takes its "reset the timer" with it.
TimerSet ==
    (timer_list # <<>> /\ ~abandoned) =>
        \/ enabled /\ cval >= Head(timer_list).exp
        \/ \E f \in Frames : /\ f.pc \notin Finishing
                             /\ f.removed \/ Head(timer_list).exp <= f.tick
=============================================================================
