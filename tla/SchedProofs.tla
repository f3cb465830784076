---------------------------- MODULE SchedProofs ----------------------------
(***************************************************************************)
(* TLAPS proofs about Sched, for every MaxTasks, every set of pids passed  *)
(* to kill, with or without allocation failures.                           *)
(***************************************************************************)
EXTENDS Sched, SequenceTheorems, TLAPS

\* Linking a task that is not in the list at its tail (add_thread_task) keeps
\* the list free of duplicates and adds exactly that task.
LEMMA AppendFacts ==
    ASSUME NEW S, NEW q \in Seq(S), NEW e \in S
    PROVE  /\ Append(q, e) \in Seq(S)
           /\ ToSet(Append(q, e)) = ToSet(q) \cup {e}
           /\ IsInjective(q) /\ e \notin ToSet(q) => IsInjective(Append(q, e))
<1>1. /\ Append(q, e) \in Seq(S)
      /\ DOMAIN Append(q, e) = 1 .. Len(q) + 1
      /\ DOMAIN q = 1 .. Len(q)
      /\ Len(q) \in Nat
  OBVIOUS
<1>2. \A i \in 1 .. Len(q) : Append(q, e)[i] = q[i]
  OBVIOUS
<1>3. Append(q, e)[Len(q) + 1] = e
  OBVIOUS
<1>4. ToSet(Append(q, e)) = ToSet(q) \cup {e}
  <2>1. ToSet(Append(q, e)) \subseteq ToSet(q) \cup {e}
    BY <1>1, <1>2, <1>3 DEF ToSet
  <2>2. ToSet(q) \subseteq ToSet(Append(q, e))
    BY <1>1, <1>2 DEF ToSet
  <2>3. e \in ToSet(Append(q, e))
    BY <1>1, <1>3 DEF ToSet
  <2> QED BY <2>1, <2>2, <2>3
<1>5. IsInjective(q) /\ e \notin ToSet(q) => IsInjective(Append(q, e))
  BY <1>1, <1>2, <1>3 DEF ToSet, IsInjective
<1> QED BY <1>1, <1>4, <1>5

\* Unlinking the head of a non-empty list without duplicates (pop_thread_task)
\* removes exactly the head.
LEMMA TailFacts ==
    ASSUME NEW S, NEW q \in Seq(S), q # <<>>
    PROVE  /\ Tail(q) \in Seq(S)
           /\ Head(q) \in ToSet(q)
           /\ Head(q) \in S
           /\ IsInjective(q) => /\ IsInjective(Tail(q))
                                /\ ToSet(Tail(q)) = ToSet(q) \ {Head(q)}
<1>1. Len(q) > 0 /\ Head(q) = q[1] /\ 1 \in DOMAIN q
  OBVIOUS
<1>2. Tail(q) \in Seq(S) /\ Head(q) \in ToSet(q) /\ Head(q) \in S
  BY <1>1 DEF ToSet
<1>3. ASSUME IsInjective(q)
      PROVE  IsInjective(Tail(q)) /\ ToSet(Tail(q)) = ToSet(q) \ {Head(q)}
  <2>1. \A i \in 1 .. Len(q) - 1 : Tail(q)[i] = q[i + 1]
    BY <1>1
  <2>2. DOMAIN Tail(q) = 1 .. Len(q) - 1 /\ DOMAIN q = 1 .. Len(q)
    BY <1>1
  <2>3. IsInjective(Tail(q))
    BY <1>3, <2>1, <2>2 DEF IsInjective
  <2>4. ToSet(Tail(q)) \subseteq ToSet(q) \ {Head(q)}
    BY <1>1, <1>3, <2>1, <2>2 DEF ToSet, IsInjective
  <2>5. ASSUME NEW x \in ToSet(q), x # Head(q) PROVE x \in ToSet(Tail(q))
    <3>1. PICK i \in 1 .. Len(q) : q[i] = x
      BY <2>2 DEF ToSet
    <3>2. i - 1 \in 1 .. Len(q) - 1 /\ Tail(q)[i - 1] = x
      BY <1>1, <2>1, <2>5, <3>1
    <3> QED BY <2>2, <3>2 DEF ToSet
  <2> QED BY <2>3, <2>4, <2>5
<1> QED BY <1>2, <1>3

\* What two lists have in common is in the same order in both, and before what
\* only the second one has.
SameOrder(q, r) ==
    \A m, n \in DOMAIN r : \A i \in DOMAIN q :
        /\ r[m] = q[i]
        /\ r[n] \notin ToSet(q) \/ \E j \in DOMAIN q : r[n] = q[j] /\ i < j
        => m < n

\* Unlinking a task (rm_thread_task) from a list without duplicates removes
\* exactly that task, and nothing when it is not in the list.
LEMMA RemoveFacts ==
    ASSUME NEW S, NEW q \in Seq(S), NEW e, IsInjective(q)
    PROVE  /\ rm_thread_task(q, e) \in Seq(S)
           /\ IsInjective(rm_thread_task(q, e))
           /\ ToSet(rm_thread_task(q, e)) = ToSet(q) \ {e}
           /\ SameOrder(q, rm_thread_task(q, e))
<1>1. CASE e \notin ToSet(q)
  <2>1. rm_thread_task(q, e) = q
    BY <1>1 DEF rm_thread_task
  <2>2. DOMAIN q \subseteq Int /\ \A m \in DOMAIN q : q[m] \in ToSet(q)
    BY DEF ToSet
  <2>3. SameOrder(q, q)
    BY <2>2 DEF SameOrder, IsInjective
  <2> QED BY <1>1, <2>1, <2>3
<1>2. CASE e \in ToSet(q)
  <2> DEFINE i == Place(q, e)
             a == SubSeq(q, 1, i - 1)
             b == SubSeq(q, i + 1, Len(q))
             r == a \o b
  <2>1. rm_thread_task(q, e) = r
    BY <1>2 DEF rm_thread_task, RemoveAt
  <2>2. DOMAIN q = 1 .. Len(q) /\ Len(q) \in Nat
    OBVIOUS
  <2>3. i \in 1 .. Len(q) /\ q[i] = e
    <3>1. PICK j \in 1 .. Len(q) : q[j] = e
      BY <1>2, <2>2 DEF ToSet
    <3>2. \A k \in 1 .. j - 1 : q[k] # e
      BY <2>2, <3>1 DEF IsInjective
    <3> QED BY <2>2, <3>1, <3>2 DEF Place
  <2> HIDE DEF i
  <2>a. /\ a \in Seq(S) /\ Len(a) = i - 1
        /\ \A j \in 1 .. i - 1 : a[j] = q[j]
    BY <2>2, <2>3, SubSeqProperties
  <2>b. /\ b \in Seq(S) /\ Len(b) = Len(q) - i
        /\ \A j \in 1 .. Len(q) - i : b[j] = q[i + j]
    <3> DEFINE m == i + 1
               n == Len(q)
    <3>1. m \in Int /\ n \in Int /\ \A j \in m .. n : q[j] \in S
      BY <2>2, <2>3
    <3>2. /\ b \in Seq(S)
          /\ Len(b) = IF m <= n THEN n - m + 1 ELSE 0
          /\ \A j \in 1 .. n - m + 1 : b[j] = q[m + j - 1]
      <4> HIDE DEF m, n
      <4> QED BY <3>1, SubSeqProperties DEF m, n
    <3> HIDE DEF b
    <3>3. n - m + 1 = Len(q) - i
      BY <2>2, <2>3
    <3>4. \A j \in 1 .. Len(q) - i : m + j - 1 = i + j
      BY <2>2, <2>3
    <3>5. Len(b) = Len(q) - i
      <4>1. m <= n => Len(b) = Len(q) - i
        BY <3>2, <3>3
      <4>2. ~(m <= n) => Len(q) - i = 0 /\ Len(b) = 0
        <5>1. ~(m <= n) => Len(b) = 0
          BY <3>2
        <5>2. ~(m <= n) => Len(q) - i = 0
          <6>1. \A x, y \in Int : x <= y /\ ~(x + 1 <= y) => y - x = 0
            OBVIOUS
          <6>2. i \in Int /\ Len(q) \in Int /\ i <= Len(q)
            BY <2>2, <2>3
          <6> QED BY <6>1, <6>2
        <5> QED BY <5>1, <5>2
      <4> QED BY <4>1, <4>2
    <3> QED BY <3>2, <3>3, <3>4, <3>5
  <2> HIDE DEF a, b
  <2>c. /\ r \in Seq(S) /\ Len(r) = Len(a) + Len(b)
        /\ \A j \in 1 .. Len(r) : r[j] = IF j <= Len(a) THEN a[j] ELSE b[j - Len(a)]
    <3> HIDE DEF a, b
    <3>1. a \in Seq(S) /\ b \in Seq(S)
      BY <2>a, <2>b
    <3> QED BY <3>1, ConcatProperties
  <2> HIDE DEF r
  <2>4. /\ r \in Seq(S)
        /\ Len(r) = Len(q) - 1
    <3>1. Len(r) = (i - 1) + (Len(q) - i)
      BY <2>a, <2>b, <2>c
    <3>2. \A x, y \in Int : (x - 1) + (y - x) = y - 1
      OBVIOUS
    <3>3. i \in Int /\ Len(q) \in Int
      BY <2>2, <2>3
    <3> QED BY <2>c, <3>1, <3>2, <3>3
  <2>5. \A j \in 1 .. Len(q) - 1 : r[j] = IF j < i THEN q[j] ELSE q[j + 1]
    BY <2>2, <2>3, <2>4, <2>a, <2>b, <2>c
  <2>6. DOMAIN r = 1 .. Len(q) - 1
    BY <2>4
  <2>7. IsInjective(r)
    <3>1. SUFFICES ASSUME NEW j \in 1 .. Len(q) - 1, NEW k \in 1 .. Len(q) - 1,
                          r[j] = r[k]
                   PROVE  j = k
      BY <2>6 DEF IsInjective
    <3> DEFINE f(x) == IF x < i THEN x ELSE x + 1
    <3>2. /\ f(j) \in 1 .. Len(q) /\ r[j] = q[f(j)]
          /\ f(k) \in 1 .. Len(q) /\ r[k] = q[f(k)]
      BY <2>2, <2>3, <2>5
    <3>3. f(j) = f(k)
      BY <2>2, <3>1, <3>2 DEF IsInjective
    <3> QED BY <2>2, <2>3, <3>3
  <2>8. ToSet(r) \subseteq ToSet(q) \ {e}
    BY <2>2, <2>3, <2>5, <2>6 DEF IsInjective, ToSet
  <2>9. ASSUME NEW x \in ToSet(q), x # e PROVE x \in ToSet(r)
    <3>1. PICK j \in 1 .. Len(q) : q[j] = x
      BY <2>2 DEF ToSet
    <3>2. CASE j < i
      BY <2>3, <2>5, <2>6, <3>1, <3>2 DEF ToSet
    <3>3. CASE j > i
      <4>1. j - 1 \in 1 .. Len(q) - 1 /\ r[j - 1] = x
        BY <2>2, <2>3, <2>5, <3>1, <3>3
      <4> QED BY <2>6, <4>1 DEF ToSet
    <3> QED BY <2>3, <2>9, <3>1, <3>2, <3>3
  <2>10. SameOrder(q, r)
    <3>1. ASSUME NEW u \in 1 .. Len(q) - 1, NEW v \in 1 .. Len(q) - 1,
                 NEW j \in 1 .. Len(q), NEW k \in 1 .. Len(q),
                 r[u] = q[j], r[v] = q[k], j < k
          PROVE  u < v
      <4> DEFINE f(x) == IF x < i THEN x ELSE x + 1
      <4>1. /\ f(u) \in 1 .. Len(q) /\ r[u] = q[f(u)]
            /\ f(v) \in 1 .. Len(q) /\ r[v] = q[f(v)]
        BY <2>2, <2>3, <2>5
      <4>2. f(u) = j /\ f(v) = k
        BY <2>2, <3>1, <4>1 DEF IsInjective
      <4> QED BY <2>2, <2>3, <3>1, <4>2
    <3>2. \A v \in DOMAIN r : r[v] \in ToSet(q)
      BY <2>6, <2>8 DEF ToSet
    <3> QED BY <2>2, <2>6, <3>1, <3>2 DEF SameOrder
  <2> QED BY <2>1, <2>4, <2>7, <2>8, <2>9, <2>10
<1> QED BY <1>1, <1>2

-----------------------------------------------------------------------------
\* What schedule() relies on and restores, for the queues and states its
\* caller has just written.
Core(cur, rq, zq, st, fr, rp, n) ==
    /\ cur \in Tasks
    /\ rq \in Seq(Tasks) /\ zq \in Seq(Tasks)
    /\ st \in [Tasks -> States]
    /\ IsInjective(rq) /\ IsInjective(zq)
    /\ \A t \in Tasks : t \in ToSet(rq) <=> st[t] = "READY"
    /\ \A t \in ToSet(zq) : st[t] = "EXITED" /\ t \notin fr /\ t # cur
    /\ \A t \in fr : st[t] = "EXITED" /\ t # cur
    /\ \A t \in Tasks : st[t] # "NONE" =>
           t = cur \/ t \in ToSet(rq) \/ t \in ToSet(zq) \/ t \in fr \/ t \in rp
    /\ \A t \in rp : /\ t # cur /\ t \notin ToSet(rq)
                     /\ t \notin ToSet(zq) /\ t \notin fr /\ st[t] # "NONE"
    /\ \A t \in Pids : t >= n => st[t] = "NONE"
    /\ st[cur] # "NONE"

\* The elements of a list over Tasks are tasks
LEMMA ToSetType ==
    ASSUME NEW q \in Seq(Tasks)
    PROVE  ToSet(q) \subseteq Tasks
  BY DEF ToSet

\* schedule() keeps the queues, the states and the current task consistent.
LEMMA ScheduleCore ==
    ASSUME NEW rq, NEW zq, NEW st, NEW fr, NEW rp, NEW n,
           Core(current, rq, zq, st, fr, rp, n),
           fr \subseteq Tasks, rp \subseteq Tasks,
           schedule(rq, zq, st)
    PROVE  Core(current', ready_queue', zombie_queue', state', fr, rp, n)
<1>1. CASE rq = <<>> \/ Head(rq) = current
  BY <1>1 DEF schedule, Stay, Core
<1>2. CASE ~(rq = <<>> \/ Head(rq) = current)
  <2> DEFINE prev == current
             next == Head(rq)
             requeued == IF st[prev] = "RUNNING" THEN Append(rq, prev) ELSE rq
  <2>0. /\ prev \in Tasks /\ rq \in Seq(Tasks) /\ zq \in Seq(Tasks)
        /\ st \in [Tasks -> States]
        /\ rq # <<>> /\ next # prev
        /\ IsInjective(rq) /\ IsInjective(zq)
    BY <1>2 DEF Core
  <2>1. /\ ready_queue' = Tail(requeued)
        /\ zombie_queue' = IF st[prev] = "EXITED" THEN Append(zq, prev) ELSE zq
        /\ state' = [st EXCEPT ![prev] = IF @ = "RUNNING" THEN "READY" ELSE @,
                               ![next] = "RUNNING"]
        /\ current' = next
    BY <1>2 DEF schedule, Switch, cpu_switch_to, pop_thread_task, add_thread_task
  <2>2. next \in ToSet(rq) /\ next \in Tasks /\ st[next] = "READY"
    BY <2>0, TailFacts DEF Core
  <2>3. /\ requeued \in Seq(Tasks) /\ requeued # <<>>
        /\ IsInjective(requeued)
        /\ Head(requeued) = next
        /\ ToSet(requeued) = IF st[prev] = "RUNNING" THEN ToSet(rq) \cup {prev}
                                                     ELSE ToSet(rq)
    <3>1. CASE st[prev] = "RUNNING"
      <4>1. prev \notin ToSet(rq)
        BY <2>0, <3>1 DEF Core
      <4>2. Append(rq, prev) # <<>> /\ Head(Append(rq, prev)) = Head(rq)
        BY <2>0
      <4> QED BY <2>0, <3>1, <4>1, <4>2, AppendFacts
    <3>2. CASE st[prev] # "RUNNING"
      BY <2>0, <3>2
    <3> QED BY <3>1, <3>2
  <2> HIDE DEF requeued
  <2>4. /\ ready_queue' \in Seq(Tasks) /\ IsInjective(ready_queue')
        /\ ToSet(ready_queue') = ToSet(requeued) \ {next}
    BY <2>1, <2>3, TailFacts
  <2>5. /\ zombie_queue' \in Seq(Tasks) /\ IsInjective(zombie_queue')
        /\ ToSet(zombie_queue') = IF st[prev] = "EXITED" THEN ToSet(zq) \cup {prev}
                                                         ELSE ToSet(zq)
    <3>1. prev \notin ToSet(zq)
      BY DEF Core
    <3>2. CASE st[prev] = "EXITED"
      <4>1. zombie_queue' = Append(zq, prev)
        BY <2>1, <3>2
      <4> QED BY <2>0, <3>1, <3>2, <4>1, AppendFacts
    <3>3. CASE st[prev] # "EXITED"
      BY <2>0, <2>1, <3>3
    <3> QED BY <3>2, <3>3
  <2>6. /\ state' \in [Tasks -> States]
        /\ state'[next] = "RUNNING"
        /\ state'[prev] = IF st[prev] = "RUNNING" THEN "READY" ELSE st[prev]
        /\ \A t \in Tasks : t # next /\ t # prev => state'[t] = st[t]
    BY <2>0, <2>1, <2>2 DEF States
  <2>7. \A t \in Tasks : t \in ToSet(ready_queue') <=> state'[t] = "READY"
    BY <2>0, <2>2, <2>3, <2>4, <2>6 DEF Core
  <2>8. \A t \in ToSet(zombie_queue') :
           state'[t] = "EXITED" /\ t \notin fr /\ t # next
    BY <2>0, <2>2, <2>5, <2>6, ToSetType DEF Core
  <2>9. \A t \in fr : state'[t] = "EXITED" /\ t # next
    BY <2>0, <2>2, <2>6 DEF Core
  <2>10. \A t \in Tasks : state'[t] # "NONE" =>
            \/ t = next \/ t \in ToSet(ready_queue')
            \/ t \in ToSet(zombie_queue') \/ t \in fr \/ t \in rp
    <3> SUFFICES ASSUME NEW t \in Tasks, state'[t] # "NONE", t # next
                 PROVE  \/ t \in ToSet(ready_queue')
                        \/ t \in ToSet(zombie_queue') \/ t \in fr \/ t \in rp
      OBVIOUS
    <3>1. CASE t = prev
      <4>1. st[prev] \in {"READY", "RUNNING", "EXITED"}
        BY <2>0 DEF Core, States
      <4>2. st[prev] = "READY" => prev \in ToSet(rq)
        BY <2>0 DEF Core
      <4> QED BY <2>0, <2>3, <2>4, <2>5, <3>1, <4>1, <4>2
    <3>2. CASE t # prev
      BY <2>2, <2>3, <2>4, <2>5, <2>6, <3>2 DEF Core
    <3> QED BY <3>1, <3>2
  <2>11. \A t \in rp : /\ t # next /\ t \notin ToSet(ready_queue')
                       /\ t \notin ToSet(zombie_queue') /\ t \notin fr
                       /\ state'[t] # "NONE"
    BY <2>2, <2>3, <2>4, <2>5, <2>6 DEF Core
  <2>12. \A t \in Pids : t >= n => state'[t] = "NONE"
    <3> SUFFICES ASSUME NEW t \in Pids, t >= n PROVE state'[t] = "NONE"
      OBVIOUS
    <3>1. t \in Tasks /\ st[t] = "NONE" /\ st[prev] # "NONE"
      BY DEF Core, Tasks
    <3> QED BY <2>2, <2>6, <3>1
  <2> QED BY <2>1, <2>2, <2>4, <2>5, <2>6, <2>7, <2>8, <2>9, <2>10, <2>11, <2>12
          DEF Core
<1> QED BY <1>1, <1>2

\* SchedInv in terms of Core: what is left speaks of the two-step calls.
InvParts ==
    /\ TypeOK
    /\ Core(current, ready_queue, zombie_queue, state, freed, replaced, thread_cnt)
    /\ \A t \in Tasks : call[t] \in {"kill", "exec"} =>
                          t = current /\ arg[t] \in Queued
    /\ call[current] = "exec" => arg[current] # current
    /\ call[Idle] = "none"

\* The two ways of writing the inductive invariant agree.
LEMMA InvCore == SchedInv <=> InvParts
<1>1. TypeOK => Queued \subseteq Tasks /\ Zombies \subseteq Tasks
  BY ToSetType DEF TypeOK, Queued, Zombies
<1> QED
  BY <1>1, ToSetType, Zenon DEF SchedInv, TypeOK, QueueDiscipline, NoUseAfterFree, NoLostTask,
             Core, Queued, Zombies, InvParts

\* A new READY task at the tail of the ready queue (thread_create, sys_fork)
\* keeps them consistent too, and so does a pid lost to a failed allocation.
LEMMA NewTaskCore ==
    ASSUME NEW ctx, SchedInv, thread_cnt < MaxTasks,
           NewTask(ctx) \/ AllocFailure,
           UNCHANGED <<current, zombie_queue, freed, replaced>>
    PROVE  /\ Core(current', ready_queue', zombie_queue', state', freed',
                   replaced', thread_cnt')
           /\ thread_cnt' \in 1 .. MaxTasks
           /\ Queued \subseteq Queued'
           /\ NewTask(ctx) => thread_cnt \in Queued' \ Queued
<1> DEFINE n == thread_cnt
<1>0. /\ TypeOK
      /\ Core(current, ready_queue, zombie_queue, state, freed, replaced, n)
  BY InvCore DEF InvParts
<1>1. n \in Pids /\ n \in Tasks /\ n + 1 \in 1 .. MaxTasks /\ state[n] = "NONE"
  BY <1>0, SchedAssumption DEF TypeOK, Core, Pids, Tasks
<1>2. CASE NewTask(ctx)
  <2>1. /\ state' = [state EXCEPT ![n] = "READY"]
        /\ ready_queue' = Append(ready_queue, n)
        /\ thread_cnt' = n + 1
    BY <1>2 DEF NewTask, add_thread_task
  <2>2. /\ state' \in [Tasks -> States] /\ state'[n] = "READY"
        /\ \A t \in Tasks : t # n => state'[t] = state[t]
    BY <1>0, <1>1, <2>1 DEF TypeOK, States
  <2>3. /\ n \notin ToSet(ready_queue) /\ n \notin ToSet(zombie_queue)
        /\ n # current /\ n \notin freed
    BY <1>0, <1>1 DEF Core
  <2>4. n \notin replaced
    BY <1>0, <1>1 DEF Core
  <2>5. /\ ready_queue' \in Seq(Tasks) /\ IsInjective(ready_queue')
        /\ ToSet(ready_queue') = ToSet(ready_queue) \cup {n}
    BY <1>0, <1>1, <2>1, <2>3, AppendFacts DEF Core
  <2>6. \A t \in Pids : t >= n + 1 => t \in Tasks /\ t # n /\ t >= n
    BY <1>1, SchedAssumption DEF Pids, Tasks
  <2>7. Core(current, ready_queue', zombie_queue, state', freed, replaced, n + 1)
    <3>1. \A t \in replaced : t # n /\ t \in Tasks
      BY <1>0, <2>4 DEF TypeOK
    <3>2. \A t \in freed : t # n /\ t \in Tasks
      BY <1>0, <2>3 DEF TypeOK
    <3>3. \A t \in ToSet(zombie_queue) : t # n /\ t \in Tasks
      BY <1>0, <2>3, ToSetType DEF TypeOK
    <3>4. \A t \in Tasks : t \in ToSet(ready_queue') <=> state'[t] = "READY"
      BY <1>0, <2>2, <2>5 DEF Core
    <3>5. \A t \in Tasks : state'[t] # "NONE" =>
             \/ t = current \/ t \in ToSet(ready_queue')
             \/ t \in ToSet(zombie_queue) \/ t \in freed \/ t \in replaced
      BY <1>0, <2>2, <2>5 DEF Core
    <3>6. \A t \in Pids : t >= n + 1 => state'[t] = "NONE"
      BY <1>0, <2>2, <2>6 DEF Core
    <3>7. state'[current] # "NONE"
      BY <1>0, <2>2, <2>3 DEF Core
    <3> QED BY <1>0, <2>2, <2>5, <3>1, <3>2, <3>3, <3>4, <3>5, <3>6, <3>7 DEF Core
  <2> QED BY <1>1, <2>1, <2>3, <2>5, <2>7 DEF Queued
<1>3. CASE AllocFailure /\ ~NewTask(ctx)
  <2>1. Core(current, ready_queue, zombie_queue, state, freed, replaced, thread_cnt')
    BY <1>0, <1>1, <1>3, SchedAssumption DEF AllocFailure, Core, Pids, TypeOK
  <2> QED BY <1>0, <1>1, <1>3, <2>1 DEF AllocFailure, Queued, TypeOK
<1> QED BY <1>2, <1>3

-----------------------------------------------------------------------------
\* The state main() leaves behind satisfies the invariant.
LEMMA InitInv == sched_init => SchedInv
<1> SUFFICES ASSUME sched_init PROVE SchedInv
  OBVIOUS
<1>1. Idle \in Tasks /\ Boot \in Tasks /\ Idle # Boot /\ 1 \in 1 .. MaxTasks
  BY SchedAssumption DEF Tasks, Pids, Idle, Boot
<1>2. TypeOK
  BY <1>1 DEF sched_init, TypeOK, States
<1>3. ToSet(<<Idle>>) = {Idle} /\ ToSet(<<>>) = {}
  BY DEF ToSet
<1>4. IsInjective(<<Idle>>) /\ IsInjective(<<>>)
  BY DEF IsInjective
<1>5. Core(current, ready_queue, zombie_queue, state, freed, replaced, thread_cnt)
  <2>1. \A t \in Tasks : state[t] = IF t = Boot THEN "RUNNING"
                                    ELSE IF t = Idle THEN "READY" ELSE "NONE"
    BY DEF sched_init
  <2>2. \A t \in Pids : t \in Tasks /\ t # Boot /\ (t >= 1 => t # Idle)
    BY SchedAssumption DEF Pids, Tasks, Boot, Idle
  <2>3. ready_queue = <<Idle>> /\ zombie_queue = <<>> /\ current = Boot
        /\ thread_cnt = 1 /\ freed = {} /\ replaced = {}
    BY DEF sched_init
  <2> QED BY <1>1, <1>2, <1>3, <1>4, <2>1, <2>2, <2>3 DEF Core, TypeOK
<1> QED BY <1>1, <1>2, <1>5, InvCore DEF sched_init, InvParts

\* Every step of the scheduler keeps the invariant when no tick lands inside
\* _exec and _kill.
LEMMA NextInv ==
    ASSUME ~Preemptible, SchedInv, [Next]_vars
    PROVE  SchedInv'
<1>0. InvParts
  BY InvCore
<1>a. InvParts' => SchedInv'
  BY InvCore, PTL
<1>b. Idle \in Tasks
  BY SchedAssumption DEF Tasks, Pids, Idle
<1>c. Queued \subseteq Tasks /\ Zombies \subseteq Tasks
  BY <1>0, ToSetType DEF InvParts, TypeOK, Queued, Zombies
<1>d. freed \subseteq Tasks /\ replaced \subseteq Tasks
  BY <1>0 DEF InvParts, TypeOK
<1>t. timer' \in {"on", "off", "lost"}
  BY <1>0 DEF InvParts, TypeOK, Next, vars, Tick, StaleTick, IdleLoop, sys_fork, _exit,
              KillLookup, KillApply, ExecCreate, ExecEnter, timer_enable_irq
\* A step that ends with schedule(), from a thread inside no two-step call
<1>s. ASSUME NEW rq, NEW zq, NEW st,
             Core(current, rq, zq, st, freed', replaced, thread_cnt),
             schedule(rq, zq, st), freed' \subseteq Tasks,
             \A t \in Tasks : call'[t] \notin {"kill", "exec"},
             call' \in [Tasks -> {"none", "kill", "exec", "fault"}],
             call'[Idle] = "none",
             UNCHANGED <<arg, thread_cnt, replaced>>
      PROVE  InvParts'
  <2>1. Core(current', ready_queue', zombie_queue', state', freed', replaced',
             thread_cnt')
    BY <1>d, <1>s, ScheduleCore
  <2>2. /\ context' \in [Tasks -> {"entry", "saved"}]
        /\ el1' \subseteq Tasks
    <3>1. CASE rq = <<>> \/ Head(rq) = current
      BY <1>0, <1>s, <3>1 DEF schedule, Stay, InvParts, TypeOK
    <3>2. CASE ~(rq = <<>> \/ Head(rq) = current)
      <4>1. Head(rq) \in Tasks
        BY <1>s, <3>2, TailFacts DEF Core
      <4> QED BY <1>0, <1>s, <3>2, <4>1
              DEF schedule, Switch, cpu_switch_to, InvParts, TypeOK
    <3> QED BY <3>1, <3>2
  <2>3. TypeOK'
    BY <1>0, <1>d, <1>s, <1>t, <2>1, <2>2 DEF TypeOK, Core, InvParts
  <2>4. current' \in Tasks
    BY <2>1 DEF Core
  <2> QED BY <1>s, <2>1, <2>3, <2>4 DEF InvParts
<1>1. CASE Tick
  <2>1. \A t \in Tasks : call[t] \notin {"kill", "exec"}
    BY <1>0, <1>1 DEF Tick, Interruptible, InvParts
  <2> QED BY <1>0, <1>1, <1>a, <1>d, <1>s, <2>1 DEF Tick, InvParts, TypeOK
<1>2. CASE IdleLoop
  <2>1. \A t \in Tasks : call[t] \notin {"kill", "exec"}
    BY <1>0, <1>2 DEF IdleLoop, InvParts
  <2>2. <<>> \in Seq(Tasks) /\ IsInjective(<<>>) /\ ToSet(<<>>) = {}
    BY DEF ToSet, IsInjective
  <2>3. freed' = freed \cup ToSet(zombie_queue) /\ freed' \subseteq Tasks
    BY <1>2, <1>c, <1>d DEF IdleLoop, kill_zombies, Zombies
  <2>4. Core(current, ready_queue, <<>>, state, freed', replaced, thread_cnt)
    BY <1>0, <2>2, <2>3 DEF InvParts, Core
  <2> QED BY <1>0, <1>2, <1>a, <1>s, <2>1, <2>3, <2>4
          DEF IdleLoop, InvParts, TypeOK
\* Marking a task EXITED and unlinking it from the ready queue: _exit, _kill
<1>x. ASSUME NEW task \in Tasks, task = current \/ task \in Queued
      PROVE  /\ rm_thread_task(ready_queue, task) \in Seq(Tasks)
             /\ IsInjective(rm_thread_task(ready_queue, task))
             /\ ToSet(rm_thread_task(ready_queue, task)) = Queued \ {task}
             /\ [state EXCEPT ![task] = "EXITED"] \in [Tasks -> States]
             /\ task \notin replaced /\ state[task] # "NONE"
             /\ task \in Queued => task \notin Zombies \cup freed
  <2>1. ready_queue \in Seq(Tasks) /\ IsInjective(ready_queue)
    BY <1>0 DEF InvParts, Core
  <2>2. [state EXCEPT ![task] = "EXITED"] \in [Tasks -> States]
    BY <1>0 DEF InvParts, Core, States
  <2>3. /\ task \notin replaced /\ state[task] # "NONE"
        /\ task \in Queued => task \notin Zombies \cup freed
    BY <1>0, <1>x, <1>c, <1>d DEF InvParts, Core, Queued, Zombies
  <2> QED BY <2>1, <2>2, <2>3, RemoveFacts DEF Queued
\* What schedule() then finds, when the task is the running one
<1>y. ASSUME current \in Tasks
      PROVE  Core(current, rm_thread_task(ready_queue, current), zombie_queue,
                  [state EXCEPT ![current] = "EXITED"], freed, replaced, thread_cnt)
  <2> DEFINE rq == rm_thread_task(ready_queue, current)
             st == [state EXCEPT ![current] = "EXITED"]
  <2>1. /\ rq \in Seq(Tasks) /\ IsInjective(rq)
        /\ ToSet(rq) = ToSet(ready_queue) \ {current}
        /\ st \in [Tasks -> States]
    BY <1>x, <1>y DEF Queued
  <2>2. st[current] = "EXITED" /\ \A t \in Tasks : t # current => st[t] = state[t]
    BY <1>0, <1>y DEF InvParts, Core
  <2> HIDE DEF rq, st
  <2>3. \A t \in Pids : t \in Tasks /\ (t >= thread_cnt => t # current)
    BY <1>0 DEF InvParts, Core, Tasks
  <2>4. Core(current, rq, zombie_queue, st, freed, replaced, thread_cnt)
    BY <1>0, <1>c, <1>d, <1>y, <2>1, <2>2, <2>3 DEF InvParts, Core, Zombies
  <2> QED BY <2>4 DEF rq, st
<1>3. CASE _exit
  <2>1. \A t \in Tasks : call[t] \notin {"kill", "exec"}
    BY <1>0, <1>3 DEF _exit, InUser, InvParts
  <2> QED BY <1>0, <1>3, <1>a, <1>d, <1>s, <1>y, <2>1 DEF _exit, InvParts, TypeOK
<1>4. CASE KillLookup
  <2>1. PICK pid \in KillTargets :
          /\ InUser /\ pid \in Queued
          /\ call' = [call EXCEPT ![current] = "kill"]
          /\ arg' = [arg EXCEPT ![current] = pid]
          /\ UNCHANGED <<current, state, ready_queue, zombie_queue, thread_cnt,
                         context, el1, freed, replaced>>
    BY <1>4 DEF KillLookup, Found
  <2>2. TypeOK'
    BY <1>0, <1>c, <1>t, <2>1 DEF InvParts, TypeOK
  <2>3. /\ \A t \in Tasks : call'[t] \in {"kill", "exec"} =>
                               t = current' /\ arg'[t] \in Queued'
        /\ call'[current'] = "kill"
        /\ call'[Idle] = "none"
    BY <1>0, <1>b, <2>1 DEF InvParts, TypeOK, InUser, Queued
  <2> QED BY <1>0, <1>a, <2>1, <2>2, <2>3 DEF InvParts
<1>5. CASE KillApply
  <2> DEFINE task == arg[current]
             rq == rm_thread_task(ready_queue, task)
             st == [state EXCEPT ![task] = "EXITED"]
  <2>1. current \in Tasks /\ task \in Tasks /\ task \in Queued
    BY <1>0, <1>5 DEF KillApply, InvParts, TypeOK
  <2>2. /\ call' \in [Tasks -> {"none", "kill", "exec", "fault"}]
        /\ call'[Idle] = "none"
        /\ \A t \in Tasks : call'[t] \notin {"kill", "exec"}
    BY <1>0, <1>5, <1>b, <2>1 DEF KillApply, InvParts, TypeOK
  <2>3. CASE task = current
    BY <1>5, <1>a, <1>d, <1>s, <1>y, <2>1, <2>2, <2>3 DEF KillApply
  <2>4. CASE task # current
    <3>1. /\ ready_queue' = rq /\ state' = st
          /\ zombie_queue' = Append(zombie_queue, task)
          /\ UNCHANGED <<current, context, el1, thread_cnt, arg, freed, replaced>>
      BY <1>5, <2>4 DEF KillApply, Stay, add_thread_task
    <3>2. /\ rq \in Seq(Tasks) /\ IsInjective(rq)
          /\ ToSet(rq) = ToSet(ready_queue) \ {task}
          /\ st \in [Tasks -> States]
          /\ task \notin replaced /\ state[task] # "NONE"
          /\ task \notin ToSet(zombie_queue) /\ task \notin freed
      BY <1>x, <2>1 DEF Queued, Zombies
    <3>3. st[task] = "EXITED" /\ \A t \in Tasks : t # task => st[t] = state[t]
      BY <1>0, <2>1 DEF InvParts, Core
    <3> HIDE DEF rq, st, task
    <3>4. /\ zombie_queue' \in Seq(Tasks) /\ IsInjective(zombie_queue')
          /\ ToSet(zombie_queue') = ToSet(zombie_queue) \cup {task}
      BY <1>0, <2>1, <3>1, <3>2, AppendFacts DEF InvParts, Core
    <3>5. \A t \in Pids : t \in Tasks /\ (t >= thread_cnt => t # task)
      BY <1>0, <3>2 DEF InvParts, Core, Tasks
    <3>6. Core(current, rq, zombie_queue', st, freed, replaced, thread_cnt)
      BY <1>0, <1>c, <1>d, <2>1, <2>4, <3>2, <3>3, <3>4, <3>5
         DEF InvParts, Core, Zombies
    <3>7. TypeOK'
      BY <1>0, <1>t, <2>2, <3>1, <3>2, <3>4 DEF InvParts, TypeOK
    <3> QED BY <1>0, <1>a, <2>1, <2>2, <3>1, <3>6, <3>7 DEF InvParts
  <2> QED BY <2>3, <2>4
<1>6. CASE sys_fork
  <2>1. /\ Core(current', ready_queue', zombie_queue', state', freed', replaced',
                thread_cnt')
        /\ thread_cnt' \in 1 .. MaxTasks
        /\ Queued \subseteq Queued'
    BY <1>6, NewTaskCore DEF sys_fork
  <2>2. context' \in [Tasks -> {"entry", "saved"}]
    BY <1>0, <1>6 DEF sys_fork, NewTask, AllocFailure, InvParts, TypeOK
  <2>3. TypeOK'
    BY <1>0, <1>6, <2>1, <2>2 DEF sys_fork, InvParts, TypeOK, Core
  <2> QED BY <1>0, <1>6, <1>a, <2>1, <2>3 DEF sys_fork, InvParts
<1>7. CASE ExecCreate
  <2>1. /\ Core(current', ready_queue', zombie_queue', state', freed', replaced',
                thread_cnt')
        /\ thread_cnt' \in 1 .. MaxTasks
        /\ Queued \subseteq Queued'
        /\ NewTask("entry") => thread_cnt \in Queued' \ Queued
    BY <1>7, NewTaskCore DEF ExecCreate
  <2>2. /\ \A t \in Tasks : call[t] \notin {"kill", "exec"}
        /\ current # Idle /\ current' = current /\ current \in Tasks
    BY <1>0, <1>7 DEF ExecCreate, InUser, InvParts, TypeOK
  <2>3. context' \in [Tasks -> {"entry", "saved"}]
    BY <1>0, <1>7 DEF ExecCreate, NewTask, AllocFailure, InvParts, TypeOK
  <2>4. CASE /\ NewTask("entry")
             /\ call' = [call EXCEPT ![current] = "exec"]
             /\ arg' = [arg EXCEPT ![current] = thread_cnt]
    <3>1. thread_cnt \in Tasks /\ thread_cnt # current
      <4>1. thread_cnt \in Pids /\ thread_cnt >= thread_cnt
        BY <1>0, <1>7, SchedAssumption DEF ExecCreate, InvParts, TypeOK, Pids
      <4> QED BY <1>0, <4>1 DEF InvParts, Core, Tasks
    <3>2. TypeOK'
      BY <1>0, <1>7, <2>1, <2>3, <2>4, <3>1 DEF ExecCreate, InvParts, TypeOK, Core
    <3>3. /\ \A t \in Tasks : call'[t] \in {"kill", "exec"} =>
                                 t = current' /\ arg'[t] \in Queued'
          /\ call'[current'] = "exec" => arg'[current'] # current'
          /\ call'[Idle] = "none"
      BY <1>0, <1>b, <2>1, <2>2, <2>4, <3>1 DEF InvParts, TypeOK
    <3> QED BY <1>a, <2>1, <3>2, <3>3 DEF InvParts
  <2>5. CASE call' = [call EXCEPT ![current] = "fault"] /\ arg' = arg
    <3>1. TypeOK'
      BY <1>0, <1>7, <2>1, <2>3, <2>5 DEF ExecCreate, InvParts, TypeOK, Core
    <3>2. /\ \A t \in Tasks : call'[t] \notin {"kill", "exec"}
          /\ call'[Idle] = "none"
      BY <1>0, <1>b, <2>2, <2>5 DEF InvParts, TypeOK
    <3> QED BY <1>a, <2>1, <2>2, <3>1, <3>2 DEF InvParts
  <2> QED BY <1>7, <2>4, <2>5 DEF ExecCreate
<1>8. CASE ExecEnter
  <2> DEFINE new == arg[current]
  <2>1. /\ current \in Tasks /\ new \in Tasks
        /\ new \in ToSet(ready_queue) /\ new # current
        /\ state[new] = "READY"
    BY <1>0, <1>8 DEF ExecEnter, InvParts, TypeOK, Core, Queued
  <2>2. /\ call' \in [Tasks -> {"none", "kill", "exec", "fault"}]
        /\ call'[Idle] = "none"
        /\ \A t \in Tasks : call'[t] \notin {"kill", "exec"}
    BY <1>0, <1>8, <1>b, <2>1 DEF ExecEnter, InvParts, TypeOK
  <2>3. /\ current' = new
        /\ replaced' = IF current \in ToSet(ready_queue) THEN replaced
                       ELSE replaced \cup {current}
        /\ el1' \subseteq Tasks
        /\ UNCHANGED <<state, ready_queue, zombie_queue, thread_cnt, context, arg,
                       freed>>
    BY <1>0, <1>8 DEF ExecEnter, Queued, InvParts, TypeOK
  <2> HIDE DEF new
  <2>4. Core(new, ready_queue, zombie_queue, state, freed, replaced', thread_cnt)
    BY <1>0, <2>1, <2>3 DEF InvParts, Core
  <2>5. TypeOK'
    BY <1>0, <1>t, <2>1, <2>2, <2>3 DEF InvParts, TypeOK
  <2> QED BY <1>a, <2>1, <2>2, <2>3, <2>4, <2>5 DEF InvParts
<1>9. CASE StaleTick \/ UNCHANGED vars
  BY <1>0, <1>9, <1>a, <1>t DEF StaleTick, vars, InvParts, TypeOK, Queued
<1> QED BY <1>1, <1>2, <1>3, <1>4, <1>5, <1>6, <1>7, <1>8, <1>9 DEF Next

\* When no tick lands between the two halves of _exec and _kill, the invariant
\* holds in every reachable state of the scheduler.
THEOREM SchedSafety ==
    ASSUME ~Preemptible
    PROVE  Spec => []SchedInv
<1>1. sched_init => SchedInv
  BY InitInv
<1>2. SchedInv /\ [Next]_vars => SchedInv'
  BY NextInv
<1> QED BY <1>1, <1>2, PTL DEF Spec

\* ... hence type correctness,
THEOREM SchedTypeOK ==
    ASSUME ~Preemptible
    PROVE  Spec => []TypeOK
<1>1. SchedInv => TypeOK
  BY DEF SchedInv
<1> QED BY <1>1, SchedSafety, PTL

\* ... no task twice in a queue or in two, READY exactly for the queued tasks,
THEOREM SchedQueueDiscipline ==
    ASSUME ~Preemptible
    PROVE  Spec => []QueueDiscipline
<1>1. SchedInv => QueueDiscipline
  BY DEF SchedInv
<1> QED BY <1>1, SchedSafety, PTL

\* ... no use of a task or a stack that kill_zombies has freed,
THEOREM SchedNoUseAfterFree ==
    ASSUME ~Preemptible
    PROVE  Spec => []NoUseAfterFree
<1>1. SchedInv => NoUseAfterFree
  BY DEF SchedInv
<1> QED BY <1>1, SchedSafety, PTL

\* ... and no task lost, save those that exec leaves behind.
THEOREM SchedNoLostTask ==
    ASSUME ~Preemptible
    PROVE  Spec => []NoLostTask
<1>1. SchedInv => NoLostTask
  BY DEF SchedInv
<1> QED BY <1>1, SchedSafety, PTL

-----------------------------------------------------------------------------
\* The idle task exists and no exec leaves it behind.
ExitInv ==
    /\ SchedInv
    /\ Idle \notin replaced /\ state[Idle] # "NONE"
    /\ ExitSwitches

\* schedule() leaves an exited thread if the ready queue holds another one.
LEMMA ScheduleExit ==
    ASSUME NEW rq \in Seq(Tasks), NEW zq, NEW st \in [Tasks -> States], current \in Tasks,
           schedule(rq, zq, st), st[Idle] # "NONE",
           st[current] = "EXITED" /\ st[Idle] # "EXITED" => rq # <<>> /\ Head(rq) # current
    PROVE  ExitSwitches' /\ state'[Idle] # "NONE"
<1>0. Idle \in Tasks
  BY SchedAssumption DEF Tasks, Pids, Idle
<1>1. CASE rq = <<>> \/ Head(rq) = current
  BY <1>1 DEF schedule, Stay, ExitSwitches
<1>2. CASE ~(rq = <<>> \/ Head(rq) = current)
  <2> DEFINE next == Head(rq)
  <2>1. next \in Tasks /\ next # current
    BY <1>2
  <2>2. /\ state' = [st EXCEPT ![current] = IF @ = "RUNNING" THEN "READY" ELSE @,
                               ![next] = "RUNNING"]
        /\ current' = next
    BY <1>2 DEF schedule, Switch, cpu_switch_to
  <2> HIDE DEF next
  <2>3. state'[current'] = "RUNNING" /\ state'[Idle] # "NONE"
    BY <1>0, <2>1, <2>2
  <2> QED BY <2>3 DEF ExitSwitches
<1> QED BY <1>1, <1>2

\* Every step keeps what ExitSwitches needs.
LEMMA NextExit ==
    ASSUME ~Preemptible, ExitInv, [Next]_vars
    PROVE  ExitInv'
<1>1. SchedInv /\ SchedInv' /\ ExitSwitches /\ Idle \notin replaced /\ state[Idle] # "NONE"
  BY NextInv DEF ExitInv
<1>2. Idle \in Tasks
  BY SchedAssumption DEF Tasks, Pids, Idle
<1>3. /\ current \in Tasks /\ ready_queue \in Seq(Tasks) /\ state \in [Tasks -> States]
      /\ IsInjective(ready_queue) /\ state[current] # "NONE" /\ Queued \subseteq Tasks
  BY <1>1, ToSetType DEF SchedInv, TypeOK, QueueDiscipline, Queued
<1> SUFFICES Idle \notin replaced' /\ state'[Idle] # "NONE" /\ ExitSwitches'
  BY <1>1 DEF ExitInv
\* While idle has not exited it runs or waits
<1>4. state[Idle] # "EXITED" => Idle = current \/ Idle \in Queued
  BY <1>1, <1>2 DEF SchedInv, NoLostTask, QueueDiscipline
\* A task that exits and schedule()
<1>5. ASSUME current # Idle, UNCHANGED replaced,
             schedule(rm_thread_task(ready_queue, current), zombie_queue,
                      [state EXCEPT ![current] = "EXITED"])
      PROVE  Idle \notin replaced' /\ state'[Idle] # "NONE" /\ ExitSwitches'
  <2> DEFINE rq == rm_thread_task(ready_queue, current)
             st == [state EXCEPT ![current] = "EXITED"]
  <2>1. rq \in Seq(Tasks) /\ ToSet(rq) = Queued \ {current}
    BY <1>3, RemoveFacts DEF Queued
  <2>2. st \in [Tasks -> States] /\ st[Idle] = state[Idle]
    BY <1>2, <1>3, <1>5 DEF States
  <2> HIDE DEF rq, st
  <2>3. st[Idle] # "EXITED" => rq # <<>> /\ Head(rq) # current
    <3> SUFFICES ASSUME st[Idle] # "EXITED" PROVE rq # <<>> /\ Head(rq) # current
      OBVIOUS
    <3>1. Idle \in ToSet(rq)
      BY <1>4, <1>5, <2>1, <2>2
    <3>2. rq # <<>>
      BY <3>1 DEF ToSet
    <3>3. Head(rq) \in ToSet(rq)
      BY <2>1, <3>2, TailFacts
    <3> QED BY <2>1, <3>2, <3>3
  <2> QED BY <1>1, <1>3, <1>5, <2>1, <2>2, <2>3, ScheduleExit DEF rq, st
<1>6. CASE Tick \/ IdleLoop
  <2>1. PICK zq : schedule(ready_queue, zq, state) /\ UNCHANGED replaced
    BY <1>6 DEF Tick, IdleLoop
  <2> QED BY <1>1, <1>3, <2>1, ScheduleExit DEF ExitSwitches
<1>7. CASE sys_fork \/ ExecCreate
  <2>1. /\ UNCHANGED <<current, replaced>> /\ thread_cnt \in Tasks /\ thread_cnt # Idle
        /\ state[thread_cnt] = "NONE"
        /\ state' = state \/ state' = [state EXCEPT ![thread_cnt] = "READY"]
    <3>1. thread_cnt \in Pids /\ thread_cnt # Idle /\ thread_cnt >= thread_cnt
      BY <1>1, <1>7, SchedAssumption DEF sys_fork, ExecCreate, SchedInv, TypeOK, Pids, Idle
    <3> QED BY <1>1, <1>7, <3>1 DEF sys_fork, ExecCreate, NewTask, AllocFailure, SchedInv, Tasks
  <2> QED BY <1>1, <1>2, <1>3, <2>1 DEF ExitSwitches
<1>8. CASE _exit
  BY <1>5, <1>8 DEF _exit, InUser
<1>9. CASE KillApply
  <2> DEFINE task == arg[current]
  <2>1. task \in Tasks /\ current # Idle /\ UNCHANGED replaced
    BY <1>1, <1>3, <1>9 DEF KillApply, SchedInv, TypeOK
  <2>2. CASE task = current
    BY <1>5, <1>9, <2>1, <2>2 DEF KillApply
  <2>3. CASE task # current
    <3>1. state' = [state EXCEPT ![task] = "EXITED"] /\ current' = current
      BY <1>9, <2>3 DEF KillApply, Stay
    <3> HIDE DEF task
    <3> QED BY <1>1, <1>2, <1>3, <2>1, <2>3, <3>1 DEF ExitSwitches
  <2> QED BY <2>2, <2>3
<1>10. CASE ExecEnter
  <2>1. /\ current # Idle /\ UNCHANGED state /\ replaced' \subseteq replaced \cup {current}
        /\ state[current'] = "READY"
    BY <1>1, <1>3, <1>10 DEF ExecEnter, SchedInv, QueueDiscipline
  <2> QED BY <1>1, <2>1 DEF ExitSwitches
<1>11. CASE KillLookup \/ StaleTick \/ UNCHANGED vars
  BY <1>1, <1>11 DEF KillLookup, StaleTick, vars, ExitSwitches
<1> QED BY <1>6, <1>7, <1>8, <1>9, <1>10, <1>11 DEF Next

\* ExitSwitches, "switch to the next task" in _exit: an exited thread never runs
\* on while the idle thread lives.
THEOREM SchedExitSwitches ==
    ASSUME ~Preemptible
    PROVE  Spec => []ExitSwitches
<1>1. sched_init => ExitInv
  <2>1. Idle \in Tasks /\ Boot \in Tasks /\ Idle # Boot
    BY SchedAssumption DEF Tasks, Pids, Idle, Boot
  <2> QED BY <2>1, InitInv DEF sched_init, ExitInv, ExitSwitches
<1>2. ExitInv /\ [Next]_vars => ExitInv'
  BY NextExit
<1>3. ExitInv => ExitSwitches
  BY DEF ExitInv
<1> QED BY <1>1, <1>2, <1>3, PTL DEF Spec

-----------------------------------------------------------------------------
(* The order of the ready queue *)

\* A task's place in a list without duplicates
LEMMA PlaceIs ==
    ASSUME NEW q \in Seq(Tasks), IsInjective(q), NEW x \in ToSet(q)
    PROVE  Place(q, x) \in DOMAIN q /\ q[Place(q, x)] = x
<1>1. PICK i \in DOMAIN q : q[i] = x
  BY DEF ToSet
<1>2. \A j \in 1 .. i - 1 : q[j] # x
  <2>1. DOMAIN q = 1 .. Len(q) /\ Len(q) \in Nat
    OBVIOUS
  <2> QED BY <1>1, <2>1 DEF IsInjective
<1> QED BY <1>1, <1>2 DEF Place

\* What NoOvertaking says of one step, from queue q to queue r
Fair(q, r) ==
    \A a \in ToSet(q) \cap ToSet(r) : \A b \in ToSet(r) \ {a} :
        (b \in ToSet(q) => Place(q, a) < Place(q, b)) => Place(r, a) < Place(r, b)

\* A queue whose members keep their order, newcomers last, overtakes nobody;
LEMMA OrderIsFair ==
    ASSUME NEW q \in Seq(Tasks), NEW r \in Seq(Tasks), IsInjective(q), IsInjective(r),
           SameOrder(q, r)
    PROVE  Fair(q, r)
<1> SUFFICES ASSUME NEW a \in ToSet(q) \cap ToSet(r), NEW b \in ToSet(r) \ {a},
                    b \in ToSet(q) => Place(q, a) < Place(q, b)
             PROVE  Place(r, a) < Place(r, b)
  BY DEF Fair
<1>1. Place(q, a) \in DOMAIN q /\ q[Place(q, a)] = a
  BY PlaceIs
<1>2. Place(r, a) \in DOMAIN r /\ r[Place(r, a)] = a
  BY PlaceIs
<1>3. Place(r, b) \in DOMAIN r /\ r[Place(r, b)] = b
  BY PlaceIs
<1>4. b \in ToSet(q) => Place(q, b) \in DOMAIN q /\ q[Place(q, b)] = b
  BY PlaceIs
<1> DEFINE i == Place(q, a)
           j == Place(q, b)
           m == Place(r, a)
           n == Place(r, b)
<1> HIDE DEF i, j, m, n
<1>5. /\ i \in DOMAIN q /\ m \in DOMAIN r /\ n \in DOMAIN r
      /\ r[m] = q[i]
      /\ r[n] \notin ToSet(q) \/ (j \in DOMAIN q /\ r[n] = q[j] /\ i < j)
  BY <1>1, <1>2, <1>3, <1>4 DEF i, j, m, n
<1>6. m < n
  BY <1>5 DEF SameOrder
<1> QED BY <1>6 DEF m, n

\* One change of the queue after the other, when none puts back what another took
LEMMA FairTwice ==
    ASSUME NEW q, NEW r, NEW s, Fair(q, r), Fair(r, s), ToSet(q) \cap ToSet(s) \subseteq ToSet(r)
    PROVE  Fair(q, s)
<1> SUFFICES ASSUME NEW a \in ToSet(q) \cap ToSet(s), NEW b \in ToSet(s) \ {a},
                    b \in ToSet(q) => Place(q, a) < Place(q, b)
             PROVE  Place(s, a) < Place(s, b)
  BY DEF Fair
<1>1. b \in ToSet(r) => Place(r, a) < Place(r, b)
  BY DEF Fair
<1> QED BY <1>1 DEF Fair

\* so does one that gets a newcomer at its end,
LEMMA AppendFair ==
    ASSUME NEW q \in Seq(Tasks), NEW x \in Tasks, IsInjective(q), x \notin ToSet(q)
    PROVE  Fair(q, Append(q, x))
<1> DEFINE r == Append(q, x)
<1>1. /\ r \in Seq(Tasks) /\ DOMAIN r = 1 .. Len(q) + 1 /\ DOMAIN q = 1 .. Len(q)
      /\ Len(q) \in Nat /\ r[Len(q) + 1] = x /\ \A i \in 1 .. Len(q) : r[i] = q[i]
  OBVIOUS
<1>2. IsInjective(r)
  BY AppendFacts
<1> HIDE DEF r
<1>3. \A i \in 1 .. Len(q) : q[i] \in ToSet(q) /\ q[i] # x
  BY <1>1 DEF ToSet
<1>4. SameOrder(q, r)
  <2> SUFFICES ASSUME NEW u \in 1 .. Len(q) + 1, NEW v \in 1 .. Len(q) + 1,
                      NEW i \in 1 .. Len(q), r[u] = q[i],
                      r[v] \notin ToSet(q) \/ \E j \in 1 .. Len(q) : r[v] = q[j] /\ i < j
               PROVE  u < v
    BY <1>1 DEF SameOrder
  <2>1. u \in 1 .. Len(q) /\ u = i
    BY <1>1, <1>3 DEF IsInjective
  <2>2. v \in 1 .. Len(q) => \E j \in 1 .. Len(q) : q[v] = q[j] /\ i < j
    BY <1>1, <1>3
  <2>3. v \in 1 .. Len(q) => i < v
    BY <1>1, <2>2 DEF IsInjective
  <2> QED BY <1>1, <2>1, <2>3
<1> QED BY <1>1, <1>2, <1>4, OrderIsFair DEF r

\* and one that loses its head.
LEMMA TailFair ==
    ASSUME NEW q \in Seq(Tasks), q # <<>>, IsInjective(q)
    PROVE  Fair(q, Tail(q))
<1> DEFINE r == Tail(q)
<1>1. /\ r \in Seq(Tasks) /\ DOMAIN r = 1 .. Len(q) - 1 /\ DOMAIN q = 1 .. Len(q)
      /\ Len(q) \in Nat /\ \A i \in 1 .. Len(q) - 1 : r[i] = q[i + 1]
  OBVIOUS
<1>2. IsInjective(r)
  BY TailFacts
<1> HIDE DEF r
<1>3. SameOrder(q, r)
  <2> SUFFICES ASSUME NEW u \in 1 .. Len(q) - 1, NEW v \in 1 .. Len(q) - 1,
                      NEW i \in 1 .. Len(q), r[u] = q[i],
                      r[v] \notin ToSet(q) \/ \E j \in 1 .. Len(q) : r[v] = q[j] /\ i < j
               PROVE  u < v
    BY <1>1 DEF SameOrder
  <2>1. u + 1 \in 1 .. Len(q) /\ v + 1 \in 1 .. Len(q) /\ r[u] = q[u + 1] /\ r[v] = q[v + 1]
    BY <1>1
  <2>2. u + 1 = i
    BY <1>1, <2>1 DEF IsInjective
  <2>3. r[v] \in ToSet(q)
    BY <1>1, <2>1 DEF ToSet
  <2>4. i < v + 1
    BY <1>1, <2>1, <2>3 DEF IsInjective
  <2> QED BY <2>2, <2>4
<1> QED BY <1>1, <1>2, <1>3, OrderIsFair DEF r

\* schedule() keeps the order of the ready queue its caller hands it.
LEMMA ScheduleFair ==
    ASSUME NEW rq \in Seq(Tasks), NEW zq, NEW st, IsInjective(rq), current \in Tasks,
           st[current] = "RUNNING" => current \notin ToSet(rq),
           schedule(rq, zq, st)
    PROVE  /\ Fair(rq, ready_queue')
           /\ ToSet(ready_queue') \subseteq ToSet(rq) \cup {current}
           /\ st[current] # "RUNNING" => ToSet(ready_queue') \subseteq ToSet(rq)
<1>0. Fair(rq, rq)
  BY DEF Fair
<1>1. CASE rq = <<>> \/ Head(rq) = current
  BY <1>0, <1>1 DEF schedule, Stay
<1>2. CASE ~(rq = <<>> \/ Head(rq) = current)
  <2> DEFINE r == IF st[current] = "RUNNING" THEN Append(rq, current) ELSE rq
  <2>1. ready_queue' = Tail(r)
    BY <1>2 DEF schedule, Switch, add_thread_task, pop_thread_task
  <2>2. /\ r \in Seq(Tasks) /\ IsInjective(r) /\ r # <<>> /\ Fair(rq, r)
        /\ ToSet(rq) \subseteq ToSet(r) /\ ToSet(r) \subseteq ToSet(rq) \cup {current}
        /\ st[current] # "RUNNING" => r = rq
    <3>1. CASE st[current] = "RUNNING"
      <4>1. Append(rq, current) # <<>>
        OBVIOUS
      <4> QED BY <3>1, <4>1, AppendFacts, AppendFair
    <3>2. CASE st[current] # "RUNNING"
      BY <1>0, <1>2, <3>2
    <3> QED BY <3>1, <3>2
  <2> HIDE DEF r
  <2>3. Fair(r, Tail(r)) /\ ToSet(Tail(r)) \subseteq ToSet(r)
    BY <2>2, TailFacts, TailFair
  <2>4. Fair(rq, Tail(r))
    BY <2>2, <2>3, FairTwice
  <2> QED BY <2>1, <2>2, <2>3, <2>4
<1> QED BY <1>1, <1>2

\* Every step is fair to those that wait.
LEMMA NextFair ==
    ASSUME SchedInv, [Next]_vars
    PROVE  Fair(ready_queue, ready_queue')
<1>1. /\ current \in Tasks /\ ready_queue \in Seq(Tasks) /\ state \in [Tasks -> States]
      /\ IsInjective(ready_queue) /\ thread_cnt \in 1 .. MaxTasks
      /\ \A t \in Tasks : t \in ToSet(ready_queue) <=> state[t] = "READY"
  BY DEF SchedInv, TypeOK, QueueDiscipline, Queued
<1>2. ASSUME UNCHANGED ready_queue PROVE Fair(ready_queue, ready_queue')
  BY <1>2 DEF Fair
<1>3. ASSUME NEW task \in Tasks
      PROVE  /\ rm_thread_task(ready_queue, task) \in Seq(Tasks)
             /\ IsInjective(rm_thread_task(ready_queue, task))
             /\ ToSet(rm_thread_task(ready_queue, task)) = ToSet(ready_queue) \ {task}
             /\ Fair(ready_queue, rm_thread_task(ready_queue, task))
  BY <1>1, RemoveFacts, OrderIsFair
<1>4. ASSUME schedule(rm_thread_task(ready_queue, current), zombie_queue,
                      [state EXCEPT ![current] = "EXITED"])
      PROVE  Fair(ready_queue, ready_queue')
  <2> DEFINE rq == rm_thread_task(ready_queue, current)
             st == [state EXCEPT ![current] = "EXITED"]
  <2>1. /\ rq \in Seq(Tasks) /\ IsInjective(rq)
        /\ ToSet(rq) = ToSet(ready_queue) \ {current} /\ Fair(ready_queue, rq)
    BY <1>1, <1>3
  <2>2. st[current] = "EXITED"
    BY <1>1
  <2> HIDE DEF rq, st
  <2>3. Fair(rq, ready_queue') /\ ToSet(ready_queue') \subseteq ToSet(rq)
    BY <1>1, <1>4, <2>1, <2>2, ScheduleFair DEF rq, st
  <2> QED BY <2>1, <2>3, FairTwice
<1>5. CASE Tick \/ IdleLoop
  <2>1. PICK zq : schedule(ready_queue, zq, state)
    BY <1>5 DEF Tick, IdleLoop
  <2> QED BY <1>1, <2>1, ScheduleFair
<1>6. CASE sys_fork \/ ExecCreate
  <2>1. ready_queue' = ready_queue \/ ready_queue' = Append(ready_queue, thread_cnt)
    BY <1>6 DEF sys_fork, ExecCreate, NewTask, AllocFailure, add_thread_task
  <2>2. thread_cnt \in Tasks /\ thread_cnt \notin ToSet(ready_queue)
    <3>1. thread_cnt \in Pids /\ thread_cnt >= thread_cnt
      BY <1>1, <1>6, SchedAssumption DEF sys_fork, ExecCreate, Pids
    <3>2. state[thread_cnt] = "NONE"
      BY <3>1 DEF SchedInv
    <3> QED BY <1>1, <3>1, <3>2 DEF Tasks
  <2> QED BY <1>1, <1>2, <2>1, <2>2, AppendFair
<1>7. CASE _exit
  BY <1>4, <1>7 DEF _exit
<1>8. CASE KillApply
  <2>1. CASE arg[current] = current
    BY <1>4, <1>8, <2>1 DEF KillApply
  <2>2. CASE arg[current] # current
    <3>1. ready_queue' = rm_thread_task(ready_queue, arg[current]) /\ arg[current] \in Tasks
      BY <1>1, <1>8, <2>2 DEF KillApply, Stay, SchedInv, TypeOK
    <3> QED BY <1>3, <3>1
  <2> QED BY <2>1, <2>2
<1>9. CASE KillLookup \/ ExecEnter \/ StaleTick \/ UNCHANGED vars
  BY <1>2, <1>9 DEF KillLookup, ExecEnter, StaleTick, vars
<1> QED BY <1>5, <1>6, <1>7, <1>8, <1>9 DEF Next

\* NoOvertaking, round robin: no call of the scheduler puts a thread before one
\* that has waited longer.
THEOREM SchedNoOvertaking ==
    ASSUME ~Preemptible
    PROVE  Spec => NoOvertaking
<1>1. SchedInv /\ [Next]_vars =>
        [\A a \in Queued \cap Queued' : \A b \in Queued' \ {a} :
            (b \in Queued => Place(ready_queue, a) < Place(ready_queue, b)) =>
                Place(ready_queue', a) < Place(ready_queue', b)]_vars
  BY NextFair DEF Fair, Queued
<1> QED BY <1>1, SchedSafety, PTL DEF Spec, NoOvertaking
=============================================================================
