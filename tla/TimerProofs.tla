---------------------------- MODULE TimerProofs ----------------------------
(***************************************************************************)
(* TLAPS proofs about Timer, for every set of threads, every period of the *)
(* callbacks, every number of timers and as long as the clock runs.        *)
(***************************************************************************)
EXTENDS Timer, FiniteSetTheorems, SequenceTheorems, NaturalsInduction, TLAPS

Timers == [exp : Nat, kind : Kinds]

Handling == {"loop", "unlink", "callback", "insert", "added", "reset", "switch",
             "return", "resumed"}

Calls == [pc : Handling \cup {"program"}, tick : Nat, removed : BOOLEAN,
          curr : Timers, at : Nat]

-----------------------------------------------------------------------------
(* What the steps do to the calls in progress.                             *)

\* The innermost call returns.
LEMMA PopTop ==
    ASSUME NEW S, NEW s \in Seq(S), s # <<>>
    PROVE  /\ Front(s) \in Seq(S)
           /\ Len(s) \in Nat \ {0} /\ Len(Front(s)) = Len(s) - 1
           /\ \A i \in 1 .. Len(s) - 1 : Front(s)[i] = s[i]
<1>1. Len(s) \in Nat \ {0}
  OBVIOUS
<1>2. \A i \in 1 .. Len(s) - 1 : s[i] \in S
  BY <1>1
<1>3. /\ SubSeq(s, 1, Len(s) - 1) \in Seq(S)
      /\ Len(SubSeq(s, 1, Len(s) - 1)) = IF 1 <= Len(s) - 1 THEN (Len(s) - 1) - 1 + 1 ELSE 0
      /\ \A i \in 1 .. (Len(s) - 1) - 1 + 1 :
            SubSeq(s, 1, Len(s) - 1)[i] = s[1 + i - 1]
  BY <1>1, <1>2, SubSeqProperties
<1>4. Len(SubSeq(s, 1, Len(s) - 1)) = Len(s) - 1
  <2> DEFINE n == Len(s) - 1
  <2>1. n \in Nat
    BY <1>1
  <2>2. Len(SubSeq(s, 1, n)) = IF 1 <= n THEN n - 1 + 1 ELSE 0
    BY <1>3
  <2> HIDE DEF n
  <2>3. Len(SubSeq(s, 1, n)) = n
    BY <2>1, <2>2
  <2> QED BY <2>3 DEF n
<1>5. \A i \in 1 .. Len(s) - 1 : SubSeq(s, 1, Len(s) - 1)[i] = s[i]
  BY <1>1, <1>3
<1> QED BY <1>1, <1>3, <1>4, <1>5, Zenon DEF Front

\* The innermost call goes on as e: the other calls of the stack stay.
LEMMA ReplaceTop ==
    ASSUME NEW S, NEW s \in Seq(S), s # <<>>, NEW e \in S
    PROVE  /\ Append(Front(s), e) \in Seq(S)
           /\ Len(Append(Front(s), e)) = Len(s)
           /\ \A i \in 1 .. Len(s) :
                 Append(Front(s), e)[i] = IF i = Len(s) THEN e ELSE s[i]
<1>1. /\ Front(s) \in Seq(S)
      /\ Len(s) \in Nat \ {0} /\ Len(Front(s)) = Len(s) - 1
      /\ \A i \in 1 .. Len(s) - 1 : Front(s)[i] = s[i]
  BY PopTop
<1>2. /\ Append(Front(s), e) \in Seq(S)
      /\ Len(Append(Front(s), e)) = Len(s)
      /\ \A i \in 1 .. Len(s) - 1 : Append(Front(s), e)[i] = Front(s)[i]
      /\ Append(Front(s), e)[Len(s)] = e
  BY <1>1, AppendProperties
<1> QED BY <1>1, <1>2

-----------------------------------------------------------------------------
(* The list add_timer keeps.                                               *)

Ascending(s) == \A i, j \in DOMAIN s : i < j => s[i].exp <= s[j].exp

\* 1 .. k has k elements.
LEMMA CardinalityUpTo ==
    ASSUME NEW k \in Nat
    PROVE  Cardinality(1 .. k) = k
<1>1. 1 \in Int /\ k \in Int
  OBVIOUS
<1>2. Cardinality(1 .. k) = IF 1 > k THEN 0 ELSE k - 1 + 1
  BY <1>1, FS_Interval, Zenon
<1> QED BY <1>2

\* Before stops at the first timer that does not expire earlier.
LEMMA BeforeFacts ==
    ASSUME timer_list \in Seq(Timers), NEW exp \in Nat
    PROVE  \E k \in 0 .. Len(timer_list) :
              /\ Before(exp) = k
              /\ \A j \in 1 .. k : timer_list[j].exp < exp
              /\ k < Len(timer_list) => timer_list[k + 1].exp >= exp
<1> DEFINE n == Len(timer_list)
           D == {i \in DOMAIN timer_list : \A j \in 1 .. i : timer_list[j].exp < exp}
           Out == {i \in Nat : i + 1 \notin D}
<1>1. n \in Nat /\ DOMAIN timer_list = 1 .. n
  OBVIOUS
<1>2. n \in Out
  BY <1>1
<1>3. PICK k \in Out : \A i \in Out : ~(<<i, k>> \in OpToRel(<, Nat))
  <2>1. Out \subseteq Nat /\ Out # {}
    BY <1>2
  <2> QED BY <2>1, NatLessThanWellFounded, WFMin
<1>4. \A i \in Nat : i < k => i + 1 \in D
  BY <1>3 DEF OpToRel
<1>5. k \in Nat /\ k + 1 \notin D
  BY <1>3
<1>6. k <= n
  BY <1>1, <1>2, <1>4, <1>5
<1>7. D = 1 .. k
  <2>1. ASSUME NEW i \in 1 .. k PROVE i \in D
    <3>1. i - 1 \in Nat /\ i - 1 < k /\ (i - 1) + 1 = i
      BY <1>5
    <3> QED BY <3>1, <1>4
  <2>2. ASSUME NEW i \in D, i > k PROVE FALSE
    <3>1. i \in 1 .. n /\ k + 1 \in 1 .. n /\ k + 1 <= i
      BY <1>1, <1>5, <2>2
    <3>2. \A j \in 1 .. k + 1 : timer_list[j].exp < exp
      BY <1>1, <1>5, <3>1, <2>2
    <3>3. k + 1 \in D
      BY <1>1, <3>1, <3>2
    <3> QED BY <3>3, <1>5
  <2>3. D \subseteq 1 .. n
    BY <1>1
  <2> QED BY <2>1, <2>2, <2>3, <1>1, <1>5
<1>8. Cardinality(D) = k
  <2>1. k \in Nat
    BY <1>5
  <2>2. Cardinality(1 .. k) = k
    BY <2>1, CardinalityUpTo
  <2> QED BY <2>2, <1>7
<1>9. \A j \in 1 .. k : timer_list[j].exp < exp
  <2> SUFFICES ASSUME NEW j \in 1 .. k PROVE timer_list[j].exp < exp
    OBVIOUS
  <2>1. j \in D /\ j \in 1 .. j
    BY <1>7
  <2> QED BY <2>1
<1>10. ASSUME k < n PROVE timer_list[k + 1].exp >= exp
  <2>1. k + 1 \in DOMAIN timer_list
    BY <1>1, <1>5, <1>10
  <2>2. PICK j \in 1 .. k + 1 : ~(timer_list[j].exp < exp)
    BY <2>1, <1>5
  <2>3. j = k + 1
    BY <1>5, <1>9, <2>2
  <2>4. timer_list[k + 1] \in Timers
    BY <2>1
  <2>5. timer_list[k + 1].exp \in Nat
    BY <2>4 DEF Timers
  <2> QED BY <2>2, <2>3, <2>5
<1>11. Before(exp) = k
  BY <1>8 DEF Before
<1> HIDE DEF D
<1> QED BY <1>1, <1>5, <1>6, <1>9, <1>10, <1>11

\* r is s with e after the first k.
Inserted(s, r, k, e) ==
    /\ Len(r) = Len(s) + 1
    /\ \A i \in 1 .. k : r[i] = s[i]
    /\ r[k + 1] = e
    /\ \A i \in k + 1 .. Len(s) : r[i + 1] = s[i]

\* What InsertAt makes of a list.
LEMMA InsertFacts ==
    ASSUME NEW S, NEW s \in Seq(S), NEW e \in S, NEW k \in Nat, k <= Len(s)
    PROVE  /\ InsertAt(s, k + 1, e) \in Seq(S)
           /\ Inserted(s, InsertAt(s, k + 1, e), k, e)
<1> DEFINE a == SubSeq(s, 1, k)
           b == SubSeq(s, k + 1, Len(s))
<1>1. Len(s) \in Nat /\ k \in Nat /\ (k + 1) - 1 = k
  OBVIOUS
<1>2. a \in Seq(S) /\ Len(a) = k /\ \A i \in 1 .. k : a[i] = s[i]
  BY <1>1
<1>3. b \in Seq(S) /\ Len(b) = Len(s) - k
  BY <1>1
<1>4. \A i \in 1 .. Len(s) - k : b[i] = s[k + i]
  BY <1>1
<1>5. InsertAt(s, k + 1, e) = a \o <<e>> \o b
  BY <1>1 DEF InsertAt
<1> HIDE DEF a, b
<1> DEFINE c == a \o <<e>>
<1>6. c \in Seq(S) /\ Len(c) = k + 1 /\ c[k + 1] = e /\ \A i \in 1 .. k : c[i] = a[i]
  BY <1>1, <1>2
<1>7. InsertAt(s, k + 1, e) = c \o b
  BY <1>5
<1> HIDE DEF c
<1>8. /\ c \o b \in Seq(S) /\ Len(c \o b) = Len(s) + 1
      /\ \A i \in 1 .. k + 1 : (c \o b)[i] = c[i]
  BY <1>1, <1>3, <1>6
<1>9. ASSUME NEW i \in k + 1 .. Len(s) PROVE (c \o b)[i + 1] = s[i]
  <2>1. (i - k) \in 1 .. Len(b) /\ i + 1 = (k + 1) + (i - k)
    BY <1>1, <1>3
  <2>2. i + 1 \in 1 .. Len(c) + Len(b) /\ i + 1 > Len(c) /\ (i + 1) - Len(c) = i - k
    BY <2>1, <1>1, <1>3, <1>6
  <2>3. (c \o b)[i + 1] = b[i - k]
    BY <2>2, <1>3, <1>6
  <2>4. b[i - k] = s[k + (i - k)] /\ k + (i - k) = i
    BY <2>1, <1>1, <1>3, <1>4
  <2> QED BY <2>3, <2>4
<1> HIDE DEF b
<1>10. \A i \in 1 .. k : (c \o b)[i] = s[i]
  BY <1>1, <1>2, <1>6, <1>8
<1>11. (c \o b)[k + 1] = e
  BY <1>1, <1>6, <1>8
<1> QED BY <1>1, <1>7, <1>8, <1>9, <1>10, <1>11 DEF Inserted
-----------------------------------------------------------------------------
(* The inductive invariant.  F stands for frames, c for the running thread. *)

Innermost(F, c) == F[c][Len(F[c])]

\* No call in progress has read a tick later than x,
Young(F, x) == \A t \in Threads : \A i \in 1 .. Len(F[t]) : F[t][i].tick <= x

\* nor begun to add a timer later than x.
AddedBy(F, x) == \A t \in Threads : \A i \in 1 .. Len(F[t]) : F[t][i].at <= x

\* A program's call is its outermost one, and its timer is not due yet
ProgramCall(f) == f.curr.exp > f.at /\ f.curr.kind # "keep_schedule"

Outermost(F) == \A t \in Threads : \A i \in 1 .. Len(F[t]) :
                   F[t][i].pc = "program" => i = 1 /\ ProgramCall(F[t][i])

\* Where a handler has a timer in hand that it is working on
Working == {"unlink", "callback", "insert"}

Idling(F) == \A t \in Threads : \A i \in 1 .. Len(F[t]) : F[t][i].pc \notin Working

\* ... only the innermost call of the running thread has
IdlingBelow(F, c) == \A t \in Threads : \A i \in 1 .. Len(F[t]) :
                        F[t][i].pc \in Working => t = c /\ i = Len(F[t])

\* Calls that are going to set the timer anew
WillReset(f) == f.removed /\ f.pc \notin Finishing

Resets(F) == \E t \in Threads : \E i \in 1 .. Len(F[t]) : WillReset(F[t][i])

Typed ==
    /\ now \in Nat /\ now <= MaxTime /\ cval \in Nat
    /\ timer_list \in Seq(Timers)
    /\ enabled \in BOOLEAN /\ need_schedule \in BOOLEAN
    /\ lost \in BOOLEAN /\ abandoned \in BOOLEAN
    /\ current \in alive /\ alive \subseteq Threads /\ Idle \in alive
    /\ frames \in [Threads -> Seq(Calls)]
    /\ Young(frames, now) /\ AddedBy(frames, now) /\ Outermost(frames)

\* The timer is turned off only once it has expired.
Off == ~enabled => cval <= now

\* A handler works on a timer with the timer off, and what it has read of the
\* list still holds.
InHand ==
    /\ IdlingBelow(frames, current)
    /\ (frames[current] # <<>> /\ Innermost(frames, current).pc \in Working) =>
          LET f == Innermost(frames, current)
          IN  /\ ~enabled
              /\ f.pc = "insert" => Young(frames, f.at)
              /\ f.pc = "unlink" => timer_list # <<>> /\ Head(timer_list) = f.curr

\* The list holds nothing that is due for any of the handlers in progress,
Ahead == timer_list = <<>> \/ Young(frames, Head(timer_list).exp - 1)

\* or the innermost one started last and is the only one at work.
Fresh ==
    LET f == Innermost(frames, current)
    IN  /\ f.pc \in Working \cup {"loop", "added"}
        /\ Young(frames, f.tick)
        /\ ~enabled \/ cval <= now

InOrder ==
    (frames[current] # <<>> /\ Innermost(frames, current).pc # "program") =>
        Ahead \/ Fresh

\* The keep_schedules of a list
NoKeep(L) == \A i \in 1 .. Len(L) : L[i].kind # "keep_schedule"

SingleKeep(L) == \E p \in 1 .. Len(L) :
                    \A i \in 1 .. Len(L) : L[i].kind = "keep_schedule" <=> i = p

HoldsKeep(F, c) ==
    /\ F[c] # <<>> /\ Innermost(F, c).pc \in {"callback", "insert"}
    /\ Innermost(F, c).curr.kind = "keep_schedule"

\* Where the keep_schedule is
OneKeep ==
    IF lost \/ HoldsKeep(frames, current)
    THEN NoKeep(timer_list) /\ ~(lost /\ HoldsKeep(frames, current))
    ELSE SingleKeep(timer_list)

\* Who is going to fire the first timer of the list: a handler that has yet to
\* set the timer, the timer, or the handler that has just started
Armed ==
    (timer_list # <<>> /\ ~abandoned) =>
        \/ Resets(frames)
        \/ enabled /\ cval >= Head(timer_list).exp
        \/ LET f == Innermost(frames, current)
           IN  /\ frames[current] # <<>> /\ f.pc \in {"loop", "unlink"} /\ ~enabled
               /\ Head(timer_list).exp <= f.tick

TimerInv == Typed /\ Off /\ Ascending(timer_list) /\ InHand /\ InOrder /\ OneKeep /\ Armed

-----------------------------------------------------------------------------
(* The steps of the calls in progress and the parts of the invariant about  *)
(* them.                                                                    *)

Stacks == [Threads -> Seq(Calls)]

\* The stacks G are those of F but for the innermost call of c, which is e.
Replaced(F, G, c, e) ==
    /\ \A t \in Threads : Len(G[t]) = Len(F[t])
    /\ \A t \in Threads : \A i \in 1 .. Len(F[t]) :
          G[t][i] = IF t = c /\ i = Len(F[t]) THEN e ELSE F[t][i]

\* The ways the stacks change: the innermost call of c goes on as e or returns,
\* the call e begins, c leaves its calls.
WentOn(F, G, c, e) == G = [F EXCEPT ![c] = Append(Front(@), e)]
Returned(F, G, c) == G = [F EXCEPT ![c] = Front(@)]
Began(F, G, c, e) == G = [F EXCEPT ![c] = Append(@, e)]
Left(F, G, c) == G = [F EXCEPT ![c] = <<>>]

\* Goto replaces the innermost call.
LEMMA GotoReplaces ==
    ASSUME NEW F \in Stacks, NEW c \in Threads, F[c] # <<>>, NEW e \in Calls, NEW G,
           WentOn(F, G, c, e)
    PROVE  /\ G \in Stacks /\ Replaced(F, G, c, e)
           /\ Len(F[c]) \in Nat \ {0} /\ G[c] # <<>> /\ Innermost(G, c) = e
<1>1. F[c] \in Seq(Calls) /\ Len(F[c]) \in Nat \ {0}
  BY DEF Stacks
<1>2. /\ Append(Front(F[c]), e) \in Seq(Calls)
      /\ Len(Append(Front(F[c]), e)) = Len(F[c])
      /\ \A i \in 1 .. Len(F[c]) :
            Append(Front(F[c]), e)[i] = IF i = Len(F[c]) THEN e ELSE F[c][i]
  BY <1>1, ReplaceTop
<1>3. G[c] = Append(Front(F[c]), e) /\ \A t \in Threads \ {c} : G[t] = F[t]
  BY DEF Stacks, WentOn
<1>4. G \in Stacks
  BY <1>2 DEF Stacks, WentOn
<1>5. Replaced(F, G, c, e)
  BY <1>2, <1>3 DEF Replaced
<1>6. Innermost(G, c) = e
  BY <1>1, <1>2, <1>3 DEF Innermost
<1>7. G[c] # <<>>
  BY <1>1, <1>2, <1>3
<1> QED BY <1>1, <1>4, <1>5, <1>6, <1>7

\* What holds of the calls holds when the innermost one goes on.
LEMMA ReplacedKeeps ==
    ASSUME NEW F \in Stacks, NEW G \in Stacks, NEW c \in Threads, NEW e \in Calls,
           Len(F[c]) \in Nat \ {0}, Replaced(F, G, c, e),
           e.tick = Innermost(F, c).tick
    PROVE  /\ \A x : Young(F, x) => Young(G, x)
           /\ \A x : AddedBy(F, x) /\ e.at <= x => AddedBy(G, x)
           /\ Outermost(F) /\ e.pc # "program" => Outermost(G)
           /\ IdlingBelow(F, c) => IdlingBelow(G, c)
           /\ IdlingBelow(F, c) /\ e.pc \notin Working => Idling(G)
           /\ WillReset(e) => Resets(G)
           /\ Resets(F) /\ (WillReset(Innermost(F, c)) => WillReset(e)) => Resets(G)
<1> USE DEF Replaced, Innermost
<1>1. \A x : Young(F, x) => Young(G, x)
  BY DEF Young
<1>2. \A x : AddedBy(F, x) /\ e.at <= x => AddedBy(G, x)
  BY DEF AddedBy
<1>3. Outermost(F) /\ e.pc # "program" => Outermost(G)
  BY DEF Outermost
<1>4. IdlingBelow(F, c) => IdlingBelow(G, c)
  BY DEF IdlingBelow
<1>5. IdlingBelow(F, c) /\ e.pc \notin Working => Idling(G)
  BY DEF IdlingBelow, Idling
<1>6. WillReset(e) => Resets(G)
  <2>1. Len(F[c]) \in 1 .. Len(F[c]) /\ Len(G[c]) = Len(F[c]) /\ G[c][Len(F[c])] = e
    OBVIOUS
  <2> QED BY <2>1 DEF Resets
<1>7. ASSUME Resets(F), WillReset(Innermost(F, c)) => WillReset(e)
      PROVE  Resets(G)
  <2>1. PICK t \in Threads : \E i \in 1 .. Len(F[t]) : WillReset(F[t][i])
    BY <1>7 DEF Resets
  <2>2. PICK i \in 1 .. Len(F[t]) : WillReset(F[t][i])
    BY <2>1
  <2>3. CASE t = c /\ i = Len(F[t])
    BY <2>2, <2>3, <1>6, <1>7
  <2>4. CASE ~(t = c /\ i = Len(F[t]))
    <3>1. G[t][i] = F[t][i] /\ Len(G[t]) = Len(F[t])
      BY <2>4
    <3> QED BY <2>2, <3>1 DEF Resets
  <2> QED BY <2>3, <2>4
<1> QED BY <1>1, <1>2, <1>3, <1>4, <1>5, <1>6, <1>7

\* Return ends the innermost call.
LEMMA ReturnKeeps ==
    ASSUME NEW F \in Stacks, NEW c \in Threads, F[c] # <<>>, NEW G,
           Returned(F, G, c)
    PROVE  /\ G \in Stacks
           /\ \A x : Young(F, x) => Young(G, x)
           /\ \A x : AddedBy(F, x) => AddedBy(G, x)
           /\ Outermost(F) => Outermost(G)
           /\ Idling(F) => Idling(G)
           /\ Resets(F) /\ ~WillReset(Innermost(F, c)) => Resets(G)
           /\ Len(F[c]) = 1 => G[c] = <<>>
<1>1. F[c] \in Seq(Calls)
  BY DEF Stacks
<1>2. /\ Front(F[c]) \in Seq(Calls)
      /\ Len(F[c]) \in Nat \ {0} /\ Len(Front(F[c])) = Len(F[c]) - 1
      /\ \A i \in 1 .. Len(F[c]) - 1 : Front(F[c])[i] = F[c][i]
  BY <1>1, PopTop
<1>3. G[c] = Front(F[c]) /\ \A t \in Threads \ {c} : G[t] = F[t]
  BY DEF Stacks, Returned
<1>4. G \in Stacks
  BY <1>2 DEF Stacks, Returned
<1>5. \A t \in Threads : \A i \in 1 .. Len(G[t]) : i \in 1 .. Len(F[t]) /\ G[t][i] = F[t][i]
  BY <1>2, <1>3
<1>6. /\ \A x : Young(F, x) => Young(G, x)
      /\ \A x : AddedBy(F, x) => AddedBy(G, x)
  BY <1>5 DEF Young, AddedBy
<1>7. /\ Outermost(F) => Outermost(G)
      /\ Idling(F) => Idling(G)
  BY <1>5 DEF Outermost, Idling
<1>8. ASSUME Resets(F), ~WillReset(Innermost(F, c)) PROVE Resets(G)
  <2>1. PICK t \in Threads : \E i \in 1 .. Len(F[t]) : WillReset(F[t][i])
    BY <1>8 DEF Resets
  <2>2. PICK i \in 1 .. Len(F[t]) : WillReset(F[t][i])
    BY <2>1
  <2>3. ~(t = c /\ i = Len(F[t]))
    BY <2>2, <1>8 DEF Innermost
  <2>4. i \in 1 .. Len(G[t]) /\ G[t][i] = F[t][i]
    BY <1>2, <1>3, <2>3
  <2> QED BY <2>2, <2>4 DEF Resets
<1>9. Len(F[c]) = 1 => G[c] = <<>>
  BY <1>2, <1>3
<1> QED BY <1>4, <1>6, <1>7, <1>8, <1>9

\* An interrupt, or a call of add_timer, begins a call.
LEMMA BeginKeeps ==
    ASSUME NEW F \in Stacks, NEW c \in Threads, NEW e \in Calls, NEW G,
           Began(F, G, c, e)
    PROVE  /\ G \in Stacks /\ G[c] # <<>> /\ Innermost(G, c) = e
           /\ \A x : Young(F, x) /\ e.tick <= x => Young(G, x)
           /\ \A x : AddedBy(F, x) /\ e.at <= x => AddedBy(G, x)
           /\ Outermost(F) /\ (e.pc = "program" => F[c] = <<>> /\ ProgramCall(e))
                => Outermost(G)
           /\ Idling(F) /\ e.pc \notin Working => Idling(G)
           /\ Resets(F) => Resets(G)
<1>1. F[c] \in Seq(Calls) /\ Len(F[c]) \in Nat
  BY DEF Stacks
<1>2. /\ Append(F[c], e) \in Seq(Calls)
      /\ Append(F[c], e) # <<>>
      /\ Len(Append(F[c], e)) = Len(F[c]) + 1
      /\ \A i \in 1 .. Len(F[c]) : Append(F[c], e)[i] = F[c][i]
      /\ Append(F[c], e)[Len(F[c]) + 1] = e
  BY <1>1, AppendProperties
<1>3. G[c] = Append(F[c], e) /\ \A t \in Threads \ {c} : G[t] = F[t]
  BY DEF Stacks, Began
<1>4. G \in Stacks
  BY <1>2 DEF Stacks, Began
<1>5. Innermost(G, c) = e /\ G[c] # <<>>
  BY <1>2, <1>3 DEF Innermost
<1>6. \A t \in Threads : \A i \in 1 .. Len(G[t]) :
         \/ i \in 1 .. Len(F[t]) /\ G[t][i] = F[t][i]
         \/ t = c /\ i = Len(F[c]) + 1 /\ G[t][i] = e
  BY <1>1, <1>2, <1>3
<1>7. \A x : Young(F, x) /\ e.tick <= x => Young(G, x)
  BY <1>6 DEF Young
<1>8. \A x : AddedBy(F, x) /\ e.at <= x => AddedBy(G, x)
  BY <1>6 DEF AddedBy
<1>9. ASSUME Outermost(F), e.pc = "program" => F[c] = <<>> /\ ProgramCall(e)
      PROVE  Outermost(G)
  <2>1. F[c] = <<>> => Len(F[c]) + 1 = 1
    OBVIOUS
  <2> QED BY <1>6, <1>9, <2>1 DEF Outermost
<1>10. Idling(F) /\ e.pc \notin Working => Idling(G)
  BY <1>6 DEF Idling
<1>11. \A t \in Threads : \A i \in 1 .. Len(F[t]) : i \in 1 .. Len(G[t]) /\ G[t][i] = F[t][i]
  BY <1>1, <1>2, <1>3
<1>12. Resets(F) => Resets(G)
  BY <1>11 DEF Resets
<1> QED BY <1>4, <1>5, <1>7, <1>8, <1>9, <1>10, <1>12

\* A thread that exits leaves its calls.
LEMMA LeaveKeeps ==
    ASSUME NEW F \in Stacks, NEW c \in Threads, NEW G, Left(F, G, c)
    PROVE  /\ G \in Stacks
           /\ \A x : Young(F, x) => Young(G, x)
           /\ \A x : AddedBy(F, x) => AddedBy(G, x)
           /\ Outermost(F) => Outermost(G)
           /\ Idling(F) => Idling(G)
           /\ Resets(F) /\ (\A i \in 1 .. Len(F[c]) : ~WillReset(F[c][i])) => Resets(G)
<1>1. <<>> \in Seq(Calls) /\ Len(<<>>) = 0
  OBVIOUS
<1>2. G[c] = <<>> /\ \A t \in Threads \ {c} : G[t] = F[t]
  BY DEF Stacks, Left
<1>3. G \in Stacks
  BY <1>1 DEF Stacks, Left
<1>4. \A t \in Threads : \A i \in 1 .. Len(G[t]) : i \in 1 .. Len(F[t]) /\ G[t][i] = F[t][i]
  BY <1>1, <1>2
<1>5. /\ \A x : Young(F, x) => Young(G, x)
      /\ \A x : AddedBy(F, x) => AddedBy(G, x)
  BY <1>4 DEF Young, AddedBy
<1>6. /\ Outermost(F) => Outermost(G)
      /\ Idling(F) => Idling(G)
  BY <1>4 DEF Outermost, Idling
<1>7. ASSUME Resets(F), \A i \in 1 .. Len(F[c]) : ~WillReset(F[c][i]) PROVE Resets(G)
  <2>1. PICK t \in Threads : \E i \in 1 .. Len(F[t]) : WillReset(F[t][i])
    BY <1>7 DEF Resets
  <2>2. t # c
    BY <2>1, <1>7
  <2>3. G[t] = F[t]
    BY <1>2, <2>2
  <2> QED BY <2>1, <2>3 DEF Resets
<1> QED BY <1>3, <1>5, <1>6, <1>7

-----------------------------------------------------------------------------
(* What the steps do to the list.                                          *)

\* add_timer keeps the list in order, and sets the timer when the new timer is
\* the first.
LEMMA AddTimerFacts ==
    ASSUME timer_list \in Seq(Timers), Ascending(timer_list), now \in Nat, cval \in Nat,
           NEW timer \in Timers, NEW at \in Nat, at <= now, timer.exp > at,
           add_timer(timer, at)
    PROVE  /\ timer_list' \in Seq(Timers) /\ Ascending(timer_list') /\ timer_list' # <<>>
           /\ enabled' = TRUE /\ cval' \in Nat
           /\ \/ Head(timer_list') = timer /\ cval' >= timer.exp
              \/ /\ timer_list # <<>> /\ Head(timer_list') = Head(timer_list)
                 /\ cval' = cval
           /\ timer.kind # "keep_schedule" =>
                 /\ NoKeep(timer_list) => NoKeep(timer_list')
                 /\ SingleKeep(timer_list) => SingleKeep(timer_list')
           /\ timer.kind = "keep_schedule" /\ NoKeep(timer_list) => SingleKeep(timer_list')
<1> DEFINE s == timer_list
           r == timer_list'
           n == Len(timer_list)
<1>1. n \in Nat /\ timer.exp \in Nat /\ timer.kind \in Kinds
  BY DEF Timers
<1>2. PICK k \in 0 .. n :
         /\ Before(timer.exp) = k
         /\ \A j \in 1 .. k : s[j].exp < timer.exp
         /\ k < n => s[k + 1].exp >= timer.exp
  BY <1>1, BeforeFacts
<1>3. /\ r = InsertAt(s, k + 1, timer)
      /\ cval' = IF k = 0 THEN now + (timer.exp - at) ELSE cval
      /\ enabled' = TRUE
  BY <1>2 DEF add_timer
<1>4. /\ r \in Seq(Timers) /\ Len(r) = n + 1
      /\ \A i \in 1 .. k : r[i] = s[i]
      /\ r[k + 1] = timer
      /\ \A i \in k + 1 .. n : r[i + 1] = s[i]
  <2>1. s \in Seq(Timers) /\ k \in Nat /\ k <= Len(s)
    OBVIOUS
  <2>2. /\ InsertAt(s, k + 1, timer) \in Seq(Timers)
        /\ Inserted(s, InsertAt(s, k + 1, timer), k, timer)
    BY <2>1, InsertFacts
  <2>3. r \in Seq(Timers) /\ Inserted(s, r, k, timer)
    BY <2>2, <1>3, Zenon
  <2> QED BY <2>3, Zenon DEF Inserted
<1>5. k \in Nat /\ k <= n /\ \A i \in 1 .. n : s[i].exp \in Nat
  <2>1. k \in Nat /\ k <= n
    BY <1>1
  <2>2. \A i \in 1 .. n : s[i] \in Timers
    BY <1>1
  <2>3. \A i \in 1 .. n : s[i].exp \in Nat
    BY <2>2 DEF Timers
  <2> QED BY <2>1, <2>3
<1>6. \A i, j \in 1 .. n : i < j => s[i].exp <= s[j].exp
  BY DEF Ascending
<1>7. r # <<>> /\ Head(r) = r[1] /\ (s # <<>> => Head(s) = s[1] /\ n # 0)
  BY <1>1, <1>4
<1> HIDE DEF s, r, n
<1>8. \A i \in 1 .. n + 1 :
         \/ i \in 1 .. k /\ i \in 1 .. n /\ r[i] = s[i]
         \/ i = k + 1 /\ r[i] = timer
         \/ i - 1 \in k + 1 .. n /\ i - 1 \in 1 .. n /\ r[i] = s[i - 1]
  <2> SUFFICES ASSUME NEW i \in 1 .. n + 1, i \notin 1 .. k, i # k + 1
               PROVE  i - 1 \in k + 1 .. n /\ i - 1 \in 1 .. n /\ r[i] = s[i - 1]
    BY <1>1, <1>4, <1>5
  <2>1. i - 1 \in k + 1 .. n /\ i - 1 \in 1 .. n /\ (i - 1) + 1 = i
    BY <1>1, <1>5
  <2>2. r[(i - 1) + 1] = s[i - 1]
    BY <2>1, <1>4
  <2> QED BY <2>1, <2>2
<1>9. \A i \in 1 .. k : s[i].exp <= timer.exp
  BY <1>1, <1>2, <1>5
<1>10. \A i \in k + 1 .. n : timer.exp <= s[i].exp
  <2> SUFFICES ASSUME NEW i \in k + 1 .. n PROVE timer.exp <= s[i].exp
    OBVIOUS
  <2>1. k < n /\ k + 1 \in 1 .. n /\ i \in 1 .. n /\ k + 1 <= i
    BY <1>1, <1>5
  <2>2. s[k + 1].exp <= s[i].exp
    BY <2>1, <1>5, <1>6
  <2>3. s[k + 1].exp >= timer.exp
    BY <2>1, <1>2
  <2> QED BY <2>1, <2>2, <2>3, <1>1, <1>5
<1>11. ASSUME NEW i \in 1 .. n + 1, NEW j \in 1 .. n + 1, i < j PROVE r[i].exp <= r[j].exp
  <2>1. CASE i \in 1 .. k /\ i \in 1 .. n /\ r[i] = s[i]
    <3>1. CASE j \in 1 .. k /\ j \in 1 .. n /\ r[j] = s[j]
      BY <2>1, <3>1, <1>6, <1>11
    <3>2. CASE j = k + 1 /\ r[j] = timer
      BY <2>1, <3>2, <1>9
    <3>3. CASE j - 1 \in k + 1 .. n /\ j - 1 \in 1 .. n /\ r[j] = s[j - 1]
      <4>1. i < j - 1
        BY <2>1, <3>3, <1>5
      <4> QED BY <2>1, <3>3, <4>1, <1>6
    <3> QED BY <3>1, <3>2, <3>3, <1>8
  <2>2. CASE i = k + 1 /\ r[i] = timer
    <3>1. j - 1 \in k + 1 .. n /\ r[j] = s[j - 1]
      BY <1>5, <1>8, <1>11, <2>2
    <3> QED BY <3>1, <2>2, <1>10
  <2>3. CASE i - 1 \in k + 1 .. n /\ i - 1 \in 1 .. n /\ r[i] = s[i - 1]
    <3>1. j - 1 \in 1 .. n /\ i - 1 < j - 1 /\ r[j] = s[j - 1]
      BY <1>5, <1>8, <1>11, <2>3
    <3> QED BY <3>1, <2>3, <1>6
  <2> QED BY <2>1, <2>2, <2>3, <1>8
<1>12. Ascending(r)
  <2>1. DOMAIN r = 1 .. n + 1
    BY <1>4
  <2> QED BY <2>1, <1>11 DEF Ascending
<1>13. cval' \in Nat
  BY <1>1, <1>3
<1>14. \/ Head(r) = timer /\ cval' >= timer.exp
       \/ s # <<>> /\ Head(r) = Head(s) /\ cval' = cval
  <2>1. CASE k = 0
    BY <2>1, <1>1, <1>3, <1>4, <1>7
  <2>2. CASE k # 0
    <3>1. 1 \in 1 .. k /\ n # 0
      BY <2>2, <1>1, <1>5
    <3>2. s # <<>>
      BY <3>1 DEF s, n
    <3> QED BY <2>2, <3>1, <3>2, <1>3, <1>4, <1>7
  <2> QED BY <2>1, <2>2
<1>15. ASSUME timer.kind # "keep_schedule", NoKeep(s) PROVE NoKeep(r)
  <2>1. \A i \in 1 .. n : s[i].kind # "keep_schedule"
    BY <1>15 DEF NoKeep, n, s
  <2>2. \A i \in 1 .. n + 1 : r[i].kind # "keep_schedule"
    BY <2>1, <1>8, <1>15
  <2> QED BY <2>2, <1>4 DEF NoKeep
<1>16. ASSUME timer.kind # "keep_schedule", SingleKeep(s) PROVE SingleKeep(r)
  <2>1. PICK p \in 1 .. n : \A i \in 1 .. n : s[i].kind = "keep_schedule" <=> i = p
    BY <1>16 DEF SingleKeep, n, s
  <2>2. CASE p \in 1 .. k
    <3>1. p \in 1 .. n + 1
      BY <1>1
    <3>2. ASSUME NEW i \in 1 .. n + 1 PROVE r[i].kind = "keep_schedule" <=> i = p
      BY <2>1, <2>2, <1>5, <1>8, <1>16
    <3> QED BY <3>1, <3>2, <1>4 DEF SingleKeep
  <2>3. CASE p \notin 1 .. k
    <3>1. p + 1 \in 1 .. n + 1 /\ p > k
      BY <2>3, <1>1, <1>5
    <3>2. ASSUME NEW i \in 1 .. n + 1 PROVE r[i].kind = "keep_schedule" <=> i = p + 1
      BY <2>1, <3>1, <1>5, <1>8, <1>16
    <3> QED BY <3>1, <3>2, <1>4 DEF SingleKeep
  <2> QED BY <2>2, <2>3
<1>17. ASSUME timer.kind = "keep_schedule", NoKeep(s) PROVE SingleKeep(r)
  <2>1. k + 1 \in 1 .. n + 1
    BY <1>1, <1>5
  <2>2. \A i \in 1 .. n : s[i].kind # "keep_schedule"
    BY <1>17 DEF NoKeep, n, s
  <2>3. ASSUME NEW i \in 1 .. n + 1 PROVE r[i].kind = "keep_schedule" <=> i = k + 1
    BY <2>2, <1>1, <1>5, <1>8, <1>17
  <2> QED BY <2>1, <2>3, <1>4 DEF SingleKeep
<1> QED BY <1>3, <1>4, <1>7, <1>12, <1>13, <1>14, <1>15, <1>16, <1>17 DEF s, r

\* Unlinking the first timer.
LEMMA TailFacts ==
    ASSUME NEW s \in Seq(Timers), s # <<>>, Ascending(s)
    PROVE  /\ Tail(s) \in Seq(Timers) /\ Ascending(Tail(s))
           /\ Head(s) \in Timers
           /\ Tail(s) # <<>> => Head(s).exp <= Head(Tail(s)).exp
           /\ NoKeep(s) => NoKeep(Tail(s)) /\ Head(s).kind # "keep_schedule"
           /\ SingleKeep(s) => IF Head(s).kind = "keep_schedule" THEN NoKeep(Tail(s))
                               ELSE SingleKeep(Tail(s))
<1> DEFINE n == Len(s)
           r == Tail(s)
<1>1. /\ n \in Nat \ {0} /\ r \in Seq(Timers) /\ Len(r) = n - 1
      /\ \A i \in 1 .. n - 1 : r[i] = s[i + 1]
      /\ Head(s) = s[1] /\ Head(s) \in Timers
  OBVIOUS
<1>2. r # <<>> => Head(r) = r[1] /\ n - 1 # 0
  BY <1>1
<1>3. \A i, j \in 1 .. n : i < j => s[i].exp <= s[j].exp
  BY DEF Ascending
<1>4. DOMAIN r = 1 .. n - 1
  BY <1>1
<1> HIDE DEF n, r
<1>5. ASSUME NEW i \in 1 .. n - 1, NEW j \in 1 .. n - 1, i < j PROVE r[i].exp <= r[j].exp
  <2>1. i + 1 \in 1 .. n /\ j + 1 \in 1 .. n /\ i + 1 < j + 1
    BY <1>1, <1>5
  <2>2. s[i + 1].exp <= s[j + 1].exp
    BY <2>1, <1>3
  <2> QED BY <2>2, <1>1
<1>6. Ascending(r)
  BY <1>4, <1>5 DEF Ascending
<1>7. r # <<>> => Head(s).exp <= Head(r).exp
  <2> SUFFICES ASSUME r # <<>> PROVE s[1].exp <= r[1].exp
    BY <1>1, <1>2
  <2>1. r[1] = s[1 + 1] /\ 1 + 1 \in 1 .. n /\ 1 \in 1 .. n
    BY <1>1, <1>2
  <2> QED BY <2>1, <1>3
<1>8. ASSUME NoKeep(s) PROVE NoKeep(r) /\ Head(s).kind # "keep_schedule"
  <2>1. \A i \in 1 .. n : s[i].kind # "keep_schedule"
    BY <1>8 DEF NoKeep, n
  <2>2. Head(s).kind # "keep_schedule"
    BY <1>1, <2>1
  <2> QED BY <1>1, <2>1, <2>2 DEF NoKeep
<1>9. ASSUME SingleKeep(s)
      PROVE  IF Head(s).kind = "keep_schedule" THEN NoKeep(r) ELSE SingleKeep(r)
  <2>1. PICK p \in 1 .. n : \A i \in 1 .. n : s[i].kind = "keep_schedule" <=> i = p
    BY <1>9 DEF SingleKeep, n
  <2>2. \A i \in 1 .. n - 1 : r[i].kind = "keep_schedule" <=> i + 1 = p
    BY <1>1, <2>1
  <2>3. CASE p = 1
    <3>1. Head(s).kind = "keep_schedule"
      BY <1>1, <2>1, <2>3
    <3>2. NoKeep(r)
      BY <1>1, <2>2, <2>3 DEF NoKeep
    <3> QED BY <3>1, <3>2
  <2>4. CASE p # 1
    <3>1. Head(s).kind # "keep_schedule"
      BY <1>1, <2>1, <2>4
    <3>2. p - 1 \in 1 .. n - 1 /\ \A i \in 1 .. n - 1 : i + 1 = p <=> i = p - 1
      BY <1>1, <2>4
    <3>3. \A i \in 1 .. n - 1 : r[i].kind = "keep_schedule" <=> i = p - 1
      BY <2>2, <3>2
    <3> DEFINE q == p - 1
    <3>4. q \in 1 .. Len(r) /\ \A i \in 1 .. Len(r) : r[i].kind = "keep_schedule" <=> i = q
      BY <1>1, <3>2, <3>3
    <3> HIDE DEF q
    <3>5. SingleKeep(r)
      BY <3>4 DEF SingleKeep
    <3> QED BY <3>1, <3>5
  <2> QED BY <2>3, <2>4
<1> QED BY <1>1, <1>6, <1>7, <1>8, <1>9 DEF r

-----------------------------------------------------------------------------
(* The inductive step.                                                     *)

\* The innermost call of the running thread.
LEMMA TopFacts ==
    ASSUME Typed, frames[current] # <<>>
    PROVE  /\ current \in Threads /\ frames \in Stacks
           /\ Innermost(frames, current) = Top /\ Top \in Calls
           /\ Top.tick \in Nat /\ Top.at \in Nat /\ Top.removed \in BOOLEAN
           /\ Top.curr \in Timers /\ Top.curr.exp \in Nat
           /\ Top.tick <= now /\ Top.at <= now
           /\ Top.pc = "program" => Len(frames[current]) = 1 /\ ProgramCall(Top)
<1>1. current \in Threads /\ frames \in Stacks
  BY DEF Typed, Stacks
<1>2. frames[current] \in Seq(Calls) /\ Len(frames[current]) \in 1 .. Len(frames[current])
  BY <1>1 DEF Stacks
<1>3. Innermost(frames, current) = Top /\ Top = frames[current][Len(frames[current])]
  BY DEF Innermost, Top, Last
<1>4. Top \in Calls
  BY <1>2, <1>3
<1>5. Top.tick <= now /\ Top.at <= now
  BY <1>1, <1>2, <1>3 DEF Typed, Young, AddedBy
<1>6. Top.pc = "program" => Len(frames[current]) = 1 /\ ProgramCall(Top)
  BY <1>1, <1>2, <1>3 DEF Typed, Outermost
<1> QED BY <1>1, <1>3, <1>4, <1>5, <1>6 DEF Calls, Timers

\* It goes on as e.
LEMMA GoesOn ==
    ASSUME Typed, frames[current] # <<>>, NEW e \in Calls, Goto(e), now' = now,
           e.tick = Top.tick, e.at <= now, e.pc # "program"
    PROVE  /\ frames' \in [Threads -> Seq(Calls)] /\ frames'[current] # <<>>
           /\ Innermost(frames', current) = e
           /\ Young(frames', now) /\ AddedBy(frames', now) /\ Outermost(frames')
           /\ \A x : Young(frames, x) => Young(frames', x)
           /\ IdlingBelow(frames, current) => IdlingBelow(frames', current)
           /\ IdlingBelow(frames, current) /\ e.pc \notin Working => Idling(frames')
           /\ WillReset(e) => Resets(frames')
           /\ Resets(frames) /\ (WillReset(Top) => WillReset(e)) => Resets(frames')
<1>1. current \in Threads /\ frames \in Stacks /\ Innermost(frames, current) = Top
  BY TopFacts
<1>2. WentOn(frames, frames', current, e)
  BY DEF Goto, WentOn
<1>3. /\ frames' \in Stacks /\ Replaced(frames, frames', current, e)
      /\ Len(frames[current]) \in Nat \ {0} /\ frames'[current] # <<>>
      /\ Innermost(frames', current) = e
  BY <1>1, <1>2, GotoReplaces
<1>4. /\ \A x : Young(frames, x) => Young(frames', x)
      /\ \A x : AddedBy(frames, x) /\ e.at <= x => AddedBy(frames', x)
      /\ Outermost(frames) /\ e.pc # "program" => Outermost(frames')
      /\ IdlingBelow(frames, current) => IdlingBelow(frames', current)
      /\ IdlingBelow(frames, current) /\ e.pc \notin Working => Idling(frames')
      /\ WillReset(e) => Resets(frames')
      /\ Resets(frames) /\ (WillReset(Innermost(frames, current)) => WillReset(e))
            => Resets(frames')
  BY <1>1, <1>3, ReplacedKeeps
<1>5. Young(frames', now) /\ AddedBy(frames', now) /\ Outermost(frames')
  BY <1>4 DEF Typed
<1>6. frames' \in [Threads -> Seq(Calls)]
  BY <1>3 DEF Stacks
<1> QED BY <1>1, <1>3, <1>4, <1>5, <1>6

\* With no timer in hand anywhere, it does not matter who runs.
LEMMA IdlingFacts ==
    ASSUME NEW F \in Stacks, NEW c \in Threads
    PROVE  /\ Idling(F) => IdlingBelow(F, c)
           /\ Idling(F) /\ F[c] # <<>> => Innermost(F, c).pc \notin Working
           /\ IdlingBelow(F, c) /\ (F[c] = <<>> \/ Innermost(F, c).pc \notin Working) => Idling(F)
<1>1. F[c] \in Seq(Calls) /\ (F[c] # <<>> => Len(F[c]) \in 1 .. Len(F[c]))
  BY DEF Stacks
<1>2. Idling(F) => IdlingBelow(F, c)
  BY DEF Idling, IdlingBelow
<1>3. Idling(F) /\ F[c] # <<>> => Innermost(F, c).pc \notin Working
  BY <1>1 DEF Idling, Innermost
<1>4. F[c] = <<>> => 1 .. Len(F[c]) = {}
  OBVIOUS
<1>5. ASSUME IdlingBelow(F, c), F[c] = <<>> \/ Innermost(F, c).pc \notin Working
      PROVE  Idling(F)
  BY <1>4, <1>5 DEF Idling, IdlingBelow, Innermost
<1> QED BY <1>2, <1>3, <1>5

\* The first timer of the list.
LEMMA HeadFacts ==
    ASSUME Typed, timer_list # <<>>
    PROVE  Head(timer_list) \in Timers /\ Head(timer_list).exp \in Nat
<1>1. Head(timer_list) \in Timers
  BY DEF Typed
<1> QED BY <1>1 DEF Timers

\* Calls that have read no tick later than x have read none later than y.
LEMMA YoungerThan ==
    ASSUME Typed, NEW x \in Int, NEW y \in Int, x <= y, Young(frames, x)
    PROVE  Young(frames, y)
<1> SUFFICES ASSUME NEW t \in Threads, NEW i \in 1 .. Len(frames[t])
             PROVE  frames[t][i].tick <= y
  BY DEF Young
<1>1. frames[t] \in Seq(Calls)
  BY DEF Typed
<1>2. frames[t][i] \in Calls
  BY <1>1
<1>3. frames[t][i].tick \in Nat /\ frames[t][i].tick <= x
  BY <1>2 DEF Calls, Young
<1> QED BY <1>3

\* A list with nothing due for x has its first timer after x.
LEMMA NothingDue ==
    ASSUME Typed, timer_list # <<>>, frames[current] # <<>>, Ahead
    PROVE  Head(timer_list).exp > Top.tick
<1>1. Head(timer_list).exp \in Nat
  BY HeadFacts
<1>2. Young(frames, Head(timer_list).exp - 1)
  BY DEF Ahead
<1>3. /\ current \in Threads /\ frames \in Stacks
      /\ Innermost(frames, current) = Top /\ Top.tick \in Nat
  BY TopFacts
<1>4. frames[current] \in Seq(Calls)
  BY <1>3 DEF Stacks
<1>5. Len(frames[current]) \in 1 .. Len(frames[current])
  BY <1>4
<1>6. Top.tick <= Head(timer_list).exp - 1
  BY <1>2, <1>3, <1>5 DEF Young, Innermost
<1> QED BY <1>1, <1>3, <1>6

\* What InHand, InOrder, OneKeep and Armed ask of the call e that the innermost
\* one goes on as.
InHandWith(e) ==
    e.pc \in Working => /\ ~enabled'
                        /\ e.pc = "insert" => Young(frames, e.at)
                        /\ e.pc = "unlink" => /\ timer_list' # <<>>
                                              /\ Head(timer_list') = e.curr

InOrderWith(e) ==
    \/ timer_list' = <<>>
    \/ Young(frames, Head(timer_list').exp - 1)
    \/ /\ e.pc \in Working \cup {"loop", "added"}
       /\ Young(frames, e.tick)
       /\ ~enabled' \/ cval' <= now

HoldingKeep(e) == e.pc \in {"callback", "insert"} /\ e.curr.kind = "keep_schedule"

OneKeepWith(e) ==
    IF lost' \/ HoldingKeep(e)
    THEN NoKeep(timer_list') /\ ~(lost' /\ HoldingKeep(e))
    ELSE SingleKeep(timer_list')

ArmedWith(e) ==
    (timer_list' # <<>> /\ ~abandoned) =>
        \/ WillReset(e)
        \/ Resets(frames) /\ ~WillReset(Top)
        \/ enabled' /\ cval' >= Head(timer_list').exp
        \/ e.pc \in {"loop", "unlink"} /\ ~enabled' /\ Head(timer_list').exp <= e.tick

\* The invariant holds when the innermost call goes on as such a call.
LEMMA GoesOnInv ==
    ASSUME TimerInv, frames[current] # <<>>, NEW e \in Calls, Goto(e),
           e.tick = Top.tick, e.at <= now, e.pc # "program",
           UNCHANGED <<now, current, alive, abandoned>>,
           timer_list' \in Seq(Timers), Ascending(timer_list'), cval' \in Nat,
           enabled' \in BOOLEAN, need_schedule' \in BOOLEAN, lost' \in BOOLEAN,
           ~enabled' => cval' <= now,
           InHandWith(e), InOrderWith(e), OneKeepWith(e), ArmedWith(e)
    PROVE  TimerInv'
<1>1. Typed
  BY DEF TimerInv
<1>2. now' = now /\ current' = current /\ alive' = alive /\ abandoned' = abandoned
  OBVIOUS
<1>3. /\ frames' \in [Threads -> Seq(Calls)] /\ frames'[current] # <<>>
      /\ Innermost(frames', current) = e
      /\ Young(frames', now) /\ AddedBy(frames', now) /\ Outermost(frames')
      /\ \A x : Young(frames, x) => Young(frames', x)
      /\ IdlingBelow(frames, current) => IdlingBelow(frames', current)
      /\ WillReset(e) => Resets(frames')
      /\ Resets(frames) /\ (WillReset(Top) => WillReset(e)) => Resets(frames')
  BY <1>1, <1>2, GoesOn
<1>4. Typed'
  BY <1>1, <1>2, <1>3 DEF Typed
<1>5. Off'
  BY <1>2 DEF Off
<1>6. InHand'
  BY <1>2, <1>3 DEF TimerInv, InHand, InHandWith
<1>7. InOrder'
  BY <1>2, <1>3 DEF InOrder, InOrderWith, Ahead, Fresh
<1>8. OneKeep'
  BY <1>2, <1>3 DEF OneKeep, OneKeepWith, HoldsKeep, HoldingKeep
<1>9. Armed'
  BY <1>2, <1>3 DEF Armed, ArmedWith
<1> QED BY <1>4, <1>5, <1>6, <1>7, <1>8, <1>9 DEF TimerInv

\* What the invariant says when the innermost call of the running thread is a
\* handler's.
LEMMA InvAt ==
    ASSUME TimerInv, NEW pc \in Handling, At(pc)
    PROVE  /\ Typed /\ frames[current] # <<>> /\ Top.pc = pc
           /\ ~(enabled /\ cval <= now) /\ (~enabled => cval <= now)
           /\ IdlingBelow(frames, current)
           /\ Ascending(timer_list)
           /\ pc \in Working => ~enabled
           /\ pc = "insert" => Young(frames, Top.at)
           /\ pc = "unlink" => timer_list # <<>> /\ Head(timer_list) = Top.curr
           /\ \/ Ahead
              \/ /\ pc \in Working \cup {"loop", "added"}
                 /\ ~enabled /\ Young(frames, Top.tick)
           /\ IF lost \/ HoldingKeep(Top)
              THEN NoKeep(timer_list) /\ ~(lost /\ HoldingKeep(Top))
              ELSE SingleKeep(timer_list)
           /\ (timer_list # <<>> /\ ~abandoned) =>
                 \/ Resets(frames)
                 \/ enabled /\ cval >= Head(timer_list).exp
                 \/ pc \in {"loop", "unlink"} /\ ~enabled /\ Head(timer_list).exp <= Top.tick
<1>1. Typed /\ frames[current] # <<>> /\ Top.pc = pc /\ ~(enabled /\ cval <= now)
  BY DEF TimerInv, At
<1>2. Innermost(frames, current) = Top
  BY <1>1, TopFacts
<1>3. ~enabled => cval <= now
  BY DEF TimerInv, Off
<1>4. /\ IdlingBelow(frames, current)
      /\ pc \in Working => ~enabled
      /\ pc = "insert" => Young(frames, Top.at)
      /\ pc = "unlink" => timer_list # <<>> /\ Head(timer_list) = Top.curr
  BY <1>1, <1>2 DEF TimerInv, InHand, Working
<1>5. pc # "program"
  BY DEF Handling
<1>6. \/ Ahead
      \/ /\ pc \in Working \cup {"loop", "added"}
         /\ ~enabled /\ Young(frames, Top.tick)
  BY <1>1, <1>2, <1>5 DEF TimerInv, InOrder, Fresh, Typed
<1>7. IF lost \/ HoldingKeep(Top)
      THEN NoKeep(timer_list) /\ ~(lost /\ HoldingKeep(Top))
      ELSE SingleKeep(timer_list)
  BY <1>1, <1>2 DEF TimerInv, OneKeep, HoldsKeep, HoldingKeep
<1>8. (timer_list # <<>> /\ ~abandoned) =>
         \/ Resets(frames)
         \/ enabled /\ cval >= Head(timer_list).exp
         \/ pc \in {"loop", "unlink"} /\ ~enabled /\ Head(timer_list).exp <= Top.tick
  BY <1>1, <1>2 DEF TimerInv, Armed
<1> QED BY <1>1, <1>3, <1>4, <1>6, <1>7, <1>8 DEF TimerInv

\* The handler looks at the list: a due timer is next, or it goes on to the reset.
LEMMA LoopStep ==
    ASSUME TimerInv, Loop
    PROVE  TimerInv'
<1>1. /\ At("loop")
      /\ UNCHANGED <<now, timer_list, enabled, cval, need_schedule, current, alive,
                     lost, abandoned>>
  BY DEF Loop
<1>2. "loop" \in Handling
  BY DEF Handling
<1>3. /\ Typed /\ frames[current] # <<>> /\ Top.pc = "loop"
      /\ ~(enabled /\ cval <= now) /\ (~enabled => cval <= now)
      /\ Ascending(timer_list)
      /\ Ahead \/ (~enabled /\ Young(frames, Top.tick))
      /\ IF lost THEN NoKeep(timer_list) ELSE SingleKeep(timer_list)
      /\ (timer_list # <<>> /\ ~abandoned) =>
            \/ Resets(frames)
            \/ enabled /\ cval >= Head(timer_list).exp
            \/ ~enabled /\ Head(timer_list).exp <= Top.tick
  BY <1>1, <1>2, InvAt DEF HoldingKeep
<1>4. /\ Top \in Calls /\ Top.tick \in Nat /\ Top.at <= now
      /\ Top.tick <= now
  BY <1>3, TopFacts
<1>5. /\ enabled \in BOOLEAN /\ need_schedule \in BOOLEAN /\ lost \in BOOLEAN
      /\ timer_list \in Seq(Timers) /\ cval \in Nat
  BY <1>3 DEF Typed
<1>6. CASE timer_list # <<>> /\ Head(timer_list).exp <= Top.tick
  <2> DEFINE e == [Top EXCEPT !.pc = "unlink", !.curr = Head(timer_list)]
  <2>1. Head(timer_list) \in Timers /\ Head(timer_list).exp \in Nat
    BY <1>3, <1>6, HeadFacts
  <2>2. Goto(e)
    BY <1>6 DEF Loop
  <2>3. /\ e \in Calls /\ e.pc = "unlink" /\ e.curr = Head(timer_list) /\ e.tick = Top.tick
        /\ e.at = Top.at
    BY <1>4, <2>1 DEF Calls, Handling
  <2> HIDE DEF e
  <2>4. ~enabled /\ Young(frames, Top.tick)
    <3>1. ~Ahead
      BY <1>3, <1>4, <1>6, <2>1, NothingDue
    <3> QED BY <3>1, <1>3
  <2>5. InHandWith(e)
    BY <1>1, <1>6, <2>3, <2>4 DEF InHandWith
  <2>6. InOrderWith(e)
    BY <1>1, <2>3, <2>4 DEF InOrderWith, Working
  <2>7. OneKeepWith(e)
    BY <1>1, <1>3, <2>3 DEF OneKeepWith, HoldingKeep
  <2>8. ArmedWith(e)
    BY <1>1, <1>6, <2>3, <2>4 DEF ArmedWith
  <2> QED BY <1>1, <1>3, <1>4, <1>5, <2>2, <2>3, <2>5, <2>6, <2>7, <2>8, GoesOnInv
<1>7. CASE ~(timer_list # <<>> /\ Head(timer_list).exp <= Top.tick)
  <2> DEFINE e == [Top EXCEPT !.pc = "reset"]
  <2>1. Goto(e)
    BY <1>7 DEF Loop
  <2>2. /\ e \in Calls /\ e.pc = "reset" /\ e.curr = Top.curr /\ e.tick = Top.tick
        /\ e.at = Top.at /\ e.removed = Top.removed
    BY <1>4 DEF Calls, Handling
  <2> HIDE DEF e
  <2>3. Ahead
    <3> SUFFICES ASSUME timer_list # <<>>, Young(frames, Top.tick)
                 PROVE  Young(frames, Head(timer_list).exp - 1)
      BY <1>3 DEF Ahead
    <3>1. Head(timer_list).exp \in Nat
      BY <1>3, HeadFacts
    <3>2. Top.tick <= Head(timer_list).exp - 1
      BY <3>1, <1>4, <1>7
    <3> QED BY <3>1, <3>2, <1>3, <1>4, YoungerThan
  <2>4. InHandWith(e)
    BY <2>2 DEF InHandWith, Working
  <2>5. InOrderWith(e)
    BY <1>1, <2>3 DEF InOrderWith, Ahead
  <2>6. OneKeepWith(e)
    BY <1>1, <1>3, <2>2 DEF OneKeepWith, HoldingKeep
  <2>7. ArmedWith(e)
    BY <1>1, <1>3, <1>7, <2>2 DEF ArmedWith, WillReset, Finishing
  <2> QED BY <1>1, <1>3, <1>4, <1>5, <2>1, <2>2, <2>4, <2>5, <2>6, <2>7, GoesOnInv
<1> QED BY <1>6, <1>7

\* The handler takes the head of the list, which still is what it read.
LEMMA UnlinkStep ==
    ASSUME TimerInv, Unlink
    PROVE  TimerInv'
<1>1. At("unlink") /\ UNCHANGED <<now, enabled, cval, need_schedule, current, alive, lost, abandoned>>
  BY DEF Unlink
<1>2. "unlink" \in Handling /\ "unlink" \in Working
  BY DEF Handling, Working
<1>3. /\ Typed /\ frames[current] # <<>> /\ Top.pc = "unlink"
      /\ ~(enabled /\ cval <= now) /\ (~enabled => cval <= now)
      /\ IdlingBelow(frames, current) /\ Ascending(timer_list)
      /\ ~enabled
      /\ Ahead \/ Young(frames, Top.tick)
      /\ timer_list # <<>> /\ Head(timer_list) = Top.curr
      /\ IF lost \/ HoldingKeep(Top)
         THEN NoKeep(timer_list) /\ ~(lost /\ HoldingKeep(Top))
         ELSE SingleKeep(timer_list)
      /\ (timer_list # <<>> /\ ~abandoned) =>
            \/ Resets(frames)
            \/ enabled /\ cval >= Head(timer_list).exp
            \/ "unlink" \in {"loop", "unlink"} /\ ~enabled /\ Head(timer_list).exp <= Top.tick
  BY <1>1, <1>2, InvAt
<1>4. /\ Top \in Calls /\ Top.tick \in Nat /\ Top.at \in Nat /\ Top.curr \in Timers
      /\ Top.curr.exp \in Nat /\ Top.removed \in BOOLEAN
      /\ Top.tick <= now /\ Top.at <= now
  BY <1>3, TopFacts
<1>5. /\ enabled \in BOOLEAN /\ need_schedule \in BOOLEAN /\ lost \in BOOLEAN
      /\ timer_list \in Seq(Timers) /\ cval \in Nat /\ now \in Nat /\ Young(frames, now)
  BY <1>3 DEF Typed
<1> DEFINE e == [Top EXCEPT !.pc = "callback", !.removed = TRUE]
<1>6. Goto(e)
  BY DEF Unlink
<1>7. /\ e \in Calls /\ e.pc = "callback" /\ e.curr = Top.curr /\ e.tick = Top.tick
      /\ e.at = Top.at /\ e.removed
  BY <1>4 DEF Calls, Handling
<1> HIDE DEF e
<1>8. timer_list' = Tail(timer_list)
  <2>1. 1 \in 1 .. Len(timer_list) /\ timer_list[1] = Head(timer_list)
    BY <1>3, <1>5
  <2>2. Contains(timer_list, Top.curr)
    BY <2>1, <1>3 DEF Contains
  <2> QED BY <2>2 DEF Unlink
<1>9. /\ timer_list' \in Seq(Timers) /\ Ascending(timer_list')
      /\ timer_list' # <<>> => Head(timer_list).exp <= Head(timer_list').exp
      /\ NoKeep(timer_list) => NoKeep(timer_list') /\ Top.curr.kind # "keep_schedule"
      /\ SingleKeep(timer_list) => IF Top.curr.kind = "keep_schedule" THEN NoKeep(timer_list')
                                   ELSE SingleKeep(timer_list')
  BY <1>3, <1>5, <1>8, TailFacts
<1>10. InHandWith(e)
  BY <1>1, <1>3, <1>7 DEF InHandWith
<1>11. InOrderWith(e)
  <2>1. CASE Young(frames, Top.tick)
    BY <2>1, <1>1, <1>3, <1>7 DEF InOrderWith, Working
  <2>2. CASE Ahead /\ timer_list' # <<>>
    <3>1. Head(timer_list).exp \in Nat /\ Young(frames, Head(timer_list).exp - 1)
      BY <2>2, <1>3, <1>4 DEF Ahead
    <3>2. Head(timer_list') \in Timers
      BY <2>2, <1>9
    <3>3. Head(timer_list').exp \in Nat
      BY <3>2 DEF Timers
    <3>4. Head(timer_list).exp - 1 <= Head(timer_list').exp - 1
      BY <3>1, <3>3, <2>2, <1>9
    <3>5. Young(frames, Head(timer_list').exp - 1)
      BY <3>1, <3>3, <3>4, <1>3, YoungerThan
    <3> QED BY <3>5 DEF InOrderWith
  <2>3. CASE timer_list' = <<>>
    BY <2>3 DEF InOrderWith
  <2> QED BY <2>1, <2>2, <2>3, <1>3
<1>12. OneKeepWith(e)
  BY <1>1, <1>3, <1>7, <1>9 DEF OneKeepWith, HoldingKeep
<1>13. ArmedWith(e)
  BY <1>7 DEF ArmedWith, WillReset, Finishing
<1> QED BY <1>1, <1>3, <1>4, <1>5, <1>6, <1>7, <1>9, <1>10, <1>11, <1>12, <1>13, GoesOnInv

\* The callback adds its timer again, or is a message and does not.
LEMMA CallbackStep ==
    ASSUME TimerInv, Callback
    PROVE  TimerInv'
<1>1. At("callback") /\ UNCHANGED <<now, timer_list, enabled, cval, need_schedule, current, alive, lost, abandoned>>
  BY DEF Callback
<1>2. "callback" \in Handling /\ "callback" \in Working
  BY DEF Handling, Working
<1>3. /\ Typed /\ frames[current] # <<>> /\ Top.pc = "callback"
      /\ ~(enabled /\ cval <= now) /\ (~enabled => cval <= now)
      /\ IdlingBelow(frames, current) /\ Ascending(timer_list)
      /\ ~enabled
      /\ Ahead \/ Young(frames, Top.tick)
      /\ IF lost \/ HoldingKeep(Top)
         THEN NoKeep(timer_list) /\ ~(lost /\ HoldingKeep(Top))
         ELSE SingleKeep(timer_list)
      /\ (timer_list # <<>> /\ ~abandoned) =>
            \/ Resets(frames)
            \/ enabled /\ cval >= Head(timer_list).exp
            \/ "callback" \in {"loop", "unlink"} /\ ~enabled /\ Head(timer_list).exp <= Top.tick
  BY <1>1, <1>2, InvAt
<1>4. /\ Top \in Calls /\ Top.tick \in Nat /\ Top.at \in Nat /\ Top.curr \in Timers
      /\ Top.curr.exp \in Nat /\ Top.removed \in BOOLEAN
      /\ Top.tick <= now /\ Top.at <= now
  BY <1>3, TopFacts
<1>5. /\ enabled \in BOOLEAN /\ need_schedule \in BOOLEAN /\ lost \in BOOLEAN
      /\ timer_list \in Seq(Timers) /\ cval \in Nat /\ now \in Nat /\ Young(frames, now)
  BY <1>3 DEF Typed
<1>6. ASSUME NEW e \in Calls, Goto(e), e.tick = Top.tick, e.at <= now,
             e.curr = Top.curr, e.removed = Top.removed,
             \/ e.pc = "loop" /\ Top.curr.kind = "print_msg"
             \/ e.pc = "insert" /\ e.at = now
      PROVE  TimerInv'
  <2>1. InHandWith(e)
    BY <1>1, <1>3, <1>5, <1>6 DEF InHandWith, Working
  <2>2. InOrderWith(e)
    BY <1>1, <1>3, <1>6 DEF InOrderWith, Ahead, Working
  <2>3. OneKeepWith(e)
    BY <1>1, <1>3, <1>6 DEF OneKeepWith, HoldingKeep
  <2>4. ArmedWith(e)
    BY <1>1, <1>3, <1>6 DEF ArmedWith, WillReset, Finishing
  <2> QED BY <1>1, <1>3, <1>5, <1>6, <2>1, <2>2, <2>3, <2>4, GoesOnInv
<1>7. CASE Top.curr.kind = "print_msg"
  <2> DEFINE e == [Top EXCEPT !.pc = "loop"]
  <2>1. Goto(e)
    BY <1>7 DEF Callback
  <2>2. /\ e \in Calls /\ e.pc = "loop" /\ e.curr = Top.curr /\ e.tick = Top.tick
        /\ e.at = Top.at /\ e.removed = Top.removed
    BY <1>4 DEF Calls, Handling
  <2> HIDE DEF e
  <2> QED BY <1>4, <1>6, <1>7, <2>1, <2>2
<1>8. CASE Top.curr.kind # "print_msg"
  <2> DEFINE e == [Top EXCEPT !.pc = "insert", !.at = now]
  <2>1. Goto(e)
    BY <1>8 DEF Callback
  <2>2. /\ e \in Calls /\ e.pc = "insert" /\ e.curr = Top.curr /\ e.tick = Top.tick
        /\ e.at = now /\ e.removed = Top.removed
    BY <1>4, <1>5 DEF Calls, Handling
  <2> HIDE DEF e
  <2>3. e.at <= now
    BY <1>5, <2>2
  <2> QED BY <1>6, <2>1, <2>2, <2>3
<1> QED BY <1>7, <1>8

\* The callback gets no memory: if it is keep_schedule, it is lost.
LEMMA CallbackFailsStep ==
    ASSUME TimerInv, CallbackFails
    PROVE  TimerInv'
<1>1. At("callback") /\ UNCHANGED <<now, timer_list, enabled, cval, need_schedule, current, alive, abandoned>>
  BY DEF CallbackFails
<1>2. "callback" \in Handling /\ "callback" \in Working
  BY DEF Handling, Working
<1>3. /\ Typed /\ frames[current] # <<>> /\ Top.pc = "callback"
      /\ ~(enabled /\ cval <= now) /\ (~enabled => cval <= now)
      /\ IdlingBelow(frames, current) /\ Ascending(timer_list)
      /\ ~enabled
      /\ Ahead \/ Young(frames, Top.tick)
      /\ IF lost \/ HoldingKeep(Top)
         THEN NoKeep(timer_list) /\ ~(lost /\ HoldingKeep(Top))
         ELSE SingleKeep(timer_list)
      /\ (timer_list # <<>> /\ ~abandoned) =>
            \/ Resets(frames)
            \/ enabled /\ cval >= Head(timer_list).exp
            \/ "callback" \in {"loop", "unlink"} /\ ~enabled /\ Head(timer_list).exp <= Top.tick
  BY <1>1, <1>2, InvAt
<1>4. /\ Top \in Calls /\ Top.tick \in Nat /\ Top.at \in Nat /\ Top.curr \in Timers
      /\ Top.curr.exp \in Nat /\ Top.removed \in BOOLEAN
      /\ Top.tick <= now /\ Top.at <= now
  BY <1>3, TopFacts
<1>5. /\ enabled \in BOOLEAN /\ need_schedule \in BOOLEAN /\ lost \in BOOLEAN
      /\ timer_list \in Seq(Timers) /\ cval \in Nat /\ now \in Nat /\ Young(frames, now)
  BY <1>3 DEF Typed
<1> DEFINE e == [Top EXCEPT !.pc = "added"]
<1>6. Goto(e)
  BY DEF CallbackFails
<1>7. /\ e \in Calls /\ e.pc = "added" /\ e.curr = Top.curr /\ e.tick = Top.tick
      /\ e.at = Top.at /\ e.removed = Top.removed
  BY <1>4 DEF Calls, Handling
<1> HIDE DEF e
<1>8. lost' = (lost \/ Top.curr.kind = "keep_schedule") /\ lost' \in BOOLEAN
  BY <1>5 DEF CallbackFails
<1>9. InHandWith(e)
  BY <1>7 DEF InHandWith, Working
<1>10. InOrderWith(e)
  BY <1>1, <1>3, <1>7 DEF InOrderWith, Ahead, Working
<1>11. OneKeepWith(e)
  BY <1>1, <1>3, <1>7, <1>8 DEF OneKeepWith, HoldingKeep
<1>12. ArmedWith(e)
  BY <1>1, <1>3, <1>7 DEF ArmedWith, WillReset, Finishing
<1> QED BY <1>1, <1>3, <1>4, <1>5, <1>6, <1>7, <1>8, <1>9, <1>10, <1>11, <1>12, GoesOnInv

\* The handler goes back to its loop.
LEMMA CallbackEndStep ==
    ASSUME TimerInv, CallbackEnd
    PROVE  TimerInv'
<1>1. At("added") /\ UNCHANGED <<now, timer_list, enabled, cval, current, alive, lost, abandoned>>
  BY DEF CallbackEnd
<1>2. "added" \in Handling /\ "added" \notin Working
  BY DEF Handling, Working
<1>3. /\ Typed /\ frames[current] # <<>> /\ Top.pc = "added"
      /\ ~(enabled /\ cval <= now) /\ (~enabled => cval <= now)
      /\ IdlingBelow(frames, current) /\ Ascending(timer_list)
      /\ Ahead \/ (~enabled /\ Young(frames, Top.tick))
      /\ IF lost \/ HoldingKeep(Top)
         THEN NoKeep(timer_list) /\ ~(lost /\ HoldingKeep(Top))
         ELSE SingleKeep(timer_list)
      /\ (timer_list # <<>> /\ ~abandoned) =>
            \/ Resets(frames)
            \/ enabled /\ cval >= Head(timer_list).exp
            \/ "added" \in {"loop", "unlink"} /\ ~enabled /\ Head(timer_list).exp <= Top.tick
  BY <1>1, <1>2, InvAt
<1>4. /\ Top \in Calls /\ Top.tick \in Nat /\ Top.at \in Nat /\ Top.curr \in Timers
      /\ Top.curr.exp \in Nat /\ Top.removed \in BOOLEAN
      /\ Top.tick <= now /\ Top.at <= now
  BY <1>3, TopFacts
<1>5. /\ enabled \in BOOLEAN /\ need_schedule \in BOOLEAN /\ lost \in BOOLEAN
      /\ timer_list \in Seq(Timers) /\ cval \in Nat /\ now \in Nat /\ Young(frames, now)
  BY <1>3 DEF Typed
<1> DEFINE e == [Top EXCEPT !.pc = "loop"]
<1>6. Goto(e)
  BY DEF CallbackEnd
<1>7. /\ e \in Calls /\ e.pc = "loop" /\ e.curr = Top.curr /\ e.tick = Top.tick
      /\ e.at = Top.at /\ e.removed = Top.removed
  BY <1>4 DEF Calls, Handling
<1> HIDE DEF e
<1>8. need_schedule' \in BOOLEAN
  BY <1>5 DEF CallbackEnd
<1>9. InHandWith(e)
  BY <1>7 DEF InHandWith, Working
<1>10. InOrderWith(e)
  BY <1>1, <1>3, <1>7 DEF InOrderWith, Ahead, Working
<1>11. OneKeepWith(e)
  BY <1>1, <1>3, <1>7, <1>8 DEF OneKeepWith, HoldingKeep
<1>12. ArmedWith(e)
  BY <1>1, <1>3, <1>7 DEF ArmedWith, WillReset, Finishing
<1> QED BY <1>1, <1>3, <1>4, <1>5, <1>6, <1>7, <1>8, <1>9, <1>10, <1>11, <1>12, GoesOnInv

\* add_timer, called from the callback, links the timer in order.
LEMMA CallbackInsertStep ==
    ASSUME TimerInv, CallbackInsert
    PROVE  TimerInv'
<1>1. At("insert") /\ UNCHANGED <<now, need_schedule, current, alive, lost, abandoned>>
  BY DEF CallbackInsert
<1>2. "insert" \in Handling /\ "insert" \in Working
  BY DEF Handling, Working
<1>3. /\ Typed /\ frames[current] # <<>> /\ Top.pc = "insert"
      /\ ~(enabled /\ cval <= now) /\ (~enabled => cval <= now)
      /\ IdlingBelow(frames, current) /\ Ascending(timer_list)
      /\ ~enabled
      /\ Young(frames, Top.at)
      /\ Ahead \/ Young(frames, Top.tick)
      /\ IF lost \/ HoldingKeep(Top)
         THEN NoKeep(timer_list) /\ ~(lost /\ HoldingKeep(Top))
         ELSE SingleKeep(timer_list)
      /\ (timer_list # <<>> /\ ~abandoned) =>
            \/ Resets(frames)
            \/ enabled /\ cval >= Head(timer_list).exp
            \/ "insert" \in {"loop", "unlink"} /\ ~enabled /\ Head(timer_list).exp <= Top.tick
  BY <1>1, <1>2, InvAt
<1>4. /\ Top \in Calls /\ Top.tick \in Nat /\ Top.at \in Nat /\ Top.curr \in Timers
      /\ Top.curr.exp \in Nat /\ Top.removed \in BOOLEAN
      /\ Top.tick <= now /\ Top.at <= now
  BY <1>3, TopFacts
<1>5. /\ enabled \in BOOLEAN /\ need_schedule \in BOOLEAN /\ lost \in BOOLEAN
      /\ timer_list \in Seq(Timers) /\ cval \in Nat /\ now \in Nat /\ Young(frames, now)
  BY <1>3 DEF Typed
<1> DEFINE e == [Top EXCEPT !.pc = "added"]
           timer == [Top.curr EXCEPT !.exp = Top.at + Period[Top.curr.kind]]
<1>6. Goto(e) /\ add_timer(timer, Top.at)
  BY DEF CallbackInsert
<1>7. /\ e \in Calls /\ e.pc = "added" /\ e.curr = Top.curr /\ e.tick = Top.tick
      /\ e.at = Top.at /\ e.removed = Top.removed
  BY <1>4 DEF Calls, Handling
<1>8. /\ timer \in Timers /\ timer.exp \in Nat /\ timer.exp > Top.at
      /\ timer.kind = Top.curr.kind
  <2>1. Period[Top.curr.kind] \in Nat \ {0}
    BY <1>4, TimerAssumption DEF Timers
  <2> QED BY <2>1, <1>4 DEF Timers
<1> HIDE DEF e, timer
<1>9. /\ timer_list' \in Seq(Timers) /\ Ascending(timer_list') /\ timer_list' # <<>>
      /\ enabled' = TRUE /\ cval' \in Nat
      /\ \/ Head(timer_list') = timer /\ cval' >= timer.exp
         \/ /\ timer_list # <<>> /\ Head(timer_list') = Head(timer_list)
            /\ cval' = cval
      /\ timer.kind # "keep_schedule" =>
            /\ NoKeep(timer_list) => NoKeep(timer_list')
            /\ SingleKeep(timer_list) => SingleKeep(timer_list')
      /\ timer.kind = "keep_schedule" /\ NoKeep(timer_list) => SingleKeep(timer_list')
  BY <1>3, <1>4, <1>5, <1>6, <1>8, AddTimerFacts
<1>10. InHandWith(e)
  BY <1>7 DEF InHandWith, Working
<1>11. InOrderWith(e)
  <2>1. CASE Head(timer_list') = timer
    <3>1. Top.at <= timer.exp - 1
      BY <1>4, <1>8
    <3>2. Young(frames, timer.exp - 1)
      BY <3>1, <1>3, <1>4, <1>8, YoungerThan
    <3> QED BY <2>1, <3>2 DEF InOrderWith
  <2>2. CASE /\ timer_list # <<>> /\ Head(timer_list') = Head(timer_list)
             /\ cval' = cval
    BY <2>2, <1>1, <1>3, <1>7 DEF InOrderWith, Ahead
  <2> QED BY <2>1, <2>2, <1>9
<1>12. OneKeepWith(e)
  BY <1>1, <1>3, <1>7, <1>8, <1>9 DEF OneKeepWith, HoldingKeep
<1>13. ArmedWith(e)
  BY <1>1, <1>3, <1>7, <1>9 DEF ArmedWith, WillReset, Finishing
<1> QED BY <1>1, <1>3, <1>4, <1>5, <1>6, <1>7, <1>9, <1>10, <1>11, <1>12, <1>13, GoesOnInv

\* The handler sets the timer to the first of the list, or leaves it off.
LEMMA ResetStep ==
    ASSUME TimerInv, Reset
    PROVE  TimerInv'
<1>1. At("reset") /\ UNCHANGED <<now, timer_list, need_schedule, current, alive, lost, abandoned>>
  BY DEF Reset
<1>2. "reset" \in Handling /\ "reset" \notin Working
  BY DEF Handling, Working
<1>3. /\ Typed /\ frames[current] # <<>> /\ Top.pc = "reset"
      /\ ~(enabled /\ cval <= now) /\ (~enabled => cval <= now)
      /\ IdlingBelow(frames, current) /\ Ascending(timer_list)
      /\ Ahead
      /\ IF lost \/ HoldingKeep(Top)
         THEN NoKeep(timer_list) /\ ~(lost /\ HoldingKeep(Top))
         ELSE SingleKeep(timer_list)
      /\ (timer_list # <<>> /\ ~abandoned) =>
            \/ Resets(frames)
            \/ enabled /\ cval >= Head(timer_list).exp
            \/ "reset" \in {"loop", "unlink"} /\ ~enabled /\ Head(timer_list).exp <= Top.tick
  BY <1>1, <1>2, InvAt
<1>4. /\ Top \in Calls /\ Top.tick \in Nat /\ Top.at \in Nat /\ Top.curr \in Timers
      /\ Top.curr.exp \in Nat /\ Top.removed \in BOOLEAN
      /\ Top.tick <= now /\ Top.at <= now
  BY <1>3, TopFacts
<1>5. /\ enabled \in BOOLEAN /\ need_schedule \in BOOLEAN /\ lost \in BOOLEAN
      /\ timer_list \in Seq(Timers) /\ cval \in Nat /\ now \in Nat /\ Young(frames, now)
  BY <1>3 DEF Typed
<1> DEFINE e == [Top EXCEPT !.pc = "switch"]
<1>6. Goto(e)
  BY DEF Reset
<1>7. /\ e \in Calls /\ e.pc = "switch" /\ e.curr = Top.curr /\ e.tick = Top.tick
      /\ e.at = Top.at /\ e.removed = Top.removed
  BY <1>4 DEF Calls, Handling
<1> HIDE DEF e
<1>8. /\ cval' \in Nat /\ enabled' \in BOOLEAN /\ (~enabled' => cval' <= now)
      /\ ArmedWith(e)
  <2>1. CASE Top.removed /\ timer_list # <<>>
    <3>1. Head(timer_list).exp \in Nat /\ Head(timer_list).exp > Top.tick
      BY <2>1, <1>3, HeadFacts, NothingDue
    <3>2. cval' = now + (Head(timer_list).exp - Top.tick) /\ enabled' = TRUE
      BY <2>1 DEF Reset
    <3>3. cval' \in Nat /\ cval' >= Head(timer_list).exp
      BY <3>1, <3>2, <1>4, <1>5
    <3> QED BY <3>2, <3>3, <1>1 DEF ArmedWith
  <2>2. CASE ~(Top.removed /\ timer_list # <<>>)
    <3>1. cval' = cval /\ enabled' = enabled
      BY <2>2 DEF Reset
    <3>2. ArmedWith(e)
      BY <2>2, <3>1, <1>1, <1>3, <1>7 DEF ArmedWith, WillReset
    <3> QED BY <3>1, <3>2, <1>3, <1>5
  <2> QED BY <2>1, <2>2
<1>9. InHandWith(e)
  BY <1>7 DEF InHandWith, Working
<1>10. InOrderWith(e)
  BY <1>1, <1>3 DEF InOrderWith, Ahead
<1>11. OneKeepWith(e)
  BY <1>1, <1>3, <1>7 DEF OneKeepWith, HoldingKeep
<1> QED BY <1>1, <1>3, <1>4, <1>5, <1>6, <1>7, <1>8, <1>9, <1>10, <1>11, GoesOnInv

\* With no timer in hand, the invariant is about the list and the timer.
LEMMA IdlingInv ==
    ASSUME Typed', ~enabled' => cval' <= now', Ascending(timer_list'), Idling(frames'), InOrder',
           IF lost' THEN NoKeep(timer_list') ELSE SingleKeep(timer_list'), Armed'
    PROVE  TimerInv'
<1>1. frames' \in Stacks /\ current' \in Threads
  BY DEF Typed, Stacks
<1>2. /\ IdlingBelow(frames', current')
      /\ frames'[current'] # <<>> => Innermost(frames', current').pc \notin Working
  BY <1>1, IdlingFacts
<1>3. InHand'
  BY <1>2 DEF InHand
<1>4. ~HoldsKeep(frames', current')
  BY <1>2 DEF HoldsKeep, Working
<1>5. OneKeep'
  BY <1>4 DEF OneKeep
<1> QED BY <1>3, <1>5 DEF TimerInv, Off

\* The handler gives up the processor, if keep_schedule asked for it.
LEMMA SwitchIfNeededStep ==
    ASSUME TimerInv, SwitchIfNeeded
    PROVE  TimerInv'
<1>1. At("switch") /\ UNCHANGED <<now, timer_list, cval, alive, lost, abandoned>>
  BY DEF SwitchIfNeeded
<1>2. "switch" \in Handling /\ "switch" \notin Working
  BY DEF Handling, Working
<1>3. /\ Typed /\ frames[current] # <<>> /\ Top.pc = "switch"
      /\ ~(enabled /\ cval <= now) /\ (~enabled => cval <= now)
      /\ IdlingBelow(frames, current) /\ Ascending(timer_list)
      /\ Ahead
      /\ IF lost THEN NoKeep(timer_list) ELSE SingleKeep(timer_list)
      /\ (timer_list # <<>> /\ ~abandoned) =>
            \/ Resets(frames)
            \/ enabled /\ cval >= Head(timer_list).exp
  BY <1>1, <1>2, InvAt DEF HoldingKeep
<1>4. /\ Top \in Calls /\ Top.tick \in Nat /\ Top.at \in Nat /\ Top.curr \in Timers
      /\ Top.curr.exp \in Nat /\ Top.removed \in BOOLEAN
      /\ Top.tick <= now /\ Top.at <= now
  BY <1>3, TopFacts
<1>5. /\ enabled \in BOOLEAN /\ need_schedule \in BOOLEAN /\ lost \in BOOLEAN
      /\ timer_list \in Seq(Timers) /\ cval \in Nat /\ now \in Nat /\ Young(frames, now)
  BY <1>3 DEF Typed
<1> DEFINE e == [Top EXCEPT !.pc = IF need_schedule THEN "resumed" ELSE "return"]
<1>6. Goto(e)
  BY DEF SwitchIfNeeded
<1>7. /\ e \in Calls /\ e.pc \in {"resumed", "return"} /\ e.tick = Top.tick
      /\ e.at = Top.at
  BY <1>4 DEF Calls, Handling
<1> HIDE DEF e
<1>8. /\ frames' \in [Threads -> Seq(Calls)]
      /\ Young(frames', now) /\ AddedBy(frames', now) /\ Outermost(frames')
      /\ \A x : Young(frames, x) => Young(frames', x)
      /\ Idling(frames')
      /\ Resets(frames) => Resets(frames')
  <2>1. e.pc \notin Working /\ e.pc # "program" /\ ~WillReset(Top)
    BY <1>3, <1>7 DEF Working, WillReset, Finishing
  <2>2. now' = now
    BY <1>1
  <2> QED BY <2>1, <2>2, <1>3, <1>4, <1>6, <1>7, GoesOn
<1>9. /\ current' \in alive' /\ enabled' \in BOOLEAN /\ need_schedule' = FALSE
      /\ enabled => enabled'
  <2>1. CASE need_schedule
    <3>1. schedule(alive) /\ need_schedule' = FALSE
      BY <2>1 DEF SwitchIfNeeded
    <3> QED BY <3>1, <1>1, <1>3 DEF schedule, Typed
  <2>2. CASE ~need_schedule
    BY <2>2, <1>1, <1>3, <1>5 DEF SwitchIfNeeded, Typed
  <2> QED BY <2>1, <2>2
<1>10. Typed'
  BY <1>1, <1>3, <1>8, <1>9 DEF Typed
<1>11. ~enabled' => cval' <= now'
  BY <1>1, <1>3, <1>9
<1>12. InOrder'
  BY <1>1, <1>3, <1>8 DEF InOrder, Ahead
<1>13. Armed'
  BY <1>1, <1>3, <1>8, <1>9 DEF Armed
<1> QED BY <1>1, <1>3, <1>8, <1>10, <1>11, <1>12, <1>13, IdlingInv

\* The handler returns to what it interrupted.
LEMMA HandlerReturnStep ==
    ASSUME TimerInv, HandlerReturn
    PROVE  TimerInv'
<1>1. PICK pc \in {"return", "resumed"} : At(pc)
  BY DEF HandlerReturn
<1>2. /\ UNCHANGED <<now, timer_list, enabled, cval, need_schedule, current, alive, lost,
                     abandoned>>
      /\ Returned(frames, frames', current)
  BY DEF HandlerReturn, Return, Returned
<1>3. pc \in Handling /\ pc \notin Working \cup {"loop", "added"}
  BY DEF Handling, Working
<1>4. /\ Typed /\ frames[current] # <<>> /\ Top.pc = pc
      /\ (~enabled => cval <= now)
      /\ IdlingBelow(frames, current) /\ Ascending(timer_list) /\ Ahead
      /\ IF lost THEN NoKeep(timer_list) ELSE SingleKeep(timer_list)
      /\ (timer_list # <<>> /\ ~abandoned) =>
            Resets(frames) \/ (enabled /\ cval >= Head(timer_list).exp)
  BY <1>1, <1>3, InvAt DEF HoldingKeep
<1>5. /\ current \in Threads /\ frames \in Stacks /\ Innermost(frames, current) = Top
      /\ Top.pc \notin Working /\ ~WillReset(Top)
  BY <1>3, <1>4, TopFacts DEF WillReset, Finishing
<1>6. Idling(frames)
  BY <1>4, <1>5, IdlingFacts
<1>7. /\ frames' \in Stacks
      /\ \A x : Young(frames, x) => Young(frames', x)
      /\ \A x : AddedBy(frames, x) => AddedBy(frames', x)
      /\ Outermost(frames) => Outermost(frames')
      /\ Idling(frames')
      /\ Resets(frames) => Resets(frames')
  BY <1>2, <1>4, <1>5, <1>6, ReturnKeeps
<1>8. Typed'
  BY <1>2, <1>4, <1>7 DEF Typed, Stacks
<1>9. InOrder'
  BY <1>2, <1>4, <1>7 DEF InOrder, Ahead
<1>10. Armed'
  BY <1>2, <1>4, <1>7 DEF Armed
<1> QED BY <1>2, <1>4, <1>7, <1>8, <1>9, <1>10, IdlingInv

\* A thread that was killed leaves, with all its calls.
LEMMA ExitFromInterruptStep ==
    ASSUME TimerInv, ExitFromInterrupt
    PROVE  TimerInv'
<1>1. /\ At("resumed") /\ current # Idle /\ alive' = alive \ {current}
      /\ Left(frames, frames', current) /\ schedule(alive')
      /\ UNCHANGED <<now, timer_list, cval, need_schedule, lost>>
      /\ abandoned' = (abandoned \/ \E i \in DOMAIN frames[current] :
                           frames[current][i].pc \notin Finishing)
  BY DEF ExitFromInterrupt, Left
<1>2. "resumed" \in Handling /\ "resumed" \notin Working \cup {"loop", "added"}
  BY DEF Handling, Working
<1>3. /\ Typed /\ frames[current] # <<>> /\ Top.pc = "resumed"
      /\ IdlingBelow(frames, current) /\ Ascending(timer_list) /\ Ahead
      /\ IF lost THEN NoKeep(timer_list) ELSE SingleKeep(timer_list)
      /\ (timer_list # <<>> /\ ~abandoned) =>
            Resets(frames) \/ (enabled /\ cval >= Head(timer_list).exp)
  BY <1>1, <1>2, InvAt DEF HoldingKeep
<1>4. /\ current \in Threads /\ frames \in Stacks /\ Innermost(frames, current) = Top
      /\ Top.pc \notin Working
  BY <1>2, <1>3, TopFacts
<1>5. Idling(frames)
  BY <1>3, <1>4, IdlingFacts
<1>6. /\ frames' \in Stacks
      /\ \A x : Young(frames, x) => Young(frames', x)
      /\ \A x : AddedBy(frames, x) => AddedBy(frames', x)
      /\ Outermost(frames) => Outermost(frames')
      /\ Idling(frames')
      /\ Resets(frames) /\ (\A i \in 1 .. Len(frames[current]) : ~WillReset(frames[current][i]))
           => Resets(frames')
  BY <1>1, <1>4, <1>5, LeaveKeeps
<1>7. /\ current' \in alive' /\ alive' \subseteq Threads /\ Idle \in alive'
      /\ enabled' = TRUE
  <2>1. Idle \in alive' /\ alive' \subseteq Threads /\ Idle \in alive' \ {current}
    BY <1>1, <1>3 DEF Typed
  <2> QED BY <2>1, <1>1 DEF schedule
<1>8. abandoned' \in BOOLEAN
  BY <1>1, <1>3 DEF Typed
<1>9. Typed'
  BY <1>1, <1>3, <1>6, <1>7, <1>8 DEF Typed, Stacks
<1>10. InOrder'
  BY <1>1, <1>3, <1>6 DEF InOrder, Ahead
<1>11. ASSUME ~abandoned'
       PROVE  ~abandoned /\ \A i \in 1 .. Len(frames[current]) : ~WillReset(frames[current][i])
  <2>1. frames[current] \in Seq(Calls)
    BY <1>4 DEF Stacks
  <2>2. DOMAIN frames[current] = 1 .. Len(frames[current])
    BY <2>1
  <2> QED BY <2>2, <1>1, <1>11 DEF WillReset
<1>12. Armed'
  BY <1>1, <1>3, <1>6, <1>7, <1>11 DEF Armed
<1> QED BY <1>1, <1>3, <1>6, <1>7, <1>9, <1>10, <1>12, IdlingInv

\* The timer fires: a new call, the only one that can find something due.
LEMMA InterruptStep ==
    ASSUME TimerInv, Interrupt
    PROVE  TimerInv'
<1> DEFINE e == Frame("loop", now, NoTimer, 0)
<1>1. /\ enabled /\ cval <= now /\ enabled' = FALSE /\ Began(frames, frames', current, e)
      /\ UNCHANGED <<now, timer_list, cval, need_schedule, current, alive, lost, abandoned>>
  BY DEF Interrupt, Began
<1>2. /\ Typed /\ Ascending(timer_list) /\ IdlingBelow(frames, current)
      /\ frames[current] # <<>> => Innermost(frames, current).pc \notin Working
  BY <1>1 DEF TimerInv, InHand
<1>3. current \in Threads /\ frames \in Stacks /\ now \in Nat /\ cval \in Nat
  BY <1>2 DEF Typed, Stacks
<1>4. Idling(frames)
  BY <1>2, <1>3, IdlingFacts
<1>5. /\ e \in Calls /\ e.pc = "loop" /\ e.tick = now /\ e.at = 0 /\ e.at <= now
  BY <1>3 DEF Calls, Frame, NoTimer, Timers, Kinds, Handling
<1> HIDE DEF e
<1>6. /\ frames' \in Stacks /\ frames'[current] # <<>> /\ Innermost(frames', current) = e
      /\ \A x : Young(frames, x) /\ e.tick <= x => Young(frames', x)
      /\ \A x : AddedBy(frames, x) /\ e.at <= x => AddedBy(frames', x)
      /\ Outermost(frames) /\ (e.pc = "program" => frames[current] = <<>> /\ ProgramCall(e))
           => Outermost(frames')
      /\ Idling(frames) /\ e.pc \notin Working => Idling(frames')
      /\ Resets(frames) => Resets(frames')
  BY <1>1, <1>3, <1>5, BeginKeeps
<1>7. Idling(frames')
  BY <1>4, <1>5, <1>6 DEF Working
<1>8. Young(frames', now) /\ AddedBy(frames', now) /\ Outermost(frames')
  BY <1>2, <1>3, <1>5, <1>6 DEF Typed
<1>9. Typed'
  BY <1>1, <1>2, <1>6, <1>8 DEF Typed, Stacks
<1>10. InOrder'
  BY <1>1, <1>5, <1>6, <1>8 DEF InOrder, Fresh
<1>11. IF lost' THEN NoKeep(timer_list') ELSE SingleKeep(timer_list')
  BY <1>1, <1>2 DEF TimerInv, OneKeep, HoldsKeep, Working
<1>12. Armed'
  <2> SUFFICES ASSUME timer_list # <<>>, ~abandoned, ~Resets(frames)
               PROVE  Head(timer_list).exp <= e.tick
    BY <1>1, <1>5, <1>6 DEF Armed
  <2>1. cval >= Head(timer_list).exp
    BY <1>1 DEF TimerInv, Armed
  <2>2. Head(timer_list).exp \in Nat
    BY <1>2, HeadFacts
  <2> QED BY <2>1, <2>2, <1>1, <1>3, <1>5
<1> QED BY <1>1, <1>2, <1>7, <1>9, <1>10, <1>11, <1>12, IdlingInv

\* A program makes a timer,
LEMMA set_timeoutStep ==
    ASSUME TimerInv, set_timeout
    PROVE  TimerInv'
<1>1. PICK kind \in Requests :
         frames' = [frames EXCEPT ![current] = <<Frame("program", 0,
                       [exp |-> now + Period[kind], kind |-> kind], now)>>]
  BY DEF set_timeout
<1>2. /\ frames[current] = <<>>
      /\ UNCHANGED <<now, timer_list, enabled, cval, need_schedule, current, alive, lost, abandoned>>
  BY DEF set_timeout
<1> DEFINE e == Frame("program", 0, [exp |-> now + Period[kind], kind |-> kind], now)
<1>3. /\ Typed /\ Ascending(timer_list) /\ IdlingBelow(frames, current)
      /\ (~enabled => cval <= now)
  BY DEF TimerInv, InHand, Off
<1>4. current \in Threads /\ frames \in Stacks /\ now \in Nat
  BY <1>3 DEF Typed, Stacks
<1>5. Idling(frames)
  BY <1>2, <1>3, <1>4, IdlingFacts
<1>6. kind \in Kinds /\ kind # "keep_schedule" /\ Period[kind] \in Nat \ {0}
  BY TimerAssumption
<1>7. e \in Calls /\ e.pc = "program" /\ e.tick = 0 /\ e.at = now /\ ProgramCall(e)
  BY <1>4, <1>6 DEF Calls, Frame, Timers, Handling, ProgramCall
<1>8. Began(frames, frames', current, e)
  <2>1. <<e>> = Append(frames[current], e)
    BY <1>2
  <2> QED BY <2>1, <1>1 DEF Began
<1> HIDE DEF e
<1>9. /\ frames' \in Stacks /\ frames'[current] # <<>> /\ Innermost(frames', current) = e
      /\ \A x : Young(frames, x) /\ e.tick <= x => Young(frames', x)
      /\ \A x : AddedBy(frames, x) /\ e.at <= x => AddedBy(frames', x)
      /\ Outermost(frames) /\ (e.pc = "program" => frames[current] = <<>> /\ ProgramCall(e))
           => Outermost(frames')
      /\ Idling(frames) /\ e.pc \notin Working => Idling(frames')
      /\ Resets(frames) => Resets(frames')
  BY <1>4, <1>7, <1>8, BeginKeeps
<1>10. Idling(frames')
  BY <1>5, <1>7, <1>9 DEF Working
<1>11. Young(frames', now) /\ AddedBy(frames', now) /\ Outermost(frames')
  BY <1>2, <1>3, <1>4, <1>7, <1>9 DEF Typed
<1>12. Typed'
  BY <1>2, <1>3, <1>9, <1>11 DEF Typed, Stacks
<1>13. InOrder'
  BY <1>2, <1>7, <1>9 DEF InOrder
<1>14. IF lost' THEN NoKeep(timer_list') ELSE SingleKeep(timer_list')
  BY <1>2 DEF TimerInv, OneKeep, HoldsKeep
<1>15. Armed'
  BY <1>2, <1>9 DEF TimerInv, Armed
<1> QED BY <1>2, <1>3, <1>10, <1>12, <1>13, <1>14, <1>15, IdlingInv

\* and links it.
LEMMA ProgramInsertStep ==
    ASSUME TimerInv, ProgramInsert
    PROVE  TimerInv'
<1>1. /\ frames[current] # <<>> /\ Top.pc = "program" /\ add_timer(Top.curr, Top.at)
      /\ Returned(frames, frames', current)
      /\ UNCHANGED <<now, need_schedule, current, alive, lost, abandoned>>
  BY DEF ProgramInsert, At, Return, Returned
<1>2. Typed /\ Ascending(timer_list) /\ IdlingBelow(frames, current)
  BY DEF TimerInv, InHand
<1>3. /\ current \in Threads /\ frames \in Stacks /\ Innermost(frames, current) = Top
      /\ Top.at \in Nat /\ Top.at <= now /\ Top.curr \in Timers
      /\ Len(frames[current]) = 1 /\ Top.curr.exp > Top.at /\ Top.curr.kind # "keep_schedule"
  BY <1>1, <1>2, TopFacts DEF ProgramCall
<1>4. Top.pc \notin Working /\ ~WillReset(Top)
  BY <1>1 DEF Working, WillReset, Finishing
<1>5. Idling(frames)
  BY <1>2, <1>3, <1>4, IdlingFacts
<1>6. /\ frames' \in Stacks
      /\ \A x : Young(frames, x) => Young(frames', x)
      /\ \A x : AddedBy(frames, x) => AddedBy(frames', x)
      /\ Outermost(frames) => Outermost(frames')
      /\ Idling(frames')
      /\ Resets(frames) => Resets(frames')
      /\ frames'[current] = <<>>
  BY <1>1, <1>3, <1>4, <1>5, ReturnKeeps
<1>7. timer_list \in Seq(Timers) /\ now \in Nat /\ cval \in Nat
  BY <1>2 DEF Typed
<1>8. /\ timer_list' \in Seq(Timers) /\ Ascending(timer_list') /\ timer_list' # <<>>
      /\ enabled' = TRUE /\ cval' \in Nat
      /\ \/ Head(timer_list') = Top.curr /\ cval' >= Top.curr.exp
         \/ /\ timer_list # <<>> /\ Head(timer_list') = Head(timer_list)
            /\ cval' = cval
      /\ NoKeep(timer_list) => NoKeep(timer_list')
      /\ SingleKeep(timer_list) => SingleKeep(timer_list')
  BY <1>1, <1>2, <1>3, <1>7, AddTimerFacts
<1>9. Typed'
  BY <1>1, <1>2, <1>6, <1>8 DEF Typed, Stacks
<1>10. InOrder'
  BY <1>1, <1>6 DEF InOrder
<1>11. IF lost' THEN NoKeep(timer_list') ELSE SingleKeep(timer_list')
  BY <1>1, <1>3, <1>8 DEF TimerInv, OneKeep, HoldsKeep
<1>12. Armed'
  BY <1>1, <1>3, <1>6, <1>8 DEF TimerInv, Armed
<1> QED BY <1>6, <1>8, <1>9, <1>10, <1>11, <1>12, IdlingInv

\* Time passes.
LEMMA AdvanceStep ==
    ASSUME TimerInv, Advance
    PROVE  TimerInv'
<1>1. /\ now < MaxTime /\ now' = now + 1
      /\ UNCHANGED <<timer_list, enabled, cval, need_schedule, current, alive, frames,
                     lost, abandoned>>
  BY DEF Advance
<1>2. Typed /\ now \in Nat /\ cval \in Nat /\ MaxTime \in Nat
  BY TimerAssumption DEF TimerInv, Typed
<1>3. now \in Int /\ now + 1 \in Int /\ now <= now + 1
  BY <1>2
<1>4. Young(frames, now + 1)
  BY <1>2, <1>3, YoungerThan DEF Typed
<1>5. AddedBy(frames, now + 1)
  <2> SUFFICES ASSUME NEW t \in Threads, NEW i \in 1 .. Len(frames[t])
               PROVE  frames[t][i].at <= now + 1
    BY DEF AddedBy
  <2>1. frames[t] \in Seq(Calls)
    BY <1>2 DEF Typed
  <2>2. frames[t][i] \in Calls
    BY <2>1
  <2>3. frames[t][i].at \in Nat /\ frames[t][i].at <= now
    BY <1>2, <2>2 DEF Calls, Typed, AddedBy
  <2> QED BY <2>3, <1>2
<1>6. now' \in Nat /\ now' <= MaxTime
  BY <1>1, <1>2
<1>7. Typed'
  BY <1>1, <1>2, <1>4, <1>5, <1>6 DEF Typed
<1>8. cval <= now => cval <= now'
  BY <1>1, <1>2
<1>9. Off'
  BY <1>1, <1>8 DEF TimerInv, Off
<1>10. InHand'
  BY <1>1 DEF TimerInv, InHand
<1>11. InOrder'
  BY <1>1, <1>8 DEF TimerInv, InOrder, Ahead, Fresh
<1>12. OneKeep'
  BY <1>1 DEF TimerInv, OneKeep
<1>13. Armed'
  BY <1>1 DEF TimerInv, Armed
<1> QED BY <1>1, <1>7, <1>9, <1>10, <1>11, <1>12, <1>13 DEF TimerInv

\* timer_init satisfies the invariant.
LEMMA TimerInvInit == timer_init => TimerInv
<1> SUFFICES ASSUME timer_init PROVE TimerInv
  OBVIOUS
<1> DEFINE first == [exp |-> Period["keep_schedule"], kind |-> "keep_schedule"]
<1>1. Period["keep_schedule"] \in Nat \ {0} /\ "keep_schedule" \in Kinds
  BY TimerAssumption DEF Kinds
<1>2. first \in Timers /\ first.kind = "keep_schedule"
  BY <1>1 DEF Timers
<1>3. timer_list = <<first>> /\ cval = Period["keep_schedule"] /\ enabled = TRUE
  BY DEF timer_init
<1>4. first.exp = Period["keep_schedule"]
  OBVIOUS
<1> HIDE DEF first
<1>5. /\ timer_list \in Seq(Timers) /\ timer_list # <<>> /\ Head(timer_list) = first
      /\ Len(timer_list) = 1 /\ timer_list[1] = first
  BY <1>2, <1>3
<1>6. \A t \in Threads : frames[t] = <<>> /\ Len(frames[t]) = 0
  BY DEF timer_init
<1>7. frames \in [Threads -> Seq(Calls)]
  BY DEF timer_init
<1>8. Young(frames, now) /\ AddedBy(frames, now) /\ Outermost(frames) /\ Idling(frames)
  BY <1>6 DEF Young, AddedBy, Outermost, Idling
<1>9. /\ current = Idle /\ alive = Threads /\ now = 0 /\ lost = FALSE /\ abandoned = FALSE
      /\ need_schedule = FALSE
  BY DEF timer_init
<1>10. Typed
  <2>1. now \in Nat /\ now <= MaxTime
    BY <1>9, TimerAssumption
  <2>2. current \in alive /\ alive \subseteq Threads /\ Idle \in alive
    BY <1>9, TimerAssumption
  <2>3. cval \in Nat
    BY <1>1, <1>3
  <2>4. /\ enabled \in BOOLEAN /\ need_schedule \in BOOLEAN
        /\ lost \in BOOLEAN /\ abandoned \in BOOLEAN
    BY <1>3, <1>9
  <2> QED BY <2>1, <2>2, <2>3, <2>4, <1>5, <1>7, <1>8 DEF Typed
<1>11. current \in Threads /\ frames \in Stacks /\ frames[current] = <<>>
  BY <1>6, <1>7, <1>9, TimerAssumption DEF Stacks
<1>12. Off
  BY <1>3 DEF Off
<1>13. Ascending(timer_list)
  <2>1. DOMAIN timer_list = 1 .. 1
    BY <1>5
  <2> QED BY <2>1 DEF Ascending
<1>14. InHand
  BY <1>8, <1>11, IdlingFacts DEF InHand
<1>15. InOrder
  BY <1>11 DEF InOrder
<1>16. OneKeep
  <2>1. SingleKeep(timer_list)
    BY <1>2, <1>5 DEF SingleKeep
  <2>2. ~HoldsKeep(frames, current)
    BY <1>11 DEF HoldsKeep
  <2> QED BY <2>1, <2>2, <1>9 DEF OneKeep
<1>17. Armed
  BY <1>1, <1>3, <1>4, <1>5 DEF Armed
<1> QED BY <1>10, <1>12, <1>13, <1>14, <1>15, <1>16, <1>17 DEF TimerInv

\* Every step keeps it.
LEMMA TimerInvNext == TimerInv /\ [Next]_vars => TimerInv'
<1> SUFFICES ASSUME TimerInv, [Next]_vars PROVE TimerInv'
  OBVIOUS
<1>1. CASE Advance
  BY <1>1, AdvanceStep
<1>2. CASE set_timeout
  BY <1>2, set_timeoutStep
<1>3. CASE ProgramInsert
  BY <1>3, ProgramInsertStep
<1>4. CASE Interrupt
  BY <1>4, InterruptStep
<1>5. CASE Loop
  BY <1>5, LoopStep
<1>6. CASE Unlink
  BY <1>6, UnlinkStep
<1>7. CASE Callback
  BY <1>7, CallbackStep
<1>8. CASE CallbackFails
  BY <1>8, CallbackFailsStep
<1>9. CASE CallbackInsert
  BY <1>9, CallbackInsertStep
<1>10. CASE CallbackEnd
  BY <1>10, CallbackEndStep
<1>11. CASE Reset
  BY <1>11, ResetStep
<1>12. CASE SwitchIfNeeded
  BY <1>12, SwitchIfNeededStep
<1>13. CASE HandlerReturn
  BY <1>13, HandlerReturnStep
<1>14. CASE ExitFromInterrupt
  BY <1>14, ExitFromInterruptStep
<1>15. CASE UNCHANGED vars
  BY <1>15 DEF vars, TimerInv, Typed, Off, InHand, InOrder, Ahead, Fresh, OneKeep, Armed
<1> QED BY <1>1, <1>2, <1>3, <1>4, <1>5, <1>6, <1>7, <1>8, <1>9, <1>10, <1>11, <1>12, <1>13,
           <1>14, <1>15 DEF Next, core_timer_handler

\* The invariant holds in every reachable state.
LEMMA TimerInvAlways == Spec => []TimerInv
  BY TimerInvInit, TimerInvNext, PTL DEF Spec

-----------------------------------------------------------------------------
\* The calls in progress are those on the stacks.
LEMMA FramesFacts ==
    ASSUME Typed
    PROVE  /\ \A f \in Frames : \E t \in Threads : \E i \in 1 .. Len(frames[t]) :
                 f = frames[t][i] /\ f \in Calls
           /\ \A t \in Threads : \A i \in 1 .. Len(frames[t]) : frames[t][i] \in Frames
<1>1. \A t \in Threads : frames[t] \in Seq(Calls)
  BY DEF Typed
<1>2. \A t \in Threads : DOMAIN frames[t] = 1 .. Len(frames[t])
  BY <1>1
<1>3. \A t \in Threads : \A i \in 1 .. Len(frames[t]) : frames[t][i] \in Calls
  BY <1>1
<1>4. ASSUME NEW f \in Frames
      PROVE  \E t \in Threads : \E i \in 1 .. Len(frames[t]) : f = frames[t][i] /\ f \in Calls
  <2>1. PICK t \in Threads : f \in ToSet(frames[t])
    BY DEF Frames
  <2>2. PICK i \in DOMAIN frames[t] : f = frames[t][i]
    BY <2>1 DEF ToSet
  <2> QED BY <2>2, <1>2, <1>3
<1>5. ASSUME NEW t \in Threads, NEW i \in 1 .. Len(frames[t]) PROVE frames[t][i] \in Frames
  <2>1. frames[t][i] \in ToSet(frames[t])
    BY <1>2 DEF ToSet
  <2> QED BY <2>1 DEF Frames
<1> QED BY <1>4, <1>5

\* The inductive invariant implies UnlinksHead.
LEMMA InvUnlinksHead ==
    ASSUME TimerInv
    PROVE  UnlinksHead
<1>1. Typed
  BY DEF TimerInv
<1>2. ASSUME NEW f \in Frames
      PROVE  /\ f \in Calls /\ f.tick <= now /\ f.at <= now
             /\ f.pc = "unlink" => timer_list # <<>> /\ Head(timer_list) = f.curr
  <2>1. PICK t \in Threads : \E i \in 1 .. Len(frames[t]) : f = frames[t][i] /\ f \in Calls
    BY <1>1, FramesFacts
  <2>2. PICK i \in 1 .. Len(frames[t]) : f = frames[t][i] /\ f \in Calls
    BY <2>1
  <2>3. f.tick <= now /\ f.at <= now
    BY <1>1, <2>2 DEF Typed, Young, AddedBy
  <2>4. ASSUME f.pc = "unlink" PROVE timer_list # <<>> /\ Head(timer_list) = f.curr
    <3>1. t = current /\ i = Len(frames[t])
      BY <2>2, <2>4 DEF TimerInv, InHand, IdlingBelow, Working
    <3>2. frames[current] \in Seq(Calls)
      BY <1>1, <3>1 DEF Typed
    <3>3. frames[current] # <<>> /\ Innermost(frames, current) = f
      BY <2>2, <3>1, <3>2 DEF Innermost
    <3> QED BY <2>4, <3>3 DEF TimerInv, InHand, Working
  <2> QED BY <2>2, <2>3, <2>4
<1>3. \A f \in Frames :
         /\ f.pc \in {"program", "loop", "unlink", "callback", "insert", "added",
                      "reset", "switch", "return", "resumed"}
         /\ f.tick \in 0 .. now /\ f.at \in 0 .. now
  <2> SUFFICES ASSUME NEW f \in Frames
               PROVE  /\ f.pc \in {"program", "loop", "unlink", "callback", "insert", "added",
                                   "reset", "switch", "return", "resumed"}
                      /\ f.tick \in 0 .. now /\ f.at \in 0 .. now
    OBVIOUS
  <2>1. f.pc \in Handling \cup {"program"} /\ f.tick \in Nat /\ f.at \in Nat
    BY <1>2 DEF Calls
  <2>2. f.tick <= now /\ f.at <= now
    BY <1>2
  <2>3. now \in Nat
    BY <1>1 DEF Typed
  <2> QED BY <2>1, <2>2, <2>3 DEF Handling
<1>4. now \in 0 .. MaxTime
  BY <1>1, TimerAssumption DEF Typed
<1>5. TypeOK
  BY <1>1, <1>3, <1>4 DEF Typed, TypeOK, Timers
<1> QED BY <1>2, <1>5 DEF TimerInv, Ascending, UnlinksHead

\* ... OneKeepSchedule
LEMMA InvOneKeepSchedule ==
    ASSUME TimerInv
    PROVE  OneKeepSchedule
<1> DEFINE A == {i \in DOMAIN timer_list : timer_list[i].kind = "keep_schedule"}
           B == {p \in Places : /\ frames[p[1]][p[2]].curr.kind = "keep_schedule"
                               /\ frames[p[1]][p[2]].pc \in {"callback", "insert"}}
           here == <<current, Len(frames[current])>>
<1>1. /\ Typed /\ current \in Threads /\ timer_list \in Seq(Timers)
      /\ \A t \in Threads : frames[t] \in Seq(Calls)
  BY DEF TimerInv, Typed
<1>2. DOMAIN timer_list = 1 .. Len(timer_list)
  BY <1>1
<1>3. ASSUME NEW p \in B PROVE p = here /\ HoldsKeep(frames, current)
  <2>1. PICK t \in Threads : p \in {t} \X DOMAIN frames[t]
    BY DEF Places
  <2>2. PICK i \in DOMAIN frames[t] : p = <<t, i>>
    BY <2>1
  <2>3. i \in 1 .. Len(frames[t])
    BY <1>1, <2>2
  <2>4. frames[t][i].curr.kind = "keep_schedule" /\ frames[t][i].pc \in {"callback", "insert"}
    BY <2>2
  <2>5. t = current /\ i = Len(frames[t])
    BY <2>3, <2>4 DEF TimerInv, InHand, IdlingBelow, Working
  <2>6. frames[current] # <<>>
    BY <2>3, <2>5
  <2> QED BY <2>2, <2>4, <2>5, <2>6 DEF HoldsKeep, Innermost
<1>4. ASSUME HoldsKeep(frames, current) PROVE here \in B
  <2>1. frames[current] # <<>> /\ frames[current] \in Seq(Calls)
    BY <1>1, <1>4 DEF HoldsKeep
  <2>2. Len(frames[current]) \in DOMAIN frames[current]
    BY <2>1
  <2>3. here \in {current} \X DOMAIN frames[current]
    BY <2>2
  <2>4. here \in Places
    BY <2>3, <1>1 DEF Places
  <2>5. here[1] = current /\ here[2] = Len(frames[current])
    OBVIOUS
  <2> QED BY <2>4, <2>5, <1>4 DEF HoldsKeep, Innermost
<1>5. Cardinality(B) = IF HoldsKeep(frames, current) THEN 1 ELSE 0
  <2>1. CASE HoldsKeep(frames, current)
    <3>1. B = {here}
      BY <1>3, <1>4, <2>1
    <3> QED BY <3>1, <2>1, FS_Singleton
  <2>2. CASE ~HoldsKeep(frames, current)
    <3>1. B = {}
      BY <1>3, <2>2
    <3> QED BY <3>1, <2>2, FS_EmptySet
  <2> QED BY <2>1, <2>2
<1>6. CASE lost \/ HoldsKeep(frames, current)
  <2>1. NoKeep(timer_list) /\ ~(lost /\ HoldsKeep(frames, current))
    BY <1>6 DEF TimerInv, OneKeep
  <2>2. A = {}
    BY <2>1, <1>2 DEF NoKeep
  <2>3. Cardinality(A) = 0
    BY <2>2, FS_EmptySet
  <2>4. Cardinality(A) + Cardinality(B) = IF lost THEN 0 ELSE 1
    BY <2>1, <2>3, <1>5, <1>6
  <2> QED BY <2>4 DEF OneKeepSchedule
<1>7. CASE ~(lost \/ HoldsKeep(frames, current))
  <2>1. SingleKeep(timer_list)
    BY <1>7 DEF TimerInv, OneKeep
  <2>2. PICK p \in 1 .. Len(timer_list) : \A i \in 1 .. Len(timer_list) :
           timer_list[i].kind = "keep_schedule" <=> i = p
    BY <2>1 DEF SingleKeep
  <2>3. A = {p}
    BY <2>2, <1>2
  <2>4. Cardinality(A) = 1
    BY <2>3, FS_Singleton
  <2>5. Cardinality(A) + Cardinality(B) = IF lost THEN 0 ELSE 1
    BY <2>4, <1>5, <1>7
  <2> QED BY <2>5 DEF OneKeepSchedule
<1> QED BY <1>6, <1>7

\* ... and TimerSet.
LEMMA InvTimerSet ==
    ASSUME TimerInv
    PROVE  TimerSet
<1> SUFFICES ASSUME timer_list # <<>>, ~abandoned
             PROVE  \/ enabled /\ cval >= Head(timer_list).exp
                    \/ \E f \in Frames : /\ f.pc \notin Finishing
                                         /\ f.removed \/ Head(timer_list).exp <= f.tick
  BY DEF TimerSet
<1>1. Typed /\ current \in Threads
  BY DEF TimerInv, Typed
<1>2. CASE Resets(frames)
  <2>1. PICK t \in Threads : \E i \in 1 .. Len(frames[t]) : WillReset(frames[t][i])
    BY <1>2 DEF Resets
  <2>2. PICK i \in 1 .. Len(frames[t]) : WillReset(frames[t][i])
    BY <2>1
  <2>3. frames[t][i] \in Frames
    BY <1>1, FramesFacts
  <2> QED BY <2>2, <2>3 DEF WillReset
<1>3. CASE enabled /\ cval >= Head(timer_list).exp
  BY <1>3
<1>4. CASE /\ frames[current] # <<>> /\ Innermost(frames, current).pc \in {"loop", "unlink"}
           /\ Head(timer_list).exp <= Innermost(frames, current).tick
  <2>1. frames[current] \in Seq(Calls)
    BY <1>1 DEF Typed
  <2>2. Len(frames[current]) \in 1 .. Len(frames[current])
    BY <2>1, <1>4
  <2>3. Innermost(frames, current) \in Frames
    BY <2>2, <1>1, FramesFacts DEF Innermost
  <2> QED BY <2>3, <1>4 DEF Finishing
<1> QED BY <1>2, <1>3, <1>4 DEF TimerInv, Armed

-----------------------------------------------------------------------------
\* At all times core_timer_handler unlinks the timer it has looked at, the head
\* of the sorted list, whatever interrupted it since.
THEOREM TimerUnlinksHead == Spec => []UnlinksHead
<1>1. TimerInv => UnlinksHead
  BY InvUnlinksHead
<1> QED BY <1>1, TimerInvAlways, PTL

\* There is exactly one keep_schedule until its add_timer has no memory.
THEOREM TimerOneKeepSchedule == Spec => []OneKeepSchedule
<1>1. TimerInv => OneKeepSchedule
  BY InvOneKeepSchedule
<1> QED BY <1>1, TimerInvAlways, PTL

\* As long as no thread is killed in the middle of a handler, a waiting timer has
\* someone to fire it: the timer is on, or a handler is going to set it.
THEOREM TimerStaysSet == Spec => []TimerSet
<1>1. TimerInv => TimerSet
  BY InvTimerSet
<1> QED BY <1>1, TimerInvAlways, PTL
=============================================================================
