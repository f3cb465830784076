--------------------------- MODULE UartRingProofs ---------------------------
(***************************************************************************)
(* TLAPS proofs about UartRing, for every buffer size, greeting and number *)
(* of characters typed.                                                    *)
(***************************************************************************)
EXTENDS UartRing, FiniteSetTheorems, TLAPS

-----------------------------------------------------------------------------
(* The rings' arithmetic *)

\* % BUFFER_SIZE on the indices that can come up
LEMMA ModFacts ==
    /\ \A i \in 0 .. BUFFER_SIZE - 1 : i % BUFFER_SIZE = i
    /\ \A i \in BUFFER_SIZE .. 2 * BUFFER_SIZE - 1 : i % BUFFER_SIZE = i - BUFFER_SIZE
    /\ \A i \in 1 - BUFFER_SIZE .. -1 : i % BUFFER_SIZE = i + BUFFER_SIZE
<1>1. \A i \in 0 .. BUFFER_SIZE - 1 : i % BUFFER_SIZE = i
  BY UartAssumption
<1>2. \A i \in BUFFER_SIZE .. 2 * BUFFER_SIZE - 1 : i % BUFFER_SIZE = i - BUFFER_SIZE
  BY UartAssumption
<1>3. \A i \in 1 - BUFFER_SIZE .. -1 : i % BUFFER_SIZE = i + BUFFER_SIZE
  BY UartAssumption
<1> QED BY <1>1, <1>2, <1>3

\* inc steps to the next slot and from the last one to slot 0.
LEMMA IncFacts ==
    ASSUME NEW i \in Slots
    PROVE  /\ inc(i) \in Slots
           /\ inc(i) = IF i = BUFFER_SIZE - 1 THEN 0 ELSE i + 1
<1>1. i + 1 \in 0 .. BUFFER_SIZE - 1 \/ i + 1 = BUFFER_SIZE
  BY UartAssumption DEF Slots
<1>2. CASE i + 1 \in 0 .. BUFFER_SIZE - 1
  BY <1>2, ModFacts, UartAssumption DEF inc, Slots
<1>3. CASE i + 1 = BUFFER_SIZE
  BY <1>3, ModFacts, UartAssumption DEF inc, Slots
<1> QED BY <1>1, <1>2, <1>3

\* How many characters a ring holds
LEMMA CountFacts ==
    ASSUME NEW h \in Slots, NEW t \in Slots
    PROVE  /\ Count(h, t) \in 0 .. BUFFER_SIZE - 1
           /\ Count(h, t) = IF h >= t THEN h - t ELSE h - t + BUFFER_SIZE
<1>1. CASE h >= t
  <2>1. h - t \in 0 .. BUFFER_SIZE - 1
    BY <1>1, UartAssumption DEF Slots
  <2> QED BY <1>1, <2>1, ModFacts DEF Count
<1>2. CASE ~(h >= t)
  <2>1. h - t \in 1 - BUFFER_SIZE .. -1 /\ h - t + BUFFER_SIZE \in 0 .. BUFFER_SIZE - 1
    BY <1>2, UartAssumption DEF Slots
  <2> QED BY <1>2, <2>1, ModFacts DEF Count
<1> QED BY <1>1, <1>2

\* The slot of the i-th character of a ring
Slot(t, i) == (t + i - 1) % BUFFER_SIZE

\* Slot i of what a ring with tail t holds, without the modulus
LEMMA SlotFacts ==
    ASSUME NEW t \in Slots, NEW i \in 1 .. BUFFER_SIZE
    PROVE  /\ Slot(t, i) \in Slots
           /\ Slot(t, i) = IF t + i - 1 < BUFFER_SIZE THEN t + i - 1 ELSE t + i - 1 - BUFFER_SIZE
<1>1. \/ t + i - 1 \in 0 .. BUFFER_SIZE - 1
      \/ t + i - 1 \in BUFFER_SIZE .. 2 * BUFFER_SIZE - 1
  BY UartAssumption DEF Slots
<1>2. CASE t + i - 1 \in 0 .. BUFFER_SIZE - 1
  BY <1>2, ModFacts, UartAssumption DEF Slot, Slots
<1>3. CASE t + i - 1 \in BUFFER_SIZE .. 2 * BUFFER_SIZE - 1
  BY <1>3, ModFacts, UartAssumption DEF Slot, Slots
<1> QED BY <1>1, <1>2, <1>3

\* What the ring that begins at base holds
Held(mem, base, h, t) == [i \in 1 .. Count(h, t) |-> mem[base + Slot(t, i)]]

\* What lies between tail and head is a sequence of Count characters.
LEMMA HeldFacts ==
    ASSUME NEW h \in Slots, NEW t \in Slots, NEW base \in {0, BUFFER_SIZE},
           NEW mem \in [0 .. 2 * BUFFER_SIZE - 1 -> Chars]
    PROVE  /\ Held(mem, base, h, t) \in Seq(Chars)
           /\ Len(Held(mem, base, h, t)) = Count(h, t)
           /\ \A i \in 1 .. Count(h, t) : Held(mem, base, h, t)[i] = mem[base + Slot(t, i)]
<1>1. Count(h, t) \in Nat /\ \A i \in 1 .. Count(h, t) : i \in 1 .. BUFFER_SIZE
  BY CountFacts, UartAssumption
<1>2. \A i \in 1 .. Count(h, t) : mem[base + Slot(t, i)] \in Chars
  <2> SUFFICES ASSUME NEW i \in 1 .. Count(h, t) PROVE base + Slot(t, i) \in 0 .. 2 * BUFFER_SIZE - 1
    OBVIOUS
  <2>1. Slot(t, i) \in Slots
    BY <1>1, SlotFacts
  <2> QED BY <2>1, UartAssumption DEF Slots
<1> QED BY <1>1, <1>2 DEF Held

\* A head that moves on adds one slot, which the ring did not hold.
LEMMA PutCount ==
    ASSUME NEW h \in Slots, NEW t \in Slots, inc(h) # t
    PROVE  /\ Count(inc(h), t) = Count(h, t) + 1 /\ Count(h, t) + 1 \in 1 .. BUFFER_SIZE - 1
           /\ Slot(t, Count(h, t) + 1) = h
           /\ \A i \in 1 .. Count(h, t) : Slot(t, i) \in Slots /\ Slot(t, i) # h
<1> DEFINE n == Count(h, t)
           k == inc(h)
           m == Count(k, t)
<1>1. k \in Slots /\ k = IF h = BUFFER_SIZE - 1 THEN 0 ELSE h + 1
  BY IncFacts
<1>2. n \in 0 .. BUFFER_SIZE - 1 /\ n = IF h >= t THEN h - t ELSE h - t + BUFFER_SIZE
  BY CountFacts
<1> HIDE DEF k, n
<1>3. m = IF k >= t THEN k - t ELSE k - t + BUFFER_SIZE
  BY <1>1, CountFacts
<1> HIDE DEF m
<1>4. k # t
  BY DEF k
<1>5. m = n + 1 /\ n + 1 \in 1 .. BUFFER_SIZE - 1
  BY <1>1, <1>2, <1>3, <1>4, UartAssumption DEF Slots
<1>6. Slot(t, n + 1) = h
  <2>1. Slot(t, n + 1) = IF t + (n + 1) - 1 < BUFFER_SIZE THEN t + (n + 1) - 1
                         ELSE t + (n + 1) - 1 - BUFFER_SIZE
    BY <1>5, SlotFacts, UartAssumption
  <2> QED BY <1>2, <2>1, UartAssumption DEF Slots
<1>7. ASSUME NEW i \in 1 .. n PROVE Slot(t, i) \in Slots /\ Slot(t, i) # h
  <2>1. /\ Slot(t, i) \in Slots
        /\ Slot(t, i) = IF t + i - 1 < BUFFER_SIZE THEN t + i - 1 ELSE t + i - 1 - BUFFER_SIZE
    BY <1>2, SlotFacts, UartAssumption
  <2> QED BY <1>2, <2>1, UartAssumption DEF Slots
<1> QED BY <1>5, <1>6, <1>7 DEF k, n, m

\* A tail that moves on drops the first slot and keeps the others.
LEMMA TakeCount ==
    ASSUME NEW h \in Slots, NEW t \in Slots, h # t
    PROVE  /\ Count(h, inc(t)) = Count(h, t) - 1 /\ Count(h, t) \in 1 .. BUFFER_SIZE - 1
           /\ Slot(t, 1) = t
           /\ \A i \in 1 .. Count(h, t) - 1 : Slot(inc(t), i) = Slot(t, i + 1)
<1> DEFINE n == Count(h, t)
           k == inc(t)
           m == Count(h, k)
<1>1. k \in Slots /\ k = IF t = BUFFER_SIZE - 1 THEN 0 ELSE t + 1
  BY IncFacts
<1>2. n \in 0 .. BUFFER_SIZE - 1 /\ n = IF h >= t THEN h - t ELSE h - t + BUFFER_SIZE
  BY CountFacts
<1> HIDE DEF k, n
<1>3. m = IF h >= k THEN h - k ELSE h - k + BUFFER_SIZE
  BY <1>1, CountFacts
<1> HIDE DEF m
<1>4. m = n - 1 /\ n \in 1 .. BUFFER_SIZE - 1
  BY <1>1, <1>2, <1>3, UartAssumption DEF Slots
<1>5. Slot(t, 1) = t
  <2>1. Slot(t, 1) = IF t + 1 - 1 < BUFFER_SIZE THEN t + 1 - 1 ELSE t + 1 - 1 - BUFFER_SIZE
    BY SlotFacts, UartAssumption
  <2> QED BY <2>1, UartAssumption DEF Slots
<1>6. ASSUME NEW i \in 1 .. n - 1 PROVE Slot(k, i) = Slot(t, i + 1)
  <2>1. Slot(k, i) = IF k + i - 1 < BUFFER_SIZE THEN k + i - 1 ELSE k + i - 1 - BUFFER_SIZE
    BY <1>1, <1>4, SlotFacts, UartAssumption
  <2>2. Slot(t, i + 1) = IF t + (i + 1) - 1 < BUFFER_SIZE THEN t + (i + 1) - 1
                         ELSE t + (i + 1) - 1 - BUFFER_SIZE
    BY <1>4, SlotFacts, UartAssumption
  <2> QED BY <1>1, <1>4, <2>1, <2>2, UartAssumption DEF Slots
<1> QED BY <1>4, <1>5, <1>6 DEF k, n, m

\* Two memories with the same characters in the ring that begins at base, and
\* in that ring except for slot h
SameRing(mem, mem2, base) == \A s \in Slots : mem2[base + s] = mem[base + s]
SameBut(mem, mem2, base, h) == \A s \in Slots : s # h => mem2[base + s] = mem[base + s]

\* A store, the sequence of one element and concatenation, as operators of their
\* own: a fact about one of them can then be instantiated by name.
Put(mem, base, h, x) == [mem EXCEPT ![base + h] = x]
At(mem, base, h) == mem[base + h]
Memories == [0 .. 2 * BUFFER_SIZE - 1 -> Chars]
Single(x) == <<x>>
Cat(s, t) == s \o t

\* A store into slot h of one ring changes only that slot, and not the other ring.
LEMMA Store ==
    ASSUME NEW h \in Slots, NEW base \in {0, BUFFER_SIZE}, NEW x \in Chars,
           NEW mem \in Memories,
           NEW mem2, mem2 = Put(mem, base, h, x)
    PROVE  /\ mem2 \in Memories /\ At(mem2, base, h) = x
           /\ SameBut(mem, mem2, base, h)
           /\ SameRing(mem, mem2, BUFFER_SIZE - base)
<1> USE DEF Put, At, Memories
<1>1. base + h \in 0 .. 2 * BUFFER_SIZE - 1
  BY UartAssumption DEF Slots
<1>2. \A s \in Slots : base + s \in 0 .. 2 * BUFFER_SIZE - 1 /\ (s # h => base + s # base + h)
  BY UartAssumption DEF Slots
<1>3. \A s \in Slots : /\ BUFFER_SIZE - base + s \in 0 .. 2 * BUFFER_SIZE - 1
                       /\ BUFFER_SIZE - base + s # base + h
  BY UartAssumption DEF Slots
<1>4. SameBut(mem, mem2, base, h)
  BY <1>1, <1>2 DEF SameBut
<1>5. SameRing(mem, mem2, BUFFER_SIZE - base)
  BY <1>1, <1>3 DEF SameRing
<1> QED BY <1>1, <1>4, <1>5

\* One character is put at the head of a ring that is not full.
LEMMA PutOne ==
    ASSUME NEW h \in Slots, NEW t \in Slots, NEW base \in {0, BUFFER_SIZE}, inc(h) # t,
           NEW mem \in [0 .. 2 * BUFFER_SIZE - 1 -> Chars],
           NEW mem2 \in [0 .. 2 * BUFFER_SIZE - 1 -> Chars],
           SameBut(mem, mem2, base, h)
    PROVE  /\ Held(mem2, base, inc(h), t) = Append(Held(mem, base, h, t), At(mem2, base, h))
           /\ Count(inc(h), t) = Count(h, t) + 1
<1> DEFINE n == Count(h, t)
           new == Held(mem2, base, inc(h), t)
           old == Held(mem, base, h, t)
<1>1. inc(h) \in Slots
  BY IncFacts
<1>2. n \in Nat
  BY CountFacts
<1>3. Count(inc(h), t) = n + 1 /\ n + 1 \in 1 .. BUFFER_SIZE - 1
  BY PutCount
<1>4. /\ new \in Seq(Chars) /\ Len(new) = n + 1
      /\ \A i \in 1 .. n + 1 : new[i] = mem2[base + Slot(t, i)]
  <2>1. /\ new \in Seq(Chars) /\ Len(new) = Count(inc(h), t)
        /\ \A i \in 1 .. Count(inc(h), t) : new[i] = mem2[base + Slot(t, i)]
    BY <1>1, HeldFacts
  <2> HIDE DEF new, n
  <2> QED BY <1>3, <2>1
<1>5. /\ old \in Seq(Chars) /\ Len(old) = n
      /\ \A i \in 1 .. n : old[i] = mem[base + Slot(t, i)]
  BY HeldFacts
<1>7. Slot(t, n + 1) = h /\ \A i \in 1 .. n : Slot(t, i) \in Slots /\ Slot(t, i) # h
  BY PutCount
<1>8. mem2[base + h] \in Chars
  BY UartAssumption DEF Slots
<1> HIDE DEF n, new, old
<1>9. \A i \in 1 .. n : new[i] = old[i]
  BY <1>2, <1>3, <1>4, <1>5, <1>7 DEF SameBut
<1>10. new[n + 1] = mem2[base + h]
  BY <1>2, <1>3, <1>4, <1>7
<1>11. new = Append(old, mem2[base + h])
  BY <1>2, <1>4, <1>5, <1>8, <1>9, <1>10
<1> QED BY <1>3, <1>11 DEF n, new, old, At

\* One character is taken from the tail of a ring that is not empty.
LEMMA TakeOne ==
    ASSUME NEW h \in Slots, NEW t \in Slots, NEW base \in {0, BUFFER_SIZE}, h # t,
           NEW mem \in [0 .. 2 * BUFFER_SIZE - 1 -> Chars]
    PROVE  /\ Held(mem, base, h, t) = Cat(Single(mem[base + t]), Held(mem, base, h, inc(t)))
           /\ Count(h, inc(t)) = Count(h, t) - 1 /\ mem[base + t] \in Chars
<1> DEFINE n == Count(h, t)
           new == Held(mem, base, h, inc(t))
           old == Held(mem, base, h, t)
<1>1. inc(t) \in Slots
  BY IncFacts
<1>3. Count(h, inc(t)) = n - 1 /\ n \in 1 .. BUFFER_SIZE - 1 /\ n \in Nat
  BY TakeCount
<1>4. /\ new \in Seq(Chars) /\ Len(new) = n - 1
      /\ \A i \in 1 .. n - 1 : new[i] = mem[base + Slot(inc(t), i)]
  <2>1. /\ new \in Seq(Chars) /\ Len(new) = Count(h, inc(t))
        /\ \A i \in 1 .. Count(h, inc(t)) : new[i] = mem[base + Slot(inc(t), i)]
    BY <1>1, HeldFacts
  <2> HIDE DEF new, n
  <2> QED BY <1>3, <2>1
<1>5. /\ old \in Seq(Chars) /\ Len(old) = n
      /\ \A i \in 1 .. n : old[i] = mem[base + Slot(t, i)]
  BY HeldFacts
<1>7. Slot(t, 1) = t /\ \A i \in 1 .. n - 1 : Slot(inc(t), i) = Slot(t, i + 1)
  BY TakeCount
<1>8. mem[base + t] \in Chars
  BY UartAssumption DEF Slots
<1> HIDE DEF n, new, old
<1>9. \A i \in 1 .. n - 1 : new[i] = old[i + 1]
  BY <1>3, <1>4, <1>5, <1>7
<1>10. old[1] = mem[base + t]
  BY <1>3, <1>5, <1>7
<1>11. old = <<mem[base + t]>> \o new
  <2>1. /\ <<mem[base + t]>> \o new \in Seq(Chars) /\ Len(<<mem[base + t]>> \o new) = n
        /\ (<<mem[base + t]>> \o new)[1] = mem[base + t]
        /\ \A i \in 2 .. n : (<<mem[base + t]>> \o new)[i] = new[i - 1]
    BY <1>3, <1>4, <1>8
  <2>2. \A i \in 2 .. n : new[i - 1] = old[i]
    BY <1>3, <1>9
  <2> QED BY <1>3, <1>5, <1>10, <2>1, <2>2
<1> QED BY <1>3, <1>8, <1>11 DEF n, new, old, Single, Cat

-----------------------------------------------------------------------------
(* Induction, and what FlattenSeq computes *)

\* Induction on the natural numbers, for a set
LEMMA SetInduction ==
    ASSUME NEW S, 0 \in S, \A n \in Nat : n \in S => n + 1 \in S
    PROVE  Nat \subseteq S
<1> SUFFICES ASSUME Nat \ S # {} PROVE FALSE
  OBVIOUS
<1>1. PICK m \in Nat \ S : \A k \in Nat \ S : ~(<<k, m>> \in OpToRel(<, Nat))
  BY NatLessThanWellFounded, WFMin
<1>2. \A k \in Nat \ S : ~(k < m)
  BY <1>1 DEF OpToRel
<1>3. m # 0 /\ m - 1 \in Nat
  OBVIOUS
<1>4. m - 1 < m /\ (m - 1) + 1 = m
  BY <1>3
<1>5. m - 1 \in S
  BY <1>2, <1>3, <1>4
<1>6. (m - 1) + 1 \in S
  BY <1>3, <1>5
<1> QED BY <1>4, <1>6

\* f joins the first n of the sequences seqs, one after the other.
Joins(f, seqs, n) ==
    f = [i \in 1 .. n |-> IF i = 1 THEN seqs[i] ELSE f[i - 1] \o seqs[i]]

\* The fold behind FlattenSeq has a value for every length, so that CHOOSE finds it.
LEMMA JoinsExists ==
    ASSUME NEW seqs
    PROVE  \A n \in Nat : \E f : Joins(f, seqs, n)
<1> DEFINE S == {n \in Nat : \E f : Joins(f, seqs, n)}
<1>1. 0 \in S
  <2>1. Joins([i \in 1 .. 0 |-> 0], seqs, 0)
    BY DEF Joins
  <2> QED BY <2>1
<1>2. ASSUME NEW n \in Nat, n \in S PROVE n + 1 \in S
  <2>1. PICK f : Joins(f, seqs, n)
    BY <1>2
  <2> DEFINE last == IF n + 1 = 1 THEN seqs[n + 1] ELSE f[n] \o seqs[n + 1]
             g == [i \in 1 .. n + 1 |-> IF i = n + 1 THEN last ELSE f[i]]
  <2>2. ASSUME NEW i \in 1 .. n + 1
        PROVE  g[i] = IF i = 1 THEN seqs[i] ELSE g[i - 1] \o seqs[i]
    <3>1. CASE i = n + 1 /\ n = 0
      BY <3>1
    <3>2. CASE i = n + 1 /\ n # 0
      <4>0. n + 1 # 1
        BY <3>2
      <4>1. last = f[n] \o seqs[n + 1]
        BY <4>0, Zenon
      <4> HIDE DEF last
      <4>2. g[n + 1] = last /\ g[n] = f[n]
        BY <3>2
      <4>3. i - 1 = n /\ i # 1 /\ i = n + 1
        BY <3>2
      <4> HIDE DEF g
      <4> QED BY <4>1, <4>2, <4>3
    <3>3. CASE i # n + 1
      <4>1. i \in 1 .. n /\ g[i] = f[i] /\ (i # 1 => i - 1 \in 1 .. n /\ g[i - 1] = f[i - 1])
        BY <3>3
      <4>2. f[i] = IF i = 1 THEN seqs[i] ELSE f[i - 1] \o seqs[i]
        BY <2>1, <4>1 DEF Joins
      <4> QED BY <4>1, <4>2
    <3> QED BY <3>1, <3>2, <3>3
  <2>3. g = [i \in 1 .. n + 1 |-> g[i]]
    OBVIOUS
  <2> HIDE DEF g
  <2>4. Joins(g, seqs, n + 1)
    BY <2>2, <2>3 DEF Joins
  <2> QED BY <2>4
<1> HIDE DEF S
<1>3. Nat \subseteq S
  BY <1>1, <1>2, SetInduction
<1> QED BY <1>3 DEF S

SameUpTo(f, g, n) == \A i \in 1 .. n : f[i] = g[i]

\* What two lists of sequences begin with is joined in the same way.
LEMMA JoinsSame ==
    ASSUME NEW seqs, NEW more, NEW n \in Nat, NEW m \in Nat, n <= m,
           SameUpTo(seqs, more, n), NEW f, Joins(f, seqs, n), NEW g, Joins(g, more, m)
    PROVE  SameUpTo(f, g, n)
<1> USE DEF SameUpTo
<1> DEFINE S == {i \in Nat : i \in 1 .. n => f[i] = g[i]}
<1>1. 0 \in S
  OBVIOUS
<1>2. ASSUME NEW i \in Nat, i \in S PROVE i + 1 \in S
  <2> SUFFICES ASSUME i + 1 \in 1 .. n PROVE f[i + 1] = g[i + 1]
    OBVIOUS
  <2>1. f[i + 1] = IF i + 1 = 1 THEN seqs[i + 1] ELSE f[(i + 1) - 1] \o seqs[i + 1]
    BY DEF Joins
  <2>2. g[i + 1] = IF i + 1 = 1 THEN more[i + 1] ELSE g[(i + 1) - 1] \o more[i + 1]
    <3>1. i + 1 \in 1 .. m
      OBVIOUS
    <3> QED BY <3>1 DEF Joins
  <2>3. i + 1 # 1 => f[i] = g[i] /\ (i + 1) - 1 = i
    BY <1>2
  <2> QED BY <2>1, <2>2, <2>3
<1> HIDE DEF S
<1>3. Nat \subseteq S
  BY <1>1, <1>2, SetInduction
<1> QED BY <1>3 DEF S

\* FlattenSeq is the last of the partial joins.
LEMMA FlattenIs ==
    ASSUME NEW S, NEW seqs \in Seq(Seq(S)), seqs # <<>>
    PROVE  \E f : Joins(f, seqs, Len(seqs)) /\ FlattenSeq(seqs) = f[Len(seqs)]
<1> DEFINE f == CHOOSE f : f = [i \in 1 .. Len(seqs) |->
                                  IF i = 1 THEN seqs[i] ELSE f[i - 1] \o seqs[i]]
<1>1. Len(seqs) \in Nat /\ Len(seqs) # 0
  OBVIOUS
<1>2. FlattenSeq(seqs) = f[Len(seqs)]
  BY <1>1, Zenon DEF FlattenSeq
<1>3. Joins(f, seqs, Len(seqs))
  BY <1>1, JoinsExists, Zenon DEF Joins
<1> QED BY <1>2, <1>3
\* Append by its length and elements
LEMMA AppendIs ==
    ASSUME NEW T, NEW s \in Seq(T), NEW x \in T
    PROVE  /\ Append(s, x) \in Seq(T) /\ Len(Append(s, x)) = Len(s) + 1
           /\ Append(s, x) # <<>> /\ Append(s, x)[Len(s) + 1] = x
           /\ \A i \in 1 .. Len(s) : s[i] = Append(s, x)[i]
  OBVIOUS

\* FlattenSeq of a longer sequence, and its type
LEMMA FlattenEmpty == FlattenSeq(<<>>) = <<>>
  BY DEF FlattenSeq

\* FlattenSeq of a longer sequence, when there is something before
LEMMA FlattenAppendRaw ==
    ASSUME NEW S, NEW seqs \in Seq(Seq(S)), seqs # <<>>, NEW x \in Seq(S)
    PROVE  FlattenSeq(Append(seqs, x)) = FlattenSeq(seqs) \o x
<1> DEFINE n == Len(seqs)
           more == Append(seqs, x)
<1>1. n \in Nat /\ n # 0 /\ n + 1 # 1 /\ (n + 1) - 1 = n
  OBVIOUS
<1>2. /\ more \in Seq(Seq(S)) /\ Len(more) = n + 1 /\ more # <<>>
      /\ more[n + 1] = x /\ \A i \in 1 .. n : seqs[i] = more[i]
  BY AppendIs
<1>3. PICK f : Joins(f, seqs, n) /\ FlattenSeq(seqs) = f[n]
  BY FlattenIs
<1> HIDE DEF more
<1>4. PICK g : Joins(g, more, n + 1) /\ FlattenSeq(more) = g[n + 1]
  BY <1>2, FlattenIs
<1> HIDE DEF n
<1>5. f[n] = g[n]
  <2>1. n + 1 \in Nat /\ n <= n + 1 /\ n \in 1 .. n
    BY <1>1
  <2>2. \A i \in 1 .. n : f[i] = g[i]
    <3>1. SameUpTo(seqs, more, n)
      BY <1>2 DEF SameUpTo
    <3>2. SameUpTo(f, g, n)
      BY <1>1, <1>3, <1>4, <2>1, <3>1, JoinsSame
    <3> QED BY <3>2 DEF SameUpTo
  <2> QED BY <2>1, <2>2
<1>6. g[n + 1] = g[n] \o more[n + 1]
  <2>1. n + 1 \in 1 .. n + 1
    BY <1>1
  <2>2. g[n + 1] = IF n + 1 = 1 THEN more[n + 1] ELSE g[(n + 1) - 1] \o more[n + 1]
    BY <1>4, <2>1 DEF Joins
  <2> QED BY <1>1, <2>2
<1> QED BY <1>2, <1>3, <1>4, <1>5, <1>6 DEF more

\* FlattenSeq of a single sequence
LEMMA FlattenOne ==
    ASSUME NEW S, NEW x \in Seq(S)
    PROVE  FlattenSeq(<<x>>) = x
<1>1. <<x>> \in Seq(Seq(S)) /\ <<x>> # <<>> /\ Len(<<x>>) = 1 /\ <<x>>[1] = x
  OBVIOUS
<1>2. PICK f : Joins(f, <<x>>, 1) /\ FlattenSeq(<<x>>) = f[1]
  BY <1>1, FlattenIs
<1>3. f[1] = <<x>>[1]
  BY <1>2 DEF Joins
<1> QED BY <1>1, <1>2, <1>3

\* FlattenSeq joins sequences over S to one over S.
LEMMA FlattenType ==
    ASSUME NEW S
    PROVE  \A seqs \in Seq(Seq(S)) : FlattenSeq(seqs) \in Seq(S)
<1> DEFINE T == {n \in Nat : \A seqs \in Seq(Seq(S)) : Len(seqs) = n => FlattenSeq(seqs) \in Seq(S)}
<1>1. 0 \in T
  <2>1. \A seqs \in Seq(Seq(S)) : Len(seqs) = 0 => seqs = <<>>
    OBVIOUS
  <2> QED BY <2>1, FlattenEmpty
<1>2. ASSUME NEW n \in Nat, n \in T PROVE n + 1 \in T
  <2> SUFFICES ASSUME NEW seqs \in Seq(Seq(S)), Len(seqs) = n + 1
               PROVE  FlattenSeq(seqs) \in Seq(S)
    OBVIOUS
  <2> DEFINE x == seqs[n + 1]
             front == SubSeq(seqs, 1, n)
  <2>1. /\ x \in Seq(S) /\ front \in Seq(Seq(S)) /\ Len(front) = n
        /\ seqs = Append(front, x)
    OBVIOUS
  <2>2. FlattenSeq(front) \in Seq(S)
    BY <1>2, <2>1
  <2> HIDE DEF front, x
  <2>3. CASE front = <<>>
    <3>1. seqs = <<x>>
      BY <2>1, <2>3
    <3> QED BY <2>1, <3>1, FlattenOne
  <2>4. CASE front # <<>>
    <3>1. FlattenSeq(seqs) = FlattenSeq(front) \o x
      BY <2>1, <2>4, FlattenAppendRaw
    <3> QED BY <2>1, <2>2, <3>1
  <2> QED BY <2>3, <2>4
<1> HIDE DEF T
<1>3. Nat \subseteq T
  BY <1>1, <1>2, SetInduction
<1> QED BY <1>3 DEF T

\* FlattenSeq of a longer sequence, in every case
LEMMA FlattenAppend ==
    ASSUME NEW S, NEW seqs \in Seq(Seq(S)), NEW x \in Seq(S)
    PROVE  FlattenSeq(Append(seqs, x)) = FlattenSeq(seqs) \o x
<1>1. CASE seqs = <<>>
  <2>1. Append(seqs, x) = <<x>> /\ <<>> \o x = x
    BY <1>1
  <2> QED BY <1>1, <2>1, FlattenOne, FlattenEmpty
<1>2. CASE seqs # <<>>
  BY <1>2, FlattenAppendRaw
<1> QED BY <1>1, <1>2


-----------------------------------------------------------------------------
(* Sequences of characters *)

\* Sequences of one length with the same elements are equal.
LEMMA SeqSame ==
    ASSUME NEW T, NEW s \in Seq(T), NEW t \in Seq(T), Len(s) = Len(t),
           \A i \in 1 .. Len(s) : s[i] = t[i]
    PROVE  s = t
  OBVIOUS

\* Concatenation by its length and elements
LEMMA ConcatIs ==
    ASSUME NEW T, NEW s \in Seq(T), NEW t \in Seq(T)
    PROVE  /\ s \o t \in Seq(T) /\ Len(s \o t) = Len(s) + Len(t)
           /\ \A i \in 1 .. Len(s) : (s \o t)[i] = s[i]
           /\ \A i \in 1 .. Len(t) : (s \o t)[Len(s) + i] = t[i]
           /\ \A i \in Len(s) + 1 .. Len(s) + Len(t) : (s \o t)[i] = t[i - Len(s)]
  OBVIOUS

\* Concatenation is associative.
LEMMA ConcatAssoc ==
    ASSUME NEW T, NEW s \in Seq(T), NEW t \in Seq(T), NEW u \in Seq(T)
    PROVE  (s \o t) \o u = s \o (t \o u)
  OBVIOUS

\* The same for Cat, which hides the concatenation from the provers,
LEMMA CatFacts ==
    ASSUME NEW a \in Seq(Chars), NEW b \in Seq(Chars), NEW c \in Seq(Chars)
    PROVE  /\ Cat(a, b) \in Seq(Chars) /\ Len(Cat(a, b)) = Len(a) + Len(b)
           /\ Cat(Cat(a, b), c) = Cat(a, Cat(b, c))
<1>1. Cat(a, b) \in Seq(Chars) /\ Len(Cat(a, b)) = Len(a) + Len(b)
  BY DEF Cat
<1>2. Cat(Cat(a, b), c) = Cat(a, Cat(b, c))
  BY ConcatAssoc DEF Cat
<1> QED BY <1>1, <1>2

\* its type and length alone,
LEMMA CatLen ==
    ASSUME NEW a \in Seq(Chars), NEW b \in Seq(Chars)
    PROVE  /\ Cat(a, b) \in Seq(Chars) /\ Len(Cat(a, b)) = Len(a) + Len(b)
           /\ Len(a) \in Nat /\ Len(b) \in Nat
  BY DEF Cat

\* and Append as a concatenation.
LEMMA SingleFacts ==
    ASSUME NEW a \in Seq(Chars), NEW x \in Chars
    PROVE  /\ Append(a, x) = Cat(a, Single(x)) /\ Single(x) \in Seq(Chars)
           /\ Len(Append(a, x)) = Len(a) + 1
  BY DEF Cat, Single

\* A sequence is its head and its tail.
LEMMA HeadTail ==
    ASSUME NEW T, NEW s \in Seq(T), s # <<>>
    PROVE  /\ s = Cat(Single(Head(s)), Tail(s)) /\ Head(s) \in T /\ Tail(s) \in Seq(T)
           /\ Len(Tail(s)) = Len(s) - 1
  BY DEF Single, Cat

\* What is put behind a sequence leaves it a prefix.
LEMMA PrefixIs ==
    ASSUME NEW T, NEW s \in Seq(T), NEW t \in Seq(T)
    PROVE  IsPrefix(s, s \o t)
<1>1. /\ s \o t \in Seq(T) /\ Len(s \o t) = Len(s) + Len(t) /\ Len(s) \in Nat
      /\ Len(t) \in Nat /\ \A i \in 1 .. Len(s) : (s \o t)[i] = s[i]
  BY ConcatIs
<1> DEFINE u == s \o t
<1> HIDE DEF u
<1>2. /\ SubSeq(u, 1, Len(s)) \in Seq(T) /\ Len(SubSeq(u, 1, Len(s))) = Len(s)
      /\ \A i \in 1 .. Len(s) : SubSeq(u, 1, Len(s))[i] = u[i]
  BY <1>1 DEF u
<1>3. SubSeq(s, 1, Len(s)) = s
  OBVIOUS
<1>4. SubSeq(u, 1, Len(s)) = s
  BY <1>1, <1>2 DEF u
<1> QED BY <1>1, <1>3, <1>4 DEF IsPrefix, u

\* A character is written as characters,
LEMMA BytesType == \A c \in Chars : Bytes(c) \in Seq(Chars)
<1>1. CR \in Chars /\ LF \in Chars
  BY DEF Chars
<1> QED BY <1>1 DEF Bytes

\* and the greeting is passed to uart_async_putc as characters.
LEMMA CallsType == Calls(Greeting) \in Seq(Chars)
<1> DEFINE each == [i \in DOMAIN Greeting |->
                       IF Greeting[i] = LF THEN <<CR, LF>> ELSE <<Greeting[i]>>]
<1>1. Greeting \in Seq(Chars) /\ CR \in Chars /\ LF \in Chars
  BY UartAssumption DEF Chars
<1>2. \A c \in Chars : <<CR, LF>> \in Seq(Chars) /\ <<c>> \in Seq(Chars)
  BY <1>1
<1>3. DOMAIN Greeting = 1 .. Len(Greeting) /\ Len(Greeting) \in Nat
      /\ \A i \in DOMAIN Greeting : Greeting[i] \in Chars
  BY <1>1
<1>4. each \in [1 .. Len(Greeting) -> Seq(Chars)]
  BY <1>2, <1>3
<1>5. each \in Seq(Seq(Chars))
  BY <1>3, <1>4
<1> QED BY <1>5, FlattenType DEF Calls

\* What putc writes for each of the characters of str
Encode(str) == FlattenSeq([i \in DOMAIN str |-> Bytes(str[i])])

\* What a string is written as, one more character at a time
LEMMA EncodeFacts ==
    ASSUME NEW str \in Seq(Chars)
    PROVE  /\ Encode(str) \in Seq(Chars)
           /\ \A c \in Chars : Encode(Append(str, c)) = Encode(str) \o Bytes(c)
<1> DEFINE Each(x) == [i \in DOMAIN x |-> Bytes(x[i])]
<1>1. ASSUME NEW x \in Seq(Chars)
      PROVE  Each(x) \in Seq(Seq(Chars)) /\ Len(Each(x)) = Len(x)
  <2>1. DOMAIN x = 1 .. Len(x) /\ Len(x) \in Nat /\ \A i \in DOMAIN x : x[i] \in Chars
    OBVIOUS
  <2>2. Each(x) \in [1 .. Len(x) -> Seq(Chars)]
    BY <2>1, BytesType
  <2> QED BY <2>1, <2>2
<1>2. ASSUME NEW c \in Chars PROVE Each(Append(str, c)) = Append(Each(str), Bytes(c))
  <2> DEFINE more == Append(str, c)
             l == Each(more)
             e == Each(str)
             r == Append(e, Bytes(c))
  <2>1. /\ more \in Seq(Chars) /\ Len(more) = Len(str) + 1 /\ more[Len(str) + 1] = c
        /\ \A i \in 1 .. Len(str) : more[i] = str[i]
    BY AppendIs
  <2> HIDE DEF more
  <2>2. l \in Seq(Seq(Chars)) /\ Len(l) = Len(str) + 1
    BY <1>1, <2>1
  <2>3. e \in Seq(Seq(Chars)) /\ Len(e) = Len(str)
    BY <1>1
  <2>4. Bytes(c) \in Seq(Chars)
    BY BytesType
  <2>5. \A i \in 1 .. Len(str) + 1 : l[i] = Bytes(more[i])
    BY <2>1
  <2>6. \A i \in 1 .. Len(str) : e[i] = Bytes(str[i])
    OBVIOUS
  <2> HIDE DEF e, l, Each
  <2>7. /\ r \in Seq(Seq(Chars)) /\ Len(r) = Len(str) + 1 /\ r[Len(str) + 1] = Bytes(c)
        /\ \A i \in 1 .. Len(str) : r[i] = e[i]
    BY <2>3, <2>4, AppendIs
  <2> HIDE DEF r
  <2>8. \A i \in 1 .. Len(str) + 1 : l[i] = r[i]
    BY <2>1, <2>5, <2>6, <2>7
  <2>9. l = r
    BY <2>2, <2>7, <2>8, SeqSame
  <2> QED BY <2>9 DEF l, r, e, more
<1> HIDE DEF Each
<1>3. Each(str) \in Seq(Seq(Chars))
  BY <1>1
<1>4. FlattenSeq(Each(str)) \in Seq(Chars)
  BY <1>3, FlattenType
<1>5. \A c \in Chars : FlattenSeq(Each(Append(str, c))) = FlattenSeq(Each(str)) \o Bytes(c)
  BY <1>2, <1>3, BytesType, FlattenAppend
<1> QED BY <1>4, <1>5 DEF Encode, Each
\* A longer part of a sequence is the shorter part and one element.
LEMMA SubSeqOneMore ==
    ASSUME NEW T, NEW s \in Seq(T), NEW k \in Nat, k < Len(s)
    PROVE  /\ SubSeq(s, 1, k) \in Seq(T) /\ s[k + 1] \in T
           /\ SubSeq(s, 1, k + 1) = Append(SubSeq(s, 1, k), s[k + 1])
  OBVIOUS

\* A longer part of a string is written as the shorter part and something more.
LEMMA EncodePrefix ==
    ASSUME NEW s \in Seq(Chars), NEW j \in Nat, j <= Len(s)
    PROVE  \A k \in j .. Len(s) : \E d \in Seq(Chars) :
              Encode(SubSeq(s, 1, k)) = Encode(SubSeq(s, 1, j)) \o d
<1> DEFINE T == {m \in Nat : j + m <= Len(s) => \E d \in Seq(Chars) :
                    Encode(SubSeq(s, 1, j + m)) = Encode(SubSeq(s, 1, j)) \o d}
<1>1. SubSeq(s, 1, j) \in Seq(Chars)
  OBVIOUS
<1>2. Encode(SubSeq(s, 1, j)) \in Seq(Chars)
  BY <1>1, EncodeFacts
<1>3. 0 \in T
  <2>1. Encode(SubSeq(s, 1, j)) = Encode(SubSeq(s, 1, j)) \o <<>> /\ j + 0 = j
    BY <1>2
  <2>2. <<>> \in Seq(Chars)
    OBVIOUS
  <2> QED BY <2>1, <2>2
<1>4. ASSUME NEW m \in Nat, m \in T PROVE m + 1 \in T
  <2> SUFFICES ASSUME j + (m + 1) <= Len(s)
               PROVE  \E d \in Seq(Chars) :
                          Encode(SubSeq(s, 1, j + (m + 1))) = Encode(SubSeq(s, 1, j)) \o d
    OBVIOUS
  <2> DEFINE k == j + m
  <2>1. k \in Nat /\ k < Len(s) /\ j + (m + 1) = k + 1
    OBVIOUS
  <2>2. PICK d \in Seq(Chars) : Encode(SubSeq(s, 1, k)) = Encode(SubSeq(s, 1, j)) \o d
    BY <1>4, <2>1
  <2> HIDE DEF k
  <2>3. /\ SubSeq(s, 1, k) \in Seq(Chars) /\ s[k + 1] \in Chars
        /\ SubSeq(s, 1, k + 1) = Append(SubSeq(s, 1, k), s[k + 1])
    BY <2>1, SubSeqOneMore
  <2>4. Encode(SubSeq(s, 1, k + 1)) = Encode(SubSeq(s, 1, k)) \o Bytes(s[k + 1])
    BY <2>3, EncodeFacts
  <2>5. Bytes(s[k + 1]) \in Seq(Chars)
    BY <2>3, BytesType
  <2>6. /\ d \o Bytes(s[k + 1]) \in Seq(Chars)
        /\ (Encode(SubSeq(s, 1, j)) \o d) \o Bytes(s[k + 1])
             = Encode(SubSeq(s, 1, j)) \o (d \o Bytes(s[k + 1]))
    <3> DEFINE e == Encode(SubSeq(s, 1, j))
               b == Bytes(s[k + 1])
    <3>1. e \in Seq(Chars) /\ b \in Seq(Chars)
      BY <1>2, <2>5
    <3> HIDE DEF e, b
    <3>2. d \o b \in Seq(Chars) /\ (e \o d) \o b = e \o (d \o b)
      <4>1. d \o b \in Seq(Chars)
        BY <3>1, ConcatIs
      <4>2. (e \o d) \o b = e \o (d \o b)
        BY <3>1
      <4> QED BY <4>1, <4>2
    <3> QED BY <3>2 DEF e, b
  <2> QED BY <2>1, <2>2, <2>4, <2>6
<1> HIDE DEF T
<1>5. Nat \subseteq T
  BY <1>3, <1>4, SetInduction
<1> SUFFICES ASSUME NEW k \in j .. Len(s)
             PROVE  \E d \in Seq(Chars) :
                        Encode(SubSeq(s, 1, k)) = Encode(SubSeq(s, 1, j)) \o d
  OBVIOUS
<1>6. k - j \in Nat /\ j + (k - j) = k /\ k <= Len(s)
  OBVIOUS
<1>7. k - j \in T
  BY <1>5, <1>6
<1> QED BY <1>6, <1>7 DEF T

-----------------------------------------------------------------------------
(* The rings of the state *)

\* The contents of the two rings as Held, in this state
LEMMA RingIs ==
    ASSUME NEW mem, NEW h \in Slots, NEW t \in Slots
    PROVE  /\ [i \in 1 .. Count(h, t) |-> mem[Slot(t, i)]] = Held(mem, 0, h, t)
           /\ [i \in 1 .. Count(h, t) |-> mem[BUFFER_SIZE + Slot(t, i)]]
                = Held(mem, BUFFER_SIZE, h, t)
<1>1. \A i \in 1 .. Count(h, t) : i \in 1 .. BUFFER_SIZE
  BY CountFacts, UartAssumption
<1>2. \A i \in 1 .. Count(h, t) : 0 + Slot(t, i) = Slot(t, i)
  BY <1>1, SlotFacts DEF Slots
<1> QED BY <1>2 DEF Held

\* The contents of the two rings, as long as they are apart
LEMMA ContentsHeld ==
    ASSUME TypeOK
    PROVE  /\ RxContents = Held(memory, 0, rx_buffer_head, rx_buffer_tail)
           /\ ~aliased => TxContents = Held(memory, BUFFER_SIZE, tx_buffer_head, tx_buffer_tail)
<1>1. /\ rx_buffer_head \in Slots /\ rx_buffer_tail \in Slots
      /\ tx_buffer_head \in Slots /\ tx_buffer_tail \in Slots
  BY DEF TypeOK
<1>2. RxContents = [i \in 1 .. Count(rx_buffer_head, rx_buffer_tail) |->
                        memory[Slot(rx_buffer_tail, i)]]
  BY DEF RxContents, RxAt, Slot
<1>3. ~aliased => TxContents = [i \in 1 .. Count(tx_buffer_head, tx_buffer_tail) |->
                                   memory[BUFFER_SIZE + Slot(tx_buffer_tail, i)]]
  BY DEF TxContents, TxAt, Slot
<1> QED BY <1>1, <1>2, <1>3, RingIs

\* ... and in the next state
LEMMA ContentsHeldNext ==
    ASSUME TypeOK'
    PROVE  /\ RxContents' = Held(memory', 0, rx_buffer_head', rx_buffer_tail')
           /\ ~aliased' => TxContents' = Held(memory', BUFFER_SIZE, tx_buffer_head', tx_buffer_tail')
<1>1. /\ rx_buffer_head' \in Slots /\ rx_buffer_tail' \in Slots
      /\ tx_buffer_head' \in Slots /\ tx_buffer_tail' \in Slots
  BY DEF TypeOK
<1>2. RxContents' = [i \in 1 .. Count(rx_buffer_head', rx_buffer_tail') |->
                        memory'[Slot(rx_buffer_tail', i)]]
  BY DEF RxContents, RxAt, Slot, Count
<1>3. ~aliased' => TxContents' = [i \in 1 .. Count(tx_buffer_head', tx_buffer_tail') |->
                                   memory'[BUFFER_SIZE + Slot(tx_buffer_tail', i)]]
  BY DEF TxContents, TxAt, Slot, Count
<1> QED BY <1>1, <1>2, <1>3, RingIs

\* Writing into the other ring leaves a ring's characters alone.
LEMMA HeldSame ==
    ASSUME NEW h \in Slots, NEW t \in Slots, NEW base \in {0, BUFFER_SIZE}, NEW mem, NEW mem2,
           SameRing(mem, mem2, base)
    PROVE  Held(mem2, base, h, t) = Held(mem, base, h, t)
<1>1. \A i \in 1 .. Count(h, t) : i \in 1 .. BUFFER_SIZE
  BY CountFacts, UartAssumption
<1>2. \A i \in 1 .. Count(h, t) : Slot(t, i) \in Slots
  BY <1>1, SlotFacts
<1> QED BY <1>2 DEF Held, SameRing

-----------------------------------------------------------------------------
(* Type correctness *)

\* putc is called for a character
Base == TypeOK /\ (pc \in {"puts_store", "echo_store"} => todo # <<>>)

\* Base holds at the start,
LEMMA BaseInit == Init => Base
<1> SUFFICES ASSUME Init PROVE Base
  OBVIOUS
<1>1. memory \in [0 .. 2 * BUFFER_SIZE - 1 -> Chars] /\ 0 \in Slots
  BY UartAssumption DEF Init, Chars, Slots
<1>2. todo \in Seq(Chars) /\ <<>> \in Seq(Chars)
  BY CallsType DEF Init
<1> QED BY <1>1, <1>2 DEF Init, Base, TypeOK

\* The addresses of the rings' slots
LEMMA Addresses ==
    ASSUME NEW s \in Slots
    PROVE  RxAt(s) \in 0 .. 2 * BUFFER_SIZE - 1 /\ TxAt(s) \in 0 .. 2 * BUFFER_SIZE - 1
  BY UartAssumption DEF RxAt, TxAt, Slots

\* and each step keeps it: the receive ring and the cursor are always in order.
LEMMA BaseNext == Base /\ [Next]_vars => Base'
<1> SUFFICES ASSUME TypeOK, pc \in {"puts_store", "echo_store"} => todo # <<>>, [Next]_vars
             PROVE  Base'
  BY DEF Base
<1> USE DEF Base
<1>0. /\ rx_buffer_head \in Slots /\ rx_buffer_tail \in Slots
      /\ tx_buffer_head \in Slots /\ tx_buffer_tail \in Slots
      /\ todo \in Seq(Chars) /\ line \in Seq(Chars) /\ typed \in Seq(Chars)
      /\ consumed \in Seq(Chars) /\ accepted \in Seq(Chars) /\ out \in Seq(Chars)
  BY DEF TypeOK
<1>1. CASE Type
  <2>1. typed' \in Seq(Chars) /\ line' \in Seq(Chars)
    BY <1>0, <1>1, UartAssumption DEF Type
  <2> QED BY <1>1, <2>1 DEF Type, TypeOK, rings
<1>2. CASE uart_irq_rx_handler
  <2>1. Head(line) \in Chars /\ Tail(line) \in Seq(Chars)
    BY <1>0, <1>2 DEF uart_irq_rx_handler
  <2>2. memory' \in [0 .. 2 * BUFFER_SIZE - 1 -> Chars]
    BY <1>0, <1>2, <2>1, Addresses DEF uart_irq_rx_handler, TypeOK
  <2>3. line' \in Seq(Chars) /\ rx_buffer_head' \in Slots /\ ier' \subseteq {"rx", "tx"}
    BY <1>0, <1>2, <2>1, IncFacts DEF uart_irq_rx_handler, TypeOK
  <2> QED BY <1>2, <2>2, <2>3 DEF uart_irq_rx_handler, TypeOK
<1>3. CASE uart_irq_tx_handler
  <2>1. memory[TxAt(tx_buffer_tail)] \in Chars
    BY <1>0, Addresses DEF TypeOK
  <2>2. out' \in Seq(Chars)
    <3>1. Append(out, memory[TxAt(tx_buffer_tail)]) \in Seq(Chars)
      BY <1>0, <2>1
    <3> QED BY <1>0, <1>3, <3>1 DEF uart_irq_tx_handler
  <2>3. tx_buffer_tail' \in Slots /\ ier' \subseteq {"rx", "tx"}
    BY <1>0, <1>3, IncFacts DEF uart_irq_tx_handler, TypeOK
  <2> QED BY <1>3, <2>2, <2>3 DEF uart_irq_tx_handler, TypeOK
<1>4. CASE uart_async_putc
  <2>1. Head(todo) \in Chars /\ CR \in Chars /\ LF \in Chars
    BY <1>0, <1>4 DEF uart_async_putc, Chars
  <2>2. inc(tx_buffer_head) \in Slots /\ inc(inc(tx_buffer_head)) \in Slots
    BY <1>0, IncFacts
  <2>3. TxAt(tx_buffer_head) \in 0 .. 2 * BUFFER_SIZE - 1
        /\ TxAt(inc(tx_buffer_head)) \in 0 .. 2 * BUFFER_SIZE - 1
    BY <1>0, <2>2, Addresses
  <2>4. memory' \in [0 .. 2 * BUFFER_SIZE - 1 -> Chars] /\ tx_buffer_head' \in Slots
    BY <1>0, <1>4, <2>1, <2>2, <2>3 DEF uart_async_putc, TypeOK
  <2>5. accepted' \in Seq(Chars)
    <3>1. Bytes(Head(todo)) \in Seq(Chars)
      BY <2>1, BytesType
    <3>2. accepted \o Bytes(Head(todo)) \in Seq(Chars)
      BY <1>0, <3>1, ConcatIs
    <3> QED BY <1>0, <1>4, <3>2 DEF uart_async_putc
  <2>6. /\ ret' \in {0, 1} /\ loaded' = ier /\ pc' \in {"puts_store", "echo_store"}
        /\ UNCHANGED <<aliased, rx_buffer_head, rx_buffer_tail, tx_buffer_tail, ier, todo,
                       line, typed, consumed, out>>
    BY <1>4 DEF uart_async_putc
  <2> QED BY <1>4, <2>4, <2>5, <2>6 DEF TypeOK, uart_async_putc
<1>5. CASE uart_enable_tx_irq
  <2>1. Tail(todo) \in Seq(Chars)
    BY <1>0, <1>5 DEF uart_enable_tx_irq
  <2> QED BY <1>0, <1>5, <2>1 DEF uart_enable_tx_irq, TypeOK, rings
<1>6. CASE GetcSome
  <2> DEFINE ch == memory[RxAt(rx_buffer_tail)]
  <2>1. ch \in Chars
    BY <1>0, Addresses DEF TypeOK
  <2>2. /\ consumed' = Append(consumed, ch) /\ (todo' = todo \/ todo' = <<ch>>)
        /\ rx_buffer_tail' = inc(rx_buffer_tail) /\ pc' \in {"disable", "echo"}
        /\ UNCHANGED <<aliased, memory, rx_buffer_head, tx_buffer_head, tx_buffer_tail, ier,
                       ret, loaded, line, typed, accepted, out>>
    BY <1>6 DEF GetcSome
  <2> HIDE DEF ch
  <2>a. Append(consumed, ch) \in Seq(Chars) /\ <<ch>> \in Seq(Chars)
    BY <1>0, <2>1
  <2>3. consumed' \in Seq(Chars) /\ todo' \in Seq(Chars) /\ rx_buffer_tail' \in Slots
    BY <1>0, <2>2, <2>a, IncFacts
  <2> QED BY <2>2, <2>3 DEF TypeOK
<1>7. CASE GetcNone \/ GetcEnable \/ uart_disable_irq
  BY <1>7 DEF GetcNone, GetcEnable, uart_disable_irq, TypeOK, rings
<1>8. CASE UNCHANGED vars
  BY <1>8 DEF vars, TypeOK
<1> QED BY <1>1, <1>2, <1>3, <1>4, <1>5, <1>6, <1>7, <1>8 DEF Next, Program

-----------------------------------------------------------------------------
(* The receive ring *)

\* The fields and histories, one by one
LEMMA Fields ==
    ASSUME TypeOK
    PROVE  /\ rx_buffer_head \in Slots /\ rx_buffer_tail \in Slots
           /\ tx_buffer_head \in Slots /\ tx_buffer_tail \in Slots
           /\ todo \in Seq(Chars) /\ line \in Seq(Chars) /\ typed \in Seq(Chars)
           /\ consumed \in Seq(Chars) /\ accepted \in Seq(Chars) /\ out \in Seq(Chars)
           /\ memory \in [0 .. 2 * BUFFER_SIZE - 1 -> Chars]
           /\ RxContents \in Seq(Chars)
           /\ Len(RxContents) = Count(rx_buffer_head, rx_buffer_tail)
           /\ ~aliased => /\ TxContents \in Seq(Chars)
                          /\ Len(TxContents) = Count(tx_buffer_head, tx_buffer_tail)
<1>1. /\ rx_buffer_head \in Slots /\ rx_buffer_tail \in Slots
      /\ tx_buffer_head \in Slots /\ tx_buffer_tail \in Slots
      /\ memory \in [0 .. 2 * BUFFER_SIZE - 1 -> Chars]
  BY DEF TypeOK
<1>2. RxContents \in Seq(Chars) /\ Len(RxContents) = Count(rx_buffer_head, rx_buffer_tail)
  BY <1>1, ContentsHeld, HeldFacts
<1>3. ~aliased => /\ TxContents \in Seq(Chars)
                  /\ Len(TxContents) = Count(tx_buffer_head, tx_buffer_tail)
  BY <1>1, ContentsHeld, HeldFacts
<1>4. /\ todo \in Seq(Chars) /\ line \in Seq(Chars) /\ typed \in Seq(Chars)
      /\ consumed \in Seq(Chars) /\ accepted \in Seq(Chars) /\ out \in Seq(Chars)
  BY DEF TypeOK
<1> QED BY <1>1, <1>2, <1>3, <1>4

\* A piece that moves from one sequence to the next changes nothing.
LEMMA MoveMid ==
    ASSUME NEW a \in Seq(Chars), NEW b \in Seq(Chars), NEW l \in Seq(Chars), NEW x \in Seq(Chars)
    PROVE  /\ Cat(Cat(a, b), Cat(l, x)) = Cat(Cat(Cat(a, b), l), x)
           /\ Cat(Cat(a, Cat(b, x)), l) = Cat(Cat(a, b), Cat(x, l))
           /\ Cat(Cat(Cat(a, x), b), l) = Cat(Cat(a, Cat(x, b)), l)
<1>1. Cat(a, b) \in Seq(Chars)
  BY CatFacts
<1>2. Cat(Cat(a, b), Cat(l, x)) = Cat(Cat(Cat(a, b), l), x)
  BY <1>1, CatFacts
<1>3. Cat(a, Cat(b, x)) = Cat(Cat(a, b), x) /\ Cat(Cat(a, x), b) = Cat(a, Cat(x, b))
  BY CatFacts
<1>4. Cat(Cat(Cat(a, b), x), l) = Cat(Cat(a, b), Cat(x, l))
  BY <1>1, CatFacts
<1> QED BY <1>2, <1>3, <1>4

\* What uart_async_putc stores lies in the transmit ring.
LEMMA PutStores ==
    ASSUME TypeOK, ~aliased, uart_async_putc
    PROVE  SameRing(memory, memory', 0)
<1> DEFINE h == tx_buffer_head
           k == inc(h)
           N == BUFFER_SIZE
           mem1 == Put(memory, N, h, CR)
           mem2 == Put(mem1, N, k, LF)
           mem3 == Put(memory, N, h, Head(todo))
<1>1. h \in Slots /\ k \in Slots /\ memory \in [0 .. 2 * BUFFER_SIZE - 1 -> Chars]
  BY IncFacts DEF TypeOK
<1>2. CR \in Chars /\ LF \in Chars /\ Head(todo) \in Chars
  BY Fields DEF uart_async_putc, Chars
<1>3. memory' = memory \/ memory' = mem2 \/ memory' = mem3
  BY DEF uart_async_putc, TxAt, Put
<1>4. N \in {0, BUFFER_SIZE} /\ N - N = 0
  BY UartAssumption
<1> HIDE DEF h, k, N
<1>5. /\ SameRing(memory, mem1, BUFFER_SIZE - N) /\ mem1 \in [0 .. 2 * BUFFER_SIZE - 1 -> Chars]
      /\ SameRing(memory, mem3, BUFFER_SIZE - N)
  BY <1>1, <1>2, <1>4, Store DEF Memories
<1> HIDE DEF mem1
<1>6. SameRing(mem1, mem2, BUFFER_SIZE - N)
  BY <1>1, <1>2, <1>4, <1>5, Store DEF Memories
<1> HIDE DEF mem2, mem3
<1> QED BY <1>3, <1>4, <1>5, <1>6 DEF SameRing, N

\* Nothing is lost on the receive path.
LEMMA RxNext ==
    ASSUME Base, RxFifo, [Next]_vars
    PROVE  RxFifo'
<1> DEFINE h == rx_buffer_head
           t == rx_buffer_tail
           base == 0
<1>0. base \in {0, BUFFER_SIZE} /\ \A s \in Slots : base + s = s
  BY DEF Slots
<1>1. TypeOK /\ TypeOK'
  BY BaseNext DEF Base
<1>2. /\ h \in Slots /\ t \in Slots /\ memory \in [0 .. 2 * BUFFER_SIZE - 1 -> Chars]
      /\ line \in Seq(Chars) /\ typed \in Seq(Chars) /\ consumed \in Seq(Chars)
      /\ RxContents \in Seq(Chars) /\ Len(RxContents) = Count(h, t)
      /\ tx_buffer_head \in Slots
  BY <1>1, Fields
<1>3. /\ memory' \in [0 .. 2 * BUFFER_SIZE - 1 -> Chars] /\ h' \in Slots /\ t' \in Slots
  BY <1>1 DEF TypeOK
<1>4. RxContents = Held(memory, base, h, t) /\ RxContents' = Held(memory', base, h', t')
  BY <1>1, ContentsHeld, ContentsHeldNext
<1> HIDE DEF base
<1>5. RxContents' \in Seq(Chars) /\ Len(RxContents') = Count(h', t')
  BY <1>0, <1>3, <1>4, HeldFacts
<1>6. Len(line) \in Nat /\ Len(consumed) \in Nat /\ Len(RxContents) \in Nat
  BY <1>2
<1>7. ASSUME UNCHANGED <<aliased, memory, rx_buffer_head, rx_buffer_tail, typed, consumed, line>>
      PROVE  RxFifo'
  BY <1>4, <1>7 DEF RxFifo
<1>8. CASE Type
  <2>1. PICK c \in Inputs : typed' = Append(typed, c) /\ line' = Append(line, c)
    BY <1>8 DEF Type
  <2>2. UNCHANGED <<aliased, memory, rx_buffer_head, rx_buffer_tail, consumed>> /\ c \in Chars
    BY <1>8, UartAssumption DEF Type, rings
  <2>3. RxContents' = RxContents
    BY <1>4, <2>2
  <2>4. Len(typed') = Len(typed) + 1 /\ Len(line') = Len(line) + 1
    BY <1>2, <2>1, <2>2
  <2>5. Len(typed') = Len(consumed') + Len(RxContents') + Len(line')
    BY <1>6, <2>2, <2>3, <2>4 DEF RxFifo
  <2>6. ~aliased' => typed' = consumed' \o RxContents' \o line'
    <3>1. /\ typed' = Cat(typed, Single(c)) /\ line' = Cat(line, Single(c))
          /\ Single(c) \in Seq(Chars)
      BY <1>2, <2>1, <2>2, SingleFacts
    <3>2. Cat(Cat(consumed, RxContents), Cat(line, Single(c)))
            = Cat(Cat(Cat(consumed, RxContents), line), Single(c))
      BY <1>2, <3>1, MoveMid
    <3>3. ~aliased => typed = Cat(Cat(consumed, RxContents), line)
      BY DEF RxFifo, Cat
    <3>4. ~aliased' => typed' = Cat(Cat(consumed', RxContents'), line')
      BY <2>2, <2>3, <3>1, <3>2, <3>3, Zenon
    <3> QED BY <3>4 DEF Cat
  <2> QED BY <2>5, <2>6 DEF RxFifo
<1>9. CASE uart_irq_rx_handler
  <2>1. CASE inc(h) = t
    BY <1>7, <1>9, <2>1 DEF uart_irq_rx_handler
  <2>2. CASE inc(h) # t
    <3>1. /\ memory' = [memory EXCEPT ![RxAt(h)] = Head(line)] /\ h' = inc(h)
          /\ line' = Tail(line) /\ line # <<>> /\ UNCHANGED <<aliased, rx_buffer_tail, typed, consumed>>
      BY <1>9, <2>2 DEF uart_irq_rx_handler
    <3>2. /\ line = Cat(Single(Head(line)), Tail(line)) /\ Head(line) \in Chars
          /\ Tail(line) \in Seq(Chars) /\ Len(Tail(line)) = Len(line) - 1
      BY <1>2, <3>1, HeadTail
    <3>3. At(memory', base, h) = Head(line) /\ SameBut(memory, memory', base, h)
      <4>1. memory' = Put(memory, base, h, Head(line))
        BY <1>0, <1>2, <3>1 DEF RxAt, Put
      <4> QED BY <1>0, <1>2, <3>2, <4>1, Store DEF Memories
    <3>4. /\ RxContents' = Append(RxContents, Head(line))
          /\ Count(h', t') = Count(h, t) + 1
      <4>1. /\ Held(memory', base, inc(h), t) = Append(Held(memory, base, h, t), At(memory', base, h))
            /\ Count(inc(h), t) = Count(h, t) + 1
        <5> HIDE DEF h, t
        <5> QED BY <1>0, <1>2, <1>3, <2>2, <3>3, PutOne
      <4> QED BY <1>4, <3>1, <3>3, <4>1
    <3>5. Len(typed') = Len(consumed') + Len(RxContents') + Len(line')
      BY <1>2, <1>5, <1>6, <3>1, <3>2, <3>4 DEF RxFifo
    <3>6. ~aliased' => typed' = consumed' \o RxContents' \o line'
      <4> DEFINE x == Single(Head(line))
                 l == Tail(line)
      <4>1. RxContents' = Cat(RxContents, x) /\ x \in Seq(Chars)
        BY <1>2, <3>2, <3>4, SingleFacts
      <4>2. line = Cat(x, l) /\ line' = l /\ l \in Seq(Chars)
        BY <3>1, <3>2
      <4> HIDE DEF x, l
      <4>3. Cat(Cat(consumed, Cat(RxContents, x)), l) = Cat(Cat(consumed, RxContents), Cat(x, l))
        BY <1>2, <4>1, <4>2, MoveMid
      <4>4. ~aliased => typed = Cat(Cat(consumed, RxContents), line)
        BY DEF RxFifo, Cat
      <4>5. ~aliased' => typed' = Cat(Cat(consumed', RxContents'), line')
        BY <3>1, <4>1, <4>2, <4>3, <4>4, Zenon
      <4> QED BY <4>5 DEF Cat
    <3> QED BY <3>5, <3>6 DEF RxFifo
  <2> QED BY <2>1, <2>2
<1>10. CASE GetcSome
  <2> DEFINE ch == memory[RxAt(t)]
  <2>1. /\ h # t /\ t' = inc(t) /\ consumed' = Append(consumed, ch)
        /\ UNCHANGED <<aliased, memory, rx_buffer_head, typed, line>>
    BY <1>10 DEF GetcSome
  <2>2. ch = memory[base + t]
    BY <1>0, <1>2 DEF RxAt
  <2>3. /\ Held(memory, base, h, t) = Cat(Single(memory[base + t]), Held(memory, base, h, inc(t)))
        /\ Count(h, inc(t)) = Count(h, t) - 1 /\ memory[base + t] \in Chars
    BY <1>0, <1>2, <2>1, TakeOne
  <2> HIDE DEF ch
  <2>4. /\ RxContents = Cat(Single(ch), RxContents') /\ ch \in Chars
        /\ Count(h', t') = Count(h, t) - 1
    BY <1>4, <2>1, <2>2, <2>3
  <2>5. Len(consumed') = Len(consumed) + 1
    BY <1>2, <2>1, <2>4
  <2>6. Len(typed') = Len(consumed') + Len(RxContents') + Len(line')
    <3>1. Len(RxContents') = Len(RxContents) - 1
      BY <1>2, <1>5, <2>4
    <3>2. UNCHANGED <<typed, line>>
      BY <2>1
    <3>3. Len(typed) = Len(consumed) + Len(RxContents) + Len(line)
      BY DEF RxFifo
    <3> QED BY <1>6, <2>5, <3>1, <3>2, <3>3
  <2>7. ~aliased' => typed' = consumed' \o RxContents' \o line'
    <3> DEFINE x == Single(ch)
    <3>1. consumed' = Cat(consumed, x) /\ x \in Seq(Chars)
      BY <1>2, <2>1, <2>4, SingleFacts
    <3> HIDE DEF x
    <3>2. Cat(Cat(Cat(consumed, x), RxContents'), line) = Cat(Cat(consumed, Cat(x, RxContents')), line)
      BY <1>2, <1>5, <3>1, MoveMid
    <3>3. ~aliased => typed = Cat(Cat(consumed, RxContents), line)
      BY DEF RxFifo, Cat
    <3>4. RxContents = Cat(x, RxContents')
      BY <2>4 DEF x
    <3>5. ~aliased' => typed' = Cat(Cat(consumed', RxContents'), line')
      BY <2>1, <3>1, <3>2, <3>3, <3>4, Zenon
    <3> QED BY <3>5 DEF Cat
  <2> QED BY <2>6, <2>7 DEF RxFifo
<1>11. CASE uart_async_putc
  <2>1. UNCHANGED <<aliased, rx_buffer_head, rx_buffer_tail, typed, consumed, line>>
    BY <1>11 DEF uart_async_putc
  <2>2. Len(typed') = Len(consumed') + Len(RxContents') + Len(line')
    BY <1>2, <1>5, <2>1 DEF RxFifo
  <2>3. ASSUME ~aliased PROVE RxContents' = RxContents
    <3>1. SameRing(memory, memory', base)
      BY <1>1, <1>11, <2>3, PutStores DEF base
    <3>2. Held(memory', base, h, t) = Held(memory, base, h, t)
      BY <1>0, <1>2, <3>1, HeldSame
    <3> QED BY <1>4, <2>1, <3>2
  <2> QED BY <2>1, <2>2, <2>3 DEF RxFifo
<1>12. CASE uart_irq_tx_handler \/ uart_enable_tx_irq \/ GetcNone \/ GetcEnable \/ uart_disable_irq
  BY <1>7, <1>12 DEF uart_irq_tx_handler, uart_enable_tx_irq, GetcNone, GetcEnable,
                     uart_disable_irq, rings
<1>13. CASE UNCHANGED vars
  BY <1>7, <1>13 DEF vars
<1> QED BY <1>8, <1>9, <1>10, <1>11, <1>12, <1>13 DEF Next, Program

(* Type correctness and the receive half of RingsFifo hold for every buffer   *)
(* size, greeting and set of inputs, with no condition on them: what is typed *)
(* is what uart_async_getc returned, then the ring, then the hardware.        *)
THEOREM UartReceives == Spec => [](TypeOK /\ RxFifo)
<1>1. Init => Base /\ RxFifo
  <2> SUFFICES ASSUME Init PROVE Base /\ RxFifo
    OBVIOUS
  <2>1. Base
    BY BaseInit
  <2>2. 0 \in Slots /\ Count(0, 0) = 0
    BY CountFacts, UartAssumption DEF Slots
  <2>3. RxContents = <<>>
    BY <2>2 DEF Init, RxContents
  <2> QED BY <2>1, <2>3 DEF Init, RxFifo
<1>2. Base /\ RxFifo /\ [Next]_vars => Base' /\ RxFifo'
  BY BaseNext, RxNext
<1>3. Base => TypeOK
  BY DEF Base
<1> QED BY <1>1, <1>2, <1>3, PTL DEF Spec

-----------------------------------------------------------------------------
(* The transmit ring *)

\* A ring with two slots left is not full.
LEMMA Room ==
    ASSUME NEW h \in Slots, NEW t \in Slots, Count(h, t) + 1 <= BUFFER_SIZE - 1
    PROVE  inc(h) # t
<1>1. inc(h) \in Slots /\ inc(h) = IF h = BUFFER_SIZE - 1 THEN 0 ELSE h + 1
  BY IncFacts
<1>2. Count(h, t) = IF h >= t THEN h - t ELSE h - t + BUFFER_SIZE
  BY CountFacts
<1> QED BY <1>1, <1>2, UartAssumption DEF Slots

\* uart_async_putc is called with room for all that it writes.
PutFits ==
    pc \in {"puts", "echo"} /\ todo # <<>> /\ Head(todo) = CR /\ ~aliased
        => Count(tx_buffer_head, tx_buffer_tail) + 2 <= BUFFER_SIZE - 1

\* uart_async_putc appends what it writes to the ring.
LEMMA PutAppends ==
    ASSUME TypeOK, TypeOK', ~aliased, PutFits, uart_async_putc,
           inc(tx_buffer_head) # tx_buffer_tail
    PROVE  /\ TxContents' = Cat(TxContents, Bytes(Head(todo)))
           /\ Bytes(Head(todo)) \in Seq(Chars)
           /\ Count(tx_buffer_head', tx_buffer_tail')
                = Count(tx_buffer_head, tx_buffer_tail) + Len(Bytes(Head(todo)))
           /\ accepted' = Cat(accepted, Bytes(Head(todo)))
           /\ UNCHANGED <<aliased, out, tx_buffer_tail>>
<1> DEFINE h == tx_buffer_head
           t == tx_buffer_tail
           k == inc(h)
           N == BUFFER_SIZE
           c == Head(todo)
           mem1 == Put(memory, N, h, c)
           mem2 == Put(mem1, N, k, LF)
<1>1. /\ h \in Slots /\ t \in Slots /\ k \in Slots
      /\ memory \in [0 .. 2 * BUFFER_SIZE - 1 -> Chars]
  BY IncFacts DEF TypeOK
<1>2. LF \in Chars /\ c \in Chars /\ Bytes(c) \in Seq(Chars)
  BY Fields, BytesType DEF uart_async_putc, Chars
<1>3. /\ accepted' = accepted \o Bytes(c) /\ UNCHANGED <<aliased, out, tx_buffer_tail>>
      /\ c = CR => memory' = mem2 /\ tx_buffer_head' = inc(k)
      /\ c # CR => memory' = mem1 /\ tx_buffer_head' = k
  BY DEF uart_async_putc, TxAt, Put
<1>4. /\ TxContents = Held(memory, N, h, t)
      /\ TxContents' = Held(memory', N, tx_buffer_head', t)
  BY <1>3, ContentsHeld, ContentsHeldNext
<1>5. N \in {0, BUFFER_SIZE} /\ k # t
  OBVIOUS
<1>6. c = CR => Count(h, t) + 2 <= BUFFER_SIZE - 1
  BY DEF PutFits, uart_async_putc
<1> HIDE DEF N, mem1, mem2
<1>7. /\ mem1 \in [0 .. 2 * BUFFER_SIZE - 1 -> Chars] /\ At(mem1, N, h) = c
      /\ SameBut(memory, mem1, N, h)
  <2>1. mem1 = Put(memory, N, h, c)
    BY DEF mem1
  <2> HIDE DEF h, c
  <2>2. memory \in Memories /\ h \in Slots /\ c \in Chars
    BY <1>1, <1>2 DEF Memories
  <2>3. mem1 \in Memories /\ At(mem1, N, h) = c /\ SameBut(memory, mem1, N, h)
    BY <1>5, <2>1, <2>2, Store
  <2> QED BY <2>3 DEF Memories
<1>8. /\ Held(mem1, N, k, t) = Append(Held(memory, N, h, t), c)
      /\ Count(k, t) = Count(h, t) + 1
  <2> HIDE DEF h, c, t
  <2>1. /\ Held(mem1, N, inc(h), t) = Append(Held(memory, N, h, t), At(mem1, N, h))
        /\ Count(inc(h), t) = Count(h, t) + 1
    BY <1>1, <1>5, <1>7, PutOne
  <2> QED BY <1>7, <2>1
<1>9. Held(memory, N, h, t) \in Seq(Chars) /\ Count(h, t) \in Nat
  <2> HIDE DEF h, t
  <2> QED BY <1>1, <1>5, HeldFacts, CountFacts
<1>10. Held(mem1, N, k, t) = Cat(TxContents, Single(c))
  BY <1>2, <1>4, <1>8, <1>9, SingleFacts
<1>11. CASE c # CR
  <2>1. Bytes(c) = Single(c) /\ Len(Bytes(c)) = 1
    BY <1>11 DEF Bytes, Single
  <2>2. TxContents' = Held(mem1, N, k, t)
    BY <1>3, <1>4, <1>11, Zenon
  <2>3. TxContents' = Cat(TxContents, Bytes(c))
    BY <1>10, <2>1, <2>2, Zenon
  <2>4. Count(tx_buffer_head', t') = Count(h, t) + Len(Bytes(c))
    BY <1>3, <1>8, <1>11, <2>1
  <2> QED BY <1>2, <1>3, <2>3, <2>4 DEF Cat
<1>12. CASE c = CR
  <2> DEFINE k2 == inc(k)
  <2>1. k2 # t
    <3> HIDE DEF h, t
    <3>1. Count(k, t) + 1 <= BUFFER_SIZE - 1
      BY <1>6, <1>8, <1>9, <1>12, UartAssumption
    <3> HIDE DEF k
    <3> QED BY <1>1, <3>1, Room
  <2>2. /\ mem2 \in [0 .. 2 * BUFFER_SIZE - 1 -> Chars] /\ At(mem2, N, k) = LF
        /\ SameBut(mem1, mem2, N, k)
    <3>1. mem2 = Put(mem1, N, k, LF)
      BY DEF mem2
    <3> HIDE DEF k
    <3> QED BY <1>1, <1>2, <1>5, <1>7, <3>1, Store DEF Memories
  <2>3. /\ Held(mem2, N, k2, t) = Append(Held(mem1, N, k, t), LF)
        /\ Count(k2, t) = Count(k, t) + 1
    <3> HIDE DEF k, t
    <3>1. /\ Held(mem2, N, inc(k), t) = Append(Held(mem1, N, k, t), At(mem2, N, k))
          /\ Count(inc(k), t) = Count(k, t) + 1
      BY <1>1, <1>5, <1>7, <2>1, <2>2, PutOne
    <3> QED BY <2>2, <3>1
  <2>4. Single(c) \in Seq(Chars) /\ Single(LF) \in Seq(Chars)
    BY <1>2, <1>9, SingleFacts
  <2>5. Held(mem1, N, k, t) \in Seq(Chars) /\ TxContents \in Seq(Chars)
    BY <1>4, <1>9, <1>10, <2>4, CatFacts
  <2>6. Held(mem2, N, k2, t) = Cat(Cat(TxContents, Single(c)), Single(LF))
    BY <1>2, <1>10, <2>3, <2>5, SingleFacts
  <2>7. Cat(Cat(TxContents, Single(c)), Single(LF)) = Cat(TxContents, Cat(Single(c), Single(LF)))
    BY <2>4, <2>5, CatFacts
  <2>8. Bytes(c) = Cat(Single(c), Single(LF)) /\ Len(Bytes(c)) = 2
    BY <1>12 DEF Bytes, Single, Cat
  <2>9. TxContents' = Held(mem2, N, k2, t)
    BY <1>3, <1>4, <1>12, Zenon
  <2>10. TxContents' = Cat(TxContents, Bytes(c))
    BY <2>6, <2>7, <2>8, <2>9, Zenon
  <2>11. Count(tx_buffer_head', t') = Count(h, t) + Len(Bytes(c))
    <3>1. Count(tx_buffer_head', t') = Count(k2, t)
      BY <1>3, <1>12, Zenon
    <3> HIDE DEF h, t, k, k2, c
    <3> QED BY <1>8, <1>9, <2>3, <2>8, <3>1
  <2> QED BY <1>2, <1>3, <2>10, <2>11 DEF Cat
<1> QED BY <1>11, <1>12

\* What a step does to the transmit ring: nothing, a character is taken and sent,
\* or what uart_async_putc writes is appended.
TxStep ==
    \/ TxContents' = TxContents /\ UNCHANGED <<accepted, out>>
    \/ \E ch \in Chars : /\ TxContents = Cat(Single(ch), TxContents')
                         /\ out' = Append(out, ch) /\ UNCHANGED accepted
    \/ \E c \in Chars : /\ TxContents' = Cat(TxContents, Bytes(c))
                        /\ accepted' = Cat(accepted, Bytes(c)) /\ UNCHANGED out

\* Where the rings are is never changed.
LEMMA AliasedKept == [Next]_vars => UNCHANGED aliased
  BY DEF Next, vars, Type, rings, uart_irq_rx_handler, uart_irq_tx_handler, Program,
         uart_async_putc, uart_enable_tx_irq, GetcSome, GetcNone, GetcEnable, uart_disable_irq

\* If every put fits, each step leaves the transmit ring, adds to it or takes its head.
LEMMA TxSteps ==
    ASSUME Base, ~aliased, PutFits, [Next]_vars
    PROVE  TxStep
<1> DEFINE h == tx_buffer_head
           t == tx_buffer_tail
           N == BUFFER_SIZE
<1>1. TypeOK /\ TypeOK'
  BY BaseNext DEF Base
<1>2. /\ h \in Slots /\ t \in Slots /\ memory \in [0 .. 2 * BUFFER_SIZE - 1 -> Chars]
      /\ line \in Seq(Chars) /\ rx_buffer_head \in Slots
  BY <1>1, Fields
<1>3. TxContents = Held(memory, N, h, t) /\ TxContents' = Held(memory', N, h', t')
  BY <1>1, AliasedKept, ContentsHeld, ContentsHeldNext
<1>4. N \in {0, BUFFER_SIZE} /\ 0 \in {0, BUFFER_SIZE} /\ BUFFER_SIZE - 0 = N
  BY UartAssumption
<1> HIDE DEF N
<1>5. ASSUME UNCHANGED <<memory, tx_buffer_head, tx_buffer_tail, accepted, out>> PROVE TxStep
  BY <1>3, <1>5 DEF TxStep
<1>6. CASE uart_irq_rx_handler
  <2>1. UNCHANGED <<tx_buffer_head, tx_buffer_tail, accepted, out>> /\ Head(line) \in Chars
    BY <1>2, <1>6, HeadTail DEF uart_irq_rx_handler
  <2>2. memory' = memory \/ memory' = Put(memory, 0, rx_buffer_head, Head(line))
    <3>1. 0 + rx_buffer_head = rx_buffer_head
      BY <1>2 DEF Slots
    <3> QED BY <1>6, <3>1 DEF uart_irq_rx_handler, RxAt, Put
  <2>3. SameRing(memory, memory', N)
    <3>1. CASE memory' = memory
      BY <3>1 DEF SameRing
    <3>2. CASE memory' = Put(memory, 0, rx_buffer_head, Head(line))
      <4>1. SameRing(memory, memory', BUFFER_SIZE - 0)
        BY <1>2, <1>4, <2>1, <3>2, Store DEF Memories
      <4> QED BY <1>4, <4>1
    <3> QED BY <2>2, <3>1, <3>2
  <2>4. Held(memory', N, h, t) = Held(memory, N, h, t)
    BY <1>2, <1>4, <2>3, HeldSame
  <2> QED BY <1>3, <2>1, <2>4 DEF TxStep
<1>7. CASE uart_irq_tx_handler
  <2>1. CASE h = t
    BY <1>5, <1>7, <2>1 DEF uart_irq_tx_handler
  <2>2. CASE h # t
    <3> DEFINE ch == memory[TxAt(t)]
    <3>1. /\ out' = Append(out, ch) /\ t' = inc(t) /\ UNCHANGED <<memory, tx_buffer_head, accepted>>
      BY <1>7, <2>2 DEF uart_irq_tx_handler
    <3>2. ch = memory[N + t]
      BY DEF TxAt, N
    <3> HIDE DEF ch
    <3>3. TxContents = Cat(Single(ch), TxContents') /\ ch \in Chars
      <4>1. /\ Held(memory, N, h, t) = Cat(Single(memory[N + t]), Held(memory, N, h, inc(t)))
            /\ memory[N + t] \in Chars
        BY <1>2, <1>4, <2>2, TakeOne
      <4> QED BY <1>3, <3>1, <3>2, <4>1
    <3> QED BY <3>1, <3>3 DEF TxStep
  <2> QED BY <2>1, <2>2
<1>8. CASE uart_async_putc
  <2>1. CASE inc(h) = t
    BY <1>5, <1>8, <2>1 DEF uart_async_putc
  <2>2. CASE inc(h) # t
    <3>1. Head(todo) \in Chars
      BY <1>1, <1>8, Fields, HeadTail DEF uart_async_putc
    <3>2. /\ TxContents' = Cat(TxContents, Bytes(Head(todo)))
          /\ accepted' = Cat(accepted, Bytes(Head(todo))) /\ out' = out
      BY <1>1, <1>8, <2>2, PutAppends
    <3> QED BY <3>1, <3>2 DEF TxStep
  <2> QED BY <2>1, <2>2
<1>9. CASE Type \/ uart_enable_tx_irq \/ GetcSome \/ GetcNone \/ GetcEnable \/ uart_disable_irq
  BY <1>5, <1>9 DEF Type, uart_enable_tx_irq, GetcSome, GetcNone, GetcEnable,
                     uart_disable_irq, rings
<1>10. CASE UNCHANGED vars
  BY <1>5, <1>10 DEF vars
<1> QED BY <1>6, <1>7, <1>8, <1>9, <1>10 DEF Next, Program

\* The transmit ring after a step
LEMMA TxContentsNext ==
    ASSUME Base, ~aliased, [Next]_vars
    PROVE  /\ TxContents \in Seq(Chars) /\ TxContents' \in Seq(Chars)
           /\ Len(TxContents') <= BUFFER_SIZE - 1
<1>1. TypeOK /\ TypeOK' /\ ~aliased'
  BY BaseNext, AliasedKept DEF Base
<1>2. /\ tx_buffer_head' \in Slots /\ tx_buffer_tail' \in Slots
      /\ memory' \in [0 .. 2 * BUFFER_SIZE - 1 -> Chars]
  BY <1>1 DEF TypeOK
<1>3. TxContents' = Held(memory', BUFFER_SIZE, tx_buffer_head', tx_buffer_tail')
  BY <1>1, ContentsHeldNext
<1>4. /\ TxContents' \in Seq(Chars)
      /\ Len(TxContents') = Count(tx_buffer_head', tx_buffer_tail')
  BY <1>2, <1>3, HeldFacts
<1>5. Count(tx_buffer_head', tx_buffer_tail') <= BUFFER_SIZE - 1
  BY <1>2, CountFacts, UartAssumption
<1> QED BY <1>1, <1>4, <1>5, Fields

\* Nothing is lost on the transmit path, as long as uart_async_putc is called with
\* room for what it writes.
LEMMA TxNext ==
    ASSUME Base, TxFifo, PutFits, [Next]_vars
    PROVE  TxFifo'
<1> SUFFICES ASSUME ~aliased PROVE accepted' = Cat(out', TxContents')
  BY AliasedKept DEF TxFifo, Cat
<1>1. /\ TxStep /\ TxContents \in Seq(Chars) /\ TxContents' \in Seq(Chars)
      /\ accepted = Cat(out, TxContents) /\ out \in Seq(Chars)
  BY TxSteps, TxContentsNext, Fields DEF TxFifo, Cat, Base
<1>2. CASE TxContents' = TxContents /\ UNCHANGED <<accepted, out>>
  BY <1>1, <1>2, Zenon
<1>3. ASSUME NEW ch \in Chars, TxContents = Cat(Single(ch), TxContents'),
             out' = Append(out, ch), UNCHANGED accepted
      PROVE  accepted' = Cat(out', TxContents')
  <2>1. out' = Cat(out, Single(ch)) /\ Single(ch) \in Seq(Chars)
    BY <1>1, <1>3, SingleFacts
  <2>2. Cat(Cat(out, Single(ch)), TxContents') = Cat(out, Cat(Single(ch), TxContents'))
    BY <1>1, <2>1, CatFacts
  <2> QED BY <1>1, <1>3, <2>1, <2>2, Zenon
<1>4. ASSUME NEW c \in Chars, TxContents' = Cat(TxContents, Bytes(c)),
             accepted' = Cat(accepted, Bytes(c)), UNCHANGED out
      PROVE  accepted' = Cat(out', TxContents')
  <2>1. Bytes(c) \in Seq(Chars)
    BY BytesType
  <2>2. Cat(Cat(out, TxContents), Bytes(c)) = Cat(out, Cat(TxContents, Bytes(c)))
    BY <1>1, <2>1, CatFacts
  <2> QED BY <1>1, <1>4, <2>2, Zenon
<1> QED BY <1>1, <1>2, <1>3, <1>4 DEF TxStep

-----------------------------------------------------------------------------
(* What the program writes *)

\* The calls of uart_async_putc that the program makes or is still to make, and
\* what the first k of them write
Greet == Calls(Greeting)
All == Greet \o typed
Sent(k) == Encode(SubSeq(All, 1, k))

\* The greeting and its "\r\n" fit into the transmit ring, and no '\r' is typed:
\* the free slot that uart_async_putc looks for is then enough.
GreetingFits == CR \notin Inputs /\ Len(Encode(Greet)) < BUFFER_SIZE

\* All but the first j calls of the greeting are left.
Rest(j) ==
    /\ consumed = <<>> /\ Len(todo) = Len(Greet) - j
    /\ \A i \in 1 .. Len(todo) : todo[i] = Greet[j + i]

\* The program at each step, when k calls have been made
Stage(k) ==
    /\ pc = "puts" => Rest(k)
    /\ pc = "puts_store" => Rest(k - ret)
    /\ pc \in {"getc", "getc_store"} => k = Len(Greet) + Len(consumed)
    /\ pc = "echo" => /\ k + 1 = Len(Greet) + Len(consumed) /\ consumed # <<>>
                      /\ todo = <<All[k + 1]>>
    /\ pc = "echo_store" /\ ret = 1 => k = Len(Greet) + Len(consumed)

EchoInv ==
    ~aliased => \E k \in 0 .. Len(Greet) + Len(consumed) : accepted = Sent(k) /\ Stage(k)

\* What the program is to send: the greeting, then what was typed
LEMMA AllFacts ==
    ASSUME typed \in Seq(Chars)
    PROVE  /\ Greet \in Seq(Chars) /\ Len(Greet) \in Nat /\ Len(typed) \in Nat
           /\ All \in Seq(Chars) /\ Len(All) = Len(Greet) + Len(typed)
           /\ \A i \in 1 .. Len(Greet) : All[i] = Greet[i]
           /\ \A i \in 1 .. Len(typed) : All[Len(Greet) + i] = typed[i]
<1>1. Greet \in Seq(Chars)
  BY CallsType DEF Greet
<1>2. Len(Greet) \in Nat /\ Len(typed) \in Nat
  BY <1>1
<1> QED BY <1>1, <1>2, ConcatIs DEF All

\* One call more
LEMMA SentFacts ==
    ASSUME typed \in Seq(Chars), NEW k \in 0 .. Len(All)
    PROVE  /\ Sent(k) \in Seq(Chars)
           /\ k < Len(All) => All[k + 1] \in Chars /\ Sent(k + 1) = Cat(Sent(k), Bytes(All[k + 1]))
<1> DEFINE s == All
<1>1. s \in Seq(Chars) /\ Len(s) \in Nat
  BY AllFacts
<1> HIDE DEF s
<1>2. SubSeq(s, 1, k) \in Seq(Chars)
  BY <1>1 DEF s
<1>3. ASSUME k < Len(s)
      PROVE  s[k + 1] \in Chars /\ Encode(SubSeq(s, 1, k + 1)) = Encode(SubSeq(s, 1, k)) \o Bytes(s[k + 1])
  <2>1. /\ s[k + 1] \in Chars
        /\ SubSeq(s, 1, k + 1) = Append(SubSeq(s, 1, k), s[k + 1])
    BY <1>1, <1>3, SubSeqOneMore
  <2> QED BY <1>2, <2>1, EncodeFacts
<1>4. Encode(SubSeq(s, 1, k)) \in Seq(Chars)
  BY <1>2, EncodeFacts
<1> QED BY <1>3, <1>4 DEF s, Sent, Cat

\* Fewer calls write a first part of what more calls write.
LEMMA SentPrefix ==
    ASSUME typed \in Seq(Chars), NEW j \in Nat, NEW k \in j .. Len(All)
    PROVE  \E d \in Seq(Chars) : Sent(k) = Cat(Sent(j), d)
<1> DEFINE s == All
<1>1. s \in Seq(Chars) /\ j <= Len(s) /\ k \in j .. Len(s)
  BY AllFacts
<1> HIDE DEF s
<1>2. \E d \in Seq(Chars) : Encode(SubSeq(s, 1, k)) = Encode(SubSeq(s, 1, j)) \o d
  BY <1>1, EncodePrefix
<1> QED BY <1>2 DEF s, Sent, Cat

\* Parts of what is to be sent stay when one more character is typed.
LEMMA SubSeqOfAppend ==
    ASSUME NEW s \in Seq(Chars), NEW c \in Chars, NEW g \in Seq(Chars)
    PROVE  /\ g \o Append(s, c) = Append(g \o s, c)
           /\ \A k \in 0 .. Len(s) : SubSeq(Append(s, c), 1, k) = SubSeq(s, 1, k)
           /\ SubSeq(g \o s, 1, Len(g)) = g /\ SubSeq(g, 1, Len(g)) = g
<1>1. g \o Append(s, c) = Append(g \o s, c)
  OBVIOUS
<1>2. \A k \in 0 .. Len(s) : SubSeq(Append(s, c), 1, k) = SubSeq(s, 1, k)
  OBVIOUS
<1>3. SubSeq(g \o s, 1, Len(g)) = g /\ SubSeq(g, 1, Len(g)) = g
  OBVIOUS
<1> QED BY <1>1, <1>2, <1>3

\* A character that is typed changes nothing about the calls so far.
LEMMA SentKept ==
    ASSUME typed \in Seq(Chars), NEW c \in Chars, typed' = Append(typed, c), NEW k \in 0 .. Len(All)
    PROVE  Sent(k)' = Sent(k) /\ (k < Len(All) => All'[k + 1] = All[k + 1])
<1>1. All \in Seq(Chars) /\ Greet \in Seq(Chars) /\ Len(All) \in Nat
  BY AllFacts
<1>2. All' = Append(All, c)
  BY <1>1, SubSeqOfAppend DEF All, Greet
<1>3. Sent(k)' = Encode(SubSeq(All', 1, k))
  BY DEF Sent, Encode, Bytes
<1>4. SubSeq(Append(All, c), 1, k) = SubSeq(All, 1, k)
  BY <1>1, SubSeqOfAppend
<1>5. k < Len(All) => Append(All, c)[k + 1] = All[k + 1]
  BY <1>1
<1> QED BY <1>2, <1>3, <1>4, <1>5 DEF Sent

\* What getc returned was typed.
LEMMA ConsumedTyped ==
    ASSUME TypeOK, RxFifo, ~aliased
    PROVE  /\ Len(consumed) \in 0 .. Len(typed) /\ Len(typed) \in Nat
           /\ \A i \in 1 .. Len(consumed) : typed[i] = consumed[i]
<1> DEFINE rest == Cat(RxContents, line)
<1>1. /\ consumed \in Seq(Chars) /\ RxContents \in Seq(Chars) /\ line \in Seq(Chars)
      /\ typed \in Seq(Chars)
  BY Fields
<1>2. rest \in Seq(Chars) /\ Cat(Cat(consumed, RxContents), line) = Cat(consumed, rest)
  BY <1>1, CatFacts
<1>3. typed = Cat(Cat(consumed, RxContents), line)
  BY DEF RxFifo, Cat
<1> HIDE DEF rest
<1>4. typed = consumed \o rest
  BY <1>2, <1>3 DEF Cat
<1> QED BY <1>1, <1>2, <1>4, ConcatIs

\* ... also after a step
LEMMA ConsumedTypedNext ==
    ASSUME TypeOK', RxFifo', ~aliased'
    PROVE  /\ Len(consumed') \in 0 .. Len(typed')
           /\ \A i \in 1 .. Len(consumed') : typed'[i] = consumed'[i]
<1> DEFINE rest == Cat(RxContents', line')
<1>1. /\ consumed' \in Seq(Chars) /\ line' \in Seq(Chars) /\ typed' \in Seq(Chars)
      /\ rx_buffer_head' \in Slots /\ rx_buffer_tail' \in Slots
      /\ memory' \in [0 .. 2 * BUFFER_SIZE - 1 -> Chars]
  BY DEF TypeOK
<1>2. RxContents' \in Seq(Chars)
  BY <1>1, ContentsHeldNext, HeldFacts
<1>3. rest \in Seq(Chars) /\ Cat(Cat(consumed', RxContents'), line') = Cat(consumed', rest)
  BY <1>1, <1>2, CatFacts
<1>4. typed' = Cat(Cat(consumed', RxContents'), line')
  BY DEF RxFifo, Cat
<1> HIDE DEF rest
<1>5. typed' = consumed' \o rest
  BY <1>3, <1>4 DEF Cat
<1> QED BY <1>1, <1>3, <1>5, ConcatIs

\* The first call of the program, when k calls have been made
LEMMA NextCall ==
    ASSUME TypeOK, RxFifo, ~aliased, NEW k \in 0 .. Len(Greet) + Len(consumed), Stage(k),
           pc \in {"puts", "echo"}, todo # <<>>
    PROVE  /\ k + 1 \in 1 .. Len(Greet) + Len(consumed) /\ k < Len(All)
           /\ Head(todo) = All[k + 1]
           /\ pc = "puts" => k + 1 \in 1 .. Len(Greet)
           /\ pc = "echo" => \E i \in 1 .. Len(typed) : Head(todo) = typed[i]
<1>1. typed \in Seq(Chars) /\ todo \in Seq(Chars) /\ consumed \in Seq(Chars)
  BY Fields
<1>2. /\ Len(Greet) \in Nat /\ Len(All) = Len(Greet) + Len(typed) /\ Len(typed) \in Nat
      /\ \A i \in 1 .. Len(Greet) : All[i] = Greet[i]
      /\ \A i \in 1 .. Len(typed) : All[Len(Greet) + i] = typed[i]
  BY <1>1, AllFacts
<1>3. Len(consumed) \in 0 .. Len(typed) /\ Len(consumed) \in Nat
  BY ConsumedTyped
<1>4. Len(todo) \in Nat /\ Len(todo) >= 1 /\ Head(todo) = todo[1]
  BY <1>1
<1>5. CASE pc = "puts"
  <2>1. Len(todo) = Len(Greet) - k /\ Len(consumed) = 0 /\ todo[1] = Greet[k + 1]
    BY <1>4, <1>5 DEF Stage, Rest
  <2>2. k \in Nat /\ k + 1 \in 1 .. Len(Greet)
    BY <1>2, <1>3, <1>4, <2>1
  <2>3. k < Len(All) /\ k + 1 \in 1 .. Len(Greet) + Len(consumed)
    BY <1>2, <1>3, <2>2
  <2> QED BY <1>2, <1>4, <1>5, <2>1, <2>2, <2>3
<1>6. CASE pc = "echo"
  <2>1. k + 1 = Len(Greet) + Len(consumed) /\ consumed # <<>> /\ todo[1] = All[k + 1]
    BY <1>6 DEF Stage
  <2>2. Len(consumed) \in 1 .. Len(typed)
    BY <1>1, <1>3, <2>1
  <2>3. k < Len(All) /\ k + 1 \in 1 .. Len(Greet) + Len(consumed)
    BY <1>2, <1>3, <2>1, <2>2
  <2>4. todo[1] = typed[Len(consumed)]
    BY <1>2, <2>1, <2>2
  <2> QED BY <1>4, <1>6, <2>1, <2>2, <2>3, <2>4
<1> QED BY <1>5, <1>6

\* There is always room for what uart_async_putc writes, given GreetingFits.
LEMMA Fits ==
    ASSUME GreetingFits, TypeOK, RxFifo, TxFifo, EchoInv, typed \in Seq(Inputs)
    PROVE  PutFits
<1> SUFFICES ASSUME pc \in {"puts", "echo"}, todo # <<>>, Head(todo) = CR, ~aliased
             PROVE  Count(tx_buffer_head, tx_buffer_tail) + 2 <= BUFFER_SIZE - 1
  BY DEF PutFits
<1>1. PICK k \in 0 .. Len(Greet) + Len(consumed) : accepted = Sent(k) /\ Stage(k)
  BY DEF EchoInv
<1>2. /\ k < Len(All) /\ Head(todo) = All[k + 1]
      /\ pc = "puts" => k + 1 \in 1 .. Len(Greet)
      /\ pc = "echo" => \E i \in 1 .. Len(typed) : Head(todo) = typed[i]
  BY <1>1, NextCall
<1>3. pc = "puts" /\ k + 1 \in 1 .. Len(Greet)
  <2>1. \A i \in 1 .. Len(typed) : typed[i] \in Inputs
    OBVIOUS
  <2> QED BY <1>2, <2>1 DEF GreetingFits
<1>4. /\ accepted \in Seq(Chars) /\ out \in Seq(Chars) /\ TxContents \in Seq(Chars)
      /\ typed \in Seq(Chars) /\ Len(TxContents) = Count(tx_buffer_head, tx_buffer_tail)
  BY Fields
<1>5. /\ Greet \in Seq(Chars) /\ Len(Greet) \in Nat /\ Len(typed) \in Nat
      /\ Len(All) = Len(Greet) + Len(typed)
  BY <1>4, AllFacts
<1>6. Sent(k + 1) = Cat(accepted, Bytes(CR)) /\ CR \in Chars
  <2>1. k \in 0 .. Len(All)
    BY <1>2, <1>5, ConsumedTyped
  <2>2. Sent(k + 1) = Cat(Sent(k), Bytes(All[k + 1]))
    BY <1>2, <1>4, <2>1, SentFacts
  <2>3. CR \in Chars
    BY DEF Chars
  <2> QED BY <1>1, <1>2, <2>2, <2>3, Zenon
<1>7. Bytes(CR) \in Seq(Chars) /\ Len(Bytes(CR)) = 2
  BY <1>6, BytesType DEF Bytes
<1>8. Len(Sent(k + 1)) = Len(accepted) + 2
  <2>1. Len(Cat(accepted, Bytes(CR))) = Len(accepted) + Len(Bytes(CR))
    BY <1>4, <1>7, CatLen
  <2> QED BY <1>6, <1>7, <2>1
<1>9. Sent(Len(Greet)) = Encode(Greet)
  BY <1>4, <1>5, <1>6, SubSeqOfAppend DEF Sent, All
<1>10. k + 1 \in Nat /\ Len(Greet) \in k + 1 .. Len(All)
  BY <1>3, <1>5
<1>11. PICK d \in Seq(Chars) : Sent(Len(Greet)) = Cat(Sent(k + 1), d)
  BY <1>4, <1>10, SentPrefix
<1>12. Sent(k + 1) \in Seq(Chars)
  BY <1>4, <1>6, <1>7, CatLen
<1>13. Len(Encode(Greet)) = Len(Sent(k + 1)) + Len(d) /\ Len(d) \in Nat
  BY <1>9, <1>11, <1>12, CatLen
<1>14. Len(accepted) = Len(out) + Len(TxContents) /\ Len(out) \in Nat /\ Len(TxContents) \in Nat
  <2>1. accepted = Cat(out, TxContents)
    BY DEF TxFifo, Cat
  <2> QED BY <1>4, <2>1, CatLen
<1>15. Len(Encode(Greet)) < BUFFER_SIZE /\ BUFFER_SIZE \in Nat
  BY UartAssumption DEF GreetingFits
<1>16. Len(TxContents) + 2 <= BUFFER_SIZE - 1
  BY <1>8, <1>13, <1>14, <1>15
<1> QED BY <1>4, <1>16

\* A step that leaves the calls alone
LEMMA SentSame ==
    ASSUME typed' = typed
    PROVE  All' = All /\ \A k : Sent(k)' = Sent(k)
  BY DEF Sent, All, Encode, Bytes, Greet, Calls

\* Each step keeps the echo in order.
LEMMA EchoNext ==
    ASSUME Base, RxFifo, EchoInv, [Next]_vars
    PROVE  EchoInv'
<1>1. TypeOK /\ TypeOK' /\ RxFifo'
  BY BaseNext, RxNext DEF Base
<1>2. UNCHANGED aliased
  BY AliasedKept
<1> SUFFICES ASSUME ~aliased
             PROVE  \E k \in 0 .. Len(Greet) + Len(consumed') : accepted' = Sent(k)' /\ Stage(k)'
  BY <1>2 DEF EchoInv, Greet, Calls
<1>3. PICK k \in 0 .. Len(Greet) + Len(consumed) : accepted = Sent(k) /\ Stage(k)
  BY DEF EchoInv
<1>4. /\ typed \in Seq(Chars) /\ consumed \in Seq(Chars) /\ todo \in Seq(Chars)
      /\ accepted \in Seq(Chars) /\ ret \in {0, 1}
  BY <1>1, Fields DEF TypeOK
<1>5. /\ Greet \in Seq(Chars) /\ Len(Greet) \in Nat /\ Len(All) = Len(Greet) + Len(typed)
      /\ \A i \in 1 .. Len(Greet) : All[i] = Greet[i]
      /\ \A i \in 1 .. Len(typed) : All[Len(Greet) + i] = typed[i]
  BY <1>4, AllFacts
<1>6. Len(consumed) \in 0 .. Len(typed) /\ Len(consumed) \in Nat /\ Len(typed) \in Nat
  BY <1>1, ConsumedTyped
<1>7. k \in 0 .. Len(All) /\ k \in Nat
  BY <1>5, <1>6
<1>8. ASSUME UNCHANGED <<typed, consumed, accepted, todo, ret, pc>>
      PROVE  \E j \in 0 .. Len(Greet) + Len(consumed') : accepted' = Sent(j)' /\ Stage(j)'
  <2>1. Stage(k)' /\ Sent(k)' = Sent(k)
    BY <1>3, <1>8, SentSame DEF Stage, Rest, Greet, Calls
  <2> QED BY <1>3, <1>8, <2>1
<1>9. CASE Type
  <2>1. PICK c \in Chars : typed' = Append(typed, c)
    BY <1>9, UartAssumption DEF Type
  <2>2. Sent(k)' = Sent(k) /\ (k < Len(All) => All'[k + 1] = All[k + 1])
    BY <1>4, <1>7, <2>1, SentKept
  <2>3. UNCHANGED <<consumed, accepted, todo, ret, pc>>
    BY <1>9 DEF Type
  <2>4. pc = "echo" => k < Len(All)
    BY <1>3, <1>5, <1>6, <1>7 DEF Stage
  <2>5. Stage(k)'
    BY <1>3, <2>2, <2>3, <2>4 DEF Stage, Rest, Greet, Calls
  <2> QED BY <1>3, <2>2, <2>3, <2>5
<1>10. CASE uart_irq_rx_handler \/ uart_irq_tx_handler \/ UNCHANGED vars
  BY <1>8, <1>10 DEF uart_irq_rx_handler, uart_irq_tx_handler, vars
<1>11. CASE GetcNone \/ GetcEnable \/ uart_disable_irq
  <2>1. /\ UNCHANGED <<typed, consumed, accepted>>
        /\ \/ pc = "getc" /\ pc' = "getc_store"
           \/ pc = "getc_store" /\ pc' = "getc"
           \/ pc' = "done"
    BY <1>11 DEF GetcNone, GetcEnable, uart_disable_irq
  <2>2. Stage(k)' /\ Sent(k)' = Sent(k)
    BY <1>3, <2>1, SentSame DEF Stage, Greet, Calls
  <2> QED BY <1>3, <2>1, <2>2
<1>12. CASE uart_async_putc
  <2>1. /\ pc \in {"puts", "echo"} /\ todo # <<>> /\ UNCHANGED <<typed, consumed, todo>>
        /\ pc' = IF pc = "puts" THEN "puts_store" ELSE "echo_store"
    BY <1>12 DEF uart_async_putc
  <2>2. All' = All /\ \A j : Sent(j)' = Sent(j)
    BY <2>1, SentSame
  <2>3. /\ k + 1 \in 1 .. Len(Greet) + Len(consumed) /\ k < Len(All)
        /\ Head(todo) = All[k + 1]
    BY <1>1, <1>3, <2>1, NextCall
  <2>4. CASE inc(tx_buffer_head) = tx_buffer_tail
    <3>1. ret' = 0 /\ accepted' = accepted
      BY <1>12, <2>4 DEF uart_async_putc
    <3>2. k - 0 = k
      BY <1>7
    <3>3. Stage(k)'
      BY <1>3, <2>1, <3>1, <3>2 DEF Stage, Rest, Greet, Calls
    <3> QED BY <1>3, <2>1, <2>2, <3>1, <3>3
  <2>5. CASE inc(tx_buffer_head) # tx_buffer_tail
    <3>1. ret' = 1 /\ accepted' = Cat(accepted, Bytes(Head(todo)))
      BY <1>12, <2>5 DEF uart_async_putc, Cat
    <3>2. Sent(k + 1) = Cat(Sent(k), Bytes(All[k + 1]))
      BY <1>4, <1>7, <2>3, SentFacts
    <3>3. accepted' = Sent(k + 1)'
      BY <1>3, <2>2, <2>3, <3>1, <3>2, Zenon
    <3>4. (k + 1) - 1 = k
      BY <1>7
    <3>5. Stage(k + 1)'
      BY <1>3, <2>1, <3>1, <3>4 DEF Stage, Rest, Greet, Calls
    <3>6. k + 1 \in 0 .. Len(Greet) + Len(consumed')
      BY <1>5, <1>6, <2>1, <2>3
    <3> QED BY <3>3, <3>5, <3>6
  <2> QED BY <2>4, <2>5
<1>13. CASE uart_enable_tx_irq
  <2>1. /\ pc \in {"puts_store", "echo_store"} /\ todo' = Tail(todo) /\ todo # <<>>
        /\ pc' = IF ret = 0 THEN "disable"
                 ELSE IF pc = "puts_store" /\ todo' # <<>> THEN "puts" ELSE "getc"
        /\ UNCHANGED <<typed, consumed, accepted, ret>>
    BY <1>13 DEF uart_enable_tx_irq, Base
  <2>2. \A j : Sent(j)' = Sent(j)
    BY <2>1, SentSame
  <2>3. Stage(k)'
    <3>1. CASE ret = 0
      BY <2>1, <3>1 DEF Stage
    <3>2. CASE ret = 1 /\ pc = "echo_store"
      BY <1>3, <2>1, <3>2 DEF Stage, Greet, Calls
    <3>3. CASE ret = 1 /\ pc = "puts_store"
      <4>1. /\ consumed = <<>> /\ Len(todo) = Len(Greet) - (k - 1)
            /\ \A i \in 1 .. Len(todo) : todo[i] = Greet[(k - 1) + i]
        BY <1>3, <3>3 DEF Stage, Rest
      <4>2. /\ Len(Tail(todo)) = Len(todo) - 1 /\ Len(todo) \in Nat /\ Len(todo) >= 1
            /\ \A i \in 1 .. Len(Tail(todo)) : Tail(todo)[i] = todo[i + 1]
            /\ Tail(todo) \in Seq(Chars)
        BY <1>4, <2>1
      <4>3. CASE Tail(todo) # <<>>
        <5>1. pc' = "puts"
          BY <2>1, <3>3, <4>3
        <5>2. Len(Tail(todo)) = Len(Greet) - k
          BY <1>5, <1>7, <4>1, <4>2
        <5>3. \A i \in 1 .. Len(Tail(todo)) : Tail(todo)[i] = Greet[k + i]
          <6> SUFFICES ASSUME NEW i \in 1 .. Len(Tail(todo)) PROVE Tail(todo)[i] = Greet[k + i]
            OBVIOUS
          <6>1. i + 1 \in 1 .. Len(todo) /\ (k - 1) + (i + 1) = k + i
            BY <1>7, <4>2
          <6> QED BY <4>1, <4>2, <6>1
        <5> QED BY <2>1, <4>1, <5>1, <5>2, <5>3 DEF Stage, Rest, Greet, Calls
      <4>4. CASE Tail(todo) = <<>>
        <5>1. pc' = "getc"
          BY <2>1, <3>3, <4>4
        <5>2. Len(todo) = 1 /\ Len(consumed) = 0
          <6>1. Len(<<>>) = 0
            OBVIOUS
          <6>2. Len(Tail(todo)) = 0 /\ Len(consumed) = 0
            BY <4>1, <4>4, <6>1, Zenon
          <6>3. Len(Tail(todo)) = Len(todo) - 1 /\ Len(todo) \in Nat
            BY <4>2
          <6> QED BY <6>2, <6>3
        <5>3. k = Len(Greet) + Len(consumed)
          <6>1. Len(todo) = Len(Greet) - (k - 1) /\ Len(Greet) \in Nat
            BY <1>5, <4>1
          <6> DEFINE g == Len(Greet)
                     c == Len(consumed)
          <6>2. 1 = g - (k - 1) /\ c = 0 /\ g \in Nat
            BY <5>2, <6>1
          <6> HIDE DEF g, c
          <6>3. k = g + c
            BY <1>7, <6>2
          <6> QED BY <6>3 DEF g, c
        <5> QED BY <2>1, <5>1, <5>3 DEF Stage, Greet, Calls
      <4> QED BY <4>3, <4>4
    <3> QED BY <1>4, <2>1, <3>1, <3>2, <3>3
  <2> QED BY <1>3, <2>1, <2>2, <2>3
<1>14. CASE GetcSome
  <2> DEFINE ch == memory[RxAt(rx_buffer_tail)]
  <2>1. /\ pc = "getc" /\ consumed' = Append(consumed, ch) /\ UNCHANGED <<typed, accepted>>
        /\ \/ pc' = "disable"
           \/ pc' = "echo" /\ todo' = <<ch>>
    BY <1>14 DEF GetcSome
  <2>2. ch \in Chars
    BY <1>1, Fields, Addresses DEF TypeOK
  <2> HIDE DEF ch
  <2>3. All' = All /\ Sent(k)' = Sent(k)
    BY <2>1, SentSame
  <2>4. k = Len(Greet) + Len(consumed)
    BY <1>3, <2>1 DEF Stage
  <2>5. /\ Len(consumed') = Len(consumed) + 1 /\ consumed' # <<>>
        /\ consumed'[Len(consumed) + 1] = ch
    BY <1>4, <2>1, <2>2
  <2>6. /\ Len(consumed') \in 0 .. Len(typed')
        /\ \A i \in 1 .. Len(consumed') : typed'[i] = consumed'[i]
    BY <1>1, <1>2, ConsumedTypedNext
  <2>7. Len(consumed) + 1 \in 1 .. Len(typed)
    BY <1>6, <2>1, <2>5, <2>6
  <2>8. typed[Len(consumed) + 1] = ch
    BY <1>6, <2>1, <2>5, <2>6
  <2>9. k + 1 = Len(Greet) + (Len(consumed) + 1)
    BY <1>5, <1>6, <2>4
  <2>10. All[k + 1] = ch
    BY <1>5, <2>7, <2>8, <2>9
  <2>11. Stage(k)'
    BY <2>1, <2>3, <2>5, <2>9, <2>10 DEF Stage, Greet, Calls
  <2>12. k \in 0 .. Len(Greet) + Len(consumed')
    BY <1>5, <1>6, <2>4, <2>5
  <2> QED BY <1>3, <2>1, <2>3, <2>11, <2>12
<1> QED BY <1>9, <1>10, <1>11, <1>12, <1>13, <1>14 DEF Next, Program

-----------------------------------------------------------------------------
(* The theorems about both rings *)

UartInv ==
    /\ Base /\ RxFifo /\ TxFifo
    /\ typed \in Seq(Inputs)
    /\ EchoInv

\* The invariant holds at the start,
LEMMA UartInvInit == Init => UartInv
<1> SUFFICES ASSUME Init PROVE UartInv
  OBVIOUS
<1>1. Base
  BY BaseInit
<1>2. 0 \in Slots /\ Count(0, 0) = 0
  BY CountFacts, UartAssumption DEF Slots
<1>3. RxContents = <<>> /\ TxContents = <<>>
  BY <1>2 DEF Init, RxContents, TxContents
<1>4. RxFifo /\ TxFifo /\ typed \in Seq(Inputs) /\ typed \in Seq(Chars)
  BY <1>3 DEF Init, RxFifo, TxFifo
<1>5. Greet \in Seq(Chars) /\ Len(Greet) \in Nat /\ All \in Seq(Chars)
  BY <1>4, AllFacts
<1>6. Sent(0) = <<>>
  <2>1. SubSeq(All, 1, 0) = <<>>
    BY <1>5
  <2>2. [i \in DOMAIN <<>> |-> Bytes(<<>>[i])] = <<>>
    OBVIOUS
  <2> QED BY <2>1, <2>2, FlattenEmpty DEF Sent, Encode
<1>7. Stage(0)
  <2>1. pc = "puts" /\ consumed = <<>> /\ todo = Greet
    BY DEF Init, Greet
  <2>2. \A i \in 1 .. Len(Greet) : 0 + i = i
    BY <1>5
  <2> QED BY <1>5, <2>1, <2>2 DEF Stage, Rest
<1>8. EchoInv
  <2>1. accepted = Sent(0) /\ consumed = <<>>
    BY <1>6 DEF Init
  <2>2. 0 \in 0 .. Len(Greet) + Len(consumed)
    BY <1>5, <2>1
  <2> QED BY <1>7, <2>1, <2>2 DEF EchoInv
<1> QED BY <1>1, <1>4, <1>8 DEF UartInv

\* and each step keeps it and finds room for what it puts, if the greeting fits.
LEMMA UartInvNext ==
    ASSUME GreetingFits, UartInv, [Next]_vars
    PROVE  UartInv' /\ PutFits
<1>1. Base /\ TypeOK /\ RxFifo /\ TxFifo /\ EchoInv /\ typed \in Seq(Inputs)
  BY DEF UartInv, Base
<1>2. PutFits
  BY <1>1, Fits
<1>3. Base' /\ RxFifo' /\ TxFifo' /\ EchoInv'
  BY <1>1, <1>2, BaseNext, RxNext, TxNext, EchoNext
<1>4. typed' \in Seq(Inputs)
  <2>1. typed' = typed \/ \E c \in Inputs : typed' = Append(typed, c)
    BY DEF Next, vars, Type, rings, uart_irq_rx_handler, uart_irq_tx_handler, Program,
           uart_async_putc, uart_enable_tx_irq, GetcSome, GetcNone, GetcEnable, uart_disable_irq
  <2> QED BY <1>1, <2>1, AppendIs
<1> QED BY <1>2, <1>3, <1>4 DEF UartInv

(* RingsFifo: neither ring loses, repeats or reorders a character, for every  *)
(* buffer size and greeting, when the greeting fits into the transmit ring    *)
(* and no carriage return is typed.                                           *)
THEOREM UartRingsFifo ==
    ASSUME GreetingFits
    PROVE  Spec => []RingsFifo
<1>1. Init => UartInv
  BY UartInvInit
<1>2. UartInv /\ [Next]_vars => UartInv'
  BY UartInvNext
<1>3. UartInv => RingsFifo
  BY DEF UartInv, Base, RingsFifo
<1> QED BY <1>1, <1>2, <1>3, PTL DEF Spec

(* EchoInOrder: what test_uart_async shows on the terminal is the greeting    *)
(* and then what was typed, in order, cut off anywhere.                       *)
THEOREM UartEchoInOrder ==
    ASSUME GreetingFits
    PROVE  Spec => []EchoInOrder
<1>1. Init => UartInv
  BY UartInvInit
<1>2. UartInv /\ [Next]_vars => UartInv'
  BY UartInvNext
<1>3. UartInv => EchoInOrder
  <2> SUFFICES ASSUME UartInv, ~aliased PROVE IsPrefix(out, Encode(All))
    BY DEF EchoInOrder, Encode, All, Greet
  <2>1. TypeOK /\ RxFifo /\ TxFifo /\ EchoInv
    BY DEF UartInv, Base
  <2>2. PICK k \in 0 .. Len(Greet) + Len(consumed) : accepted = Sent(k)
    BY <2>1 DEF EchoInv
  <2>3. out \in Seq(Chars) /\ TxContents \in Seq(Chars) /\ typed \in Seq(Chars)
    BY <2>1, Fields
  <2>4. /\ Len(Greet) \in Nat /\ Len(typed) \in Nat /\ All \in Seq(Chars)
        /\ Len(All) = Len(Greet) + Len(typed)
    BY <2>3, AllFacts
  <2>5. k \in Nat /\ Len(All) \in k .. Len(All)
    BY <2>1, <2>4, ConsumedTyped
  <2>6. PICK d \in Seq(Chars) : Sent(Len(All)) = Cat(Sent(k), d)
    BY <2>3, <2>5, SentPrefix
  <2>7. SubSeq(All, 1, Len(All)) = All
    BY <2>4
  <2>8. accepted = Cat(out, TxContents)
    BY <2>1 DEF TxFifo, Cat
  <2> DEFINE rest == Cat(TxContents, d)
  <2>9. rest \in Seq(Chars) /\ Cat(Cat(out, TxContents), d) = Cat(out, rest)
    BY <2>3, CatFacts
  <2> HIDE DEF rest
  <2>10. Encode(All) = Cat(out, rest)
    BY <2>2, <2>6, <2>7, <2>8, <2>9, Zenon DEF Sent
  <2>11. IsPrefix(out, Cat(out, rest))
    BY <2>3, <2>9, PrefixIs DEF Cat
  <2> QED BY <2>10, <2>11
<1> QED BY <1>1, <1>2, <1>3, PTL DEF Spec

(* TxRefines: the transmit ring is a bounded first-in first-out queue.  Every *)
(* step of the system puts one or two elements, takes one, or stutters.       *)
THEOREM UartTxRefines ==
    ASSUME GreetingFits
    PROVE  Spec => TxRefines
<1> DEFINE q == IF aliased THEN <<>> ELSE TxContents
<1>1. Init => UartInv
  BY UartInvInit
<1>2. UartInv /\ [Next]_vars => UartInv'
  BY UartInvNext
<1>3. Init => TxQueue!Init
  <2>1. 0 \in Slots /\ Count(0, 0) = 0
    BY CountFacts, UartAssumption DEF Slots
  <2>2. Init => TxContents = <<>>
    BY <2>1 DEF Init, TxContents
  <2> QED BY <2>2 DEF TxQueue!Init
<1>4. UartInv /\ [Next]_vars => [TxQueue!Put \/ TxQueue!Get]_q
  <2> SUFFICES ASSUME UartInv, [Next]_vars PROVE TxQueue!Put \/ TxQueue!Get \/ q' = q
    OBVIOUS
  <2>1. aliased' = aliased /\ PutFits /\ Base
    BY AliasedKept, UartInvNext DEF UartInv
  <2>2. CASE aliased
    BY <2>1, <2>2
  <2>3. CASE ~aliased
    <3>1. /\ TxStep /\ TxContents \in Seq(Chars) /\ TxContents' \in Seq(Chars)
          /\ Len(TxContents') <= BUFFER_SIZE - 1
      BY <2>1, <2>3, TxSteps, TxContentsNext
    <3>2. q = TxContents /\ q' = TxContents'
      BY <2>1, <2>3
    <3> HIDE DEF q
    <3>3. CASE TxContents' = TxContents
      BY <3>2, <3>3
    <3>4. ASSUME NEW ch \in Chars, TxContents = Cat(Single(ch), TxContents')
          PROVE  TxQueue!Get
      <4> DEFINE new == TxContents'
      <4>1. q = <<ch>> \o new /\ new \in Seq(Chars)
        BY <3>1, <3>2, <3>4 DEF Cat, Single
      <4> HIDE DEF new
      <4>2. q # <<>> /\ Tail(q) = new
        BY <4>1
      <4> QED BY <3>2, <4>2 DEF new, q, TxQueue!Get
    <3>5. ASSUME NEW c \in Chars, TxContents' = Cat(TxContents, Bytes(c))
          PROVE  TxQueue!Put
      <4>1. Bytes(c) \in Seq(Chars) /\ Bytes(c) \in {<<d>> : d \in Chars} \cup (Chars \X Chars)
        <5>1. LF \in Chars
          BY DEF Chars
        <5> QED BY <5>1, BytesType DEF Bytes
      <4>2. Len(Cat(TxContents, Bytes(c))) = Len(TxContents) + Len(Bytes(c))
        BY <3>1, <4>1, CatLen
      <4>3. Len(q) + Len(Bytes(c)) <= BUFFER_SIZE - 1 /\ q' = q \o Bytes(c)
        BY <3>1, <3>2, <3>5, <4>2 DEF Cat
      <4> QED BY <4>1, <4>3 DEF q, TxQueue!Put
    <3> QED BY <3>1, <3>3, <3>4, <3>5, <3>2 DEF TxStep
  <2> QED BY <2>2, <2>3
<1> QED BY <1>1, <1>2, <1>3, <1>4, PTL DEF Spec, TxRefines, TxQueue!Spec
=============================================================================
