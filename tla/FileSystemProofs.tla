-------------------------- MODULE FileSystemProofs --------------------------
(***************************************************************************)
(* TLAPS proofs about the file system: what a tmpfs file holds             *)
(* (TmpfsFile), the walks over an archive (Cpio) and the name space (Vfs). *)
(* The two components share no state; their proofs share lemmas.           *)
(***************************************************************************)
EXTENDS Vfs, TmpfsFile, FiniteSetTheorems, TLAPS

\* Min of a non-empty set of natural numbers is its least element.
LEMMA MinFacts ==
    ASSUME NEW T, T \subseteq Nat, T # {}
    PROVE  Min(T) \in T /\ \A k \in T : Min(T) <= k
<1>1. PICK m \in T : \A k \in T : ~(<<k, m>> \in OpToRel(<, Nat))
  BY NatLessThanWellFounded, WFMin
<1>2. \A k \in T : ~(k < m)
  BY <1>1 DEF OpToRel
<1>3. \A k \in T : m <= k
  BY <1>2
<1> QED BY <1>3 DEF Min

\* Induction on the natural numbers, for a set
LEMMA SetInduction ==
    ASSUME NEW S, 0 \in S, \A n \in Nat : n \in S => n + 1 \in S
    PROVE  Nat \subseteq S
<1> SUFFICES ASSUME Nat \ S # {} PROVE FALSE
  OBVIOUS
<1> DEFINE m == Min(Nat \ S)
<1>1. m \in Nat \ S /\ \A k \in Nat \ S : m <= k
  BY MinFacts
<1> HIDE DEF m
<1>2. m # 0 /\ m - 1 \in Nat
  BY <1>1
<1>3. m - 1 \in S
  BY <1>1, <1>2
<1> QED BY <1>1, <1>2, <1>3

-----------------------------------------------------------------------------
(* Functions defined by recursion: CHOOSE finds one.                       *)

\* f goes from start by the steps F.
Iterates(f, F, start, N) ==
    f[0] = start /\ \A n \in 1 .. N : f[n] = F[<<n, f[n - 1]>>]

\* A step function can be iterated as often as one likes.
LEMMA IterationExists ==
    ASSUME NEW T, NEW start \in T, NEW F \in [Nat \X T -> T]
    PROVE  \A N \in Nat : \E f \in [0 .. N -> T] : Iterates(f, F, start, N)
<1> DEFINE S == {N \in Nat : \E f \in [0 .. N -> T] : Iterates(f, F, start, N)}
<1>1. 0 \in S
  <2> DEFINE f == [n \in 0 .. 0 |-> start]
  <2>1. f \in [0 .. 0 -> T] /\ f[0] = start
    OBVIOUS
  <2>2. 1 .. 0 = {}
    OBVIOUS
  <2> HIDE DEF f
  <2>3. Iterates(f, F, start, 0)
    BY <2>1, <2>2 DEF Iterates
  <2> QED BY <2>1, <2>3
<1>2. ASSUME NEW N \in Nat, N \in S PROVE N + 1 \in S
  <2>1. PICK f \in [0 .. N -> T] : Iterates(f, F, start, N)
    BY <1>2
  <2> DEFINE g == [n \in 0 .. N + 1 |-> IF n = N + 1 THEN F[<<N + 1, f[N]>>] ELSE f[n]]
  <2>2. F[<<N + 1, f[N]>>] \in T
    OBVIOUS
  <2>3. g \in [0 .. N + 1 -> T]
    BY <2>2
  <2>4. \A n \in 0 .. N : g[n] = f[n]
    OBVIOUS
  <2>5. g[N + 1] = F[<<N + 1, f[N]>>]
    OBVIOUS
  <2> HIDE DEF g
  <2>6. \A n \in 1 .. N + 1 : g[n] = F[<<n, g[n - 1]>>]
    <3>1. ASSUME NEW n \in 1 .. N PROVE g[n] = F[<<n, g[n - 1]>>]
      <4>1. n \in 0 .. N /\ n - 1 \in 0 .. N
        OBVIOUS
      <4> QED BY <2>1, <2>4, <4>1 DEF Iterates
    <3>2. (N + 1) - 1 = N /\ N \in 0 .. N
      OBVIOUS
    <3>3. g[N + 1] = F[<<N + 1, g[(N + 1) - 1]>>]
      BY <2>4, <2>5, <3>2
    <3>4. \A n \in 1 .. N + 1 : n \in 1 .. N \/ n = N + 1
      OBVIOUS
    <3> QED BY <3>1, <3>3, <3>4
  <2>7. 0 \in 0 .. N /\ g[0] = start
    BY <2>1, <2>4 DEF Iterates
  <2> QED BY <2>3, <2>6, <2>7 DEF Iterates
<1> HIDE DEF S
<1>3. Nat \subseteq S
  BY <1>1, <1>2, SetInduction
<1> QED BY <1>3 DEF S

-----------------------------------------------------------------------------
(* What a tmpfs file holds.                                                *)

\* A set of n elements has 2^n subsets, one of n + 1 twice as many.
LEMMA PowerFacts ==
    ASSUME NEW n \in Nat
    PROVE  2 ^ n \in Nat /\ 2 ^ (n + 1) = 2 * 2 ^ n
<1> DEFINE S == 1 .. n
           With == {A \cup {n + 1} : A \in SUBSET S}
           f == [A \in SUBSET S |-> A \cup {n + 1}]
<1>1. IsFiniteSet(S) /\ Cardinality(S) = n
  BY FS_Interval
<1>2. IsFiniteSet(1 .. n + 1) /\ Cardinality(1 .. n + 1) = n + 1
  BY FS_Interval
<1>3. IsFiniteSet(SUBSET S) /\ Cardinality(SUBSET S) = 2 ^ n
  BY <1>1, FS_SUBSET
<1>4. Cardinality(SUBSET (1 .. n + 1)) = 2 ^ (n + 1)
  BY <1>2, FS_SUBSET
<1>5. n + 1 \notin S /\ 1 .. n + 1 = S \cup {n + 1}
  OBVIOUS
<1> HIDE DEF S
<1>6. f \in Bijection(SUBSET S, With)
  <2>1. \A A, B \in SUBSET S : A \cup {n + 1} = B \cup {n + 1} => A = B
    BY <1>5
  <2>2. f \in [SUBSET S -> With] /\ \A T \in With : \E A \in SUBSET S : f[A] = T
    OBVIOUS
  <2>3. \A A, B \in SUBSET S : f[A] = f[B] => A = B
    BY <2>1
  <2> QED BY <2>2, <2>3 DEF Bijection, Injection, Surjection, IsInjective
<1>7. IsFiniteSet(With) /\ Cardinality(With) = 2 ^ n
  BY <1>3, <1>6, FS_Bijection DEF ExistsBijection
<1>w. \A X : X \in With <=> \E A \in SUBSET S : X = A \cup {n + 1}
  BY Zenon
<1> HIDE DEF With, f
<1> DEFINE P == SUBSET S
           Q == SUBSET (1 .. n + 1)
<1>8. Q = P \cup With
  <2>1. ASSUME NEW A \in Q, n + 1 \in A PROVE A \in With
    <3>1. A \ {n + 1} \in SUBSET S
      BY <1>5
    <3>2. A = (A \ {n + 1}) \cup {n + 1}
      BY <2>1
    <3> QED BY <1>w, <3>1, <3>2, Zenon
  <2>2. ASSUME NEW A \in Q, n + 1 \notin A PROVE A \in P
    BY <1>5, <2>2
  <2>3. ASSUME NEW A \in With PROVE A \in Q
    <3>1. PICK B \in SUBSET S : A = B \cup {n + 1}
      BY <1>w, Zenon
    <3> QED BY <1>5, <3>1
  <2>4. ASSUME NEW A \in P PROVE A \in Q
    BY <1>5
  <2> HIDE DEF P, Q
  <2> QED BY <2>1, <2>2, <2>3, <2>4
<1>9. P \cap With = {}
  <2>1. ASSUME NEW A \in With PROVE n + 1 \in A
    <3>1. PICK B \in SUBSET S : A = B \cup {n + 1}
      BY <1>w, Zenon
    <3> QED BY <3>1
  <2>2. ASSUME NEW A \in P PROVE n + 1 \notin A
    BY <1>5
  <2> HIDE DEF P
  <2> QED BY <2>1, <2>2
<1>10. Cardinality(P) \in Nat /\ Cardinality({}) = 0
  BY <1>3, FS_EmptySet, FS_CardinalityType
<1>11. Cardinality(Q) = Cardinality(P) + Cardinality(With) - Cardinality(P \cap With)
  <2>1. IsFiniteSet(P)
    BY <1>3
  <2> HIDE DEF P, Q
  <2> QED BY <1>7, <1>8, <2>1, FS_Union
<1>12. 2 ^ n = Cardinality(P) /\ 2 ^ (n + 1) = Cardinality(Q)
  BY <1>3, <1>4
<1> HIDE DEF P, Q
<1>13. Cardinality(Q) = Cardinality(P) + Cardinality(P)
  <2>1. Cardinality(P \cap With) = 0
    BY <1>9, <1>10, Zenon
  <2>2. Cardinality(With) = Cardinality(P)
    BY <1>7, <1>12, Zenon
  <2> QED BY <1>10, <1>11, <2>1, <2>2
<1> QED BY <1>10, <1>12, <1>13

\* 2^n grows beyond every number.
LEMMA PowerAbove == \A n \in Nat : n < 2 ^ n
<1> DEFINE S == {n \in Nat : n < 2 ^ n}
<1>1. 0 \in S
  <2>1. 2 ^ 0 = 1
    OBVIOUS
  <2> QED BY <2>1
<1>2. ASSUME NEW n \in Nat, n \in S PROVE n + 1 \in S
  BY <1>2, PowerFacts
<1> HIDE DEF S
<1>3. Nat \subseteq S
  BY <1>1, <1>2, SetInduction
<1> QED BY <1>3 DEF S

-----------------------------------------------------------------------------
\* Doubling m times a capacity that is the default doubled k times
LEMMA Doubled ==
    ASSUME NEW c \in Nat, NEW k \in Nat, c = DEFAULT_FILE_SIZE * 2 ^ k
    PROVE  \A m \in Nat : c * 2 ^ m = DEFAULT_FILE_SIZE * 2 ^ (k + m)
<1> DEFINE S == {m \in Nat : c * 2 ^ m = DEFAULT_FILE_SIZE * 2 ^ (k + m)}
<1>1. 0 \in S
  <2>1. 2 ^ 0 = 1 /\ k + 0 = k
    OBVIOUS
  <2> QED BY <2>1
<1>2. ASSUME NEW m \in Nat, m \in S PROVE m + 1 \in S
  <2>1. 2 ^ m \in Nat /\ 2 ^ (m + 1) = 2 * 2 ^ m
    BY PowerFacts
  <2>2. 2 ^ (k + m) \in Nat /\ 2 ^ (k + m + 1) = 2 * 2 ^ (k + m)
    BY PowerFacts
  <2>3. c * 2 ^ (m + 1) = 2 * (c * 2 ^ m)
    BY <2>1
  <2>4. DEFAULT_FILE_SIZE * 2 ^ (k + m + 1) = 2 * (DEFAULT_FILE_SIZE * 2 ^ (k + m))
    BY <2>2, TmpfsAssumption
  <2>5. k + (m + 1) = k + m + 1
    OBVIOUS
  <2> QED BY <1>2, <2>3, <2>4, <2>5
<1> HIDE DEF S
<1>3. Nat \subseteq S
  BY <1>1, <1>2, SetInduction
<1> QED BY <1>3 DEF S

\* tmpfs_write's loop ends with a capacity that is enough, reached by doubling.
LEMMA NewCapacityFacts ==
    ASSUME FitsBuffer, NEW required \in 0 .. MaxPos
    PROVE  /\ NewCapacity(required) \in Nat
           /\ NewCapacity(required) >= required /\ NewCapacity(required) >= capacity
           /\ \E j \in 0 .. MaxPos : NewCapacity(required) = DEFAULT_FILE_SIZE * 2 ^ j
<1>1. PICK k \in 0 .. MaxPos : capacity = DEFAULT_FILE_SIZE * 2 ^ k
  BY DEF FitsBuffer
<1>2. capacity \in Nat /\ capacity >= 1
  <2>1. capacity \in Nat
    BY DEF FitsBuffer, TypeOK, capacity
  <2>2. 2 ^ k \in Nat /\ 2 ^ k >= 1 /\ DEFAULT_FILE_SIZE \in Nat /\ DEFAULT_FILE_SIZE >= 1
    BY PowerFacts, PowerAbove, TmpfsAssumption
  <2>3. DEFAULT_FILE_SIZE * 2 ^ k >= 1
    BY <2>2
  <2> QED BY <1>1, <2>1, <2>3
<1> HIDE DEF capacity
<1> DEFINE T == {i \in 0 .. required : capacity * 2 ^ i >= required}
           m == Min(T)
<1>3. required \in T
  <2>1. 2 ^ required \in Nat /\ 2 ^ required > required /\ required \in Nat
    BY PowerFacts, PowerAbove
  <2>2. capacity * 2 ^ required >= 2 ^ required
    BY <1>2, <2>1
  <2>3. capacity * 2 ^ required \in Nat
    BY <1>2, <2>1
  <2> QED BY <2>1, <2>2, <2>3
<1>4. m \in T /\ \A i \in T : m <= i
  <2>1. T \subseteq Nat /\ T # {}
    BY <1>3
  <2> HIDE DEF T
  <2> QED BY <2>1, MinFacts
<1>5. NewCapacity(required) = capacity * 2 ^ m
  BY DEF NewCapacity
<1> HIDE DEF m
<1>6. m \in Nat /\ m \in 0 .. required /\ capacity * 2 ^ m >= required
  BY <1>4
<1>7. 2 ^ m \in Nat /\ 2 ^ m >= 1
  BY <1>6, PowerFacts, PowerAbove
<1>8. capacity * 2 ^ m \in Nat /\ capacity * 2 ^ m >= capacity
  BY <1>2, <1>7
<1>9. capacity * 2 ^ m = DEFAULT_FILE_SIZE * 2 ^ (k + m) /\ k + m \in Nat
  BY <1>1, <1>2, <1>6, Doubled
<1>10. k + m <= MaxPos
  <2>1. CASE m = 0
    BY <2>1, TmpfsAssumption
  <2>2. CASE m > 0
    <3> DEFINE p == m - 1
               j == k + p
    <3>1. p \in Nat /\ p \in 0 .. required /\ p < m /\ j \in Nat
      BY <1>6, <2>2
    <3>2. ~(capacity * 2 ^ p >= required)
      BY <1>4, <3>1
    <3> HIDE DEF p
    <3>3. capacity * 2 ^ p = DEFAULT_FILE_SIZE * 2 ^ j
      BY <1>1, <1>2, <3>1, Doubled
    <3>4. /\ 2 ^ j \in Nat /\ 2 ^ j > j
          /\ DEFAULT_FILE_SIZE \in Nat /\ DEFAULT_FILE_SIZE >= 1
      BY <3>1, PowerFacts, PowerAbove, TmpfsAssumption
    <3> HIDE DEF j
    <3>5. DEFAULT_FILE_SIZE * 2 ^ j >= 2 ^ j /\ DEFAULT_FILE_SIZE * 2 ^ j \in Nat
      BY <3>4
    <3>6. j < MaxPos
      BY <3>1, <3>2, <3>3, <3>4, <3>5, TmpfsAssumption
    <3> QED BY <3>1, <3>6, <1>6, TmpfsAssumption DEF j, p
  <2> QED BY <1>6, <2>1, <2>2
<1> QED BY <1>5, <1>6, <1>8, <1>9, <1>10
\* The buffer a write goes to holds the file, and has the capacity asked for.
LEMMA GrownFacts ==
    ASSUME FitsBuffer, NEW n \in Nat, n >= capacity
    PROVE  /\ Grown(n) \in Seq(Bytes \cup {Junk}) /\ Len(Grown(n)) = n
           /\ \A i \in 1 .. size : Grown(n)[i] = data[i]
<1> DEFINE B == Bytes \cup {Junk}
<1>1. data \in Seq(B) /\ size \in Nat /\ size <= Len(data) /\ Len(data) \in Nat
  BY DEF FitsBuffer, TypeOK, capacity
<1> HIDE DEF B
<1>2. CASE n > capacity
  <2> DEFINE old == SubSeq(data, 1, size)
             new == Fresh(n - size)
  <2>1. n - size \in Nat
    BY <1>1, <1>2 DEF capacity
  <2>2. old \in Seq(B) /\ Len(old) = size /\ \A i \in 1 .. size : old[i] = data[i]
    BY <1>1
  <2>3. new \in Seq(B) /\ Len(new) = n - size
    BY <2>1 DEF Fresh, B
  <2> HIDE DEF old, new
  <2>4. /\ old \o new \in Seq(B) /\ Len(old \o new) = size + (n - size)
        /\ \A i \in 1 .. size : (old \o new)[i] = old[i]
    BY <1>1, <2>1, <2>2, <2>3
  <2>5. Grown(n) = old \o new
    BY <1>2 DEF Grown, old, new
  <2> QED BY <1>1, <2>2, <2>4, <2>5 DEF B
<1>3. CASE ~(n > capacity)
  BY <1>1, <1>3 DEF Grown, capacity, B
<1> QED BY <1>2, <1>3

\* A write puts its bytes at the handle's position into a buffer that holds them
\* and leaves the other bytes of the file as they are.
LEMMA WriteFacts ==
    ASSUME FitsBuffer, NEW h \in Handles, NEW buf \in Buffers,
           f_pos[h] + Len(buf) <= MaxPos, tmpfs_write(h, buf)
    PROVE  /\ FitsBuffer'
           /\ size' = IF f_pos[h] + Len(buf) > size THEN f_pos[h] + Len(buf) ELSE size
           /\ f_pos' = [f_pos EXCEPT ![h] = f_pos[h] + Len(buf)]
           /\ \A i \in 1 .. size' :
                 /\ i \in f_pos[h] + 1 .. f_pos[h] + Len(buf) => data'[i] = buf[i - f_pos[h]]
                 /\ (i <= size /\ i \notin f_pos[h] + 1 .. f_pos[h] + Len(buf)) =>
                       data'[i] = data[i]
<1> DEFINE B == Bytes \cup {Junk}
           from == f_pos[h]
           to == f_pos[h] + Len(buf)
           n == NewCapacity(to)
           buffer == Grown(n)
<1>1. /\ from \in 0 .. MaxPos /\ buf \in Seq(Bytes) /\ Len(buf) \in Nat
      /\ to \in 0 .. MaxPos /\ size \in 0 .. MaxPos /\ size <= capacity
  BY TmpfsAssumption DEF FitsBuffer, TypeOK
<1>2. /\ n \in Nat /\ n >= to /\ n >= capacity
      /\ \E j \in 0 .. MaxPos : n = DEFAULT_FILE_SIZE * 2 ^ j
  BY <1>1, NewCapacityFacts
<1>3. /\ data' = [i \in DOMAIN buffer |->
                     IF i \in from + 1 .. to THEN buf[i - from] ELSE buffer[i]]
      /\ f_pos' = [f_pos EXCEPT ![h] = to]
      /\ size' = IF to > size THEN to ELSE size
      /\ UNCHANGED <<opened, got, runaway>>
  BY DEF tmpfs_write
<1> HIDE DEF n
<1>4. buffer \in Seq(B) /\ Len(buffer) = n /\ \A i \in 1 .. size : buffer[i] = data[i]
  BY <1>2, GrownFacts
<1> HIDE DEF buffer
<1>5. DOMAIN buffer = 1 .. n /\ \A i \in 1 .. n : buffer[i] \in B
  BY <1>4
<1>6. \A i \in from + 1 .. to : buf[i - from] \in Bytes
  BY <1>1
<1> HIDE DEF from, to
<1>7. /\ data' \in [1 .. n -> B]
      /\ \A i \in 1 .. n : data'[i] = IF i \in from + 1 .. to THEN buf[i - from] ELSE buffer[i]
  BY <1>3, <1>5, <1>6 DEF B
<1>8. data' \in Seq(B) /\ Len(data') = n
  BY <1>2, <1>7
<1>9. size' \in 0 .. MaxPos /\ size' <= n /\ capacity' = n
  BY <1>1, <1>2, <1>3, <1>8 DEF capacity
<1>10. FitsBuffer'
  BY <1>1, <1>2, <1>3, <1>8, <1>9 DEF FitsBuffer, TypeOK, B
<1>11. ASSUME NEW i \in 1 .. size'
       PROVE  /\ i \in from + 1 .. to => data'[i] = buf[i - from]
              /\ (i <= size /\ i \notin from + 1 .. to) => data'[i] = data[i]
  <2>1. i \in 1 .. n
    BY <1>2, <1>9
  <2>2. i <= size => i \in 1 .. size
    BY <1>1, <1>9
  <2> QED BY <1>4, <1>7, <2>1, <2>2
<1> QED BY <1>3, <1>10, <1>11 DEF from, to

\* A read moves the position to the end of what it gives, which is in the file.
LEMMA ReadFacts ==
    ASSUME FitsBuffer, NEW h \in Handles, NEW count \in Counts, tmpfs_read(h, count),
           ~RunAway
    PROVE  /\ FitsBuffer' /\ UNCHANGED <<data, size>>
           /\ \E end \in f_pos[h] .. size : /\ f_pos' = [f_pos EXCEPT ![h] = end]
                                           /\ got' = SubSeq(data, f_pos[h] + 1, end)
<1> DEFINE end == f_pos[h] + Readable(f_pos[h], count)
<1>1. /\ f_pos[h] \in Nat /\ size \in 0 .. MaxPos /\ f_pos[h] < size /\ count \in Nat
      /\ data \in Seq(Bytes \cup {Junk}) /\ size <= Len(data)
  BY TmpfsAssumption DEF FitsBuffer, TypeOK, tmpfs_read, capacity
<1>3. /\ end <= size
      /\ f_pos' = [f_pos EXCEPT ![h] = end]
      /\ got' = SubSeq(data, f_pos[h] + 1, end)
      /\ UNCHANGED <<data, size, opened, runaway>>
  BY DEF tmpfs_read
<1>2. end \in f_pos[h] .. size
  BY <1>1, <1>3 DEF Readable
<1> HIDE DEF end
<1>4. SubSeq(data, f_pos[h] + 1, end) \in Seq(Bytes \cup {Junk})
  BY <1>1, <1>2
<1>5. end \in 0 .. MaxPos
  BY <1>1, <1>2, TmpfsAssumption
<1>6. FitsBuffer'
  BY <1>3, <1>4, <1>5 DEF FitsBuffer, TypeOK, capacity
<1> QED BY <1>2, <1>3, <1>6

\* A call whose count wraps is the last step, and changes nothing else.
LEMMA RunAwayFacts ==
    ASSUME FitsBuffer, RunAway
    PROVE  FitsBuffer' /\ UNCHANGED <<data, size, f_pos, got>>
  BY DEF FitsBuffer, TypeOK, capacity, RunAway

\* open, close and lseek64 only move the position of their handle.
LEMMA MoveFacts ==
    ASSUME FitsBuffer, NEW h \in Handles,
           tmpfs_open(h) \/ tmpfs_close(h) \/ sys_lseek64(h)
    PROVE  /\ FitsBuffer' /\ UNCHANGED <<data, size, got>>
           /\ \E p \in 0 .. MaxPos : f_pos' = [f_pos EXCEPT ![h] = p]
<1>1. UNCHANGED <<data, size, got, runaway>> /\ opened' \subseteq Handles
  BY DEF FitsBuffer, TypeOK, tmpfs_open, tmpfs_close, sys_lseek64, tmpfs_lseek64
<1>2. \E p \in 0 .. MaxPos : f_pos' = [f_pos EXCEPT ![h] = p]
  <2>1. CASE tmpfs_open(h) \/ tmpfs_close(h)
    BY <2>1, TmpfsAssumption DEF tmpfs_open, tmpfs_close
  <2>2. CASE sys_lseek64(h)
    <3>1. PICK offset \in Offsets, base \in {0, f_pos[h], size} :
              base + offset <= MaxPos /\ tmpfs_lseek64(h, offset, base)
      BY <2>2 DEF sys_lseek64
    <3>2. base + offset \in 0 .. MaxPos
      BY <3>1, TmpfsAssumption DEF FitsBuffer, TypeOK, tmpfs_lseek64
    <3> QED BY <3>1, <3>2 DEF tmpfs_lseek64
  <2> QED BY <2>1, <2>2
<1>3. f_pos' \in [Handles -> 0 .. MaxPos]
  BY <1>2 DEF FitsBuffer, TypeOK
<1> QED BY <1>1, <1>2, <1>3 DEF FitsBuffer, TypeOK, capacity

\* FitsBuffer holds at the start, where nothing has been allocated,
LEMMA FitsInit == Init => FitsBuffer
<1> SUFFICES ASSUME Init PROVE FitsBuffer
  OBVIOUS
<1>1. /\ data \in Seq(Bytes \cup {Junk}) /\ Len(data) = DEFAULT_FILE_SIZE
  BY TmpfsAssumption DEF Init, Fresh
<1>2. 2 ^ 0 = 1 /\ 0 \in 0 .. MaxPos /\ DEFAULT_FILE_SIZE * 1 = DEFAULT_FILE_SIZE
  BY TmpfsAssumption
<1>3. \E k \in 0 .. MaxPos : capacity = DEFAULT_FILE_SIZE * 2 ^ k
  BY <1>1, <1>2 DEF capacity
<1>4. runaway \in BOOLEAN
  BY DEF Init
<1> QED BY <1>1, <1>3, <1>4, TmpfsAssumption DEF Init, FitsBuffer, TypeOK, capacity

\* and every call keeps it.
LEMMA FitsNext == FitsBuffer /\ [Next]_vars => FitsBuffer'
<1> SUFFICES ASSUME FitsBuffer, [Next]_vars PROVE FitsBuffer'
  OBVIOUS
<1>1. ASSUME NEW h \in Handles, sys_write(h) PROVE FitsBuffer'
  BY <1>1, WriteFacts, RunAwayFacts DEF sys_write
<1>2. ASSUME NEW h \in Handles, sys_read(h) PROVE FitsBuffer'
  BY <1>2, ReadFacts, RunAwayFacts DEF sys_read
<1>3. CASE UNCHANGED vars
  BY <1>3 DEF vars, FitsBuffer, TypeOK, capacity
<1> QED BY <1>1, <1>2, <1>3, MoveFacts DEF Next

\* For any default size, handles and buffers: no write runs past the end of the
\* node's buffer, and the buffer is always a doubling of the default size.
THEOREM TmpfsFitsBuffer == Spec => []FitsBuffer
  BY FitsInit, FitsNext, PTL DEF Spec

-----------------------------------------------------------------------------
\* The first n bytes of a buffer
LEMMA PrefixFacts ==
    ASSUME NEW B, NEW d \in Seq(B), NEW n \in Nat, n <= Len(d)
    PROVE  /\ SubSeq(d, 1, n) \in Seq(B)
           /\ Len(SubSeq(d, 1, n)) = n /\ DOMAIN SubSeq(d, 1, n) = 1 .. n
           /\ \A i \in 1 .. n : SubSeq(d, 1, n)[i] = d[i]
  OBVIOUS

\* Reading from the file is reading from the buffer.
LEMMA SubSeqOfPrefix ==
    ASSUME NEW B, NEW d \in Seq(B), NEW n \in Nat, n <= Len(d),
           NEW from \in Nat, NEW end \in from .. n
    PROVE  SubSeq(SubSeq(d, 1, n), from + 1, end) = SubSeq(d, from + 1, end)
<1> DEFINE c == SubSeq(d, 1, n)
<1>1. c \in Seq(B) /\ Len(c) = n /\ \A i \in 1 .. n : c[i] = d[i]
  BY PrefixFacts
<1> HIDE DEF c
<1>2. /\ SubSeq(c, from + 1, end) \in Seq(B)
      /\ Len(SubSeq(c, from + 1, end)) = end - from
      /\ \A i \in 1 .. end - from : SubSeq(c, from + 1, end)[i] = c[from + i]
  BY <1>1
<1>3. /\ SubSeq(d, from + 1, end) \in Seq(B)
      /\ Len(SubSeq(d, from + 1, end)) = end - from
      /\ \A i \in 1 .. end - from : SubSeq(d, from + 1, end)[i] = d[from + i]
  OBVIOUS
<1>4. \A i \in 1 .. end - from : c[from + i] = d[from + i]
  BY <1>1
<1> QED BY <1>2, <1>3, <1>4 DEF c

\* A write of the node is a write of the byte file,
LEMMA WriteRefines ==
    ASSUME FitsBuffer, NEW h \in Handles, sys_write(h), ~RunAway
    PROVE  File!Write(h)
<1>1. PICK buf \in Buffers : f_pos[h] + Len(buf) <= MaxPos /\ tmpfs_write(h, buf)
  BY DEF sys_write
<1> DEFINE content == SubSeq(data, 1, size)
           to == f_pos[h] + Len(buf)
<1>2. /\ FitsBuffer' /\ size' = IF to > size THEN to ELSE size
      /\ f_pos' = [f_pos EXCEPT ![h] = to] /\ got' = got
      /\ \A i \in 1 .. size' :
            /\ i \in f_pos[h] + 1 .. to => data'[i] = buf[i - f_pos[h]]
            /\ (i <= size /\ i \notin f_pos[h] + 1 .. to) => data'[i] = data[i]
  BY <1>1, WriteFacts DEF tmpfs_write
<1>3. /\ Len(content) = size /\ DOMAIN content = 1 .. size
      /\ \A i \in 1 .. size : content[i] = data[i]
  <2>1. data \in Seq(Bytes \cup {Junk}) /\ size \in Nat /\ size <= Len(data)
    BY DEF FitsBuffer, TypeOK, capacity
  <2> QED BY <2>1, PrefixFacts
<1>4. /\ Len(content') = size' /\ DOMAIN content' = 1 .. size'
      /\ \A i \in 1 .. size' : content'[i] = data'[i]
  <2>1. data' \in Seq(Bytes \cup {Junk}) /\ size' \in Nat /\ size' <= Len(data')
    BY <1>2 DEF FitsBuffer, TypeOK, capacity
  <2> QED BY <2>1, PrefixFacts
<1>5. size \in Nat
  BY DEF FitsBuffer, TypeOK
<1> HIDE DEF content, to
<1>6. Len(content') = IF to > Len(content) THEN to ELSE Len(content)
  BY <1>2, <1>3, <1>4
<1>7. \A i \in DOMAIN content' :
          /\ i \in f_pos[h] + 1 .. to => content'[i] = buf[i - f_pos[h]]
          /\ (i \in DOMAIN content /\ i \notin f_pos[h] + 1 .. to) => content'[i] = content[i]
  BY <1>2, <1>3, <1>4, <1>5
<1> QED BY <1>2, <1>6, <1>7 DEF File!Write, content, to

\* and a read one of its reads.
LEMMA ReadRefines ==
    ASSUME FitsBuffer, NEW h \in Handles, sys_read(h), ~RunAway
    PROVE  File!Read(h)
<1>1. PICK count \in Counts : tmpfs_read(h, count)
  BY DEF sys_read
<1>2. UNCHANGED <<data, size>>
  BY <1>1, ReadFacts
<1>3. PICK end \in f_pos[h] .. size : /\ f_pos' = [f_pos EXCEPT ![h] = end]
                                     /\ got' = SubSeq(data, f_pos[h] + 1, end)
  BY <1>1, ReadFacts
<1>4. /\ data \in Seq(Bytes \cup {Junk}) /\ size \in Nat /\ size <= Len(data)
      /\ f_pos \in [Handles -> 0 .. MaxPos] /\ f_pos[h] \in Nat
  BY DEF FitsBuffer, TypeOK, capacity
<1>5. f_pos'[h] = end
  BY <1>3, <1>4
<1>6. SubSeq(SubSeq(data, 1, size), f_pos[h] + 1, end) = SubSeq(data, f_pos[h] + 1, end)
  BY <1>3, <1>4, SubSeqOfPrefix
<1>7. Len(SubSeq(data, 1, size)) = size
  BY <1>4, PrefixFacts
<1>8. f_pos[h] <= end /\ end <= size
  BY <1>3, <1>4
<1>9. SubSeq(data, 1, size)' = SubSeq(data, 1, size)
  BY <1>2
<1> QED BY <1>3, <1>5, <1>6, <1>7, <1>8, <1>9 DEF File!Read

\* The tmpfs node implements a file for every set of handles, buffers and counts:
\* each system call is a write, a read or a seek of ByteFile; one whose position
\* and count wrap around size_t is the last step of a behaviour.
THEOREM TmpfsImplements == Spec => Implements
<1>1. Init => File!Init
  <2> SUFFICES ASSUME Init PROVE File!Init
    OBVIOUS
  <2>1. data \in Seq(Bytes \cup {Junk}) /\ size = 0
    BY FitsInit DEF Init, FitsBuffer, TypeOK
  <2>2. SubSeq(data, 1, size) = <<>>
    BY <2>1
  <2> QED BY <2>2 DEF Init, File!Init
<1>2. FitsBuffer /\ [Next]_vars => [File!Next]_File!vars
  <2> SUFFICES ASSUME FitsBuffer, [Next]_vars PROVE [File!Next]_File!vars
    OBVIOUS
  <2>1. ASSUME NEW h \in Handles, sys_write(h), ~RunAway PROVE File!Next
    BY <2>1, WriteRefines DEF File!Next
  <2>2. ASSUME NEW h \in Handles, sys_read(h), ~RunAway PROVE File!Next
    BY <2>2, ReadRefines DEF File!Next
  <2>3. ASSUME NEW h \in Handles, tmpfs_open(h) \/ tmpfs_close(h) \/ sys_lseek64(h)
        PROVE  File!Next
    BY <2>3, MoveFacts DEF File!Next, File!Seek
  <2>4. CASE RunAway \/ UNCHANGED vars
    BY <2>4, RunAwayFacts DEF vars, File!vars
  <2> QED BY <2>1, <2>2, <2>3, <2>4 DEF Next
<1> QED BY <1>1, <1>2, TmpfsFitsBuffer, PTL DEF Spec, Implements, File!Spec

-----------------------------------------------------------------------------
(* The walks over an archive.                                              *)

\* Where headers lie
Aligned(h) == h % 4 = 0

\* The entries of an archive over names N
Files(N) == [name : N, namesize : Nat, filesize : Nat]

\* What the format fills up is a multiple of four, and what align makes of the
\* sizes in a header leads there.
LEMMA FilledFacts ==
    ASSUME NEW n \in Nat
    PROVE  Filled(n) \in Nat /\ Filled(n) >= n /\ Filled(n) % 4 = 0
  BY DEF Filled

\* ALIGN_4 rounds up to the next multiple of 4.
LEMMA AlignIs ==
    ASSUME NEW n \in Nat
    PROVE  align(n, 4) = Filled(n)
  BY DEF Filled, align

\* Filling up does not depend on where a file starts, if that is aligned.
LEMMA FilledShift ==
    ASSUME NEW h \in Nat, NEW n \in Nat, h % 4 = 0
    PROVE  Filled(h + n) = h + Filled(n)
<1>1. PICK q \in Nat : h = 4 * q
  <2>1. h = 4 * (h \div 4) + (h % 4) /\ h \div 4 \in Nat
    OBVIOUS
  <2> QED BY <2>1
<1>2. (4 * q + n) % 4 = n % 4
  OBVIOUS
<1> QED BY <1>1, <1>2 DEF Filled

\* From a header the walks' steps lead to the next one, further on.
LEMMA StepIs ==
    ASSUME NEW N
    PROVE  \A h \in Nat : \A e \in Files(N) : Aligned(h) =>
              /\ NextHeader(h, e) = Filled(Filled(h + 110 + e.namesize) + e.filesize)
              /\ DataAddress(h, e) = Filled(h + 110 + e.namesize)
              /\ NextHeader(h, e) \in Nat /\ Aligned(NextHeader(h, e))
              /\ h < NextHeader(h, e)
<1> SUFFICES ASSUME NEW h \in Nat, NEW e \in Files(N), Aligned(h)
             PROVE  /\ NextHeader(h, e) = Filled(Filled(h + 110 + e.namesize) + e.filesize)
                    /\ DataAddress(h, e) = Filled(h + 110 + e.namesize)
                    /\ NextHeader(h, e) \in Nat /\ Aligned(NextHeader(h, e))
                    /\ h < NextHeader(h, e)
  BY Zenon
<1>0. h % 4 = 0
  BY DEF Aligned
<1> DEFINE n == 110 + e.namesize
           f == e.filesize
<1>1. n \in Nat /\ f \in Nat /\ n > 0
  BY DEF Files
<1>2. align(n, 4) = Filled(n) /\ align(f, 4) = Filled(f)
  BY <1>1, AlignIs
<1>3. Filled(h + n) = h + Filled(n) /\ h + n \in Nat /\ h + 110 + e.namesize = h + n
  <2>1. h + 110 + e.namesize = h + n
    BY <1>1 DEF Files
  <2> HIDE DEF n
  <2>2. h + n \in Nat
    BY <1>1
  <2>3. Filled(h + n) = h + Filled(n)
    BY <1>0, <1>1, FilledShift
  <2> QED BY <2>1, <2>2, <2>3
<1>4. /\ Filled(h + n) \in Nat /\ Filled(h + n) >= h + n /\ Filled(h + n) % 4 = 0
      /\ Filled(f) \in Nat
  BY <1>1, <1>3, FilledFacts
<1>5. Filled(Filled(h + n) + f) = Filled(h + n) + Filled(f)
  BY <1>1, <1>4, FilledShift
<1>6. HEADER_SIZE + e.namesize = n /\ HEADER_SIZE = 110
  BY DEF HEADER_SIZE
<1>7. DataAddress(h, e) = h + align(n, 4)
  BY <1>6 DEF DataAddress
<1>8. NextHeader(h, e) = h + 110 + (align(n, 4) - 110) + align(f, 4)
  BY <1>6 DEF NextHeader
<1>9. Filled(n) \in Nat
  BY <1>1, FilledFacts
<1>10. Filled(Filled(h + n) + f) % 4 = 0 /\ Filled(Filled(h + n) + f) >= Filled(h + n) + f
  BY <1>1, <1>4, FilledFacts
<1>11. NextHeader(h, e) = Filled(Filled(h + n) + f)
  <2>1. \A x, y \in Nat : h + 110 + (x - 110) + y = h + x + y
    OBVIOUS
  <2> HIDE DEF n, f
  <2>2. align(n, 4) \in Nat /\ align(f, 4) \in Nat
    BY <1>2, <1>4, <1>9, Zenon
  <2>3. h + 110 + (align(n, 4) - 110) + align(f, 4) = h + align(n, 4) + align(f, 4)
    BY <2>1, <2>2, Zenon
  <2>4. NextHeader(h, e) = h + align(n, 4) + align(f, 4)
    BY <1>8, <2>3, Zenon
  <2>5. NextHeader(h, e) = h + Filled(n) + Filled(f)
    BY <1>2, <2>4, Zenon
  <2> QED BY <1>3, <1>5, <2>5, Zenon
<1>12. DataAddress(h, e) = Filled(h + 110 + e.namesize)
  BY <1>2, <1>3, <1>7, Zenon
<1>13. NextHeader(h, e) = Filled(Filled(h + 110 + e.namesize) + e.filesize)
  BY <1>3, <1>11, Zenon
<1> DEFINE x == Filled(h + n)
           y == Filled(x + f)
<1>14. y \in Nat
  BY <1>1, <1>4, FilledFacts
<1> HIDE DEF n, f, x, y
<1>15. h < y
  <2>1. x \in Nat /\ x >= h + n /\ y >= x + f
    BY <1>4, <1>10 DEF x, y
  <2> QED BY <1>1, <1>14, <2>1
<1>16. Aligned(y)
  BY <1>10 DEF Aligned, x, y
<1> QED BY <1>11, <1>12, <1>13, <1>14, <1>15, <1>16, Zenon DEF x, y


\* The places of the headers are defined, and one follows the other.
HeadersFrom(place, a, addr) ==
    place = [k \in 1 .. Len(a) + 1 |->
                IF k = 1 THEN addr
                ELSE Filled(Filled(place[k - 1] + 110 + a[k - 1].namesize)
                                + a[k - 1].filesize)]

\* The recursion of Headers defines it.
LEMMA HeadersExist ==
    ASSUME NEW N, NEW a \in Seq(Files(N)), NEW addr \in Nat
    PROVE  \E place : HeadersFrom(place, a, addr)
<1> DEFINE n == Len(a)
           F == [x \in Nat \X Nat |->
                    IF x[1] \in 1 .. n
                    THEN Filled(Filled(x[2] + 110 + a[x[1]].namesize) + a[x[1]].filesize)
                    ELSE x[2]]
<1>0. n \in Nat /\ \A i \in 1 .. n : a[i] \in Files(N)
  OBVIOUS
<1>1. n \in Nat /\ \A i \in 1 .. n : a[i].namesize \in Nat /\ a[i].filesize \in Nat
  <2> HIDE DEF n
  <2> QED BY <1>0 DEF Files
<1>2. F \in [Nat \X Nat -> Nat]
  <2>1. ASSUME NEW x \in Nat \X Nat, x[1] \in 1 .. n
        PROVE  Filled(Filled(x[2] + 110 + a[x[1]].namesize) + a[x[1]].filesize) \in Nat
    <3> DEFINE m == x[2] + 110 + a[x[1]].namesize
               f == a[x[1]].filesize
    <3>1. m \in Nat /\ f \in Nat
      BY <1>1, <2>1
    <3> HIDE DEF m, f
    <3>a. Filled(m) \in Nat
      BY <3>1, FilledFacts
    <3>2. Filled(m) + f \in Nat
      BY <3>1, <3>a
    <3>3. Filled(Filled(m) + f) \in Nat
      BY <3>2, FilledFacts
    <3> QED BY <3>3 DEF m, f
  <2> QED BY <2>1
<1>3. ASSUME NEW i \in 1 .. n, NEW h \in Nat
      PROVE  F[<<i, h>>] = Filled(Filled(h + 110 + a[i].namesize) + a[i].filesize)
  <2>1. i \in Nat
    BY <1>1
  <2>2. <<i, h>> \in Nat \X Nat /\ <<i, h>>[1] = i /\ <<i, h>>[2] = h
    BY <2>1
  <2> QED BY <2>2
<1> HIDE DEF F
<1>4. PICK g \in [0 .. n -> Nat] : Iterates(g, F, addr, n)
  <2> HIDE DEF n
  <2> QED BY <1>1, <1>2, IterationExists
<1> DEFINE place == [k \in 1 .. Len(a) + 1 |-> g[k - 1]]
<1>5. ASSUME NEW k \in 1 .. Len(a) + 1
      PROVE  place[k] = IF k = 1 THEN addr
                        ELSE Filled(Filled(place[k - 1] + 110 + a[k - 1].namesize)
                                + a[k - 1].filesize)
  <2>1. CASE k = 1
    BY <1>4, <2>1 DEF Iterates
  <2>2. CASE k # 1
    <3> DEFINE i == k - 1
    <3>1. i \in 1 .. n /\ i - 1 \in 0 .. n /\ i \in 1 .. Len(a) + 1
      BY <1>1, <2>2
    <3>2. place[k] = g[i] /\ place[i] = g[i - 1]
      BY <3>1
    <3>3. g[i] = F[<<i, g[i - 1]>>] /\ g[i - 1] \in Nat
      BY <1>4, <3>1 DEF Iterates
    <3> HIDE DEF place, i
    <3>4. g[i] = Filled(Filled(g[i - 1] + 110 + a[i].namesize) + a[i].filesize)
      BY <1>3, <3>1, <3>3
    <3> QED BY <2>2, <3>2, <3>4 DEF i
  <2> QED BY <2>1, <2>2
<1>6. place = [k \in 1 .. Len(a) + 1 |-> place[k]]
  OBVIOUS
<1> HIDE DEF place
<1>7. HeadersFrom(place, a, addr)
  BY <1>5, <1>6 DEF HeadersFrom
<1> QED BY <1>7

\* What Headers holds: the headers follow each other.
LEMMA HeadersIs ==
    ASSUME NEW N, NEW a \in Seq(Files(N)), NEW addr \in Nat, Aligned(addr)
    PROVE  LET H == Headers(a, addr)
           IN  /\ H \in [1 .. Len(a) + 1 -> Nat] /\ H[1] = addr
               /\ \A k \in 1 .. Len(a) + 1 : Aligned(H[k])
               /\ \A k \in 1 .. Len(a) :
                     /\ H[k + 1] = Filled(Filled(H[k] + 110 + a[k].namesize) + a[k].filesize)
                     /\ H[k] < H[k + 1]
               /\ \A j, k \in 1 .. Len(a) + 1 : j < k => H[j] < H[k]
<1> DEFINE H == CHOOSE place : HeadersFrom(place, a, addr)
           n == Len(a)
<1>0. n \in Nat /\ \A i \in 1 .. n : a[i] \in Files(N)
  OBVIOUS
<1>1. Headers(a, addr) = H
  BY Zenon DEF Headers, HeadersFrom
<1>2. HeadersFrom(H, a, addr)
  BY HeadersExist
<1> HIDE DEF H
<1>3. /\ DOMAIN H = 1 .. n + 1 /\ H[1] = addr
      /\ \A k \in 1 .. n :
            H[k + 1] = Filled(Filled(H[k] + 110 + a[k].namesize) + a[k].filesize)
  <2>1. DOMAIN H = 1 .. n + 1
    BY <1>2 DEF HeadersFrom
  <2>2. H[1] = addr
    BY <1>0, <1>2 DEF HeadersFrom
  <2>3. ASSUME NEW k \in 1 .. n
        PROVE  H[k + 1] = Filled(Filled(H[k] + 110 + a[k].namesize) + a[k].filesize)
    <3>1. k + 1 \in 1 .. n + 1 /\ k + 1 # 1 /\ (k + 1) - 1 = k
      BY <1>0
    <3> QED BY <1>2, <3>1 DEF HeadersFrom
  <2> QED BY <2>1, <2>2, <2>3
<1> DEFINE OK(k) == H[k] \in Nat /\ Aligned(H[k])
<1>4. ASSUME NEW k \in 1 .. n, OK(k)
      PROVE  OK(k + 1) /\ H[k] < H[k + 1]
  <2>1. H[k + 1] = NextHeader(H[k], a[k]) /\ H[k + 1] \in Nat /\ Aligned(H[k + 1])
        /\ H[k] < H[k + 1]
    <3>1. a[k] \in Files(N) /\ H[k] \in Nat /\ Aligned(H[k])
      BY <1>0, <1>4
    <3> DEFINE h == H[k]
               e == a[k]
    <3>2. h \in Nat /\ e \in Files(N) /\ Aligned(h)
      BY <3>1
    <3>4. H[k + 1] = Filled(Filled(h + 110 + e.namesize) + e.filesize)
      BY <1>3
    <3> HIDE DEF h, e
    <3>5. NextHeader(h, e) = Filled(Filled(h + 110 + e.namesize) + e.filesize)
      BY <3>2, StepIs, Zenon
    <3>6. NextHeader(h, e) \in Nat
      BY <3>2, StepIs, Zenon
    <3>7. Aligned(NextHeader(h, e))
      BY <3>2, StepIs, Zenon
    <3>8. h < NextHeader(h, e)
      BY <3>2, StepIs, Zenon
    <3> QED BY <3>4, <3>5, <3>6, <3>7, <3>8, Zenon DEF h, e
  <2> QED BY <2>1
<1>5. \A k \in 1 .. n + 1 : OK(k)
  <2> DEFINE S == {i \in Nat : i <= n => OK(i + 1)}
  <2>1. 0 \in S
    BY <1>3
  <2>2. ASSUME NEW i \in Nat, i \in S PROVE i + 1 \in S
    <3>1. CASE i + 1 <= n
      <4>1. i + 1 \in 1 .. n /\ OK(i + 1)
        BY <1>0, <2>2, <3>1
      <4>2. OK((i + 1) + 1)
        BY <1>4, <4>1
      <4> QED BY <4>2
    <3>2. CASE ~(i + 1 <= n)
      BY <3>2
    <3> QED BY <3>1, <3>2
  <2>3. Nat \subseteq S
    <3> HIDE DEF S
    <3> QED BY <2>1, <2>2, SetInduction
  <2>4. ASSUME NEW k \in 1 .. n + 1 PROVE OK(k)
    <3>1. k - 1 \in Nat /\ k - 1 <= n /\ (k - 1) + 1 = k
      BY <1>0
    <3>2. k - 1 \in S
      BY <2>3, <3>1
    <3> QED BY <3>1, <3>2
  <2> QED BY <2>4
<1>6. \A k \in 1 .. n : H[k] < H[k + 1]
  <2>1. ASSUME NEW k \in 1 .. n PROVE k \in 1 .. n + 1
    BY <1>0
  <2> QED BY <1>4, <1>5, <2>1
<1>7. ASSUME NEW j \in 1 .. n + 1
      PROVE  \A k \in 1 .. n + 1 : j < k => H[j] < H[k]
  <2> DEFINE S == {i \in Nat : j + i + 1 <= n + 1 => H[j] < H[j + i + 1]}
  <2>0. j \in Nat
    BY <1>0
  <2>1. 0 \in S
    <3>1. j + 0 + 1 = j + 1
      BY <2>0
    <3>2. j + 1 <= n + 1 => j \in 1 .. n
      BY <1>0
    <3> QED BY <1>6, <3>1, <3>2
  <2>2. ASSUME NEW i \in Nat, i \in S PROVE i + 1 \in S
    <3> DEFINE m == j + i + 1
    <3>1. j + (i + 1) + 1 = m + 1 /\ m \in Nat
      BY <2>0
    <3>2. CASE m + 1 <= n + 1
      <4>1. m \in 1 .. n /\ m \in 1 .. n + 1 /\ m + 1 \in 1 .. n + 1
        BY <1>0, <2>0, <3>1, <3>2
      <4>2. H[j] < H[m]
        BY <2>2, <4>1, <1>0
      <4>3. H[m] < H[m + 1]
        BY <1>6, <4>1
      <4>4. H[j] \in Nat /\ H[m] \in Nat /\ H[m + 1] \in Nat
        BY <1>5, <4>1
      <4> HIDE DEF m
      <4>5. H[j] < H[m + 1]
        BY <4>2, <4>3, <4>4
      <4>6. H[j] < H[j + (i + 1) + 1]
        BY <3>1, <4>5
      <4> QED BY <4>6
    <3>3. CASE ~(m + 1 <= n + 1)
      BY <3>1, <3>3
    <3> QED BY <3>2, <3>3
  <2>3. Nat \subseteq S
    <3> HIDE DEF S
    <3> QED BY <2>1, <2>2, SetInduction
  <2>4. ASSUME NEW k \in 1 .. n + 1, j < k PROVE H[j] < H[k]
    <3>1. k - j - 1 \in Nat /\ j + (k - j - 1) + 1 = k
      BY <1>0, <2>0, <2>4
    <3>2. k - j - 1 \in S
      BY <2>3, <3>1
    <3> QED BY <1>0, <3>1, <3>2
  <2> QED BY <2>4
<1>8. H \in [1 .. n + 1 -> Nat]
  <2>1. H = [k \in 1 .. n + 1 |-> H[k]]
    BY <1>2 DEF HeadersFrom
  <2> QED BY <1>5, <2>1
<1> QED BY <1>1, <1>3, <1>5, <1>6, <1>7, <1>8


\* The archive in memory: at each place is its header, the trailer at the last.
LEMMA ImageIs ==
    ASSUME NEW N, NEW a \in Seq(Files(N)), NEW addr \in Nat, Aligned(addr)
    PROVE  LET image == Image(a, addr)
               H == Headers(a, addr)
           IN  /\ DOMAIN image = Range(H)
               /\ \A k \in 1 .. Len(a) : image[H[k]] = a[k]
               /\ image[H[Len(a) + 1]] = Trailer
               /\ Cardinality(DOMAIN image) = Len(a) + 1
<1> DEFINE image == Image(a, addr)
           H == Headers(a, addr)
           n == Len(a)
           all == Append(a, Trailer)
<1>1. /\ H \in [1 .. n + 1 -> Nat]
      /\ \A j, k \in 1 .. n + 1 : j < k => H[j] < H[k]
  BY HeadersIs
<1>2. /\ n \in Nat /\ DOMAIN all = 1 .. n + 1 /\ all[n + 1] = Trailer
      /\ \A k \in 1 .. n : all[k] = a[k]
  OBVIOUS
<1>3. image = [h \in Range(H) |-> all[CHOOSE k \in DOMAIN all : H[k] = h]]
  BY Zenon DEF Image
<1> HIDE DEF image, H, n, all
<1>4. \A j, k \in 1 .. n + 1 : H[j] = H[k] => j = k
  <2>1. \A j, k \in 1 .. n + 1 : H[j] \in Nat /\ H[k] \in Nat
    BY <1>1
  <2> QED BY <1>1, <1>2, <2>1
<1>5. ASSUME NEW k \in 1 .. n + 1
      PROVE  H[k] \in Range(H) /\ image[H[k]] = all[k]
  <2>1. H[k] \in Range(H)
    BY <1>1 DEF Range
  <2>2. k = CHOOSE i \in DOMAIN all : H[i] = H[k]
    BY <1>2, <1>4
  <2>3. image[H[k]] = all[CHOOSE i \in DOMAIN all : H[i] = H[k]]
    BY <1>3, <2>1
  <2> QED BY <2>1, <2>2, <2>3, Zenon
<1>6. Cardinality(DOMAIN image) = n + 1
  <2>1. DOMAIN image = Range(H)
    BY <1>3
  <2>2. H \in Bijection(1 .. n + 1, Range(H))
    <3>1. H \in [1 .. n + 1 -> Range(H)]
      BY <1>1 DEF Range
    <3>2. \A y \in Range(H) : \E x \in 1 .. n + 1 : H[x] = y
      BY <1>1 DEF Range
    <3> QED BY <1>4, <3>1, <3>2 DEF Bijection, Injection, Surjection, IsInjective
  <2>3. IsFiniteSet(1 .. n + 1) /\ Cardinality(1 .. n + 1) = n + 1
    BY <1>2, FS_Interval
  <2> QED BY <2>1, <2>2, <2>3, FS_Bijection DEF ExistsBijection
<1>7. \A k \in 1 .. n : k \in 1 .. n + 1
  BY <1>2
<1>8. n + 1 \in 1 .. n + 1
  BY <1>2
<1>9. DOMAIN image = Range(H)
  BY <1>3
<1> QED BY <1>2, <1>5, <1>6, <1>7, <1>8, <1>9 DEF image, H, n

\* A walk visits every header before the trailer's.
Rounds(header, image, addr, n) ==
    header = [k \in 0 .. n |->
        IF k = 0 THEN addr
        ELSE IF Ends(image, header[k - 1]) THEN header[k - 1]
        ELSE NextHeader(header[k - 1], image[header[k - 1]])]

\* The walks get past the first m files and no further.
StopsAt(a, m) ==
    /\ m \in 0 .. Len(a) /\ \A k \in 1 .. m : a[k].namesize <= FILENAME_SIZE
    /\ m = Len(a) \/ a[m + 1].namesize > FILENAME_SIZE

\* There is such a number.
LEMMA StopExists ==
    ASSUME NEW N, NEW a \in Seq(Files(N))
    PROVE  \E m : StopsAt(a, m)
<1> DEFINE n == Len(a)
           long == {k \in 1 .. n : a[k].namesize > FILENAME_SIZE}
<1>1. n \in Nat /\ \A k \in 1 .. n : a[k].namesize \in Nat
  <2>1. \A k \in 1 .. n : a[k] \in Files(N)
    OBVIOUS
  <2> QED BY <2>1 DEF Files
<1>2. CASE long = {}
  BY <1>1, <1>2 DEF StopsAt, FILENAME_SIZE
<1>3. CASE long # {}
  <2>1. long \subseteq Nat
    BY <1>1
  <2> HIDE DEF long
  <2>2. Min(long) \in long /\ \A k \in long : Min(long) <= k
    BY <1>3, <2>1, MinFacts
  <2> DEFINE m == Min(long)
  <2>3. m \in long /\ \A k \in long : m <= k
    BY <2>2
  <2> HIDE DEF m
  <2>4. m \in 1 .. n /\ a[m].namesize > FILENAME_SIZE
    BY <2>3 DEF long
  <2>5. ASSUME NEW k \in 1 .. m - 1 PROVE a[k].namesize <= FILENAME_SIZE
    <3>1. k \in 1 .. n /\ ~(m <= k)
      BY <1>1, <2>4
    <3>2. k \notin long
      BY <2>3, <3>1
    <3> QED BY <1>1, <3>1, <3>2 DEF long, FILENAME_SIZE
  <2>6. m - 1 \in 0 .. n /\ (m - 1) + 1 = m
    BY <1>1, <2>4
  <2>7. StopsAt(a, m - 1)
    BY <2>4, <2>5, <2>6 DEF StopsAt
  <2> QED BY <2>7
<1> QED BY <1>2, <1>3

\* The walk over an archive visits its headers, in order, and ends at the
\* trailer or at a name that is too long.
LEMMA VisitedIs ==
    ASSUME NEW N, NEW a \in Seq(Files(N)), NEW addr \in Nat, Aligned(addr),
           Trailer.name \notin N, NEW m, StopsAt(a, m)
    PROVE  Visited(Image(a, addr), addr) = [k \in 1 .. m |-> Headers(a, addr)[k]]
<1> DEFINE image == Image(a, addr)
           H == Headers(a, addr)
           n == Len(a)
<1>1. /\ H \in [1 .. n + 1 -> Nat] /\ H[1] = addr
      /\ \A k \in 1 .. n + 1 : Aligned(H[k])
      /\ \A k \in 1 .. n :
            H[k + 1] = Filled(Filled(H[k] + 110 + a[k].namesize) + a[k].filesize)
  BY HeadersIs
<1>2. /\ DOMAIN image = Range(H)
      /\ \A k \in 1 .. n : image[H[k]] = a[k]
      /\ image[H[n + 1]] = Trailer
      /\ Cardinality(DOMAIN image) = n + 1
  BY ImageIs
<1>3. n \in Nat /\ \A k \in 1 .. n : a[k] \in Files(N)
  OBVIOUS
<1>0. /\ m \in 0 .. n /\ \A k \in 1 .. m : a[k].namesize <= FILENAME_SIZE
      /\ m = n \/ a[m + 1].namesize > FILENAME_SIZE
  BY DEF StopsAt
<1> DEFINE header == CHOOSE f : Rounds(f, image, addr, n + 1)
           ends == {k \in 0 .. n + 1 : Ends(image, header[k])}
<1>4. Visited(image, addr) = [k \in 1 .. Min(ends) |-> header[k - 1]]
  <2> DEFINE V(c) == [k \in 1 .. Min({i \in 0 .. c :
                             Ends(image, (CHOOSE f : Rounds(f, image, addr, c))[i])})
                        |-> (CHOOSE f : Rounds(f, image, addr, c))[k - 1]]
  <2>1. Visited(image, addr) = V(Cardinality(DOMAIN image))
    BY Zenon DEF Visited, Rounds
  <2>2. V(Cardinality(DOMAIN image)) = V(n + 1)
    <3> HIDE DEF V
    <3> QED BY <1>2
  <2> QED BY <2>1, <2>2, Zenon
<1> HIDE DEF image, H, n
<1>5. ASSUME NEW k \in 1 .. m
      PROVE  ~Ends(image, H[k]) /\ NextHeader(H[k], image[H[k]]) = H[k + 1]
  <2>1. k \in 1 .. n + 1 /\ k \in 1 .. n
    BY <1>0, <1>3
  <2>2. H[k] \in DOMAIN image
    BY <1>1, <1>2, <2>1 DEF Range
  <2> DEFINE h == H[k]
             e == a[k]
  <2>3. h \in Nat /\ Aligned(h) /\ e \in Files(N) /\ image[h] = e
    BY <1>1, <1>2, <1>3, <2>1
  <2>4. H[k + 1] = Filled(Filled(h + 110 + e.namesize) + e.filesize) /\ h \in DOMAIN image
    BY <1>1, <2>1, <2>2
  <2>5. e.name # Trailer.name /\ ~(e.namesize > FILENAME_SIZE)
    <3>1. e.namesize \in Nat /\ e.namesize <= FILENAME_SIZE /\ e.name \in N
      BY <1>0, <2>3 DEF Files
    <3> QED BY <3>1 DEF FILENAME_SIZE
  <2> HIDE DEF h, e
  <2>6. NextHeader(h, e) = Filled(Filled(h + 110 + e.namesize) + e.filesize)
    <3>1. \A x \in Nat : \A y \in Files(N) : Aligned(x) =>
             NextHeader(x, y) = Filled(Filled(x + 110 + y.namesize) + y.filesize)
      BY StepIs
    <3> QED BY <2>3, <3>1, Zenon
  <2>7. ~Ends(image, h)
    BY <2>3, <2>4, <2>5 DEF Ends
  <2> QED BY <2>3, <2>4, <2>6, <2>7, Zenon DEF h
<1>6. Ends(image, H[m + 1])
  <2>1. CASE m = n
    BY <1>2, <2>1 DEF Ends
  <2>2. CASE m # n
    <3>1. m + 1 \in 1 .. n
      BY <1>0, <1>3, <2>2
    <3>2. image[H[m + 1]] = a[m + 1] /\ a[m + 1].namesize > FILENAME_SIZE
      BY <1>0, <1>2, <2>2, <3>1
    <3> QED BY <3>2 DEF Ends
  <2> QED BY <2>1, <2>2
<1>7. \E f : Rounds(f, image, addr, n + 1)
  <2> DEFINE f == [k \in 0 .. n + 1 |-> IF k > m THEN H[m + 1] ELSE H[k + 1]]
  <2>1. ASSUME NEW k \in 0 .. n + 1
        PROVE  f[k] = IF k = 0 THEN addr
                      ELSE IF Ends(image, f[k - 1]) THEN f[k - 1]
                      ELSE NextHeader(f[k - 1], image[f[k - 1]])
    <3>1. CASE k = 0
      BY <1>0, <1>1, <1>3, <3>1
    <3>2. CASE k # 0 /\ ~(k > m)
      <4>1. k \in 1 .. m /\ k - 1 \in 0 .. n + 1 /\ ~(k - 1 > m) /\ (k - 1) + 1 = k
        BY <1>0, <1>3, <3>2
      <4>2. f[k] = H[k + 1] /\ f[k - 1] = H[k]
        BY <3>2, <4>1
      <4> HIDE DEF f
      <4>3. ~Ends(image, H[k]) /\ NextHeader(H[k], image[H[k]]) = H[k + 1]
        BY <1>5, <4>1
      <4> QED BY <3>2, <4>2, <4>3
    <3>3. CASE k # 0 /\ k > m
      <4>1. k - 1 \in 0 .. n + 1 /\ (k - 1 > m \/ (k - 1) + 1 = m + 1)
        BY <1>0, <1>3, <3>3
      <4>2. f[k] = H[m + 1] /\ f[k - 1] = H[m + 1]
        BY <3>3, <4>1
      <4> HIDE DEF f
      <4> QED BY <1>6, <3>3, <4>2
    <3> QED BY <3>1, <3>2, <3>3
  <2>2. f = [k \in 0 .. n + 1 |-> f[k]]
    OBVIOUS
  <2> HIDE DEF f
  <2>3. Rounds(f, image, addr, n + 1)
    BY <2>1, <2>2 DEF Rounds
  <2> QED BY <2>3
<1>8. Rounds(header, image, addr, n + 1)
  BY <1>7
<1> HIDE DEF header
<1>9. \A i \in Nat : i <= m => header[i] = H[i + 1]
  <2> DEFINE S == {i \in Nat : i <= m => header[i] = H[i + 1]}
  <2>1. 0 \in S
    BY <1>1, <1>3, <1>8 DEF Rounds
  <2>2. ASSUME NEW i \in Nat, i \in S PROVE i + 1 \in S
    <3>1. CASE i + 1 <= m
      <4>1. i + 1 \in 1 .. m /\ i + 1 \in 0 .. n + 1 /\ i + 1 # 0 /\ (i + 1) - 1 = i
        BY <1>0, <1>3, <3>1
      <4>2. header[i] = H[i + 1]
        BY <1>0, <1>3, <2>2, <3>1
      <4>3. ~Ends(image, H[i + 1]) /\ NextHeader(H[i + 1], image[H[i + 1]]) = H[(i + 1) + 1]
        BY <1>5, <4>1
      <4>4. header[i + 1] = IF Ends(image, header[i]) THEN header[i]
                            ELSE NextHeader(header[i], image[header[i]])
        BY <1>8, <4>1 DEF Rounds
      <4>5. header[i + 1] = H[(i + 1) + 1]
        BY <4>2, <4>3, <4>4
      <4> QED BY <4>5
    <3>2. CASE ~(i + 1 <= m)
      BY <3>2
    <3> QED BY <3>1, <3>2
  <2>3. Nat \subseteq S
    <3> HIDE DEF S
    <3> QED BY <2>1, <2>2, SetInduction
  <2> QED BY <2>3
<1>10. Min(ends) = m
  <2>1. m \in ends
    BY <1>0, <1>3, <1>6, <1>9
  <2>2. ASSUME NEW i \in ends PROVE m <= i
    <3>1. i \in Nat /\ Ends(image, header[i])
      BY <1>3
    <3>2. CASE i < m
      <4>1. header[i] = H[i + 1] /\ i + 1 \in 1 .. m
        BY <1>0, <1>3, <1>9, <3>1, <3>2
      <4> QED BY <1>5, <3>1, <4>1
    <3> QED BY <1>0, <1>3, <3>1, <3>2
  <2>3. ends \subseteq Nat /\ ends # {}
    BY <1>3, <2>1
  <2>4. Min(ends) \in ends /\ \A i \in ends : Min(ends) <= i
    <3> HIDE DEF ends
    <3> QED BY <2>3, MinFacts
  <2> DEFINE least == Min(ends)
  <2> HIDE DEF ends
  <2>5. least \in Nat /\ m <= least /\ least <= m
    BY <2>1, <2>2, <2>3, <2>4
  <2> HIDE DEF least
  <2>6. least = m
    BY <1>0, <2>5
  <2> QED BY <2>6 DEF least
<1>11. \A k \in 1 .. m : header[k - 1] = H[k]
  <2>1. \A k \in 1 .. m : k - 1 \in Nat /\ k - 1 <= m /\ (k - 1) + 1 = k
    BY <1>0
  <2> QED BY <1>9, <2>1
<1>12. Visited(image, addr) = [k \in 1 .. m |-> H[k]]
  BY <1>4, <1>10, <1>11
<1> QED BY <1>12, Zenon DEF image, H, n

-----------------------------------------------------------------------------
(* The name space: an invariant that orders vnodes by their creation.      *)

\* What a vnode is
VnodeRecords ==
    [name : Names \cup {"/"}, dir : BOOLEAN, fs : {"tmpfs", "initramfs"},
     parent : Nat, mount : Nat, parent_is_mount : BOOLEAN]

\* What creating holds for a thread
Creates ==
    [pc : {"none", "check", "link", "store", "mount"}, dir : Nat,
     name : Names \cup {"", "/"}, isDir : BOOLEAN, vnode : Nat, mount : Nat, slot : Nat]

\* v is the root of a file system.
IsMounted(v) == vnodes[v].parent_is_mount

\* The types of the variables
Typed ==
    /\ vnodes \in Seq(VnodeRecords)
    /\ children \in Seq(Seq(Nat)) /\ Len(children) = Len(vnodes)
    /\ cwd \in [Threads -> Nat] /\ \A t \in Threads : cwd[t] <= Len(vnodes)
    /\ creating \in [Threads -> Creates]
    /\ overlapped \subseteq Vnodes \X Names
    /\ archive \in Archives
    /\ fault \in {0, EINVAL_VFS, EACCES_VFS, ENOMEM_VFS, EEXIST_VFS,
                  OVERRUN, STALE, NULL_READ}

\* A vnode is younger than its parent.
Older ==
    /\ Len(vnodes) >= 3
    /\ vnodes[Root].parent = NULL /\ IsMounted(Root)
    /\ \A v \in Vnodes \ {Root} : vnodes[v].parent \in Vnodes /\ vnodes[v].parent < v

\* Entries are where their parents say, the younger ones behind.
Placed ==
    /\ \A d \in Vnodes : \A i \in DOMAIN children[d] :
          /\ children[d][i] \in Vnodes \ {Root}
          /\ vnodes[children[d][i]].parent = d
          /\ ~IsMounted(children[d][i])
          /\ vnodes[children[d][i]].name \in Names
          /\ vnodes[d].dir
          /\ \A j \in DOMAIN children[d] : i < j => children[d][i] < children[d][j]
    /\ \A v \in Vnodes \ {Root} :
          ~IsMounted(v) => \E i \in DOMAIN children[vnodes[v].parent] :
                                children[vnodes[v].parent][i] = v

\* What is created in a covered directory has its mount.
Inherits(v) == vnodes[v].mount # NULL /\ vnodes[vnodes[v].mount].parent # v

\* Mounts: a root covers its parent.  What inherits a mount is a leaf that nobody is in.
MountsRight ==
    /\ \A v \in Vnodes : IsMounted(v) => vnodes[v].mount = NULL /\ vnodes[v].dir
    /\ \A v \in Vnodes \ {Root} : IsMounted(v) => vnodes[vnodes[v].parent].mount = v
    /\ \A v \in Vnodes : vnodes[v].mount # NULL =>
          /\ vnodes[v].mount \in Vnodes \ {Root}
          /\ IsMounted(vnodes[v].mount)
          /\ Inherits(v) => vnodes[vnodes[v].mount].parent = vnodes[v].parent
    /\ \A v \in Vnodes \ {Root} : ~Inherits(vnodes[v].parent)
    /\ \A t \in Threads : cwd[t] # NULL => ~Inherits(cwd[t])

\* The archive stays mounted with all its files, if their names can be copied.
ArchiveKept ==
    /\ vnodes[Root].dir /\ vnodes[2].mount = 3 /\ vnodes[2].name = "initramfs"
    /\ children[Root] # <<>> /\ children[Root][1] = 2
    /\ IsMounted(3) /\ vnodes[3].fs = "initramfs"
    /\ ~TooLong(archive) =>
          /\ children[3] = [k \in 1 .. Len(archive) |-> 3 + k]
          /\ \A k \in 1 .. Len(archive) :
                3 + k \in Vnodes /\ vnodes[3 + k].name = Prefix[archive[k].name]
    /\ Len(archive) > MAX_CHILDREN \/ TooLong(archive) => fault = OVERRUN

\* No directory is overrun without a fault.
Bounded ==
    /\ fault # OVERRUN => \A d \in Vnodes : Len(children[d]) <= MAX_CHILDREN
    /\ FullChecked
    /\ Len(vnodes) + Cardinality({t \in Threads : creating[t] # NoCreate}) <= MaxVnodes

\* What a create or mount in progress knows
Wanted(c) ==
    /\ c.dir \in Vnodes /\ ~Inherits(c.dir)
    /\ IF c.pc = "mount" THEN ~IsMounted(c.dir) ELSE c.name \in Names

\* What a create has checked when it links: only what overlaps it can have changed that.
Checked(c) ==
    /\ vnodes[c.dir].fs = "tmpfs" /\ vnodes[c.dir].dir
    /\ Named(c.dir, c.name) # {} => <<c.dir, c.name>> \in overlapped
    /\ Len(children[c.dir]) >= MAX_CHILDREN => overlapped # {}

\* What a thread knows of the create or mount it is inside
Known(c) ==
    /\ c.vnode <= Len(vnodes)
    /\ c.pc = "none" => c = NoCreate
    /\ c.pc # "none" => Wanted(c)
    /\ c.pc \in {"link", "store"} => Checked(c)
    /\ c.pc = "store" => c.mount \in {NULL, vnodes[c.dir].mount}

\* What the creates in progress know
InProgress == \A t \in Threads : Known(creating[t])

\* Why the name of an open's create may be there already
Explained ==
    \A t \in Threads :
        LET c == creating[t]
        IN  (/\ c.pc = "check" /\ ~c.isDir /\ c.vnode = NULL
             /\ vnodes[c.dir].fs = "tmpfs" /\ Named(c.dir, c.name) # {}) =>
                overlapped # {} \/ cwd[t] = NULL \/ Covered(t)

\* The name space's inductive invariant
NameSpace ==
    /\ Typed /\ Older /\ Placed /\ MountsRight /\ ArchiveKept
    /\ Bounded /\ InProgress /\ UniqueNames

\* The invariant of Vfs, with what explains the names that are there
VfsInv == NameSpace /\ Explained /\ NamesAgree

\* What the fields of a vnode are.
LEMMA VnodeFacts ==
    ASSUME Typed
    PROVE  /\ Len(vnodes) \in Nat /\ Vnodes = DOMAIN vnodes /\ Vnodes = DOMAIN children
           /\ Vnodes \subseteq Nat /\ NULL \notin Vnodes
           /\ \A v \in Vnodes :
                 /\ vnodes[v] \in VnodeRecords
                 /\ vnodes[v].name \in Names \cup {"/"}
                 /\ vnodes[v].dir \in BOOLEAN /\ vnodes[v].parent_is_mount \in BOOLEAN
                 /\ vnodes[v].parent \in Nat /\ vnodes[v].mount \in Nat
                 /\ vnodes[v].fs \in {"tmpfs", "initramfs"}
                 /\ children[v] \in Seq(Nat)
<1>1. vnodes \in Seq(VnodeRecords) /\ children \in Seq(Seq(Nat)) /\ Len(children) = Len(vnodes)
  BY DEF Typed
<1>2. \A v \in Vnodes : vnodes[v] \in VnodeRecords /\ children[v] \in Seq(Nat)
  BY <1>1 DEF Vnodes
<1>3. Len(vnodes) \in Nat /\ Vnodes = DOMAIN vnodes /\ Vnodes = DOMAIN children
  BY <1>1 DEF Vnodes
<1>4. Vnodes \subseteq Nat /\ NULL \notin Vnodes
  BY <1>3 DEF Vnodes, NULL
<1>5. ASSUME NEW v \in Vnodes
      PROVE  /\ vnodes[v].name \in Names \cup {"/"}
             /\ vnodes[v].dir \in BOOLEAN /\ vnodes[v].parent_is_mount \in BOOLEAN
             /\ vnodes[v].parent \in Nat /\ vnodes[v].mount \in Nat
             /\ vnodes[v].fs \in {"tmpfs", "initramfs"}
  BY <1>2 DEF VnodeRecords
<1> QED BY <1>2, <1>3, <1>4, <1>5

\* The root is no name's vnode, and mounts do not hide behind each other.
LEMMA RootFacts ==
    ASSUME NameSpace
    PROVE  /\ {1, 2, 3} \subseteq Vnodes /\ Root \in Vnodes
           /\ vnodes[Root].mount = NULL /\ ~Inherits(Root)
<1>1. 1 \in Vnodes /\ 2 \in Vnodes /\ 3 \in Vnodes
  BY VnodeFacts DEF NameSpace, Older, Vnodes
<1>2. vnodes[Root].mount = NULL
  BY <1>1 DEF NameSpace, Older, MountsRight, Root
<1> QED BY <1>1, <1>2 DEF Inherits, Root

\* What is found in a directory is a child of it, and its children are found.
LEMMA NamedFacts ==
    ASSUME NameSpace, NEW d \in Vnodes, NEW name
    PROVE  /\ Named(d, name) \subseteq Vnodes \ {Root}
           /\ \A c \in Named(d, name) :
                 vnodes[c].parent = d /\ ~IsMounted(c) /\ vnodes[c].name = name
           /\ \A v \in Vnodes \ {Root} :
                 (~IsMounted(v) /\ vnodes[v].parent = d /\ vnodes[v].name = name)
                    => v \in Named(d, name)
           /\ Named(d, name) # {} =>
                 /\ vnodes[d].dir
                 /\ Min(Named(d, name)) \in Named(d, name)
                 /\ \A c \in Named(d, name) : Min(Named(d, name)) <= c
<1>1. Named(d, name) = {c \in ToSet(children[d]) : vnodes[c].name = name}
  BY DEF Named, tmpfs_lookup, initramfs_lookup
<1>2. Typed /\ Placed
  BY DEF NameSpace
<1>3. ToSet(children[d]) = {children[d][i] : i \in DOMAIN children[d]}
  BY <1>2, VnodeFacts DEF ToSet
<1>4. ASSUME NEW c \in Named(d, name)
      PROVE  /\ c \in Vnodes \ {Root}
             /\ vnodes[c].parent = d /\ ~IsMounted(c) /\ vnodes[c].name = name
             /\ vnodes[d].dir
  <2>1. PICK i \in DOMAIN children[d] : c = children[d][i]
    BY <1>1, <1>3
  <2> QED BY <1>1, <1>2, <2>1 DEF Placed
<1>5. ASSUME NEW v \in Vnodes \ {Root}, ~IsMounted(v), vnodes[v].parent = d,
             vnodes[v].name = name
      PROVE  v \in Named(d, name)
  <2>1. PICK i \in DOMAIN children[d] : children[d][i] = v
    BY <1>2, <1>5 DEF Placed
  <2> QED BY <1>1, <1>3, <1>5, <2>1
<1>6. Named(d, name) \subseteq Nat
  BY <1>2, <1>4, VnodeFacts
<1>7. Named(d, name) # {} =>
         /\ Min(Named(d, name)) \in Named(d, name)
         /\ \A c \in Named(d, name) : Min(Named(d, name)) <= c
  BY <1>6, MinFacts
<1> QED BY <1>4, <1>5, <1>7

\* Where a mount leads, nothing is mounted.
LEMMA ThroughFacts ==
    ASSUME NameSpace, NEW v \in Vnodes
    PROVE  /\ Through(v) \in Vnodes /\ vnodes[Through(v)].mount = NULL
           /\ ~Inherits(Through(v))
           /\ v # Root => Through(v) # Root
<1>1. Typed /\ MountsRight
  BY DEF NameSpace
<1>2. CASE vnodes[v].mount = NULL
  BY <1>2 DEF Through, Inherits
<1>3. CASE vnodes[v].mount # NULL
  <2>1. vnodes[v].mount \in Vnodes \ {Root} /\ IsMounted(vnodes[v].mount)
    BY <1>1, <1>3 DEF MountsRight
  <2>2. vnodes[vnodes[v].mount].mount = NULL
    BY <1>1, <2>1 DEF MountsRight
  <2> QED BY <1>3, <2>1, <2>2 DEF Through, Inherits
<1> QED BY <1>2, <1>3

\* ".." leads to the parent, from a mount's root to that of the directory it covers.
LEMMA DotDotFacts ==
    ASSUME NameSpace
    PROVE  /\ DotDot(Root) = Root
           /\ \A v \in Vnodes \ {Root} :
                 LET p == vnodes[v].parent
                 IN  /\ p \in Vnodes /\ p < v /\ ~Inherits(p)
                     /\ ~IsMounted(v) => DotDot(v) = p
                     /\ IsMounted(v) => /\ vnodes[p].mount = v /\ p # Root
                                        /\ vnodes[p].parent \in Vnodes /\ vnodes[p].parent < p
                                        /\ DotDot(v) = vnodes[p].parent
           /\ \A v \in Vnodes : DotDot(v) \in Vnodes /\ ~Inherits(DotDot(v))
<1>1. Typed /\ Older /\ MountsRight /\ Root \in Vnodes
      /\ vnodes[Root].mount = NULL /\ ~Inherits(Root) /\ NULL \notin Vnodes
  BY RootFacts, VnodeFacts DEF NameSpace
<1>2. DotDot(Root) = Root
  BY DEF DotDot
<1>3. ASSUME NEW v \in Vnodes \ {Root}
      PROVE  LET p == vnodes[v].parent
             IN  /\ p \in Vnodes /\ p < v /\ ~Inherits(p)
                 /\ ~IsMounted(v) => DotDot(v) = p
                 /\ IsMounted(v) => /\ vnodes[p].mount = v /\ p # Root
                                    /\ vnodes[p].parent \in Vnodes /\ vnodes[p].parent < p
                                    /\ DotDot(v) = vnodes[p].parent
  <2> DEFINE p == vnodes[v].parent
  <2>1. p \in Vnodes /\ p < v /\ ~Inherits(p)
    BY <1>1 DEF Older, MountsRight
  <2>2. CASE ~IsMounted(v)
    <3>1. vnodes[p].mount # v
      BY <1>1, <2>1, <2>2 DEF MountsRight
    <3> QED BY <2>1, <2>2, <3>1 DEF DotDot
  <2>3. CASE IsMounted(v)
    <3>1. vnodes[p].mount = v
      BY <1>1, <2>3 DEF MountsRight
    <3>2. p # Root
      BY <1>1, <3>1
    <3>3. vnodes[p].parent \in Vnodes /\ vnodes[p].parent < p
      BY <1>1, <2>1, <3>2 DEF Older
    <3> QED BY <2>1, <2>3, <3>1, <3>2, <3>3 DEF DotDot
  <2> QED BY <2>1, <2>2, <2>3
<1>4. ASSUME NEW v \in Vnodes PROVE DotDot(v) \in Vnodes /\ ~Inherits(DotDot(v))
  <2>1. CASE v = Root
    BY <1>1, <1>2, <2>1
  <2>2. CASE v # Root
    <3>1. v \in Vnodes \ {Root}
      BY <2>2
    <3>2. CASE ~IsMounted(v)
      BY <1>3, <3>1, <3>2
    <3>3. CASE IsMounted(v)
      <4> DEFINE p == vnodes[v].parent
      <4>1. p \in Vnodes \ {Root} /\ DotDot(v) = vnodes[p].parent /\ vnodes[p].parent \in Vnodes
        BY <1>3, <3>1, <3>3
      <4> QED BY <1>1, <4>1 DEF MountsRight
    <3> QED BY <3>2, <3>3
  <2> QED BY <2>1, <2>2
<1> QED BY <1>2, <1>3, <1>4

\* What a lookup that is under way has reached: nothing that inherits a mount.
Results ==
    {r \in [v : Vnodes, t : Vnodes \cup {NULL}, err : Int] :
        ~Inherits(r.v) /\ (r.t # NULL => ~Inherits(r.t))}

\* The fields of a result
LEMMA ResultFacts ==
    \A r \in Results :
        /\ r.v \in Vnodes /\ r.t \in Vnodes \cup {NULL} /\ r.err \in Int
        /\ ~Inherits(r.v) /\ (r.t # NULL => ~Inherits(r.t))
        /\ r = [v |-> r.v, t |-> r.t, err |-> r.err]
  BY DEF Results

\* One component: what a step of a lookup does.
LEMMA StepFacts ==
    ASSUME NameSpace, NEW r \in Results, NEW c
    PROVE  LET s == Step(r, c)
               found == Named(Through(r.v), c)
           IN  /\ s \in Results
               /\ (r.err # 0 \/ c = ".") => s = r
               /\ (r.err = 0 /\ c = "..") => s.err = 0 /\ s.v = DotDot(r.v)
               /\ (r.err = 0 /\ c \notin {".", ".."}) =>
                     /\ s.err = 0 <=> found # {}
                     /\ found # {} => s = [r EXCEPT !.v = Through(Min(found))]
<1> DEFINE d == Through(r.v)
           found == Named(d, c)
           s == Step(r, c)
<1>1. /\ r.v \in Vnodes /\ r.t \in Vnodes \cup {NULL} /\ r.err \in Int
      /\ ~Inherits(r.v) /\ (r.t # NULL => ~Inherits(r.t))
      /\ r = [v |-> r.v, t |-> r.t, err |-> r.err]
  BY ResultFacts
<1>2. d \in Vnodes
  BY <1>1, ThroughFacts
<1>3. CASE r.err # 0 \/ c = "."
  <2>1. s = r
    BY <1>3 DEF Step
  <2> QED BY <1>3, <2>1
<1>4. CASE r.err = 0 /\ c = ".."
  <2> DEFINE u == DotDot(r.v)
  <2>1. u \in Vnodes /\ ~Inherits(u) /\ (r.v = Root => u = Root)
    BY <1>1, DotDotFacts
  <2>2. s = IF r.v = Root THEN r ELSE [r EXCEPT !.v = u, !.t = u]
    BY <1>4 DEF Step
  <2> HIDE DEF u, s
  <2>3. s \in Results /\ s.err = 0 /\ s.v = u
    <3>1. CASE r.v = Root
      BY <1>4, <2>1, <2>2, <3>1
    <3>2. CASE r.v # Root
      <4>1. s = [v |-> u, t |-> u, err |-> r.err]
        BY <1>1, <2>2, <3>2
      <4>2. s \in [v : Vnodes, t : Vnodes \cup {NULL}, err : Int] /\ s.v = u /\ s.t = u
        BY <1>1, <2>1, <4>1
      <4> QED BY <1>4, <2>1, <4>1, <4>2 DEF Results
    <3> QED BY <3>1, <3>2
  <2> QED BY <1>4, <2>3 DEF s, u
<1>5. CASE r.err = 0 /\ c # "." /\ c # ".."
  <2>1. s = IF ~vnodes[d].dir THEN Fail(r, EACCES_VFS)
            ELSE IF found = {} THEN Fail(r, ENOENT_VFS)
            ELSE [r EXCEPT !.v = Through(Min(found))]
    BY <1>5 DEF Step
  <2>2. \A e \in Int : Fail(r, e) \in Results /\ Fail(r, e).err = e
    BY <1>1 DEF Fail, Results
  <2>3. EACCES_VFS \in Int \ {0} /\ ENOENT_VFS \in Int \ {0}
    BY DEF EACCES_VFS, ENOENT_VFS
  <2>4. CASE found = {}
    BY <1>5, <2>1, <2>2, <2>3, <2>4
  <2>5. CASE found # {}
    <3> DEFINE m == Min(found)
    <3>1. vnodes[d].dir /\ m \in Vnodes
      BY <1>2, <2>5, NamedFacts
    <3>2. Through(m) \in Vnodes /\ ~Inherits(Through(m))
      BY <3>1, ThroughFacts
    <3>3. s = [r EXCEPT !.v = Through(m)]
      BY <2>1, <2>5, <3>1
    <3> HIDE DEF s, m
    <3>4. s = [v |-> Through(m), t |-> r.t, err |-> r.err]
      BY <1>1, <3>3
    <3>5. s \in [v : Vnodes, t : Vnodes \cup {NULL}, err : Int] /\ s.v = Through(m) /\ s.t = r.t
      BY <1>1, <3>2, <3>4
    <3>6. s \in Results /\ s.err = 0
      BY <1>1, <1>5, <3>2, <3>4, <3>5 DEF Results
    <3> QED BY <1>5, <2>5, <3>3, <3>6 DEF s, m
  <2> QED BY <2>4, <2>5
<1> QED BY <1>3, <1>4, <1>5

\* A component that is found is gone.
LEMMA StepFinds ==
    ASSUME NameSpace, NEW r \in Results, r.err = 0, NEW c, c # ".", c # "..",
           NEW d, Through(r.v) = d, Named(d, c) # {}
    PROVE  Step(r, c).err = 0 /\ Step(r, c).v = Through(Min(Named(d, c)))
<1>1. vnodes[d].dir
  <2>1. d \in Vnodes
    BY ResultFacts, ThroughFacts
  <2> QED BY <2>1, NamedFacts
<1>2. Step(r, c) = [r EXCEPT !.v = Through(Min(Named(d, c)))]
  BY <1>1 DEF Step
<1>3. /\ [r EXCEPT !.v = Through(Min(Named(d, c)))].err = 0
      /\ [r EXCEPT !.v = Through(Min(Named(d, c)))].v = Through(Min(Named(d, c)))
  BY ResultFacts
<1> QED BY <1>2, <1>3

-----------------------------------------------------------------------------
\* The walk of a lookup, as vfs_lookup defines it
Begin(start) == [v |-> start, t |-> NULL, err |-> 0]

\* w is the walk along comps from start.
Walks(w, start, comps) ==
    w = [i \in 0 .. Len(comps) |->
            IF i = 0 THEN Begin(start)
            ELSE CHOOSE next \in {Step(r, comps[i]) : r \in {w[i - 1]}} : TRUE]

\* The walk that vfs_lookup takes
Walk(start, comps) == CHOOSE w : Walks(w, start, comps)

\* It makes a step per component.
StepByStep(start, comps) ==
    LET w == Walk(start, comps)
    IN  /\ w[0] = Begin(start)
        /\ \A i \in 1 .. Len(comps) : w[i] = Step(w[i - 1], comps[i])

\* A walk goes step by step.
LEMMA StepByStepHolds ==
    ASSUME NameSpace, NEW start \in Vnodes, ~Inherits(start), NEW C, NEW comps \in Seq(C)
    PROVE  StepByStep(start, comps)
<1> DEFINE n == Len(comps)
           F == [x \in Nat \X Results |-> Step(x[2], comps[x[1]])]
<1>1. n \in Nat
  OBVIOUS
<1>2. F \in [Nat \X Results -> Results]
  <2>1. \A x \in Nat \X Results : Step(x[2], comps[x[1]]) \in Results
    <3>1. ASSUME NEW x \in Nat \X Results PROVE Step(x[2], comps[x[1]]) \in Results
      <4>1. x[2] \in Results
        OBVIOUS
      <4> QED BY <4>1, StepFacts
    <3> QED BY <3>1
  <2> QED BY <2>1
<1>3. Begin(start) \in Results
  BY DEF Begin, Results
<1>4. ASSUME NEW i \in Nat, NEW r \in Results PROVE F[<<i, r>>] = Step(r, comps[i])
  <2>1. <<i, r>> \in Nat \X Results
    OBVIOUS
  <2> QED BY <2>1
<1> HIDE DEF F, n
<1>5. PICK g \in [0 .. n -> Results] : Iterates(g, F, Begin(start), n)
  BY <1>1, <1>2, <1>3, IterationExists
<1>6. \A s : (CHOOSE next \in {s} : TRUE) = s
  OBVIOUS
<1>7. ASSUME NEW w, NEW i
      PROVE  (CHOOSE next \in {Step(r, comps[i]) : r \in {w[i - 1]}} : TRUE)
                 = Step(w[i - 1], comps[i])
  <2>1. {Step(r, comps[i]) : r \in {w[i - 1]}} = {Step(w[i - 1], comps[i])}
    OBVIOUS
  <2> QED BY <1>6, <2>1
<1>8. g = [i \in 0 .. n |-> IF i = 0 THEN Begin(start) ELSE Step(g[i - 1], comps[i])]
  <2>1. g = [i \in 0 .. n |-> g[i]]
    OBVIOUS
  <2>2. ASSUME NEW i \in 0 .. n
        PROVE  g[i] = IF i = 0 THEN Begin(start) ELSE Step(g[i - 1], comps[i])
    <3>1. CASE i = 0
      BY <1>5, <3>1 DEF Iterates
    <3>2. CASE i # 0
      <4>1. i \in 1 .. n /\ i \in Nat /\ i - 1 \in 0 .. n
        BY <1>1, <3>2
      <4>2. g[i] = F[<<i, g[i - 1]>>] /\ g[i - 1] \in Results
        BY <1>5, <4>1 DEF Iterates
      <4> QED BY <1>4, <3>2, <4>1, <4>2
    <3> QED BY <3>1, <3>2
  <2> QED BY <2>1, <2>2
<1>9. Walks(g, start, comps)
  <2>1. \A i \in 0 .. n :
           (IF i = 0 THEN Begin(start) ELSE Step(g[i - 1], comps[i]))
         = IF i = 0 THEN Begin(start)
           ELSE CHOOSE next \in {Step(r, comps[i]) : r \in {g[i - 1]}} : TRUE
    BY <1>7
  <2> DEFINE A(i) == IF i = 0 THEN Begin(start) ELSE Step(g[i - 1], comps[i])
             B(i) == IF i = 0 THEN Begin(start)
                     ELSE CHOOSE next \in {Step(r, comps[i]) : r \in {g[i - 1]}} : TRUE
  <2>2. \A i \in 0 .. n : A(i) = B(i)
    BY <2>1
  <2>3. g = [i \in 0 .. n |-> A(i)]
    BY <1>8
  <2> HIDE DEF A, B
  <2>4. g = [i \in 0 .. n |-> B(i)]
    BY <2>2, <2>3
  <2> QED BY <2>4 DEF Walks, B, n
<1> DEFINE w == Walk(start, comps)
<1>10. Walks(w, start, comps)
  BY <1>9 DEF Walk
<1> HIDE DEF w
<1>11. ASSUME NEW i \in 0 .. n
       PROVE  w[i] = IF i = 0 THEN Begin(start) ELSE Step(w[i - 1], comps[i])
  <2>1. w[i] = IF i = 0 THEN Begin(start)
               ELSE CHOOSE next \in {Step(r, comps[i]) : r \in {w[i - 1]}} : TRUE
    BY <1>10 DEF Walks, n
  <2> QED BY <1>7, <2>1
<1>12. 0 \in 0 .. n /\ \A i \in 1 .. n : i \in 0 .. n /\ i # 0
  BY <1>1
<1>13. w[0] = Begin(start) /\ \A i \in 1 .. n : w[i] = Step(w[i - 1], comps[i])
  BY <1>11, <1>12
<1> QED BY <1>13 DEF StepByStep, w, n

\* What holds at the start and is kept by every step holds all along a walk.
LEMMA WalkInduction ==
    ASSUME NEW w, NEW n \in Nat, NEW S, w[0] \in S,
           \A i \in 1 .. n : w[i - 1] \in S => w[i] \in S
    PROVE  \A i \in 0 .. n : w[i] \in S
<1> DEFINE P == {i \in Nat : i <= n => w[i] \in S}
<1>1. 0 \in P
  OBVIOUS
<1>2. ASSUME NEW i \in Nat, i \in P PROVE i + 1 \in P
  <2>1. CASE i + 1 <= n
    <3>1. i + 1 \in 1 .. n /\ (i + 1) - 1 = i /\ w[i] \in S
      BY <1>2, <2>1
    <3> QED BY <3>1
  <2>2. CASE ~(i + 1 <= n)
    BY <2>2
  <2> QED BY <2>1, <2>2
<1> HIDE DEF P
<1>3. Nat \subseteq P
  BY <1>1, <1>2, SetInduction
<1> QED BY <1>3 DEF P

\* Every step of a walk gives a result, and an error stays.
LEMMA WalkFacts ==
    ASSUME NameSpace, NEW start \in Vnodes, ~Inherits(start), NEW C, NEW comps \in Seq(C)
    PROVE  LET w == Walk(start, comps)
           IN  /\ w[0] = Begin(start)
               /\ \A i \in 1 .. Len(comps) : w[i] = Step(w[i - 1], comps[i])
               /\ \A i \in 0 .. Len(comps) : w[i] \in Results
               /\ \A i \in 1 .. Len(comps) : w[i].err = 0 => w[i - 1].err = 0
<1> DEFINE w == Walk(start, comps)
           n == Len(comps)
<1>1. w[0] = Begin(start) /\ \A i \in 1 .. n : w[i] = Step(w[i - 1], comps[i])
  BY StepByStepHolds DEF StepByStep
<1>2. n \in Nat
  OBVIOUS
<1> HIDE DEF w, n
<1>3. \A i \in 0 .. n : w[i] \in Results
  <2>1. w[0] \in Results
    BY <1>1 DEF Begin, Results
  <2>2. \A i \in 1 .. n : w[i - 1] \in Results => w[i] \in Results
    BY <1>1, StepFacts
  <2> QED BY <1>2, <2>1, <2>2, WalkInduction
<1>4. ASSUME NEW i \in 1 .. n, w[i].err = 0 PROVE w[i - 1].err = 0
  <2>1. i - 1 \in 0 .. n /\ w[i] = Step(w[i - 1], comps[i])
    BY <1>1, <1>2
  <2>2. w[i - 1] \in Results
    BY <1>3, <2>1
  <2>3. w[i - 1].err # 0 => w[i] = w[i - 1]
    BY <2>1, <2>2, StepFacts
  <2> QED BY <1>4, <2>3
<1> QED BY <1>1, <1>3, <1>4 DEF w, n

\* Two walks over the same first components are the same so far.
LEMMA WalkPrefix ==
    ASSUME NameSpace, NEW start \in Vnodes, ~Inherits(start),
           NEW C, NEW comps \in Seq(C), NEW more \in Seq(C),
           NEW n \in Nat, n <= Len(comps), n <= Len(more),
           \A i \in 1 .. n : comps[i] = more[i]
    PROVE  \A i \in 0 .. n : Walk(start, comps)[i] = Walk(start, more)[i]
<1> DEFINE w == Walk(start, comps)
           x == Walk(start, more)
           same == [i \in 0 .. n |-> IF w[i] = x[i] THEN 1 ELSE 0]
<1>1. w[0] = x[0]
  BY WalkFacts
<1>2. ASSUME NEW i \in 1 .. n, w[i - 1] = x[i - 1] PROVE w[i] = x[i]
  <2>1. i \in 1 .. Len(comps) /\ i \in 1 .. Len(more)
    OBVIOUS
  <2>2. w[i] = Step(w[i - 1], comps[i]) /\ x[i] = Step(x[i - 1], more[i])
    BY <2>1, WalkFacts
  <2> QED BY <1>2, <2>2
<1> HIDE DEF w, x
<1>3. same[0] \in {1} /\ \A i \in 1 .. n : same[i - 1] \in {1} => same[i] \in {1}
  <2>1. \A i \in 1 .. n : i \in 0 .. n /\ i - 1 \in 0 .. n
    OBVIOUS
  <2>2. same[0] = 1
    BY <1>1
  <2>3. ASSUME NEW i \in 1 .. n, same[i - 1] \in {1} PROVE same[i] \in {1}
    <3>1. w[i - 1] = x[i - 1]
      BY <2>1, <2>3
    <3> QED BY <1>2, <2>1, <3>1
  <2> QED BY <2>2, <2>3
<1> HIDE DEF same
<1>4. \A i \in 0 .. n : same[i] \in {1}
  BY <1>3, WalkInduction
<1>5. \A i \in 0 .. n : w[i] = x[i]
  BY <1>4 DEF same
<1> QED BY <1>5 DEF w, x

\* What vfs_lookup returns.
LEMMA LookupIs ==
    ASSUME NEW dir, NEW path
    PROVE  vfs_lookup(dir, path) =
             LET start == IF path.abs THEN Root ELSE dir
                 r == Walk(start, path.comps)[Len(path.comps)]
             IN  IF start = NULL THEN [v |-> NULL, t |-> NULL, err |-> EINTERR_VFS]
                 ELSE IF r.err = 0 THEN [r EXCEPT !.t = r.v] ELSE r
  BY Zenon DEF vfs_lookup, Walk, Walks, Begin

\* What a lookup returns, from the last step of its walk
LEMMA LookupFacts ==
    ASSUME NameSpace, NEW dir \in Vnodes \cup {NULL}, dir # NULL => ~Inherits(dir),
           NEW path, NEW C, path.comps \in Seq(C)
    PROVE  LET start == IF path.abs THEN Root ELSE dir
               r == vfs_lookup(dir, path)
               last == Walk(start, path.comps)[Len(path.comps)]
           IN  /\ start # NULL => start \in Vnodes /\ ~Inherits(start)
               /\ r.t \in Vnodes \cup {NULL} /\ (r.t # NULL => ~Inherits(r.t))
               /\ r.err = 0 <=> start # NULL /\ last.err = 0
               /\ r.err = 0 => /\ r.v \in Vnodes /\ ~Inherits(r.v) /\ r.v = last.v
                               /\ r = [last EXCEPT !.t = last.v]
<1> DEFINE start == IF path.abs THEN Root ELSE dir
           last == Walk(start, path.comps)[Len(path.comps)]
           r == vfs_lookup(dir, path)
<1>1. r = IF start = NULL THEN [v |-> NULL, t |-> NULL, err |-> EINTERR_VFS]
          ELSE IF last.err = 0 THEN [last EXCEPT !.t = last.v] ELSE last
  BY LookupIs, Zenon
<1>2. start # NULL => start \in Vnodes /\ ~Inherits(start)
  BY RootFacts
<1> DEFINE k == Len(path.comps)
<1>3. k \in 0 .. k
  OBVIOUS
<1>4. start # NULL => last \in Results
  <2> HIDE DEF start, k
  <2> QED BY <1>2, <1>3, WalkFacts DEF k
<1> HIDE DEF start, last, r, k
<1>5. CASE start = NULL
  <2>1. r = [v |-> NULL, t |-> NULL, err |-> EINTERR_VFS]
    BY <1>1, <1>5
  <2>2. r.t = NULL /\ r.err # 0
    BY <2>1 DEF EINTERR_VFS
  <2> QED BY <1>5, <2>2 DEF start, r, last
<1>6. CASE start # NULL /\ last.err # 0
  <2>1. r = last
    BY <1>1, <1>6
  <2>2. r.t \in Vnodes \cup {NULL} /\ (r.t # NULL => ~Inherits(r.t)) /\ r.err # 0
    BY <1>4, <1>6, <2>1, ResultFacts
  <2> QED BY <1>2, <1>6, <2>2 DEF start, r, last
<1>7. CASE start # NULL /\ last.err = 0
  <2>1. r = [last EXCEPT !.t = last.v]
    BY <1>1, <1>7
  <2>2. last.v \in Vnodes /\ ~Inherits(last.v)
        /\ last = [v |-> last.v, t |-> last.t, err |-> last.err]
    BY <1>4, <1>7, ResultFacts
  <2>3. r.v = last.v /\ r.t = last.v /\ r.err = 0
    BY <1>7, <2>1, <2>2
  <2> QED BY <1>2, <1>7, <2>1, <2>2, <2>3 DEF start, r, last
<1> QED BY <1>5, <1>6, <1>7

\* Sets of vnodes that nothing is mounted on, with all vnodes ".." leads to
Uncovered(S) ==
    S \subseteq Vnodes /\ \A v \in S : vnodes[v].mount = NULL /\ DotDot(v) \in S

\* A vnode of such a set is the directory its children say.
Live == UNION {S \in SUBSET Vnodes : Uncovered(S)}

\* The root is live, live vnodes carry no mount, and ".." stays among them.
LEMMA LiveFacts ==
    ASSUME NameSpace
    PROVE  /\ Root \in Live /\ Live \subseteq Vnodes
           /\ \A v \in Live : /\ vnodes[v].mount = NULL /\ Through(v) = v
                              /\ DotDot(v) \in Live
           /\ \A v \in Vnodes : (vnodes[v].mount = NULL /\ DotDot(v) \in Live) => v \in Live
<1>1. Uncovered({Root}) /\ {Root} \in SUBSET Vnodes
  BY RootFacts, DotDotFacts DEF Uncovered
<1>2. \A v \in Live : /\ v \in Vnodes /\ vnodes[v].mount = NULL /\ Through(v) = v
                      /\ DotDot(v) \in Live
  <2>1. ASSUME NEW v \in Live
        PROVE  /\ v \in Vnodes /\ vnodes[v].mount = NULL /\ Through(v) = v
               /\ DotDot(v) \in Live
    <3>1. PICK S \in SUBSET Vnodes : Uncovered(S) /\ v \in S
      BY <2>1 DEF Live
    <3> QED BY <3>1 DEF Live, Uncovered, Through
  <2> QED BY <2>1
<1>3. ASSUME NEW v \in Vnodes, vnodes[v].mount = NULL, DotDot(v) \in Live
      PROVE  v \in Live
  <2>1. PICK S \in SUBSET Vnodes : Uncovered(S) /\ DotDot(v) \in S
    BY <1>3 DEF Live
  <2>2. Uncovered(S \cup {v}) /\ S \cup {v} \in SUBSET Vnodes
    BY <1>3, <2>1 DEF Uncovered
  <2> QED BY <2>2 DEF Live
<1> QED BY <1>1, <1>2, <1>3 DEF Live

\* A child is entered through the mounts on it, and ".." leads back.
LEMMA EnterFacts ==
    ASSUME NameSpace, NEW v \in Live, NEW name, NEW c \in Named(v, name)
    PROVE  /\ Through(c) \in Live /\ DotDot(Through(c)) = v
           /\ Through(c) # Root
<1>1. /\ v \in Vnodes /\ vnodes[v].mount = NULL
      /\ c \in Vnodes \ {Root} /\ vnodes[c].parent = v /\ ~IsMounted(c)
  BY LiveFacts, NamedFacts
<1>2. Typed /\ MountsRight /\ NULL \notin Vnodes
  BY VnodeFacts DEF NameSpace
<1>3. Through(c) \in Vnodes \ {Root} /\ vnodes[Through(c)].mount = NULL
  BY <1>1, ThroughFacts
<1>4. DotDot(Through(c)) = v
  <2>1. CASE vnodes[c].mount = NULL
    BY <1>1, <2>1, DotDotFacts DEF Through
  <2>2. CASE vnodes[c].mount # NULL
    <3> DEFINE m == vnodes[c].mount
    <3>1. /\ m \in Vnodes \ {Root} /\ IsMounted(m) /\ Through(c) = m
          /\ Inherits(c) => vnodes[m].parent = v
      BY <1>1, <1>2, <2>2 DEF MountsRight, Through
    <3>2. vnodes[vnodes[m].parent].mount = m
      BY <1>2, <3>1 DEF MountsRight
    <3>3. ~Inherits(c)
      BY <1>1, <1>2, <3>1, <3>2
    <3>4. vnodes[m].parent = c
      BY <2>2, <3>3 DEF Inherits
    <3>5. DotDot(m) = vnodes[c].parent
      BY <3>1, <3>4, DotDotFacts
    <3> QED BY <1>1, <3>1, <3>5
  <2> QED BY <2>1, <2>2
<1>5. Through(c) \in Live
  BY <1>3, <1>4, LiveFacts
<1> QED BY <1>3, <1>4, <1>5

\* A step of a lookup stays where nothing is covered.
LEMMA LiveStep ==
    ASSUME NameSpace, NEW r \in Results, r.v \in Live, NEW c
    PROVE  Step(r, c).v \in Live
<1> DEFINE s == Step(r, c)
           found == Named(Through(r.v), c)
<1>1. CASE r.err # 0 \/ c = "."
  BY <1>1, StepFacts
<1>2. CASE r.err = 0 /\ c = ".."
  <2>1. s.v = DotDot(r.v)
    BY <1>2, StepFacts
  <2> QED BY <2>1, LiveFacts
<1>3. CASE r.err = 0 /\ c \notin {".", ".."} /\ found = {}
  <2>1. Through(r.v) \in Vnodes
    BY ResultFacts, ThroughFacts
  <2>2. s = Fail(r, EACCES_VFS) \/ s = Fail(r, ENOENT_VFS)
    BY <1>3 DEF Step
  <2>3. s.v = r.v
    BY <2>2, ResultFacts DEF Fail
  <2> QED BY <2>3
<1>4. CASE r.err = 0 /\ c \notin {".", ".."} /\ found # {}
  <2>1. s = [r EXCEPT !.v = Through(Min(found))] /\ Through(r.v) = r.v
    BY <1>4, StepFacts, LiveFacts
  <2>2. Min(found) \in Named(r.v, c)
    BY <1>4, <2>1, LiveFacts, NamedFacts
  <2>3. Through(Min(found)) \in Live
    BY <2>2, EnterFacts
  <2> HIDE DEF s, found
  <2>4. s.v = Through(Min(found))
    BY <2>1, ResultFacts
  <2> QED BY <2>3, <2>4 DEF s
<1> QED BY <1>1, <1>2, <1>3, <1>4

\* A walk from a live vnode stays among them.
LEMMA LiveWalk ==
    ASSUME NameSpace, NEW start \in Live, ~Inherits(start), NEW C, NEW comps \in Seq(C)
    PROVE  \A i \in 0 .. Len(comps) : Walk(start, comps)[i].v \in Live
<1> DEFINE w == Walk(start, comps)
           n == Len(comps)
           S == {r \in Results : r.v \in Live}
<1>1. start \in Vnodes /\ n \in Nat
  BY LiveFacts
<1>2. /\ w[0] = Begin(start)
      /\ \A i \in 1 .. n : w[i] = Step(w[i - 1], comps[i])
      /\ \A i \in 0 .. n : w[i] \in Results
  BY <1>1, WalkFacts
<1> HIDE DEF w, n
<1>3. 0 \in 0 .. n /\ \A i \in 1 .. n : i \in 0 .. n
  BY <1>1
<1>4. w[0] \in S
  BY <1>2, <1>3 DEF Begin
<1>5. \A i \in 1 .. n : w[i - 1] \in S => w[i] \in S
  BY <1>2, <1>3, LiveStep
<1> HIDE DEF S
<1>6. \A i \in 0 .. n : w[i] \in S
  BY <1>1, <1>4, <1>5, WalkInduction
<1> QED BY <1>6 DEF S, w, n

-----------------------------------------------------------------------------
\* Absolute paths are sequences of components.
LEMMA PathFacts ==
    \A comps \in AbsPaths : comps \in Seq(Components)
<1> SUFFICES ASSUME NEW comps \in AbsPaths PROVE comps \in Seq(Components)
  OBVIOUS
<1>1. PICK u \in Threads : \E p \in Paths[u] : comps = p.comps
  BY DEF AbsPaths
<1>2. PICK p \in Paths[u] : comps = p.comps
  BY <1>1
<1>3. p \in [abs : BOOLEAN, comps : Seq(Components)]
  BY <1>2, VfsAssumption
<1> QED BY <1>2, <1>3

\* What an absolute path leads to, as a walk
LEMMA ResolveIs ==
    ASSUME NameSpace, NEW C, NEW comps \in Seq(C)
    PROVE  LET last == Walk(Root, comps)[Len(comps)]
               r == Resolve(comps)
           IN  /\ r.err = 0 <=> last.err = 0
               /\ r.err = 0 => r.v = last.v /\ r = [last EXCEPT !.t = last.v]
<1> DEFINE path == [abs |-> TRUE, comps |-> comps]
<1>1. path.abs = TRUE /\ path.comps = comps
  OBVIOUS
<1>2. Resolve(comps) = vfs_lookup(NULL, path)
  BY DEF Resolve
<1> HIDE DEF path
<1>3. Root # NULL /\ (NULL \in Vnodes \cup {NULL})
  BY DEF Root, NULL
<1>4. path.comps \in Seq(C)
  BY <1>1
<1>5. LET last == Walk(Root, comps)[Len(comps)]
          r == vfs_lookup(NULL, path)
      IN  /\ r.err = 0 <=> last.err = 0
          /\ r.err = 0 => r.v = last.v /\ r = [last EXCEPT !.t = last.v]
  <2>1. LET r == vfs_lookup(NULL, path)
            last == Walk(IF path.abs THEN Root ELSE NULL, path.comps)[Len(path.comps)]
        IN  /\ r.err = 0 <=> (IF path.abs THEN Root ELSE NULL) # NULL /\ last.err = 0
            /\ r.err = 0 => /\ r.v = last.v
                            /\ r = [last EXCEPT !.t = last.v]
    BY <1>3, <1>4, LookupFacts
  <2>2. (IF path.abs THEN Root ELSE NULL) = Root
    BY <1>1
  <2> QED BY <1>1, <1>3, <2>1, <2>2
<1> QED BY <1>2, <1>5

\* In such a name space ".." undoes a component.
LEMMA DotDotIs == NameSpace => DotDotInverse
<1> SUFFICES ASSUME NameSpace,
                    NEW comps \in AbsPaths, comps # <<>>, Last(comps) \notin {".", ".."},
                    Resolve(comps).err = 0
             PROVE  LET up == Resolve(Append(comps, ".."))
                    IN  up.err = 0 /\ up.v = Resolve(Front(comps)).v
  BY DEF DotDotInverse
<1> DEFINE C == Components
           n == Len(comps)
           back == Append(comps, "..")
           front == Front(comps)
           w == Walk(Root, comps)
           x == Walk(Root, back)
           y == Walk(Root, front)
<1>1. /\ comps \in Seq(C) /\ n \in Nat /\ n >= 1
      /\ back \in Seq(C) /\ Len(back) = n + 1 /\ back[n + 1] = ".."
      /\ \A i \in 1 .. n : back[i] = comps[i]
  <2>1. comps \in Seq(C)
    BY PathFacts
  <2>2. n \in Nat /\ n >= 1
    BY <2>1
  <2>3. ".." \in C
    BY VfsAssumption
  <2> HIDE DEF C
  <2> QED BY <2>1, <2>2, <2>3
<1>2. /\ front \in Seq(C) /\ Len(front) = n - 1
      /\ \A i \in 1 .. n - 1 : front[i] = comps[i]
  <2> HIDE DEF C
  <2>1. front = [i \in 1 .. n - 1 |-> comps[i]]
    BY <1>1 DEF Front
  <2>2. n - 1 \in Nat /\ \A i \in 1 .. n - 1 : comps[i] \in C
    BY <1>1
  <2> HIDE DEF front, n
  <2> QED BY <2>1, <2>2
<1>3. comps[n] \notin {".", ".."}
  BY DEF Last
<1>4. Root \in Vnodes /\ ~Inherits(Root) /\ Root \in Live
  BY RootFacts, LiveFacts
<1>5. /\ \A i \in 1 .. n : w[i] = Step(w[i - 1], comps[i])
      /\ \A i \in 0 .. n : w[i] \in Results /\ w[i].v \in Live
      /\ \A i \in 1 .. n : w[i].err = 0 => w[i - 1].err = 0
  BY <1>1, <1>4, WalkFacts, LiveWalk
<1>6. x[n] = w[n] /\ y[n - 1] = w[n - 1]
  <2> HIDE DEF C, back, front, n
  <2>1. n \in 0 .. n /\ n <= Len(back) /\ n <= Len(comps)
    BY <1>1 DEF n
  <2>2. x[n] = w[n]
    BY <1>1, <1>4, <2>1, WalkPrefix
  <2>3. n - 1 \in 0 .. n - 1 /\ n - 1 \in Nat /\ n - 1 <= Len(front) /\ n - 1 <= Len(comps)
        /\ \A i \in 1 .. n - 1 : front[i] = comps[i]
    BY <1>1, <1>2 DEF n
  <2>4. y[n - 1] = w[n - 1]
    BY <1>1, <1>2, <1>4, <2>3, WalkPrefix
  <2> QED BY <2>2, <2>4
<1>7. x[n + 1] = Step(x[n], "..")
  <2> HIDE DEF C, back, n
  <2>1. n + 1 \in 1 .. Len(back) /\ (n + 1) - 1 = n
    BY <1>1
  <2> QED BY <1>1, <1>4, <2>1, WalkFacts
<1>8. w[n].err = 0
  BY <1>1, ResolveIs
<1>a. n \in 1 .. n /\ n \in 0 .. n /\ n - 1 \in 0 .. n
  BY <1>1
<1> DEFINE r == w[n - 1]
           found == Named(Through(r.v), comps[n])
<1>9. r.err = 0 /\ r \in Results /\ r.v \in Live /\ w[n] = Step(r, comps[n])
  BY <1>5, <1>8, <1>a
<1> HIDE DEF w, x, y, n, r, found
<1>10. found # {} /\ w[n] = [r EXCEPT !.v = Through(Min(found))]
  BY <1>3, <1>8, <1>9, StepFacts DEF found
<1>11. Through(r.v) = r.v /\ r.v \in Vnodes
  BY <1>9, LiveFacts
<1>12. Min(found) \in Named(r.v, comps[n])
  BY <1>10, <1>11, NamedFacts DEF found
<1>13. DotDot(w[n].v) = r.v
  <2>1. w[n].v = Through(Min(found))
    BY <1>9, <1>10, ResultFacts
  <2> QED BY <1>9, <1>12, <2>1, EnterFacts
<1>14. x[n + 1].err = 0 /\ x[n + 1].v = r.v
  <2>1. w[n] \in Results
    BY <1>5, <1>a
  <2> QED BY <1>6, <1>7, <1>8, <1>13, <2>1, StepFacts
<1>15. Resolve(back).err = 0 /\ Resolve(back).v = r.v
  BY <1>1, <1>14, ResolveIs DEF x
<1>16. Resolve(front).v = r.v
  <2>1. y[n - 1].err = 0 /\ y[n - 1].v = r.v
    BY <1>6, <1>9 DEF r
  <2> QED BY <1>2, <2>1, ResolveIs DEF y
<1> QED BY <1>15, <1>16 DEF back, front

-----------------------------------------------------------------------------
\* The name space is a tree.
LEMMA TreeIs == NameSpace => TreeOK
<1> SUFFICES ASSUME NameSpace PROVE TreeOK
  OBVIOUS
<1>1. Typed /\ Older /\ Placed /\ MountsRight /\ Bounded /\ InProgress /\ UniqueNames
  BY DEF NameSpace
<1>2. /\ Len(vnodes) \in Nat /\ Vnodes = DOMAIN children /\ Vnodes \subseteq Nat /\ NULL \notin Vnodes
      /\ \A v \in Vnodes : children[v] \in Seq(Nat)
  BY <1>1, VnodeFacts
<1>3. VfsTypeOK
  <2>1. Len(vnodes) <= MaxVnodes
    <3> DEFINE k == Cardinality({u \in Threads : creating[u] # NoCreate})
    <3>1. k \in Nat
      BY VfsAssumption, FS_Subset, FS_CardinalityType
    <3>2. Len(vnodes) + k <= MaxVnodes
      BY <1>1 DEF Bounded
    <3> HIDE DEF k
    <3> QED BY <1>2, <3>1, <3>2, VfsAssumption
  <2>2. ASSUME NEW v \in Vnodes
        PROVE  /\ vnodes[v].parent \in Vnodes \cup {NULL}
               /\ vnodes[v].mount \in Vnodes \cup {NULL}
               /\ children[v] \in Seq(Vnodes)
    <3>1. vnodes[v].parent \in Vnodes \cup {NULL}
      BY <1>1 DEF Older
    <3>2. vnodes[v].mount \in Vnodes \cup {NULL}
      BY <1>1 DEF MountsRight
    <3>3. \A i \in 1 .. Len(children[v]) : children[v][i] \in Vnodes
      BY <1>1, <1>2 DEF Placed
    <3>4. children[v] \in Seq(Vnodes)
      <4> DEFINE list == children[v]
      <4>1. list \in Seq(Nat) /\ \A i \in 1 .. Len(list) : list[i] \in Vnodes
        BY <1>2, <3>3
      <4> HIDE DEF list
      <4>2. list = [i \in 1 .. Len(list) |-> list[i]] /\ Len(list) \in Nat
        BY <4>1
      <4>3. list \in Seq(Vnodes)
        BY <4>1, <4>2
      <4> QED BY <4>3 DEF list
    <3> QED BY <3>1, <3>2, <3>4
  <2>3. cwd \in [Threads -> Vnodes \cup {NULL}]
    <3>1. \A u \in Threads : cwd[u] \in Vnodes \cup {NULL}
      BY <1>1, <1>2 DEF Typed, Vnodes, NULL
    <3> QED BY <1>1, <3>1 DEF Typed
  <2>4. ASSUME NEW u \in Threads
        PROVE  /\ creating[u].pc \in {"none", "check", "link", "store", "mount"}
               /\ {creating[u].dir, creating[u].vnode} \subseteq Vnodes \cup {NULL}
    <3> DEFINE c == creating[u]
    <3>1. c \in Creates
      BY <1>1 DEF Typed
    <3>a. /\ c.vnode <= Len(vnodes)
          /\ c.pc = "none" => c = NoCreate
          /\ c.pc # "none" => c.dir \in Vnodes
      BY <1>1 DEF InProgress, Known, Wanted
    <3>b. NoCreate.dir = NULL
      BY DEF NoCreate, Create
    <3> HIDE DEF c
    <3>c. c.vnode \in Nat /\ c.pc \in {"none", "check", "link", "store", "mount"}
      BY <3>1 DEF Creates
    <3>2. c.vnode \in Vnodes \cup {NULL}
      BY <1>2, <3>a, <3>c DEF Vnodes, NULL
    <3>3. creating[u].pc \in {"none", "check", "link", "store", "mount"}
      BY <3>c DEF c
    <3>4. c.dir \in Vnodes \cup {NULL}
      BY <3>a, <3>b
    <3>5. creating[u].vnode \in Vnodes \cup {NULL} /\ creating[u].dir \in Vnodes \cup {NULL}
      BY <3>2, <3>4 DEF c
    <3> QED BY <3>3, <3>5
  <2> QED BY <1>1, <2>1, <2>2, <2>3, <2>4 DEF VfsTypeOK, Typed
<1>4. MountPoints
  <2> SUFFICES ASSUME NEW v \in Vnodes, vnodes[v].mount # NULL
               PROVE  LET on == vnodes[vnodes[v].mount].parent
                      IN  on = v \/ (on = vnodes[v].parent /\ vnodes[on].mount = vnodes[v].mount)
    BY DEF MountPoints
  <2> DEFINE m == vnodes[v].mount
  <2>1. m \in Vnodes \ {Root} /\ IsMounted(m) /\ (Inherits(v) => vnodes[m].parent = vnodes[v].parent)
    BY <1>1 DEF MountsRight
  <2>2. vnodes[vnodes[m].parent].mount = m
    BY <1>1, <2>1 DEF MountsRight
  <2>3. Inherits(v) \/ vnodes[m].parent = v
    BY DEF Inherits
  <2> QED BY <2>1, <2>2, <2>3
<1>5. ASSUME fault # OVERRUN PROVE IsTree
  <2> SUFFICES ASSUME NEW v \in Vnodes \ {Root}
               PROVE  LET p == vnodes[v].parent
                          places == {at \in Vnodes \X (1 .. MAX_CHILDREN) :
                                        at[2] \in DOMAIN children[at[1]] /\ children[at[1]][at[2]] = v}
                      IN  IF vnodes[v].parent_is_mount
                          THEN vnodes[p].mount = v /\ places = {}
                          ELSE \E i \in 1 .. MAX_CHILDREN : places = {<<p, i>>}
    BY DEF IsTree
  <2> DEFINE p == vnodes[v].parent
             places == {at \in Vnodes \X (1 .. MAX_CHILDREN) :
                           at[2] \in DOMAIN children[at[1]] /\ children[at[1]][at[2]] = v}
  <2>1. ASSUME NEW at \in places PROVE ~IsMounted(v) /\ at[1] = p /\ at[2] \in DOMAIN children[p]
                                       /\ children[p][at[2]] = v
    BY <1>1 DEF Placed
  <2>2. CASE IsMounted(v)
    <3>1. vnodes[p].mount = v
      BY <1>1, <2>2 DEF MountsRight
    <3>2. places = {}
      BY <2>1, <2>2
    <3> QED BY <2>2, <3>1, <3>2 DEF IsMounted
  <2>3. CASE ~IsMounted(v)
    <3>1. p \in Vnodes
      BY <1>1 DEF Older
    <3>2. PICK i \in DOMAIN children[p] : children[p][i] = v
      BY <1>1, <2>3 DEF Placed
    <3>3. Len(children[p]) <= MAX_CHILDREN /\ children[p] \in Seq(Nat)
      BY <1>1, <1>2, <1>5, <3>1 DEF Bounded
    <3>4. i \in 1 .. MAX_CHILDREN
      BY <3>2, <3>3, VfsAssumption
    <3>5. <<p, i>> \in places
      BY <3>1, <3>2, <3>4
    <3>6. ASSUME NEW at \in places PROVE at = <<p, i>>
      <4>1. at[1] = p /\ at[2] \in DOMAIN children[p] /\ children[p][at[2]] = v
            /\ at = <<at[1], at[2]>>
        BY <2>1
      <4> DEFINE j == at[2]
      <4>a. DOMAIN children[p] \subseteq Nat
        BY <3>3
      <4>b. j \in DOMAIN children[p] /\ children[p][j] = v
        BY <4>1
      <4> HIDE DEF j
      <4>2. j \in Nat /\ i \in Nat /\ v \in Nat
        BY <1>2, <3>2, <4>a, <4>b
      <4>c. \A k, l \in DOMAIN children[p] : k < l => children[p][k] < children[p][l]
        BY <1>1, <3>1 DEF Placed
      <4>d. ~(v < v)
        BY <4>2
      <4>3. ~(i < j) /\ ~(j < i)
        BY <3>2, <4>b, <4>c, <4>d
      <4>4. j = i
        BY <4>2, <4>3
      <4> QED BY <4>1, <4>4 DEF j
    <3>7. places = {<<p, i>>}
      BY <3>5, <3>6
    <3> HIDE DEF places
    <3>8. \E k \in 1 .. MAX_CHILDREN : places = {<<p, k>>}
      BY <3>4, <3>7
    <3> QED BY <2>3, <3>8 DEF IsMounted, places
  <2> QED BY <2>2, <2>3
<1> QED BY <1>1, <1>3, <1>4, <1>5 DEF TreeOK, Bounded

\* What an archive is
LEMMA ArchiveFacts ==
    ASSUME NEW a \in Archives
    PROVE  /\ a \in Seq(Files(Names)) /\ Len(a) \in Nat
           /\ cpio_addr \in Nat /\ Aligned(cpio_addr) /\ Trailer.name \notin Names
           /\ \A k \in 1 .. Len(a) : a[k] \in Files(Names) /\ a[k].name \in Names
<1>1. a \in Seq(Files(Names))
  BY VfsAssumption, Zenon DEF Files
<1>2. cpio_addr \in Nat /\ Aligned(cpio_addr) /\ Trailer.name \notin Names
  BY VfsAssumption DEF Aligned
<1>3. Len(a) \in Nat /\ \A k \in 1 .. Len(a) : a[k] \in Files(Names)
  BY <1>1
<1>4. \A k \in 1 .. Len(a) : a[k].name \in Names
  BY <1>3 DEF Files
<1> QED BY <1>1, <1>2, <1>3, <1>4

\* initramfs_init makes a file of every entry of the archive that it gets to.
LEMMA InitramfsIs ==
    ASSUME NEW a \in Archives, NEW m, StopsAt(a, m)
    PROVE  initramfs_init(a) = [k \in 1 .. m |-> Prefix[a[k].name]]
<1> DEFINE image == Image(a, cpio_addr)
           H == Headers(a, cpio_addr)
           visited == Visited(image, cpio_addr)
           n == Len(a)
<1>1. visited = [k \in 1 .. m |-> H[k]]
  BY ArchiveFacts, VisitedIs
<1>2. \A k \in 1 .. n : image[H[k]] = a[k]
  BY ArchiveFacts, ImageIs
<1>3. initramfs_init(a) = [i \in DOMAIN visited |-> Prefix[image[visited[i]].name]]
  BY DEF initramfs_init
<1>4. n \in Nat /\ m \in 0 .. n
  BY ArchiveFacts DEF StopsAt
<1> HIDE DEF image, H, visited, n
<1>5. \A k \in 1 .. m : k \in 1 .. n
  BY <1>4
<1> QED BY <1>1, <1>2, <1>3, <1>5

\* Without a name that is too long it gets to all.
LEMMA AllShort ==
    ASSUME NEW a \in Archives, NEW m, StopsAt(a, m), ~TooLong(a)
    PROVE  m = Len(a)
<1> DEFINE n == Len(a)
<1>1. n \in Nat /\ m \in 0 .. n
  BY ArchiveFacts DEF StopsAt
<1>2. DOMAIN a = 1 .. n
  BY ArchiveFacts
<1>3. m = n \/ a[m + 1].namesize > FILENAME_SIZE
  BY DEF StopsAt
<1> HIDE DEF n
<1>4. m # n => m + 1 \in 1 .. n
  BY <1>1
<1> QED BY <1>2, <1>3, <1>4 DEF TooLong, n

\* The walks find the first file of a name.
LEMMA WalksFindFiles == archive \in Archives => WalksFind
<1> SUFFICES ASSUME archive \in Archives,
                    NEW k \in DOMAIN archive,
                    \A j \in 1 .. k - 1 : archive[j].name # archive[k].name,
                    \A j \in 1 .. k : archive[j].namesize <= FILENAME_SIZE
             PROVE  LET image == Image(archive, cpio_addr)
                    IN  /\ cpio_get_file_size(image, cpio_addr, archive[k].name) = archive[k].filesize
                        /\ cpio_get_exec(image, cpio_addr, archive[k].name)
                              = {DataAt(archive, cpio_addr, k)}
  BY DEF WalksFind
<1> DEFINE a == archive
           image == Image(a, cpio_addr)
           H == Headers(a, cpio_addr)
           n == Len(a)
           name == a[k].name
           visited == Visited(image, cpio_addr)
           is == {i \in DOMAIN visited : image[visited[i]].name = name}
           found == Matching(image, cpio_addr, name)
<1>1. /\ a \in Seq(Files(Names)) /\ n \in Nat /\ k \in 1 .. n
      /\ cpio_addr \in Nat /\ Aligned(cpio_addr) /\ Trailer.name \notin Names
      /\ \A i \in 1 .. n : a[i] \in Files(Names)
  BY ArchiveFacts
<1>b. PICK m : StopsAt(a, m)
  BY <1>1, StopExists
<1>c. m \in 0 .. n /\ k <= m
  <2>1. m \in 0 .. n /\ (m = n \/ a[m + 1].namesize > FILENAME_SIZE)
    BY <1>b DEF StopsAt
  <2>2. CASE m = n
    BY <1>1, <2>1, <2>2
  <2>3. CASE m # n /\ m + 1 \in 1 .. k
    <3>1. a[m + 1].namesize <= FILENAME_SIZE /\ a[m + 1].namesize > FILENAME_SIZE
      BY <2>1, <2>3
    <3>2. a[m + 1].namesize \in Nat
      <4>1. m + 1 \in 1 .. n
        BY <1>1, <2>1, <2>3
      <4> HIDE DEF a
      <4> QED BY <1>1, <4>1 DEF Files
    <3> HIDE DEF a
    <3> QED BY <3>1, <3>2 DEF FILENAME_SIZE
  <2>4. CASE ~(m + 1 \in 1 .. k)
    BY <1>1, <2>1, <2>4
  <2> QED BY <2>2, <2>3, <2>4
<1>2. visited = [i \in 1 .. m |-> H[i]]
  BY <1>1, <1>b, VisitedIs
<1>3. \A i \in 1 .. n : image[H[i]] = a[i]
  BY <1>1, ImageIs
<1>4. H[k] \in Nat /\ Aligned(H[k])
  <2>1. H \in [1 .. n + 1 -> Nat] /\ \A i \in 1 .. n + 1 : Aligned(H[i])
    BY <1>1, HeadersIs
  <2>2. k \in 1 .. n + 1
    BY <1>1
  <2> QED BY <2>1, <2>2
<1>5. found = IF is = {} THEN {} ELSE {visited[Min(is)]}
  BY DEF Matching
<1>6. \A j \in 1 .. n : (j < k) => a[j].name # name
  BY <1>1
<1>7. cpio_get_file_size(image, cpio_addr, name) = IF found = {} THEN 0 ELSE image[Min(found)].filesize
  BY DEF cpio_get_file_size
<1>8. cpio_get_exec(image, cpio_addr, name) = {DataAddress(h, image[h]) : h \in found}
  BY DEF cpio_get_exec
<1>9. DataAt(a, cpio_addr, k) = Filled(H[k] + 110 + a[k].namesize)
  BY DEF DataAt
<1>a. name = a[k].name
  OBVIOUS
<1> DEFINE h == H[k]
           e == a[k]
<1>10. e \in Files(Names) /\ h \in Nat /\ Aligned(h)
  BY <1>1, <1>4
<1> HIDE DEF a, image, H, n, name, visited, found
<1>11. is = {i \in 1 .. m : a[i].name = name}
  <2>1. \A i \in 1 .. m : i \in 1 .. n
    BY <1>1, <1>c
  <2> QED BY <1>2, <1>3, <2>1
<1>12. is \subseteq Nat /\ k \in is /\ \A i \in is : k <= i
  BY <1>1, <1>6, <1>11, <1>a, <1>c
<1> HIDE DEF is
<1>13. Min(is) = k
  <2> DEFINE l == Min(is)
  <2>1. l \in is /\ l <= k /\ k <= l
    BY <1>12, MinFacts
  <2>2. l \in Nat /\ k \in Nat
    BY <1>12, <2>1
  <2> HIDE DEF l
  <2>3. l = k
    BY <2>1, <2>2
  <2> QED BY <2>3 DEF l
<1>14. found = {h}
  BY <1>1, <1>2, <1>5, <1>12, <1>13, <1>c
<1>15. Min(found) = h
  BY <1>10, <1>14, MinFacts
<1>16. image[h] = e
  BY <1>1, <1>3
<1>17. cpio_get_file_size(image, cpio_addr, name) = e.filesize
  BY <1>7, <1>14, <1>15, <1>16
<1> HIDE DEF h, e
<1>18. DataAddress(h, e) = Filled(h + 110 + e.namesize)
  BY <1>10, StepIs, Zenon
<1>19. cpio_get_exec(image, cpio_addr, name) = {DataAt(a, cpio_addr, k)}
  BY <1>8, <1>9, <1>14, <1>16, <1>18 DEF h, e
<1> QED BY <1>17, <1>19, Zenon DEF a, image, name, e

\* Every file of the archive whose name is kept is where its name leads.
LEMMA ArchiveIs == NameSpace => ArchiveListed
<1> SUFFICES ASSUME NameSpace PROVE ArchiveListed
  OBVIOUS
<1>1. Typed /\ Placed /\ MountsRight /\ ArchiveKept /\ archive \in Archives
  BY DEF NameSpace, Typed
<1>2. WalksFind
  BY <1>1, WalksFindFiles
<1>3. Len(archive) \in Nat /\ DOMAIN archive = 1 .. Len(archive)
      /\ \A k \in 1 .. Len(archive) : archive[k].name \in Names
  BY <1>1, ArchiveFacts
<1>4. fault # OVERRUN => Len(archive) <= MAX_CHILDREN /\ ~TooLong(archive)
  BY <1>1, <1>3, VfsAssumption DEF ArchiveKept
<1>5. ASSUME fault # OVERRUN, NEW k \in 1 .. Len(archive),
             archive[k].name \in Components \ {".", ".."},
             strlen[archive[k].name] <= MAX_FILE_NAME
      PROVE  LET name == archive[k].name
                 r == Resolve(<<"initramfs", name>>)
                 like == {j \in DOMAIN archive : Prefix[archive[j].name] = name}
             IN  r.err = 0 /\ r.v = Through(3 + Min(like))
  <2> DEFINE name == archive[k].name
             comps == <<"initramfs", name>>
             w == Walk(Root, comps)
             like == {j \in DOMAIN archive : Prefix[archive[j].name] = name}
  <2>0. name \in Names /\ Prefix[name] = name /\ name \notin {".", ".."}
    BY <1>3, <1>5, VfsAssumption
  <2>1. comps \in Seq(Names) /\ Len(comps) = 2 /\ comps[1] = "initramfs" /\ comps[2] = name
    BY <2>0, VfsAssumption
  <2>2. comps[1] \notin {".", ".."} /\ comps[2] \notin {".", ".."}
    BY <2>0, <2>1
  <2>a. k \in like
    BY <1>3, <2>0
  <2>3. {1, 2, 3} \subseteq Vnodes /\ Root \in Vnodes /\ ~Inherits(Root) /\ vnodes[Root].mount = NULL
    BY RootFacts
  <2> HIDE DEF comps, name
  <2>4. /\ w[0] = Begin(Root)
        /\ \A i \in 1 .. 2 : w[i] = Step(w[i - 1], comps[i])
        /\ \A i \in 0 .. 2 : w[i] \in Results
    <3>1. /\ w[0] = Begin(Root)
          /\ \A i \in 1 .. Len(comps) : w[i] = Step(w[i - 1], comps[i])
          /\ \A i \in 0 .. Len(comps) : w[i] \in Results
      BY <2>1, <2>3, WalkFacts
    <3> HIDE DEF w
    <3> QED BY <2>1, <3>1
  <2>5. w[1] = Step(w[0], comps[1]) /\ w[2] = Step(w[1], comps[2])
        /\ w[0] \in Results /\ w[1] \in Results
    <3>1. 1 \in 1 .. 2 /\ 2 \in 1 .. 2 /\ 0 \in 0 .. 2 /\ 1 \in 0 .. 2 /\ 1 - 1 = 0 /\ 2 - 1 = 1
      OBVIOUS
    <3> HIDE DEF w
    <3> QED BY <2>4, <3>1
  <2> HIDE DEF w
  <2>6. w[0].v = Root /\ w[0].err = 0 /\ Through(w[0].v) = Root
    BY <2>3, <2>4 DEF Begin, Through
  <2> DEFINE found == Named(Root, "initramfs")
  <2>7. 2 \in found /\ \A c \in found : 2 <= c
    <3>1. Root # 2 /\ 2 \in Vnodes \ {Root}
      BY <2>3 DEF Root
    <3>2. /\ found = {c \in ToSet(children[Root]) : vnodes[c].name = "initramfs"}
          /\ children[Root] \in Seq(Nat) /\ children[Root] # <<>> /\ children[Root][1] = 2
          /\ vnodes[2].name = "initramfs"
      BY <1>1, <2>3, VnodeFacts DEF Named, tmpfs_lookup, initramfs_lookup, ArchiveKept
    <3>3. ToSet(children[Root]) = {children[Root][i] : i \in DOMAIN children[Root]}
      BY <3>2 DEF ToSet
    <3>4. 1 \in DOMAIN children[Root]
      BY <3>2
    <3>5. \A i \in DOMAIN children[Root] : 2 <= children[Root][i]
      <4>1. ASSUME NEW i \in DOMAIN children[Root] PROVE 2 <= children[Root][i]
        <5>1. i = 1 \/ 1 < i
          BY <3>2
        <5>2. 1 < i => children[Root][1] < children[Root][i]
          BY <1>1, <2>3, <3>4 DEF Placed
        <5>3. children[Root][i] \in Nat
          BY <3>2
        <5> QED BY <3>2, <5>1, <5>2, <5>3
      <4> QED BY <4>1
    <3> HIDE DEF found
    <3> QED BY <3>2, <3>3, <3>4, <3>5
  <2>8. Min(found) = 2
    <3>1. found \subseteq Vnodes
      BY <2>3, NamedFacts
    <3>2. found \subseteq Nat
      BY <1>1, <3>1, VnodeFacts
    <3> HIDE DEF found
    <3> DEFINE m == Min(found)
    <3>3. m \in found /\ m <= 2 /\ 2 <= m
      BY <2>7, <3>2, MinFacts
    <3>4. m \in Nat
      BY <3>2, <3>3
    <3> HIDE DEF m
    <3>5. m = 2
      BY <3>3, <3>4
    <3> QED BY <3>5 DEF m
  <2>9. w[1].v = Through(2) /\ w[1].err = 0
    <3> DEFINE r == w[0]
    <3>1. /\ r \in Results /\ r.err = 0 /\ "initramfs" # "." /\ "initramfs" # ".."
          /\ Through(r.v) = Root /\ w[1] = Step(r, "initramfs")
      BY <2>1, <2>2, <2>5, <2>6
    <3> HIDE DEF r
    <3>2. Named(Root, "initramfs") # {} /\ Min(Named(Root, "initramfs")) = 2
      BY <2>7, <2>8
    <3>3. w[1].v = Through(2) /\ w[1].err = 0
      BY <3>1, <3>2, StepFinds
    <3> QED BY <3>3 DEF r
  <2>10. Through(2) = 3
    BY <1>1 DEF ArchiveKept, Through, NULL
  <2>11. w[1].v = 3 /\ w[1].err = 0
    BY <2>9, <2>10
  <2>12. Through(3) = 3
    BY <1>1, <2>3 DEF ArchiveKept, MountsRight, Through
  <2>13. Named(3, name) = {3 + i : i \in like} /\ Named(3, name) # {}
    <3>1. /\ children[3] = [i \in 1 .. Len(archive) |-> 3 + i]
          /\ \A i \in 1 .. Len(archive) : vnodes[3 + i].name = Prefix[archive[i].name]
      BY <1>1, <1>4, <1>5 DEF ArchiveKept
    <3>2. Named(3, name) = {c \in ToSet(children[3]) : vnodes[c].name = name}
      BY DEF Named, tmpfs_lookup, initramfs_lookup
    <3>3. ToSet(children[3]) = {3 + i : i \in 1 .. Len(archive)}
      BY <3>1 DEF ToSet
    <3>4. like = {i \in 1 .. Len(archive) : vnodes[3 + i].name = name}
      BY <1>3, <3>1
    <3> HIDE DEF like
    <3> QED BY <2>a, <3>2, <3>3, <3>4
  <2>b. Min(Named(3, name)) = 3 + Min(like)
    <3>1. like \subseteq Nat
      BY <1>3
    <3> HIDE DEF like
    <3> DEFINE l == Min(like)
               x == Min(Named(3, name))
    <3>2. l \in like /\ \A i \in like : l <= i
      BY <2>a, <3>1, MinFacts
    <3>3. Named(3, name) \subseteq Nat
      BY <2>13, <3>1
    <3>4. x \in Named(3, name) /\ \A i \in Named(3, name) : x <= i
      BY <2>13, <3>3, MinFacts
    <3> HIDE DEF l, x
    <3>5. PICK i \in like : x = 3 + i
      BY <2>13, <3>4
    <3>6. x <= 3 + l /\ l <= i /\ l \in Nat /\ i \in Nat
      BY <2>13, <3>1, <3>2, <3>4
    <3>7. x = 3 + l
      BY <3>5, <3>6
    <3> QED BY <3>7 DEF l, x
  <2>14. w[2].err = 0 /\ w[2].v = Through(Min(Named(3, name)))
    <3> DEFINE r == w[1]
    <3>1. /\ r \in Results /\ r.err = 0 /\ name # "." /\ name # ".."
          /\ Through(r.v) = 3 /\ w[2] = Step(r, name)
      BY <2>1, <2>2, <2>5, <2>11, <2>12
    <3> HIDE DEF r
    <3>2. Named(3, name) # {}
      BY <2>13
    <3>3. w[2].v = Through(Min(Named(3, name))) /\ w[2].err = 0
      BY <3>1, <3>2, StepFinds
    <3> QED BY <3>3 DEF r
  <2>16. Resolve(comps).err = 0 /\ Resolve(comps).v = Through(3 + Min(like))
    BY <2>1, <2>14, <2>b, ResolveIs DEF w
  <2> QED BY <2>16 DEF comps, name
<1> QED BY <1>2, <1>3, <1>4, <1>5 DEF ArchiveListed

\* A is the line from v up to the root, when P gives the parents.
Line(A, v, P) ==
    /\ v \in A /\ A \subseteq 1 .. v
    /\ \A a \in A : a = Root \/ P[a] \in A
    /\ \A a \in A : a = v \/ \E b \in A : P[b] = a
    /\ \A a, b \in A : a < b => a <= P[b]

\* Who is above whom
Parents == [v \in Vnodes |-> vnodes[v].parent]

\* up is the function that Ancestors(v) defines.
Ups(up, v) ==
    up = [k \in 0 .. Len(vnodes) |->
             IF k = 0 THEN v
             ELSE IF up[k - 1] = NULL THEN NULL ELSE vnodes[up[k - 1]].parent]

\* There is one such line.
LEMMA OneLine ==
    ASSUME NEW v \in Nat, NEW P, NEW Q, NEW A, NEW B,
           Line(A, v, P), Line(B, v, Q),
           \A a \in 1 .. v : P[a] \in Nat /\ P[a] < a /\ Q[a] = P[a]
    PROVE  A \subseteq B
<1> SUFFICES ASSUME NEW a \in A, a \notin B PROVE FALSE
  OBVIOUS
<1> DEFINE D == {v - x : x \in A \ B}
           m == Min(D)
<1>1. A \subseteq 1 .. v /\ B \subseteq 1 .. v /\ v \in A /\ v \in B
  BY DEF Line
<1>2. D \subseteq Nat /\ v - a \in D
  BY <1>1
<1>3. m \in D /\ \A k \in D : m <= k
  <2> HIDE DEF D
  <2> QED BY <1>2, MinFacts
<1>4. PICK x \in A \ B : m = v - x
  BY <1>3
<1> HIDE DEF m
<1>5. \A y \in A \ B : y <= x
  <2>1. ASSUME NEW y \in A \ B PROVE y <= x
    <3>1. v - y \in D /\ y \in Nat /\ x \in Nat
      BY <1>1
    <3>2. v - x <= v - y
      BY <1>3, <1>4, <3>1
    <3> QED BY <3>1, <3>2
  <2> QED BY <2>1
<1>6. x # v
  BY <1>1
<1>7. PICK b \in A : P[b] = x
  BY <1>6 DEF Line
<1>8. b \in 1 .. v /\ x < b /\ Q[b] = x /\ x \in Nat /\ x # 0
  BY <1>1, <1>7
<1>9. b \in B
  <2>1. CASE b \notin B
    <3>1. b <= x
      BY <1>5, <2>1
    <3> QED BY <1>8, <3>1
  <2> QED BY <2>1
<1>10. b # Root
  BY <1>1, <1>8 DEF Root
<1>11. x \in B
  BY <1>8, <1>9, <1>10 DEF Line
<1> QED BY <1>11

\* Ancestors gives the line up to the root.
AncestorsRight == \A v \in Vnodes : Line(Ancestors(v), v, Parents)

\* In such a name space it does.
LEMMA AncestorsAre == NameSpace => AncestorsRight
<1> SUFFICES ASSUME NameSpace, NEW v \in Vnodes PROVE Line(Ancestors(v), v, Parents)
  BY DEF AncestorsRight
<1> DEFINE n == Len(vnodes)
           T == Vnodes \cup {NULL}
           F == [x \in Nat \X T |-> IF x[2] = NULL THEN NULL ELSE vnodes[x[2]].parent]
           up == CHOOSE f : Ups(f, v)
<1>1. Typed /\ Older /\ n \in Nat /\ Vnodes = 1 .. n /\ v \in 1 .. n
  BY VnodeFacts DEF NameSpace, Vnodes
<1>2. \A u \in Vnodes : /\ vnodes[u].parent \in T
                        /\ u # Root => vnodes[u].parent \in Vnodes /\ vnodes[u].parent < u
                        /\ u = Root => vnodes[u].parent = NULL
  BY <1>1 DEF Older
<1>3. F \in [Nat \X T -> T]
  <2>1. \A x \in Nat \X T : (IF x[2] = NULL THEN NULL ELSE vnodes[x[2]].parent) \in T
    <3>1. ASSUME NEW x \in Nat \X T
          PROVE  (IF x[2] = NULL THEN NULL ELSE vnodes[x[2]].parent) \in T
      <4>1. x[2] \in Vnodes \cup {NULL}
        OBVIOUS
      <4> QED BY <1>2, <4>1
    <3> QED BY <3>1
  <2> HIDE DEF T
  <2> QED BY <2>1
<1>4. ASSUME NEW i \in Nat, NEW u \in T
      PROVE  F[<<i, u>>] = IF u = NULL THEN NULL ELSE vnodes[u].parent
  <2>1. <<i, u>> \in Nat \X T /\ <<i, u>>[2] = u
    OBVIOUS
  <2> HIDE DEF T
  <2> QED BY <2>1
<1> HIDE DEF F, T
<1>5. PICK g \in [0 .. n -> T] : Iterates(g, F, v, n)
  BY <1>1, <1>3, IterationExists DEF T
<1>6. Ups(g, v)
  <2>1. ASSUME NEW k \in 0 .. n
        PROVE  g[k] = IF k = 0 THEN v
                      ELSE IF g[k - 1] = NULL THEN NULL ELSE vnodes[g[k - 1]].parent
    <3>1. CASE k = 0
      BY <1>5, <3>1 DEF Iterates
    <3>2. CASE k # 0
      <4>1. k \in 1 .. n /\ k \in Nat /\ k - 1 \in 0 .. n
        BY <1>1, <3>2
      <4>2. g[k] = F[<<k, g[k - 1]>>] /\ g[k - 1] \in T
        BY <1>5, <4>1 DEF Iterates
      <4> QED BY <1>4, <3>2, <4>1, <4>2
    <3> QED BY <3>1, <3>2
  <2>2. g = [k \in 0 .. n |-> g[k]]
    OBVIOUS
  <2> QED BY <2>1, <2>2 DEF Ups
<1>7. Ups(up, v)
  BY <1>6
<1>8. Ancestors(v) = {up[k] : k \in 0 .. n} \ {NULL}
  BY Zenon DEF Ancestors, Ups
<1> HIDE DEF up, n
<1>9. up[0] = v
  BY <1>1, <1>7 DEF Ups, n
<1>10. \A k \in 1 .. n : up[k] = IF up[k - 1] = NULL THEN NULL ELSE vnodes[up[k - 1]].parent
  <2>1. ASSUME NEW k \in 1 .. n
        PROVE  up[k] = IF up[k - 1] = NULL THEN NULL ELSE vnodes[up[k - 1]].parent
    <3>1. k \in 0 .. n /\ k # 0
      BY <1>1
    <3> QED BY <1>7, <3>1 DEF Ups, n
  <2> QED BY <2>1
\* Going up, one gets to older vnodes and at last to none.
<1>11. \A k \in 0 .. n : /\ up[k] \in T
                         /\ up[k] # NULL => up[k] + k <= v
  <2> DEFINE S == {x \in T \X Nat : x[1] # NULL => x[1] + x[2] <= v}
             w == [k \in 0 .. n |-> <<up[k], k>>]
  <2>1. w[0] \in S
    <3>1. w[0] = <<v, 0>>
      BY <1>1, <1>9
    <3>2. v + 0 <= v
      BY <1>1
    <3> QED BY <1>1, <3>1, <3>2 DEF T
  <2>2. ASSUME NEW k \in 1 .. n, w[k - 1] \in S PROVE w[k] \in S
    <3>1. k \in 0 .. n /\ k - 1 \in 0 .. n /\ k \in Nat /\ k - 1 \in Nat
      BY <1>1
    <3>2. w[k] = <<up[k], k>> /\ w[k - 1] = <<up[k - 1], k - 1>>
      BY <3>1
    <3> DEFINE u == up[k - 1]
               p == up[k]
    <3>3. u \in T /\ (u # NULL => u + (k - 1) <= v)
      BY <2>2, <3>2
    <3>4. p = IF u = NULL THEN NULL ELSE vnodes[u].parent
      BY <1>10
    <3> HIDE DEF u, p, w
    <3>5. CASE u = NULL
      <4>1. p = NULL /\ p \in T
        BY <3>4, <3>5 DEF T
      <4> QED BY <3>1, <3>2, <4>1 DEF p
    <3>6. CASE u # NULL
      <4>1. u \in Vnodes /\ u \in Nat /\ v \in Nat
        BY <1>1, <3>3, <3>6 DEF T
      <4>2. p \in T /\ (p # NULL => p \in Nat /\ p < u)
        BY <1>1, <1>2, <3>4, <3>6, <4>1
      <4>3. p # NULL => p + k <= v
        BY <3>1, <3>3, <3>6, <4>1, <4>2
      <4> QED BY <3>1, <3>2, <4>2, <4>3 DEF p
    <3> QED BY <3>5, <3>6
  <2> HIDE DEF S, w
  <2>3. \A k \in 0 .. n : w[k] \in S
    BY <1>1, <2>1, <2>2, WalkInduction
  <2>4. ASSUME NEW k \in 0 .. n PROVE up[k] \in T /\ (up[k] # NULL => up[k] + k <= v)
    <3>1. <<up[k], k>> \in S
      BY <2>3 DEF w
    <3> QED BY <3>1 DEF S
  <2> QED BY <2>4
<1> DEFINE A == Ancestors(v)
<1>12. \A a : a \in A <=> a # NULL /\ \E k \in 0 .. n : a = up[k]
  BY <1>8
<1> HIDE DEF A
<1>13. A \subseteq 1 .. v
  <2> SUFFICES ASSUME NEW a \in A PROVE a \in 1 .. v
    OBVIOUS
  <2>1. PICK k \in 0 .. n : a = up[k] /\ a # NULL
    BY <1>12
  <2>2. a \in Vnodes /\ a + k <= v /\ k \in Nat
    BY <1>1, <1>11, <2>1 DEF T
  <2> QED BY <1>1, <2>2
<1>14. v \in A
  BY <1>1, <1>9, <1>12 DEF NULL
<1>15. ASSUME NEW a \in A PROVE a = Root \/ Parents[a] \in A
  <2>1. PICK k \in 0 .. n : a = up[k] /\ a # NULL
    BY <1>12
  <2>2. a \in Vnodes /\ a \in Nat /\ a + k <= v
    BY <1>1, <1>11, <2>1 DEF T
  <2>3. a # NULL /\ a # 0
    BY <2>1 DEF NULL
  <2>4. k + 1 \in 1 .. n /\ k + 1 \in 0 .. n /\ (k + 1) - 1 = k
    BY <1>1, <2>2, <2>3
  <2>5. up[k + 1] = vnodes[a].parent
    BY <1>10, <2>1, <2>3, <2>4
  <2>6. CASE a # Root
    <3>1. vnodes[a].parent \in Vnodes
      BY <1>2, <2>2, <2>6
    <3>2. vnodes[a].parent # NULL
      BY <1>1, <3>1 DEF NULL
    <3>3. vnodes[a].parent \in A
      BY <1>12, <2>4, <2>5, <3>2
    <3> QED BY <2>2, <3>3 DEF Parents
  <2> QED BY <2>6
<1>16. ASSUME NEW a \in A PROVE a = v \/ \E b \in A : Parents[b] = a
  <2>1. PICK k \in 0 .. n : a = up[k] /\ a # NULL
    BY <1>12
  <2>2. CASE k = 0
    BY <1>9, <2>1, <2>2
  <2>3. CASE k # 0
    <3>1. k \in 1 .. n /\ k - 1 \in 0 .. n
      BY <1>1, <2>3
    <3>2. up[k - 1] # NULL /\ a = vnodes[up[k - 1]].parent
      BY <1>10, <2>1, <3>1
    <3>3. up[k - 1] \in A /\ up[k - 1] \in Vnodes
      BY <1>11, <1>12, <3>1, <3>2 DEF T
    <3> QED BY <3>2, <3>3 DEF Parents
  <2> QED BY <2>2, <2>3
\* The line goes down in number.
<1>17. \A k \in 1 .. n : up[k] <= up[k - 1] /\ up[k] \in Nat /\ up[k - 1] \in Nat
  <2>1. ASSUME NEW k \in 1 .. n
        PROVE  up[k] <= up[k - 1] /\ up[k] \in Nat /\ up[k - 1] \in Nat
    <3>1. k \in 0 .. n /\ k - 1 \in 0 .. n
      BY <1>1
    <3> DEFINE u == up[k - 1]
               p == up[k]
    <3>2. u \in T /\ p \in T /\ p = IF u = NULL THEN NULL ELSE vnodes[u].parent
      BY <1>10, <1>11, <3>1
    <3> HIDE DEF u, p
    <3>3. u \in Nat /\ p \in Nat
      BY <1>1, <3>2 DEF T, NULL
    <3>4. p <= u
      <4>1. CASE u = NULL
        BY <3>2, <3>3, <4>1
      <4>2. CASE u # NULL
        <5>1. u \in Vnodes
          BY <3>2, <4>2 DEF T
        <5>2. p = vnodes[u].parent /\ (u = Root => p = NULL) /\ (u # Root => p < u)
          BY <1>2, <3>2, <4>2, <5>1
        <5> QED BY <3>3, <5>2 DEF NULL
      <4> QED BY <4>1, <4>2
    <3> QED BY <3>3, <3>4 DEF u, p
  <2> QED BY <2>1
<1>18. ASSUME NEW j \in 0 .. n, NEW k \in 0 .. n, j <= k PROVE up[k] <= up[j]
  <2> DEFINE S == {i \in Nat : j + i <= n => up[j + i] <= up[j] /\ up[j + i] \in Nat}
  <2>1. up[j] \in Nat
    BY <1>1, <1>11 DEF T, NULL
  <2>2. 0 \in S
    BY <2>1
  <2>3. ASSUME NEW i \in Nat, i \in S PROVE i + 1 \in S
    <3>1. CASE j + (i + 1) <= n
      <4>1. j + (i + 1) \in 1 .. n /\ (j + (i + 1)) - 1 = j + i /\ j + i <= n
        BY <1>1, <3>1
      <4>2. /\ up[j + (i + 1)] <= up[j + i]
            /\ up[j + (i + 1)] \in Nat /\ up[j + i] \in Nat
        BY <1>17, <4>1
      <4>3. up[j + i] <= up[j]
        BY <2>3, <4>1
      <4> QED BY <2>1, <4>2, <4>3
    <3>2. CASE ~(j + (i + 1) <= n)
      BY <3>2
    <3> QED BY <3>1, <3>2
  <2> HIDE DEF S
  <2>4. Nat \subseteq S
    BY <2>2, <2>3, SetInduction
  <2> DEFINE i == k - j
  <2>5. i \in Nat /\ j + i = k /\ k <= n
    BY <1>1, <1>18
  <2> HIDE DEF i
  <2>6. i \in S
    BY <2>4, <2>5
  <2> QED BY <2>5, <2>6 DEF S
\* What is above b is not below its parent.
<1>19. ASSUME NEW a \in A, NEW b \in A, a < b PROVE a <= Parents[b]
  <2>1. PICK k \in 0 .. n : a = up[k] /\ a # NULL
    BY <1>12
  <2>2. PICK j \in 0 .. n : b = up[j] /\ b # NULL
    BY <1>12
  <2>3. a \in Nat /\ b \in Nat /\ b \in Vnodes
    <3>1. b \in T
      BY <1>11, <2>2
    <3> QED BY <1>1, <1>13, <2>2, <3>1 DEF T
  <2>4. ~(k <= j)
    <3>1. CASE k <= j
      <4>1. b <= a
        BY <1>18, <2>1, <2>2, <3>1
      <4> QED BY <1>19, <2>3, <4>1
    <3> QED BY <3>1
  <2>5. j + 1 <= k /\ j + 1 \in 0 .. n /\ j + 1 \in 1 .. n /\ (j + 1) - 1 = j
    BY <1>1, <2>4
  <2>6. a <= up[j + 1]
    BY <1>18, <2>1, <2>5
  <2>7. up[j + 1] = vnodes[b].parent
    BY <1>10, <2>2, <2>5
  <2> QED BY <2>3, <2>6, <2>7 DEF Parents
<1> QED BY <1>13, <1>14, <1>15, <1>16, <1>19 DEF Line, A

\* The threads that are inside a create
Inside == {u \in Threads : creating[u] # NoCreate}

\* They can be counted.
LEMMA InsideFacts ==
    /\ IsFiniteSet(Inside) /\ Cardinality(Inside) \in Nat
    /\ \A S \in SUBSET Threads : IsFiniteSet(S) /\ Cardinality(S) \in Nat
<1>1. \A S \in SUBSET Threads : IsFiniteSet(S) /\ Cardinality(S) \in Nat
  BY VfsAssumption, FS_Subset, FS_CardinalityType
<1>2. Inside \in SUBSET Threads
  BY DEF Inside
<1> QED BY <1>1, <1>2

\* The fields of NoCreate
LEMMA NoCreateFacts ==
    /\ NoCreate \in Creates /\ NoCreate.pc = "none" /\ NoCreate.dir = NULL
    /\ NoCreate.vnode = NULL
  BY DEF NoCreate, Create, Creates, NULL

\* What a thread that is inside a create is there with
LEMMA CreatingFacts ==
    ASSUME NameSpace, NEW u \in Threads
    PROVE  /\ creating[u] \in Creates /\ creating \in [Threads -> Creates]
           /\ creating[u].pc \in {"none", "check", "link", "store", "mount"}
           /\ creating[u].dir \in Nat
           /\ creating[u].isDir \in BOOLEAN /\ creating[u].vnode \in Vnodes \cup {NULL}
           /\ creating[u].pc = "none" <=> creating[u] = NoCreate
           /\ creating[u].pc # "none" =>
                 /\ creating[u].dir \in Vnodes /\ ~Inherits(creating[u].dir)
                 /\ creating[u].pc # "mount" => creating[u].name \in Names
           /\ creating[u].pc = "none" => creating[u].dir = NULL
<1> DEFINE c == creating[u]
<1>1. Typed /\ InProgress /\ Len(vnodes) \in Nat
  BY VnodeFacts DEF NameSpace
<1>2. c \in Creates /\ creating \in [Threads -> Creates]
  BY <1>1 DEF Typed
<1>3. /\ c.vnode <= Len(vnodes)
      /\ c.pc = "none" => c = NoCreate
      /\ c.pc # "none" => c.dir \in Vnodes /\ ~Inherits(c.dir)
      /\ c.pc \notin {"none", "mount"} => c.name \in Names
  BY <1>1 DEF InProgress, Known, Wanted
<1> HIDE DEF c
<1>4. /\ c.pc \in {"none", "check", "link", "store", "mount"} /\ c.dir \in Nat
      /\ c.isDir \in BOOLEAN /\ c.vnode \in Nat
  BY <1>2 DEF Creates
<1>a. c.vnode <= Len(vnodes) /\ c.vnode \in Nat
  BY <1>3, <1>4
<1>5. c.vnode \in Vnodes \cup {NULL}
  BY <1>1, <1>a DEF Vnodes, NULL
<1>6. c.pc = "none" => c.dir = NULL
  BY <1>3, NoCreateFacts
<1>7. c = NoCreate => c.pc = "none"
  BY NoCreateFacts
<1> QED BY <1>2, <1>3, <1>4, <1>5, <1>6, <1>7 DEF c

-----------------------------------------------------------------------------
\* The vnodes stay as they are in most steps.
LEMMA QuietFacts ==
    ASSUME NameSpace, UNCHANGED <<vnodes, children, archive>>
    PROVE  /\ Vnodes' = Vnodes /\ Older' /\ Placed'
           /\ \A v : Inherits(v)' = Inherits(v)
           /\ \A d, name : Named(d, name)' = Named(d, name)
           /\ \A c : Known(c) /\ overlapped' = overlapped => Known(c)'
<1>1. Vnodes' = Vnodes
  BY DEF Vnodes
<1>2. Older'
  BY <1>1 DEF NameSpace, Older, IsMounted
<1>3. Placed'
  BY <1>1 DEF NameSpace, Placed, IsMounted
<1>4. \A v : Inherits(v)' = Inherits(v)
  BY DEF Inherits
<1>5. \A d, name : Named(d, name)' = Named(d, name)
  BY DEF Named, tmpfs_lookup, initramfs_lookup
<1>6. ASSUME NEW c, Known(c), overlapped' = overlapped PROVE Known(c)'
  <2>1. Wanted(c)' <=> Wanted(c)
    BY <1>1, <1>4 DEF Wanted, IsMounted
  <2>2. Checked(c)' <=> Checked(c)
    BY <1>5, <1>6 DEF Checked
  <2> QED BY <1>6, <2>1, <2>2 DEF Known
<1> QED BY <1>1, <1>2, <1>3, <1>4, <1>5, <1>6

\* Where a step leaves each thread
LEMMA InProgressAfter ==
    ASSUME \A u \in Threads : \E c : creating'[u] = c /\ Known(c)'
    PROVE  InProgress'
<1> SUFFICES ASSUME NEW u \in Threads PROVE Known(creating[u])'
  BY DEF InProgress
<1>1. PICK c : creating'[u] = c /\ Known(c)'
  OBVIOUS
<1> QED BY <1>1 DEF Known, Wanted, Checked

\* What a thread is inside changes, or nothing but a fault comes.
LEMMA CreatingKeeps ==
    ASSUME NameSpace, NEW t \in Threads, NEW c, c \in Creates /\ Known(c), Running,
           creating' = [creating EXCEPT ![t] = c],
           c = NoCreate \/ creating[t] # NoCreate \/ Room,
           fault' \in {0, EINVAL_VFS, EACCES_VFS, ENOMEM_VFS, EEXIST_VFS, STALE, NULL_READ},
           UNCHANGED <<vnodes, children, cwd, overlapped, archive>>
    PROVE  NameSpace'
<1>1. /\ Vnodes' = Vnodes /\ Older' /\ Placed'
      /\ \A v : Inherits(v)' = Inherits(v)
      /\ \A d, nm : Named(d, nm)' = Named(d, nm)
      /\ \A e : Known(e) /\ overlapped' = overlapped => Known(e)'
  BY QuietFacts
<1>2. Typed /\ MountsRight /\ ArchiveKept /\ Bounded /\ InProgress /\ UniqueNames
      /\ Vnodes \subseteq Nat /\ Len(vnodes) \in Nat
  BY VnodeFacts DEF NameSpace
<1>3. fault # OVERRUN /\ fault' # OVERRUN
  BY DEF Running, OVERRUN, EINVAL_VFS, EACCES_VFS, ENOMEM_VFS, EEXIST_VFS, STALE, NULL_READ
<1>4. creating \in [Threads -> Creates]
  BY <1>2 DEF Typed
<1>5. creating' \in [Threads -> Creates] /\ creating'[t] = c
      /\ \A u \in Threads \ {t} : creating'[u] = creating[u]
  BY <1>4
<1>6. Typed'
  BY <1>1, <1>2, <1>5 DEF Typed
<1>7. MountsRight'
  BY <1>1, <1>2 DEF MountsRight, IsMounted
<1>8. ArchiveKept'
  <2>1. ~(Len(archive) > MAX_CHILDREN \/ TooLong(archive))
    BY <1>2, <1>3 DEF ArchiveKept
  <2> QED BY <1>1, <1>2, <2>1 DEF ArchiveKept, IsMounted, TooLong
<1>9. Bounded'
  <2>1. Inside \in SUBSET Threads /\ Inside' \in SUBSET Threads
    BY DEF Inside
  <2>2. IsFiniteSet(Inside) /\ Cardinality(Inside) \in Nat /\ Cardinality(Inside') \in Nat
    BY <2>1, InsideFacts
  <2>3. Len(vnodes) + Cardinality(Inside) <= MaxVnodes
    BY <1>2 DEF Bounded, Inside
  <2>4. CASE c = NoCreate \/ creating[t] # NoCreate
    <3>1. Inside' \subseteq Inside
      BY <1>5, <2>4 DEF Inside
    <3>2. Cardinality(Inside') <= Cardinality(Inside)
      BY <2>2, <3>1, FS_Subset
    <3>3. Len(vnodes) + Cardinality(Inside') <= MaxVnodes
      BY <1>2, <2>2, <2>3, <3>2, VfsAssumption
    <3>4. (Len(vnodes) + Cardinality({u \in Threads : creating[u] # NoCreate}) <= MaxVnodes)'
      BY <3>3 DEF Inside
    <3> QED BY <1>1, <1>2, <1>3, <3>4 DEF Bounded, FullChecked
  <2>5. CASE c # NoCreate /\ creating[t] = NoCreate
    <3>1. Inside' = Inside \cup {t} /\ t \notin Inside
      BY <1>5, <2>5 DEF Inside
    <3>2. Cardinality(Inside') = Cardinality(Inside) + 1
      BY <2>2, <3>1, FS_AddElement
    <3>3. Len(vnodes) + Cardinality(Inside) < MaxVnodes
      BY <2>5 DEF Room, Inside
    <3>4. Len(vnodes) + Cardinality(Inside') <= MaxVnodes
      BY <1>2, <2>2, <3>2, <3>3, VfsAssumption
    <3>5. (Len(vnodes) + Cardinality({u \in Threads : creating[u] # NoCreate}) <= MaxVnodes)'
      BY <3>4 DEF Inside
    <3> QED BY <1>1, <1>2, <1>3, <3>5 DEF Bounded, FullChecked
  <2> QED BY <2>4, <2>5
<1>10. InProgress'
  <2>1. Known(c)'
    BY <1>1
  <2>2. ASSUME NEW u \in Threads, u # t PROVE Known(creating[u])' /\ creating'[u] = creating[u]
    <3>1. PICK e : e = creating[u] /\ Known(e)
      BY <1>2 DEF InProgress
    <3>2. creating'[u] = e
      BY <1>5, <2>2, <3>1
    <3>3. Known(e)'
      BY <1>1, <3>1
    <3> QED BY <3>1, <3>2, <3>3 DEF Known, Wanted, Checked
  <2>3. \A u \in Threads : \E f : creating'[u] = f /\ Known(f)'
    <3>1. ASSUME NEW u \in Threads PROVE \E f : creating'[u] = f /\ Known(f)'
      <4>1. CASE u = t
        BY <1>5, <2>1, <4>1
      <4>2. CASE u # t
        <5>1. PICK e : e = creating[u] /\ Known(e)
          BY <1>2 DEF InProgress
        <5> QED BY <1>1, <1>5, <4>2, <5>1
      <4> QED BY <4>1, <4>2
    <3> QED BY <3>1
  <2> QED BY <2>3, InProgressAfter
<1>11. UniqueNames'
  BY <1>1, <1>2 DEF UniqueNames
<1> QED BY <1>1, <1>6, <1>7, <1>8, <1>9, <1>10, <1>11 DEF NameSpace

\* The record of a create or mount that begins
LEMMA CreateFacts ==
    ASSUME NameSpace, NEW pc \in {"check", "mount"}, NEW dir \in Vnodes,
           NEW name \in Names \cup {"/"}, NEW isDir \in BOOLEAN, NEW vnode \in Vnodes \cup {NULL}
    PROVE  LET c == Create(pc, dir, name, isDir, vnode)
           IN  /\ c \in Creates /\ c # NoCreate /\ c.vnode <= Len(vnodes)
               /\ c.pc = pc /\ c.dir = dir /\ c.name = name /\ c.isDir = isDir /\ c.vnode = vnode
<1> DEFINE c == Create(pc, dir, name, isDir, vnode)
<1>1. dir \in Nat /\ vnode \in Nat /\ vnode <= Len(vnodes)
  BY VnodeFacts DEF NameSpace, Vnodes, NULL
<1>2. /\ c.pc = pc /\ c.dir = dir /\ c.name = name /\ c.isDir = isDir /\ c.vnode = vnode
  BY DEF Create
<1>3. c \in Creates
  BY <1>1 DEF Create, Creates, NULL
<1>4. c # NoCreate
  BY <1>2, NoCreateFacts
<1> QED BY <1>1, <1>2, <1>3, <1>4

\* Calling create keeps the name space.
LEMMA CallCreateKeeps ==
    ASSUME NameSpace, NEW t \in Threads, NEW p, NEW path, Last(path.comps) \in Names,
           NEW isDir \in BOOLEAN, NEW vnode \in Vnodes \cup {NULL},
           p.v \in Vnodes, ~Inherits(p.v),
           CallCreate(t, p, path, isDir, vnode), UNCHANGED archive
    PROVE  NameSpace'
<1> PICK dir \in Vnodes : dir = p.v
  OBVIOUS
<1> PICK name \in Names \cup {"/"} : name = Last(path.comps) /\ name \in Names
  OBVIOUS
<1> DEFINE c == Create("check", dir, name, isDir, vnode)
<1>1. /\ Running /\ Room /\ creating' = [creating EXCEPT ![t] = c]
      /\ UNCHANGED <<vnodes, children, cwd, overlapped, fault>>
  BY DEF CallCreate, Ready
<1>2. /\ c \in Creates /\ c.pc = "check" /\ c.dir = dir /\ c.name = name
      /\ c.vnode <= Len(vnodes)
  BY CreateFacts
<1> HIDE DEF c
<1>3. Known(c)
  BY <1>2 DEF Known, Wanted
<1> QED BY <1>1, <1>2, <1>3, CreatingKeeps DEF Running

\* What passes the checks
LEMMA CheckFacts ==
    ASSUME NameSpace, NEW t \in Threads, creating[t].pc = "check",
           CreateError(creating[t].dir, creating[t].name) = 0
    PROVE  LET d == creating[t].dir
           IN  /\ vnodes[d].fs = "tmpfs" /\ vnodes[d].dir
               /\ Named(d, creating[t].name) = {}
               /\ Len(children[d]) < MAX_CHILDREN
<1> DEFINE d == creating[t].dir
           name == creating[t].name
<1>1. d \in Vnodes
  BY CreatingFacts
<1>2. vnodes[d].fs \in {"tmpfs", "initramfs"} /\ Len(children[d]) \in Nat /\ MAX_CHILDREN \in Nat
  BY <1>1, VnodeFacts, VfsAssumption DEF NameSpace
<1> HIDE DEF d, name
<1>3. CreateError(d, name) = 0
  BY DEF d, name
<1>4. EACCES_VFS # 0 /\ EEXIST_VFS # 0 /\ ENOMEM_VFS # 0 /\ EINVAL_VFS # 0
  BY DEF EACCES_VFS, EEXIST_VFS, ENOMEM_VFS, EINVAL_VFS
<1>5. ~(vnodes[d].fs = "initramfs" \/ ~vnodes[d].dir)
  BY <1>3, <1>4 DEF CreateError
<1>6. Named(d, name) = {}
  BY <1>3, <1>4, <1>5 DEF CreateError
<1>7. ~(Len(children[d]) >= MAX_CHILDREN)
  BY <1>3, <1>4, <1>5, <1>6 DEF CreateError
<1> QED BY <1>2, <1>5, <1>6, <1>7 DEF d, name

\* Passing the checks keeps the name space.
LEMMA CheckKeeps ==
    ASSUME NameSpace, NEW t \in Threads, CreateCheck(t), UNCHANGED archive
    PROVE  NameSpace'
<1> PICK c : c = creating[t]
  OBVIOUS
<1> PICK e : e = [c EXCEPT !.pc = "link"]
  OBVIOUS
<1>1. /\ Running /\ c.pc = "check" /\ CreateError(c.dir, c.name) = 0
      /\ creating' = [creating EXCEPT ![t].pc = "link"]
      /\ UNCHANGED <<vnodes, children, cwd, overlapped, fault>>
  BY DEF CreateCheck
<1>2. c \in Creates /\ creating \in [Threads -> Creates] /\ c # NoCreate /\ Known(c)
  BY <1>1, CreatingFacts, NoCreateFacts DEF NameSpace, InProgress
<1>3. creating' = [creating EXCEPT ![t] = e]
  BY <1>1, <1>2
<1>4. /\ e \in Creates /\ e.pc = "link" /\ e.dir = c.dir /\ e.name = c.name /\ e.vnode = c.vnode
  BY <1>2 DEF Creates
<1>5. /\ vnodes[c.dir].fs = "tmpfs" /\ vnodes[c.dir].dir
      /\ Named(c.dir, c.name) = {} /\ ~(Len(children[c.dir]) >= MAX_CHILDREN)
  <2>1. c.dir \in Vnodes
    BY <1>1, <1>2 DEF Known, Wanted
  <2>2. Len(children[c.dir]) \in Nat /\ MAX_CHILDREN \in Nat
    BY <2>1, VnodeFacts, VfsAssumption DEF NameSpace
  <2> QED BY <1>1, <2>2, CheckFacts
<1>6. Known(e)
  BY <1>1, <1>2, <1>4, <1>5 DEF Known, Wanted, Checked
<1> QED BY <1>1, <1>2, <1>3, <1>4, <1>6, CreatingKeeps DEF Running

\* Reading num_children and the mount keeps the name space.
LEMMA LoadKeeps ==
    ASSUME NameSpace, NEW t \in Threads, CreateLoad(t), UNCHANGED archive
    PROVE  NameSpace'
<1> PICK c : c = creating[t]
  OBVIOUS
<1> PICK m : m = vnodes[c.dir].mount
  OBVIOUS
<1> PICK n : n = Len(children[c.dir])
  OBVIOUS
<1> PICK e : e = [c EXCEPT !.pc = "store", !.mount = m, !.slot = n]
  OBVIOUS
<1>1. /\ Running /\ c.pc = "link"
      /\ creating' = [creating EXCEPT ![t].pc = "store", ![t].mount = m, ![t].slot = n]
      /\ UNCHANGED <<vnodes, children, cwd, overlapped, fault>>
  BY DEF CreateLoad
<1>2. c \in Creates /\ creating \in [Threads -> Creates] /\ c # NoCreate /\ Known(c)
  BY <1>1, CreatingFacts, NoCreateFacts DEF NameSpace, InProgress
<1>3. creating' = [creating EXCEPT ![t] = e]
  BY <1>1, <1>2
<1>4. c.dir \in Vnodes
  BY <1>1, <1>2 DEF Known, Wanted
<1>5. m \in Nat /\ n \in Nat
  BY <1>4, VnodeFacts DEF NameSpace
<1>6. /\ e \in Creates /\ e.pc = "store" /\ e.dir = c.dir /\ e.name = c.name /\ e.vnode = c.vnode
      /\ e.mount = m
  BY <1>2, <1>5 DEF Creates
<1>7. Known(e)
  BY <1>1, <1>2, <1>6 DEF Known, Wanted, Checked
<1> QED BY <1>1, <1>2, <1>3, <1>6, <1>7, CreatingKeeps DEF Running

\* Failing the checks keeps the name space.
LEMMA FailsKeeps ==
    ASSUME NameSpace, NEW t \in Threads, CreateFails(t), UNCHANGED archive
    PROVE  NameSpace'
<1> DEFINE err == CreateError(creating[t].dir, creating[t].name)
<1>1. /\ Running /\ creating' = [creating EXCEPT ![t] = NoCreate]
      /\ fault' = 0 \/ fault' = err
      /\ UNCHANGED <<vnodes, children, cwd, overlapped>>
  BY DEF CreateFails
<1>2. err \in {EINVAL_VFS, EACCES_VFS, EEXIST_VFS, ENOMEM_VFS, 0}
  BY DEF CreateError
<1> HIDE DEF err
<1>3. Known(NoCreate)
  BY NoCreateFacts, VnodeFacts DEF NameSpace, Known, NULL
<1> QED BY <1>1, <1>2, <1>3, NoCreateFacts, CreatingKeeps

\* What undoes another's store, or reads what is to be stored, is not followed.
LEMMA FaultKeeps ==
    ASSUME NameSpace, NEW t \in Threads, StaleStore(t) \/ NullRead(t), UNCHANGED archive
    PROVE  NameSpace' /\ UNCHANGED <<vnodes, children, cwd, creating, overlapped>>
           /\ fault' \in {STALE, NULL_READ}
<1> PICK c : c = creating[t]
  OBVIOUS
<1>1. /\ Running /\ fault' \in {STALE, NULL_READ}
      /\ UNCHANGED <<vnodes, children, cwd, creating, overlapped>>
  BY DEF StaleStore, NullRead
<1>2. c \in Creates /\ creating \in [Threads -> Creates] /\ Known(c)
  BY CreatingFacts DEF NameSpace, InProgress
<1>3. creating' = [creating EXCEPT ![t] = c]
  BY <1>1, <1>2
<1> QED BY <1>1, <1>2, <1>3, CreatingKeeps

\* A chdir keeps the name space and what is created.
LEMMA ChdirKeeps ==
    ASSUME NameSpace, NEW t \in Threads, sys_chdir(t), UNCHANGED archive
    PROVE  NameSpace' /\ UNCHANGED <<vnodes, children, creating, overlapped, fault>>
           /\ creating[t] = NoCreate /\ \A u \in Threads \ {t} : cwd'[u] = cwd[u]
<1>1. PICK path \in Paths[t] :
         /\ Ready(t) /\ cwd' = [cwd EXCEPT ![t] = vfs_lookup(NULL, path).t]
         /\ UNCHANGED <<vnodes, children, creating, overlapped, fault>>
  BY DEF sys_chdir
<1>2. /\ Vnodes' = Vnodes /\ Older' /\ Placed'
      /\ \A v : Inherits(v)' = Inherits(v)
      /\ \A d, nm : Named(d, nm)' = Named(d, nm)
      /\ \A e : Known(e) /\ overlapped' = overlapped => Known(e)'
  BY <1>1, QuietFacts
<1>3. Typed /\ MountsRight /\ ArchiveKept /\ Bounded /\ InProgress /\ UniqueNames
      /\ Vnodes \subseteq Nat /\ Len(vnodes) \in Nat
  BY VnodeFacts DEF NameSpace
<1> DEFINE to == vfs_lookup(NULL, path).t
<1>4. to \in Vnodes \cup {NULL} /\ (to # NULL => ~Inherits(to))
  <2>1. path \in [abs : BOOLEAN, comps : Seq(Components)]
    BY VfsAssumption
  <2>2. path.comps \in Seq(Components)
    BY <2>1
  <2> QED BY <2>2, LookupFacts
<1>5. to \in Nat /\ to <= Len(vnodes)
  BY <1>3, <1>4 DEF Vnodes, NULL
<1> HIDE DEF to
<1>6. cwd' = [cwd EXCEPT ![t] = to]
  BY <1>1 DEF to
<1>7. cwd \in [Threads -> Nat]
  BY <1>3 DEF Typed
<1>8. cwd' \in [Threads -> Nat] /\ cwd'[t] = to /\ \A u \in Threads \ {t} : cwd'[u] = cwd[u]
  BY <1>5, <1>6, <1>7
<1>9. Typed'
  <2>1. \A u \in Threads : cwd'[u] <= Len(vnodes')
    BY <1>1, <1>3, <1>5, <1>8 DEF Typed
  <2> QED BY <1>1, <1>2, <1>3, <1>8, <2>1 DEF Typed
<1>10. MountsRight'
  <2>1. \A u \in Threads : cwd'[u] # NULL => ~Inherits(cwd'[u])
    BY <1>3, <1>4, <1>8 DEF MountsRight
  <2>2. \A u \in Threads : (cwd[u] # NULL => ~Inherits(cwd[u]))'
    BY <1>2, <2>1
  <2> QED BY <1>1, <1>2, <1>3, <2>2 DEF MountsRight, IsMounted
<1>11. ArchiveKept'
  BY <1>1, <1>2, <1>3 DEF ArchiveKept, IsMounted
<1>12. Bounded'
  BY <1>1, <1>2, <1>3 DEF Bounded, FullChecked
<1>13. InProgress'
  <2>1. \A u \in Threads : creating'[u] = creating[u] /\ Known(creating[u])
    BY <1>1, <1>3 DEF InProgress
  <2> QED BY <1>1, <1>2, <2>1, InProgressAfter
<1>14. UniqueNames'
  BY <1>1, <1>2, <1>3 DEF UniqueNames
<1> QED BY <1>1, <1>2, <1>8, <1>9, <1>10, <1>11, <1>12, <1>13, <1>14 DEF NameSpace, Ready

\* What changes nothing keeps the name space.
LEMMA StutterKeeps == ASSUME NameSpace, UNCHANGED vfs_vars PROVE NameSpace'
<1>1. UNCHANGED <<vnodes, children, cwd, archive, creating, overlapped, fault>>
  BY DEF vfs_vars
<1>2. /\ Vnodes' = Vnodes /\ Older' /\ Placed'
      /\ \A v : Inherits(v)' = Inherits(v)
      /\ \A d, nm : Named(d, nm)' = Named(d, nm)
      /\ \A e : Known(e) /\ overlapped' = overlapped => Known(e)'
  BY <1>1, QuietFacts
<1>3. Typed' /\ MountsRight' /\ ArchiveKept' /\ Bounded' /\ UniqueNames'
  BY <1>1, <1>2 DEF NameSpace, Typed, MountsRight, IsMounted, ArchiveKept, Bounded, FullChecked,
                    UniqueNames
<1>4. InProgress'
  <2>1. \A u \in Threads : creating'[u] = creating[u] /\ Known(creating[u])
    BY <1>1 DEF NameSpace, InProgress
  <2> QED BY <1>1, <1>2, <2>1, InProgressAfter
<1> QED BY <1>2, <1>3, <1>4 DEF NameSpace

\* A vnode more at the end of the sequences
LEMMA AppendFacts ==
    ASSUME NEW S, NEW s \in Seq(S), NEW e \in S
    PROVE  LET q == Append(s, e)
           IN  /\ q \in Seq(S) /\ Len(q) = Len(s) + 1 /\ q[Len(s) + 1] = e
               /\ \A i \in 1 .. Len(s) : q[i] = s[i]
               /\ DOMAIN q = DOMAIN s \cup {Len(s) + 1} /\ Len(s) \in Nat
               /\ DOMAIN s = 1 .. Len(s)
  OBVIOUS

\* What a step must leave for the mounts to be right
LEMMA MountsRightAfter ==
    ASSUME \A u \in Vnodes' : vnodes'[u].parent_is_mount => vnodes'[u].mount = NULL /\ vnodes'[u].dir,
           \A u \in Vnodes' \ {Root} :
              vnodes'[u].parent_is_mount => vnodes'[vnodes'[u].parent].mount = u,
           \A u \in Vnodes' : vnodes'[u].mount # NULL =>
              /\ vnodes'[u].mount \in Vnodes' \ {Root}
              /\ vnodes'[vnodes'[u].mount].parent_is_mount
              /\ Inherits(u)' => vnodes'[vnodes'[u].mount].parent = vnodes'[u].parent,
           \A u \in Vnodes' \ {Root} : \E p : p = vnodes'[u].parent /\ ~Inherits(p)',
           \A u \in Threads : cwd'[u] # NULL => \E p : p = cwd'[u] /\ ~Inherits(p)'
    PROVE  MountsRight'
<1>1. (\A u \in Vnodes \ {Root} : ~Inherits(vnodes[u].parent))'
  BY DEF Inherits
<1>2. (\A u \in Threads : cwd[u] # NULL => ~Inherits(cwd[u]))'
  BY DEF Inherits
<1> QED BY <1>1, <1>2 DEF MountsRight, IsMounted

\* What a step that links a vnode leaves.
Linked(t, dir, name, v) ==
    /\ creating[t] # NoCreate /\ creating[t].pc = "store"
    /\ dir = creating[t].dir /\ name = creating[t].name /\ v = Len(vnodes) + 1
    /\ dir \in Vnodes /\ name \in Names /\ ~Inherits(dir) /\ Checked(creating[t])
    /\ vnodes' \in Seq(VnodeRecords) /\ Len(vnodes') = v
    /\ children' \in Seq(Seq(Nat)) /\ Len(children') = v
    /\ Vnodes' = Vnodes \cup {v} /\ v \notin Vnodes /\ v \in Nat /\ v > 3
    /\ \A u \in Vnodes : u < v /\ vnodes'[u] = vnodes[u]
    /\ vnodes'[v].name = name /\ vnodes'[v].parent = dir /\ vnodes'[v].fs = "tmpfs"
    /\ vnodes'[v].mount \in {NULL, vnodes[dir].mount} /\ ~vnodes'[v].parent_is_mount
    /\ \A d \in Vnodes \ {dir} : children'[d] = children[d]
    /\ children'[dir] = Append(children[dir], v) /\ children'[v] = <<>>
    /\ fault = 0 /\ fault' = IF Len(children[dir]) < MAX_CHILDREN THEN 0 ELSE OVERRUN
    /\ creating' \in [Threads -> Creates] /\ creating'[t] = NoCreate
    /\ \A u \in Threads \ {t} : creating'[u] = creating[u]
    /\ overlapped' = overlapped \cup
          {<<dir, creating[u].name>> :
              u \in {w \in Threads \ {t} : creating[w].dir = dir /\ creating[w].pc # "mount"}}
    /\ cwd' = cwd

\* CreateStore leaves just that.
LEMMA LinkFacts ==
    ASSUME NameSpace, NEW t \in Threads, CreateStore(t)
    PROVE  \E dir, name, v : Linked(t, dir, name, v)
<1> PICK dir : dir = creating[t].dir
  OBVIOUS
<1> PICK name : name = creating[t].name
  OBVIOUS
<1> PICK v : v = Len(vnodes) + 1
  OBVIOUS
<1> PICK c : c = creating[t]
  OBVIOUS
<1> PICK node : node = NewVnode(c)
  OBVIOUS
<1>1. /\ Running /\ creating[t].pc = "store"
      /\ vnodes' = Append(vnodes, node)
      /\ children' = Append([children EXCEPT ![dir] = AddChild(@, v)], <<>>)
      /\ fault' = IF Len(children[dir]) < MAX_CHILDREN THEN 0 ELSE OVERRUN
      /\ creating' = [creating EXCEPT ![t] = NoCreate]
      /\ overlapped' = overlapped \cup
            {<<dir, creating[u].name>> :
                u \in {w \in Threads \ {t} : creating[w].dir = dir /\ creating[w].pc # "mount"}}
      /\ UNCHANGED cwd
  BY DEF CreateStore
<1>2. /\ dir \in Vnodes /\ name \in Names /\ ~Inherits(dir) /\ creating[t].isDir \in BOOLEAN
      /\ creating[t] # NoCreate /\ creating \in [Threads -> Creates]
  BY <1>1, CreatingFacts, NoCreateFacts
<1>3. Checked(creating[t]) /\ c.mount \in {NULL, vnodes[dir].mount}
  BY <1>1 DEF NameSpace, InProgress, Known
<1>4. /\ vnodes \in Seq(VnodeRecords) /\ children \in Seq(Seq(Nat))
      /\ Len(children) = Len(vnodes) /\ Len(vnodes) \in Nat /\ Len(vnodes) >= 3
      /\ Vnodes \subseteq Nat
  BY VnodeFacts DEF NameSpace, Typed, Older
<1>5. vnodes[dir].mount \in Nat /\ dir \in Nat /\ v \in Nat /\ v > 3
  BY <1>2, <1>4, VnodeFacts DEF NameSpace
<1>6. node \in VnodeRecords
  <2> PICK m \in Nat : m = c.mount
    BY <1>3, <1>5 DEF NULL
  <2> PICK isDir \in BOOLEAN : isDir = c.isDir
    BY <1>2
  <2>1. Vnode(name, isDir, "tmpfs", dir, m, FALSE) \in VnodeRecords
    BY <1>2, <1>5 DEF Vnode, VnodeRecords
  <2> QED BY <2>1 DEF NewVnode
<1>7. /\ node.name = name /\ node.parent = dir /\ node.fs = "tmpfs"
      /\ node.mount \in {NULL, vnodes[dir].mount} /\ ~node.parent_is_mount
  BY <1>3 DEF NewVnode, Vnode
<1>8. /\ vnodes' \in Seq(VnodeRecords) /\ Len(vnodes') = v /\ vnodes'[v] = node
      /\ \A u \in 1 .. Len(vnodes) : vnodes'[u] = vnodes[u]
  BY <1>1, <1>4, <1>6, AppendFacts
<1>9. Vnodes' = Vnodes \cup {v} /\ v \notin Vnodes /\ \A u \in Vnodes : u < v
  BY <1>4, <1>8 DEF Vnodes
<1> DEFINE mid == [children EXCEPT ![dir] = AddChild(@, v)]
<1>10. children[dir] \in Seq(Nat) /\ Append(children[dir], v) \in Seq(Nat)
  <2>1. children[dir] \in Seq(Nat)
    BY <1>2, VnodeFacts DEF NameSpace
  <2> QED BY <1>5, <2>1
<1>11. /\ mid \in Seq(Seq(Nat)) /\ Len(mid) = Len(vnodes)
       /\ mid[dir] = Append(children[dir], v)
       /\ \A d \in Vnodes \ {dir} : mid[d] = children[d]
  BY <1>2, <1>4, <1>10 DEF Vnodes, AddChild
<1> HIDE DEF mid
<1>12. <<>> \in Seq(Nat)
  OBVIOUS
<1>13. /\ children' \in Seq(Seq(Nat)) /\ Len(children') = v /\ children'[v] = <<>>
       /\ \A u \in 1 .. Len(vnodes) : children'[u] = mid[u]
  BY <1>1, <1>4, <1>11, <1>12, AppendFacts DEF mid
<1>14. /\ \A d \in Vnodes \ {dir} : children'[d] = children[d]
       /\ children'[dir] = Append(children[dir], v)
  BY <1>2, <1>11, <1>13 DEF Vnodes
<1>15. creating' \in [Threads -> Creates] /\ creating'[t] = NoCreate
       /\ \A u \in Threads \ {t} : creating'[u] = creating[u]
  BY <1>1, <1>2, NoCreateFacts
<1>16. \A u \in Vnodes : u < v /\ vnodes'[u] = vnodes[u]
  BY <1>8, <1>9 DEF Vnodes
<1>17. /\ vnodes'[v].name = name /\ vnodes'[v].parent = dir /\ vnodes'[v].fs = "tmpfs"
       /\ vnodes'[v].mount \in {NULL, vnodes[dir].mount} /\ ~vnodes'[v].parent_is_mount
  BY <1>7, <1>8
<1>18. fault = 0
  BY <1>1 DEF Running
<1>19. Linked(t, dir, name, v)
  BY <1>1, <1>2, <1>3, <1>5, <1>8, <1>9, <1>13, <1>14, <1>15, <1>16, <1>17, <1>18 DEF Linked
<1> QED BY <1>19

\* What is found in a directory stays, and only the new vnode is found besides.
LEMMA LinkNamed ==
    ASSUME NameSpace, NEW t, NEW dir, NEW name, NEW v, Linked(t, dir, name, v)
    PROVE  \A d \in Vnodes : \A nm :
              /\ Named(d, nm) \subseteq Named(d, nm)'
              /\ Named(d, nm)' \subseteq Named(d, nm) \cup {v}
              /\ d # dir => Named(d, nm)' = Named(d, nm)
<1>2. Placed /\ \A u \in Vnodes : children[u] \in Seq(Nat)
  BY VnodeFacts DEF NameSpace
<1>3. dir \in Vnodes
  BY DEF Linked
<1>4. v \in Nat /\ \A u \in Vnodes : vnodes'[u] = vnodes[u]
  BY DEF Linked
<1>6. /\ \A d \in Vnodes \ {dir} : children'[d] = children[d]
      /\ children'[dir] = Append(children[dir], v)
  BY DEF Linked
<1>10. /\ children[dir] \in Seq(Nat) /\ Len(children[dir]) \in Nat
       /\ DOMAIN children[dir] = 1 .. Len(children[dir])
       /\ DOMAIN children'[dir] = 1 .. Len(children[dir]) + 1
       /\ Len(children'[dir]) = Len(children[dir]) + 1
       /\ children'[dir][Len(children[dir]) + 1] = v
       /\ \A i \in DOMAIN children[dir] :
             i \in DOMAIN children'[dir] /\ children'[dir][i] = children[dir][i]
  <2> PICK list : list = children[dir]
    OBVIOUS
  <2>1. list \in Seq(Nat) /\ children'[dir] = Append(list, v)
    BY <1>2, <1>3, <1>6
  <2>2. /\ Len(list) \in Nat /\ DOMAIN list = 1 .. Len(list)
        /\ DOMAIN Append(list, v) = 1 .. Len(list) + 1
        /\ Len(Append(list, v)) = Len(list) + 1
        /\ Append(list, v)[Len(list) + 1] = v
        /\ \A i \in DOMAIN list : i \in DOMAIN Append(list, v) /\ Append(list, v)[i] = list[i]
    BY <1>4, <2>1
  <2> QED BY <2>1, <2>2, Zenon
<1>11. ASSUME NEW d \in Vnodes, NEW c \in ToSet(children[d])
       PROVE  vnodes'[c] = vnodes[c] /\ c \in ToSet(children'[d])
  <2>1. PICK i \in DOMAIN children[d] : c = children[d][i]
    BY <1>2, <1>11 DEF ToSet
  <2>2. c \in Vnodes
    BY <1>2, <2>1 DEF Placed
  <2>3. i \in DOMAIN children'[d] /\ children'[d][i] = c
    BY <1>6, <1>10, <2>1
  <2> QED BY <1>4, <2>2, <2>3 DEF ToSet
<1>12. ASSUME NEW d \in Vnodes \ {dir}, NEW nm PROVE Named(d, nm)' = Named(d, nm)
  <2>1. children'[d] = children[d] /\ vnodes'[d] = vnodes[d]
    BY <1>4, <1>6
  <2> QED BY <1>11, <2>1 DEF Named, tmpfs_lookup, initramfs_lookup
<1>13. ASSUME NEW d \in Vnodes, NEW nm PROVE Named(d, nm) \subseteq Named(d, nm)'
  BY <1>11 DEF Named, tmpfs_lookup, initramfs_lookup
<1>14. ASSUME NEW nm PROVE Named(dir, nm)' \subseteq Named(dir, nm) \cup {v}
  <2>1. ToSet(children'[dir]) \subseteq ToSet(children[dir]) \cup {v}
    <3> SUFFICES ASSUME NEW c \in ToSet(children'[dir]), c # v PROVE c \in ToSet(children[dir])
      OBVIOUS
    <3>1. PICK i \in DOMAIN children'[dir] : c = children'[dir][i]
      BY <1>10 DEF ToSet
    <3>2. i \in DOMAIN children[dir]
      BY <1>10, <3>1
    <3> QED BY <1>10, <3>1, <3>2 DEF ToSet
  <2> QED BY <1>3, <1>11, <2>1 DEF Named, tmpfs_lookup, initramfs_lookup
<1> QED BY <1>12, <1>13, <1>14

\* Linking a new vnode keeps the name space, also when its directory is full.
LEMMA LinkKeeps ==
    ASSUME NameSpace, NEW t \in Threads, CreateStore(t), UNCHANGED archive
    PROVE  NameSpace'
<1>1. PICK dir, name, v : Linked(t, dir, name, v)
  BY LinkFacts
<1>2. /\ Typed /\ Older /\ Placed /\ MountsRight /\ ArchiveKept /\ Bounded /\ InProgress /\ UniqueNames
      /\ Vnodes \subseteq Nat /\ Len(vnodes) \in Nat /\ NULL \notin Vnodes
      /\ {1, 2, 3} \subseteq Vnodes /\ Root \in Vnodes
      /\ \A u \in Vnodes : children[u] \in Seq(Nat)
  BY VnodeFacts, RootFacts DEF NameSpace
<1>3. /\ dir = creating[t].dir /\ name = creating[t].name /\ v = Len(vnodes) + 1
      /\ dir \in Vnodes /\ name \in Names /\ ~Inherits(dir) /\ creating[t] # NoCreate
  BY <1>1 DEF Linked
<1>4. /\ Vnodes' = Vnodes \cup {v} /\ v \notin Vnodes /\ v \in Nat /\ v > 3
      /\ \A u \in Vnodes : u < v /\ vnodes'[u] = vnodes[u]
      /\ Len(vnodes') = v
  BY <1>1 DEF Linked
<1>5. /\ vnodes'[v].name = name /\ vnodes'[v].parent = dir /\ vnodes'[v].fs = "tmpfs"
      /\ vnodes'[v].mount \in {NULL, vnodes[dir].mount} /\ ~vnodes'[v].parent_is_mount
  BY <1>1 DEF Linked
<1>6. /\ \A d \in Vnodes \ {dir} : children'[d] = children[d]
      /\ children'[dir] = Append(children[dir], v) /\ children'[v] = <<>>
  BY <1>1 DEF Linked
<1>7. /\ fault = 0 /\ fault' = IF Len(children[dir]) < MAX_CHILDREN THEN 0 ELSE OVERRUN
      /\ creating' \in [Threads -> Creates] /\ creating'[t] = NoCreate
      /\ \A u \in Threads \ {t} : creating'[u] = creating[u]
      /\ overlapped' = overlapped \cup
            {<<dir, creating[u].name>> :
                u \in {w \in Threads \ {t} : creating[w].dir = dir /\ creating[w].pc # "mount"}}
      /\ cwd' = cwd
  BY <1>1 DEF Linked
<1>8. /\ vnodes[dir].fs = "tmpfs" /\ vnodes[dir].dir
      /\ Named(dir, name) # {} => <<dir, name>> \in overlapped
      /\ Len(children[dir]) >= MAX_CHILDREN => overlapped # {}
  BY <1>1 DEF Linked, Checked
<1>9. dir # 3 /\ dir # v /\ Root # v
  BY <1>2, <1>3, <1>4, <1>8 DEF ArchiveKept
<1>10. /\ children[dir] \in Seq(Nat) /\ Len(children[dir]) \in Nat
       /\ DOMAIN children[dir] = 1 .. Len(children[dir])
       /\ DOMAIN children'[dir] = 1 .. Len(children[dir]) + 1
       /\ Len(children'[dir]) = Len(children[dir]) + 1
       /\ children'[dir][Len(children[dir]) + 1] = v
       /\ \A i \in DOMAIN children[dir] :
             i \in DOMAIN children'[dir] /\ children'[dir][i] = children[dir][i]
  <2> PICK list : list = children[dir]
    OBVIOUS
  <2>1. list \in Seq(Nat) /\ children'[dir] = Append(list, v)
    BY <1>2, <1>3, <1>6
  <2>2. /\ Len(list) \in Nat /\ DOMAIN list = 1 .. Len(list)
        /\ DOMAIN Append(list, v) = 1 .. Len(list) + 1
        /\ Len(Append(list, v)) = Len(list) + 1
        /\ Append(list, v)[Len(list) + 1] = v
        /\ \A i \in DOMAIN list : i \in DOMAIN Append(list, v) /\ Append(list, v)[i] = list[i]
    BY <1>4, <2>1
  <2> QED BY <2>1, <2>2, Zenon
<1>11. \A c \in overlapped : c \in Vnodes' \X Names
  BY <1>2, <1>4 DEF Typed
<1>12. Typed'
  <2>1. \A u \in Threads :
           creating[u].dir = dir /\ creating[u].pc # "mount" => creating[u].name \in Names
    BY <1>2, <1>3, CreatingFacts
  <2>2. overlapped' \subseteq Vnodes' \X Names
    BY <1>3, <1>4, <1>7, <1>11, <2>1
  <2>3. \A u \in Threads : cwd'[u] <= Len(vnodes')
    <3>1. ASSUME NEW u \in Threads PROVE cwd'[u] <= Len(vnodes')
      <4>1. cwd[u] \in Nat /\ cwd[u] <= Len(vnodes)
        BY <1>2 DEF Typed
      <4> QED BY <1>2, <1>3, <1>4, <1>7, <4>1
    <3> QED BY <3>1
  <2>4. cwd' \in [Threads -> Nat] /\ archive' \in Archives
    BY <1>2, <1>7 DEF Typed
  <2>5. fault' \in {0, OVERRUN}
    BY <1>7
  <2>6. vnodes' \in Seq(VnodeRecords) /\ children' \in Seq(Seq(Nat)) /\ Len(children') = Len(vnodes')
    BY <1>1 DEF Linked
  <2> QED BY <1>7, <2>2, <2>3, <2>4, <2>5, <2>6 DEF Typed
<1>13. Older'
  <2>1. Len(vnodes') >= 3
    BY <1>4
  <2>2. vnodes'[Root].parent = NULL /\ IsMounted(Root)'
    BY <1>2, <1>4 DEF Older, IsMounted
  <2>3. \A u \in Vnodes' \ {Root} : vnodes'[u].parent \in Vnodes' /\ vnodes'[u].parent < u
    <3>1. ASSUME NEW u \in Vnodes' \ {Root}
          PROVE  vnodes'[u].parent \in Vnodes' /\ vnodes'[u].parent < u
      <4>1. CASE u = v
        BY <1>3, <1>4, <1>5, <4>1
      <4>2. CASE u \in Vnodes
        BY <1>2, <1>4, <4>2 DEF Older
      <4> QED BY <1>4, <4>1, <4>2
    <3> QED BY <3>1
  <2> QED BY <2>1, <2>2, <2>3 DEF Older
<1>14. Placed'
  <2>1. ASSUME NEW d \in Vnodes', NEW i \in DOMAIN children'[d]
        PROVE  /\ children'[d][i] \in Vnodes' \ {Root}
               /\ vnodes'[children'[d][i]].parent = d
               /\ ~vnodes'[children'[d][i]].parent_is_mount
               /\ vnodes'[children'[d][i]].name \in Names
               /\ vnodes'[d].dir
               /\ \A j \in DOMAIN children'[d] : i < j => children'[d][i] < children'[d][j]
    <3>1. ASSUME NEW b \in Vnodes, NEW k \in DOMAIN children[b]
          PROVE  /\ children[b][k] \in Vnodes \ {Root}
                 /\ children[b][k] \in Vnodes' \ {Root}
                 /\ vnodes'[children[b][k]].parent = b
                 /\ ~vnodes'[children[b][k]].parent_is_mount
                 /\ vnodes'[children[b][k]].name \in Names
                 /\ vnodes'[b].dir
                 /\ \A j \in DOMAIN children[b] : k < j => children[b][k] < children[b][j]
      <4>1. children[b][k] \in Vnodes
        BY <1>2 DEF Placed
      <4>2. vnodes'[children[b][k]] = vnodes[children[b][k]] /\ vnodes'[b] = vnodes[b]
        BY <1>4, <4>1
      <4> QED BY <1>2, <1>4, <4>1, <4>2 DEF Placed, IsMounted
    <3>2. CASE d = v
      BY <1>6, <3>2
    <3>3. CASE d \in Vnodes \ {dir}
      <4>1. children'[d] = children[d]
        BY <1>6, <3>3
      <4> QED BY <3>1, <3>3, <4>1
    <3>4. CASE d = dir
      <4>1. CASE i \in DOMAIN children[dir]
        <5>1. children'[d][i] = children[dir][i]
          BY <1>10, <3>4, <4>1
        <5>2. children[dir][i] < v
          BY <1>3, <1>4, <3>1, <4>1
        <5>3. ASSUME NEW j \in DOMAIN children'[d], i < j PROVE children'[d][i] < children'[d][j]
          <6>1. CASE j \in DOMAIN children[dir]
            BY <1>3, <1>10, <3>1, <3>4, <4>1, <5>1, <5>3, <6>1
          <6>2. CASE j \notin DOMAIN children[dir]
            <7>1. j = Len(children[dir]) + 1
              BY <1>10, <3>4, <6>2
            <7> QED BY <1>10, <3>4, <5>1, <5>2, <7>1
          <6> QED BY <6>1, <6>2
        <5> QED BY <1>3, <3>1, <3>4, <4>1, <5>1, <5>3
      <4>2. CASE i \notin DOMAIN children[dir]
        <5>1. i = Len(children[dir]) + 1 /\ children'[d][i] = v
          BY <1>10, <3>4, <4>2
        <5>2. \A j \in DOMAIN children'[d] : ~(i < j)
          BY <1>10, <3>4, <5>1
        <5>3. vnodes'[dir].dir
          BY <1>3, <1>4, <1>8
        <5> QED BY <1>3, <1>4, <1>5, <1>9, <3>4, <5>1, <5>2, <5>3
      <4> QED BY <4>1, <4>2
    <3> QED BY <1>4, <3>2, <3>3, <3>4
  <2>2. ASSUME NEW u \in Vnodes' \ {Root}, ~vnodes'[u].parent_is_mount
        PROVE  \E i \in DOMAIN children'[vnodes'[u].parent] : children'[vnodes'[u].parent][i] = u
    <3>1. CASE u = v
      <4>1. Len(children[dir]) + 1 \in DOMAIN children'[dir]
        BY <1>10
      <4> QED BY <1>5, <1>10, <3>1, <4>1
    <3>2. CASE u \in Vnodes
      <4>1. vnodes'[u] = vnodes[u] /\ vnodes[u].parent \in Vnodes /\ ~IsMounted(u)
        BY <1>2, <1>4, <2>2, <3>2 DEF Older, IsMounted
      <4>2. PICK i \in DOMAIN children[vnodes[u].parent] : children[vnodes[u].parent][i] = u
        BY <1>2, <3>2, <4>1 DEF Placed
      <4>3. CASE vnodes[u].parent = dir
        <5>1. i \in DOMAIN children'[dir] /\ children'[dir][i] = u
          BY <1>10, <4>2, <4>3
        <5> QED BY <4>1, <4>3, <5>1
      <4>4. CASE vnodes[u].parent # dir
        <5>1. children'[vnodes[u].parent] = children[vnodes[u].parent]
          BY <1>6, <4>1, <4>4
        <5> QED BY <4>1, <4>2, <5>1
      <4> QED BY <4>3, <4>4
    <3> QED BY <1>4, <3>1, <3>2
  <2> QED BY <2>1, <2>2 DEF Placed, IsMounted
<1>15. \A u \in Vnodes : Inherits(u)' <=> Inherits(u)
  <2>1. ASSUME NEW u \in Vnodes PROVE Inherits(u)' <=> Inherits(u)
    <3>1. vnodes'[u].mount = vnodes[u].mount
      BY <1>4
    <3>2. vnodes[u].mount # NULL => vnodes[u].mount \in Vnodes
      BY <1>2 DEF MountsRight
    <3> QED BY <1>4, <3>1, <3>2 DEF Inherits
  <2> QED BY <2>1
<1>16. MountsRight'
  <2> DEFINE m == vnodes[dir].mount
  <2>0. m # NULL => m \in Vnodes \ {Root} /\ IsMounted(m) /\ vnodes[m].parent = dir
    BY <1>2, <1>3 DEF MountsRight, Inherits
  <2>1. \A u \in Vnodes' : vnodes'[u].parent_is_mount => vnodes'[u].mount = NULL /\ vnodes'[u].dir
    <3>1. \A u \in Vnodes' : vnodes'[u].parent_is_mount => u \in Vnodes /\ vnodes'[u] = vnodes[u]
      BY <1>4, <1>5
    <3> QED BY <1>2, <3>1 DEF MountsRight, IsMounted
  <2>2. \A u \in Vnodes' \ {Root} : vnodes'[u].parent_is_mount => vnodes'[vnodes'[u].parent].mount = u
    <3>1. ASSUME NEW u \in Vnodes' \ {Root}, vnodes'[u].parent_is_mount
          PROVE  vnodes'[vnodes'[u].parent].mount = u
      <4>1. u \in Vnodes /\ IsMounted(u) /\ vnodes'[u] = vnodes[u]
        BY <1>4, <1>5, <3>1 DEF IsMounted
      <4>2. vnodes[u].parent \in Vnodes /\ vnodes[vnodes[u].parent].mount = u
        BY <1>2, <4>1, <3>1 DEF Older, MountsRight
      <4> QED BY <1>4, <4>1, <4>2
    <3> QED BY <3>1
  <2>3. \A u \in Vnodes' : vnodes'[u].mount # NULL =>
          /\ vnodes'[u].mount \in Vnodes' \ {Root}
          /\ vnodes'[vnodes'[u].mount].parent_is_mount
          /\ Inherits(u)' => vnodes'[vnodes'[u].mount].parent = vnodes'[u].parent
    <3>1. ASSUME NEW u \in Vnodes, vnodes'[u].mount # NULL
          PROVE  /\ vnodes'[u].mount \in Vnodes' \ {Root}
                 /\ vnodes'[vnodes'[u].mount].parent_is_mount
                 /\ Inherits(u)' => vnodes'[vnodes'[u].mount].parent = vnodes'[u].parent
      <4>1. vnodes'[u] = vnodes[u]
        BY <1>4
      <4>2. /\ vnodes[u].mount \in Vnodes \ {Root} /\ IsMounted(vnodes[u].mount)
            /\ Inherits(u) => vnodes[vnodes[u].mount].parent = vnodes[u].parent
        BY <1>2, <3>1, <4>1 DEF MountsRight
      <4>3. vnodes'[vnodes[u].mount] = vnodes[vnodes[u].mount]
        BY <1>4, <4>2
      <4> QED BY <1>4, <1>15, <4>1, <4>2, <4>3 DEF IsMounted
    <3>2. vnodes'[v].mount # NULL =>
             /\ vnodes'[v].mount \in Vnodes' \ {Root}
             /\ vnodes'[vnodes'[v].mount].parent_is_mount
             /\ vnodes'[vnodes'[v].mount].parent = vnodes'[v].parent
      BY <1>4, <1>5, <2>0 DEF IsMounted
    <3> QED BY <1>4, <3>1, <3>2
  <2>4. \A u \in Vnodes' \ {Root} : \E p : p = vnodes'[u].parent /\ ~Inherits(p)'
    <3>1. ASSUME NEW u \in Vnodes' \ {Root}
          PROVE  \E p \in Vnodes : p = vnodes'[u].parent /\ ~Inherits(p)
      <4>1. CASE u = v
        BY <1>3, <1>5, <4>1
      <4>2. CASE u \in Vnodes
        <5>1. vnodes'[u] = vnodes[u]
          BY <1>4, <4>2
        <5> QED BY <1>2, <4>2, <5>1 DEF Older, MountsRight
      <4> QED BY <1>4, <4>1, <4>2
    <3> QED BY <1>15, <3>1
  <2>5. \A u \in Threads : cwd'[u] # NULL => \E p : p = cwd'[u] /\ ~Inherits(p)'
    <3>1. ASSUME NEW u \in Threads, cwd[u] # NULL
          PROVE  \E p \in Vnodes : p = cwd[u] /\ ~Inherits(p)
      <4>1. cwd[u] \in Nat /\ cwd[u] <= Len(vnodes)
        BY <1>2 DEF Typed
      <4>2. cwd[u] \in Vnodes
        BY <1>2, <3>1, <4>1 DEF Vnodes, NULL
      <4> QED BY <1>2, <3>1, <4>2 DEF MountsRight
    <3> QED BY <1>7, <1>15, <3>1
  <2> QED BY <2>1, <2>2, <2>3, <2>4, <2>5, MountsRightAfter
<1>17. ArchiveKept'
  <2>1. /\ vnodes'[Root] = vnodes[Root] /\ vnodes'[2] = vnodes[2] /\ vnodes'[3] = vnodes[3]
        /\ children'[3] = children[3]
    BY <1>2, <1>4, <1>6, <1>9
  <2>2. children'[Root] # <<>> /\ children'[Root][1] = 2
    <3>1. CASE dir = Root
      <4>1. children[dir] # <<>> /\ children[dir][1] = 2
        BY <1>2, <3>1 DEF ArchiveKept
      <4>2. 1 \in DOMAIN children[dir]
        BY <1>10, <4>1
      <4>3. 1 \in DOMAIN children'[dir] /\ children'[dir][1] = 2
        BY <1>10, <4>1, <4>2
      <4>4. children'[dir] # <<>>
        BY <4>3
      <4> QED BY <3>1, <4>3, <4>4
    <3>2. CASE dir # Root
      BY <1>2, <1>6, <3>2 DEF ArchiveKept
    <3> QED BY <3>1, <3>2
  <2>4. ~(Len(archive) > MAX_CHILDREN) /\ ~TooLong(archive)
    BY <1>2, <1>7 DEF ArchiveKept, OVERRUN
  <2>3. /\ children[3] = [k \in 1 .. Len(archive) |-> 3 + k]
        /\ \A k \in 1 .. Len(archive) :
              3 + k \in Vnodes' /\ vnodes'[3 + k].name = Prefix[archive[k].name]
    BY <1>2, <1>4, <2>4 DEF ArchiveKept
  <2> QED BY <1>2, <2>1, <2>2, <2>3, <2>4 DEF ArchiveKept, IsMounted, TooLong
<1>18. Bounded'
  <2>1. Inside' = Inside \ {t} /\ t \in Inside
    BY <1>3, <1>7 DEF Inside
  <2>2. Cardinality(Inside') = Cardinality(Inside) - 1
    BY <2>1, InsideFacts, FS_RemoveElement
  <2>3. Len(vnodes) + Cardinality(Inside) <= MaxVnodes
    BY <1>2 DEF Bounded, Inside
  <2>4. v + Cardinality(Inside') <= MaxVnodes
    <3> PICK k \in Nat : k = Cardinality(Inside)
      BY InsideFacts
    <3>1. Cardinality(Inside') = k - 1 /\ Len(vnodes) + k <= MaxVnodes
      BY <2>2, <2>3
    <3>2. Len(vnodes) + 1 + (k - 1) = Len(vnodes) + k
      BY <1>2
    <3> QED BY <1>3, <3>1, <3>2
  <2>5. (Len(vnodes) + Cardinality({u \in Threads : creating[u] # NoCreate}) <= MaxVnodes)'
    BY <1>4, <2>4 DEF Inside
  <2>6. FullChecked'
    <3>1. MAX_CHILDREN \in Nat
      BY VfsAssumption
    <3>2. fault' = OVERRUN => overlapped' # {}
      BY <1>7, <1>8, <1>10, <3>1 DEF OVERRUN
    <3> QED BY <3>2 DEF FullChecked
  <2>7. fault' # OVERRUN => \A d \in Vnodes' : Len(children'[d]) <= MAX_CHILDREN
    <3> SUFFICES ASSUME fault' # OVERRUN, NEW d \in Vnodes' PROVE Len(children'[d]) <= MAX_CHILDREN
      OBVIOUS
    <3>1. MAX_CHILDREN \in Nat /\ fault # OVERRUN
      BY <1>7, VfsAssumption DEF OVERRUN
    <3>2. CASE d = v
      <4>1. Len(children'[d]) = 0
        BY <1>6, <3>2
      <4> QED BY <3>1, <4>1
    <3>3. CASE d = dir
      BY <1>7, <1>10, <3>1, <3>3
    <3>4. CASE d \in Vnodes \ {dir}
      BY <1>2, <1>6, <3>1, <3>4 DEF Bounded
    <3> QED BY <1>4, <3>2, <3>3, <3>4
  <2> QED BY <2>5, <2>6, <2>7 DEF Bounded
\* What is found in a directory of before
<1>19. /\ \A d \in Vnodes \ {dir} : \A nm : Named(d, nm)' = Named(d, nm)
       /\ \A nm : Named(dir, nm)' \subseteq Named(dir, nm) \cup {v}
  BY <1>1, <1>3, LinkNamed
<1>20. InProgress'
  <2>1. Known(NoCreate)'
    BY <1>4, NoCreateFacts DEF Known, NULL
  <2>2. ASSUME NEW u \in Threads \ {t} PROVE \E f : creating'[u] = f /\ Known(f)'
    <3> PICK f : f = creating[u]
      OBVIOUS
    <3>1. creating'[u] = f /\ Known(f) /\ f.vnode \in Vnodes \cup {NULL}
      BY <1>2, <1>7, CreatingFacts DEF InProgress
    <3>2. f.vnode <= Len(vnodes')
      <4> PICK k : k = f.vnode
        OBVIOUS
      <4>1. k \in Vnodes => k \in Nat /\ k < v
        BY <1>2, <1>4
      <4>2. k = NULL => k \in Nat /\ k < v
        BY <1>4 DEF NULL
      <4>3. k \in Nat /\ k < v
        BY <3>1, <4>1, <4>2
      <4>4. k <= Len(vnodes')
        BY <1>4, <4>3
      <4> QED BY <4>4
    <3>3. f.pc # "none" => Wanted(f)'
      BY <1>4, <1>15, <3>1 DEF Known, Wanted, IsMounted
    <3>4. ASSUME f.pc \in {"link", "store"} PROVE Checked(f)'
      <4>1. Checked(f) /\ f.dir \in Vnodes
        BY <3>1, <3>4 DEF Known, Wanted
      <4>2. vnodes'[f.dir] = vnodes[f.dir]
        BY <1>4, <4>1
      <4>3. CASE f.dir = dir
        <5>1. <<dir, f.name>> \in overlapped'
          BY <1>7, <3>4, <4>3
        <5> QED BY <4>1, <4>2, <4>3, <5>1 DEF Checked
      <4>4. CASE f.dir # dir
        <5>1. Named(f.dir, f.name)' = Named(f.dir, f.name) /\ children'[f.dir] = children[f.dir]
          BY <1>6, <1>19, <4>1, <4>4
        <5>2. overlapped \subseteq overlapped'
          BY <1>7
        <5> QED BY <4>1, <4>2, <5>1, <5>2 DEF Checked
      <4> QED BY <4>3, <4>4
    <3>5. f.pc = "store" => f.mount \in {NULL, vnodes'[f.dir].mount}
      BY <1>4, <3>1 DEF Known, Wanted
    <3> QED BY <3>1, <3>2, <3>3, <3>4, <3>5 DEF Known
  <2>3. \A u \in Threads : \E f : creating'[u] = f /\ Known(f)'
    BY <1>7, <2>1, <2>2
  <2> QED BY <2>3, InProgressAfter
<1>21. UniqueNames'
  <2> SUFFICES ASSUME NEW d \in Vnodes', NEW i \in DOMAIN children'[d], NEW j \in DOMAIN children'[d],
                      vnodes'[d].fs = "tmpfs", i # j,
                      vnodes'[children'[d][i]].name = vnodes'[children'[d][j]].name
               PROVE  <<d, vnodes'[children'[d][i]].name>> \in overlapped'
    BY DEF UniqueNames
  <2>1. overlapped \subseteq overlapped'
    BY <1>7
  <2>2. \A b \in Vnodes : \A k \in DOMAIN children[b] :
           vnodes'[children[b][k]] = vnodes[children[b][k]] /\ vnodes'[b] = vnodes[b]
    BY <1>2, <1>4 DEF Placed
  <2>a. \A b \in Vnodes : \A k, l \in DOMAIN children[b] :
           (vnodes[b].fs = "tmpfs" /\ k # l /\ vnodes[children[b][k]].name = vnodes[children[b][l]].name)
              => <<b, vnodes[children[b][k]].name>> \in overlapped
    BY <1>2 DEF UniqueNames
  <2>3. CASE d = v
    BY <1>6, <2>3
  <2>4. CASE d \in Vnodes \ {dir}
    <3>1. children'[d] = children[d]
      BY <1>6, <2>4
    <3> QED BY <2>1, <2>2, <2>4, <2>a, <3>1
  <2>5. CASE d = dir
    <3>0. /\ \A k \in DOMAIN children[dir] : children'[d][k] = children[dir][k]
          /\ \A k \in DOMAIN children'[d] : k \notin DOMAIN children[dir] => children'[d][k] = v
      <4>1. \A k \in DOMAIN children'[dir] :
               k \notin DOMAIN children[dir] => k = Len(children[dir]) + 1
        BY <1>10
      <4> QED BY <1>10, <2>5, <4>1
    \* the new name is there already
    <3>1. ASSUME NEW k \in DOMAIN children[dir], vnodes[children[dir][k]].name = name
          PROVE  <<dir, name>> \in overlapped
      <4>1. children[dir][k] \in ToSet(children[dir])
        BY <1>10 DEF ToSet
      <4>2. children[dir][k] \in Named(dir, name)
        BY <3>1, <4>1 DEF Named, tmpfs_lookup, initramfs_lookup
      <4> QED BY <1>8, <4>2
    <3>2. CASE i \in DOMAIN children[dir] /\ j \in DOMAIN children[dir]
      <4>1. children'[d][i] = children[dir][i] /\ children'[d][j] = children[dir][j]
        BY <3>0, <3>2
      <4> QED BY <1>3, <2>1, <2>2, <2>5, <2>a, <3>2, <4>1
    <3>3. CASE i \in DOMAIN children[dir] /\ j \notin DOMAIN children[dir]
      <4>1. children'[d][i] = children[dir][i] /\ children'[d][j] = v
        BY <3>0, <3>3
      <4> QED BY <1>3, <1>5, <2>1, <2>2, <2>5, <3>1, <3>3, <4>1
    <3>4. CASE i \notin DOMAIN children[dir] /\ j \in DOMAIN children[dir]
      <4>1. children'[d][i] = v /\ children'[d][j] = children[dir][j]
        BY <3>0, <3>4
      <4> QED BY <1>3, <1>5, <2>1, <2>2, <2>5, <3>1, <3>4, <4>1
    <3>5. CASE i \notin DOMAIN children[dir] /\ j \notin DOMAIN children[dir]
      BY <1>10, <2>5, <3>5
    <3> QED BY <3>2, <3>3, <3>4, <3>5
  <2> QED BY <1>4, <2>3, <2>4, <2>5
<1> QED BY <1>12, <1>13, <1>14, <1>16, <1>17, <1>18, <1>20, <1>21 DEF NameSpace

\* What a step that mounts on v leaves; m is the new root.
MountedOn(v, m) ==
    /\ m = Len(vnodes) + 1 /\ m \in Nat /\ m > 3
    /\ v \in Vnodes \ {Root} /\ vnodes[v].mount = NULL /\ ~IsMounted(v)
    /\ vnodes' \in Seq(VnodeRecords) /\ Len(vnodes') = m
    /\ children' \in Seq(Seq(Nat)) /\ Len(children') = m
    /\ Vnodes' = Vnodes \cup {m} /\ m \notin Vnodes
    /\ \A u \in Vnodes : u < m /\ children'[u] = children[u]
    /\ \A u \in Vnodes \ {v} : vnodes'[u] = vnodes[u]
    /\ vnodes'[v].mount = m /\ vnodes'[v].name = vnodes[v].name
    /\ vnodes'[v].dir = vnodes[v].dir /\ vnodes'[v].fs = vnodes[v].fs
    /\ vnodes'[v].parent = vnodes[v].parent /\ ~vnodes'[v].parent_is_mount
    /\ vnodes'[m].parent = v /\ vnodes'[m].mount = NULL /\ vnodes'[m].dir
    /\ vnodes'[m].parent_is_mount /\ children'[m] = <<>>

\* What a vnode more makes of a list of vnodes
LEMMA Appended ==
    \A s \in Seq(VnodeRecords) : \A e \in VnodeRecords : \A q :
        q = Append(s, e) =>
           /\ q \in Seq(VnodeRecords) /\ Len(q) = Len(s) + 1 /\ q[Len(s) + 1] = e
           /\ \A i \in 1 .. Len(s) : q[i] = s[i]
  OBVIOUS

\* Mounted leaves just that.
LEMMA MountFacts ==
    ASSUME NameSpace, NEW v \in Vnodes, vnodes[v].mount = NULL, ~vnodes[v].parent_is_mount,
           Mounted(v)
    PROVE  \E m : MountedOn(v, m)
<1> PICK m : m = Len(vnodes) + 1
  OBVIOUS
<1> PICK root : root = Vnode("/", TRUE, "tmpfs", v, NULL, TRUE)
  OBVIOUS
<1>1. /\ vnodes \in Seq(VnodeRecords) /\ children \in Seq(Seq(Nat))
      /\ Len(children) = Len(vnodes) /\ Len(vnodes) \in Nat /\ Len(vnodes) >= 3
      /\ v \in Nat /\ m \in Nat /\ m > 3 /\ v \in 1 .. Len(vnodes)
  BY VnodeFacts DEF NameSpace, Typed, Older, Vnodes
<1>2. root \in VnodeRecords
  <2>1. NULL \in Nat
    BY DEF NULL
  <2> QED BY <1>1, <2>1 DEF Vnode, VnodeRecords
<1> PICK old : old = vnodes[v]
  OBVIOUS
<1> PICK new : new = [old EXCEPT !.mount = m]
  OBVIOUS
<1>3. old \in VnodeRecords
  BY VnodeFacts DEF NameSpace
<1>4. /\ new \in VnodeRecords /\ new.mount = m /\ new.name = old.name /\ new.dir = old.dir
      /\ new.fs = old.fs /\ new.parent = old.parent
      /\ new.parent_is_mount = old.parent_is_mount
  BY <1>1, <1>3 DEF VnodeRecords
<1> DEFINE mid == [vnodes EXCEPT ![v] = new]
<1>5. vnodes' = Append(mid, root) /\ children' = Append(children, <<>>)
  BY DEF Mounted
<1>6. /\ mid \in Seq(VnodeRecords) /\ Len(mid) = Len(vnodes) /\ mid[v] = new
      /\ \A u \in 1 .. Len(vnodes) : u # v => mid[u] = vnodes[u]
  <2>1. \A u \in 1 .. Len(vnodes) : mid[u] = IF u = v THEN new ELSE vnodes[u]
    BY <1>1
  <2>2. mid \in Seq(VnodeRecords) /\ Len(mid) = Len(vnodes)
    <3> HIDE DEF VnodeRecords
    <3> QED BY <1>1, <1>4
  <2> QED BY <1>1, <2>1, <2>2
<1> HIDE DEF mid
<1>7. /\ vnodes' \in Seq(VnodeRecords) /\ Len(vnodes') = m /\ vnodes'[m] = root
      /\ \A u \in 1 .. Len(vnodes) : vnodes'[u] = mid[u]
  <2>1. /\ vnodes' \in Seq(VnodeRecords) /\ Len(vnodes') = Len(mid) + 1
        /\ vnodes'[Len(mid) + 1] = root
        /\ \A u \in 1 .. Len(mid) : vnodes'[u] = mid[u]
    <3>3. \A q : q = Append(mid, root) =>
             /\ q \in Seq(VnodeRecords) /\ Len(q) = Len(mid) + 1 /\ q[Len(mid) + 1] = root
             /\ \A u \in 1 .. Len(mid) : q[u] = mid[u]
      BY <1>2, <1>6, Appended, Zenon
    <3>4. vnodes' = Append(mid, root)
      BY <1>5
    <3> QED BY <3>3, <3>4, Zenon
  <2> QED BY <1>6, <2>1
<1>8. <<>> \in Seq(Nat)
  OBVIOUS
<1>9. /\ children' \in Seq(Seq(Nat)) /\ Len(children') = m /\ children'[m] = <<>>
      /\ \A u \in 1 .. Len(vnodes) : children'[u] = children[u]
  BY <1>1, <1>5, <1>8, AppendFacts
<1>10. Vnodes' = Vnodes \cup {m} /\ m \notin Vnodes /\ \A u \in Vnodes : u < m
  BY <1>1, <1>7 DEF Vnodes
<1>11. v # Root
  BY DEF NameSpace, Older, IsMounted
<1>12. /\ root.parent = v /\ root.mount = NULL /\ root.dir /\ root.parent_is_mount
  BY DEF Vnode
<1>13. vnodes'[v] = new /\ \A u \in Vnodes \ {v} : vnodes'[u] = vnodes[u]
  BY <1>1, <1>6, <1>7 DEF Vnodes
<1>14. \A u \in Vnodes : u < m /\ children'[u] = children[u]
  BY <1>9, <1>10 DEF Vnodes
<1>15. MountedOn(v, m)
  BY <1>1, <1>4, <1>7, <1>9, <1>10, <1>11, <1>12, <1>13, <1>14 DEF MountedOn, IsMounted
<1> QED BY <1>15

\* A mount is stored only on a vnode without one, which is no root.
LEMMA MountStep ==
    ASSUME NameSpace, NEW t \in Threads, MountStore(t)
    PROVE  /\ Running /\ creating[t].pc = "mount" /\ creating[t] # NoCreate
           /\ UNCHANGED <<cwd, overlapped, fault>>
           /\ creating' \in [Threads -> Creates] /\ creating'[t] = NoCreate
           /\ \A u \in Threads \ {t} : creating'[u] = creating[u]
           /\ \E v, m : MountedOn(v, m)
<1> PICK c : c = creating[t]
  OBVIOUS
<1>1. /\ Running /\ c.pc = "mount" /\ vnodes[c.dir].mount = NULL /\ Mounted(c.dir)
      /\ creating' = [creating EXCEPT ![t] = NoCreate] /\ UNCHANGED <<cwd, overlapped, fault>>
  BY DEF MountStore
<1>2. creating \in [Threads -> Creates] /\ Known(c) /\ c # NoCreate
  BY <1>1, CreatingFacts, NoCreateFacts DEF NameSpace, InProgress
<1>3. c.dir \in Vnodes /\ ~vnodes[c.dir].parent_is_mount
  BY <1>1, <1>2 DEF Known, Wanted, IsMounted
<1>4. \E v, m : MountedOn(v, m)
  BY <1>1, <1>3, MountFacts
<1> QED BY <1>1, <1>2, <1>4, NoCreateFacts

\* A mount that passes its check keeps the name space.
LEMMA MountCallKeeps ==
    ASSUME NameSpace, NEW t \in Threads, sys_mount(t), UNCHANGED archive
    PROVE  /\ NameSpace'
           /\ UNCHANGED <<vnodes, children, cwd, overlapped, fault>>
           /\ \E c : creating' = [creating EXCEPT ![t] = c] /\ c.pc = "mount"
<1>1. PICK path \in Paths[t] : /\ Ready(t) /\ Room
                               /\ vfs_mount(t, vfs_lookup(cwd[t], path))
  BY DEF sys_mount
<1> PICK r : r = vfs_lookup(cwd[t], path)
  OBVIOUS
<1> PICK d : d = r.v
  OBVIOUS
<1> DEFINE c == Create("mount", d, "/", TRUE, NULL)
<1> HIDE DEF c
<1>2. /\ Running /\ r.err = 0 /\ ~vnodes[d].parent_is_mount
      /\ creating' = [creating EXCEPT ![t] = c]
      /\ UNCHANGED <<vnodes, children, cwd, overlapped, fault>>
  BY <1>1 DEF vfs_mount, Ready, c
<1>3. cwd[t] \in Vnodes \cup {NULL} /\ (cwd[t] # NULL => ~Inherits(cwd[t]))
  <2>1. cwd[t] \in Nat /\ cwd[t] <= Len(vnodes) /\ Len(vnodes) \in Nat
    BY VnodeFacts DEF NameSpace, Typed
  <2> QED BY <2>1 DEF NameSpace, MountsRight, Vnodes, NULL
<1>4. path.comps \in Seq(Components)
  <2>1. path \in [abs : BOOLEAN, comps : Seq(Components)]
    BY VfsAssumption
  <2> QED BY <2>1
<1>5. d \in Vnodes /\ ~Inherits(d)
  BY <1>2, <1>3, <1>4, LookupFacts
<1>6. c \in Creates /\ c.pc = "mount" /\ c.dir = d /\ c.vnode <= Len(vnodes)
  <2>1. d \in Nat /\ Len(vnodes) \in Nat
    BY <1>5, VnodeFacts DEF NameSpace
  <2>2. c.pc = "mount" /\ c.dir = d /\ c.vnode = 0
    BY DEF Create, NULL, c
  <2>3. c \in Creates
    BY <2>1 DEF Create, Creates, NULL, c
  <2> QED BY <2>1, <2>2, <2>3
<1>7. Known(c)
  BY <1>2, <1>5, <1>6 DEF Known, Wanted, IsMounted
<1>8. NameSpace'
  BY <1>1, <1>2, <1>6, <1>7, CreatingKeeps DEF Running
<1> QED BY <1>2, <1>6, <1>8

\* All but the mount of v is as it was.
LEMMA MountQuiet ==
    ASSUME NameSpace, NEW v, NEW m, MountedOn(v, m)
    PROVE  /\ \A u \in Vnodes :
                 /\ vnodes'[u].name = vnodes[u].name /\ vnodes'[u].dir = vnodes[u].dir
                 /\ vnodes'[u].fs = vnodes[u].fs /\ vnodes'[u].parent = vnodes[u].parent
                 /\ vnodes'[u].parent_is_mount <=> vnodes[u].parent_is_mount
                 /\ u # v => vnodes'[u].mount = vnodes[u].mount
           /\ \A d \in Vnodes : \A nm : Named(d, nm)' = Named(d, nm)
<1>3. Placed /\ \A u \in Vnodes : children[u] \in Seq(Nat)
  BY VnodeFacts DEF NameSpace
<1>4. v \in Vnodes \ {Root} /\ ~IsMounted(v)
  BY DEF MountedOn
<1>5. /\ \A u \in Vnodes : children'[u] = children[u]
      /\ \A u \in Vnodes \ {v} : vnodes'[u] = vnodes[u]
  BY DEF MountedOn
<1>6. /\ vnodes'[v].mount = m /\ vnodes'[v].name = vnodes[v].name
      /\ vnodes'[v].dir = vnodes[v].dir /\ vnodes'[v].fs = vnodes[v].fs
      /\ vnodes'[v].parent = vnodes[v].parent /\ ~vnodes'[v].parent_is_mount
  BY DEF MountedOn
<1>8. \A u \in Vnodes : /\ vnodes'[u].name = vnodes[u].name /\ vnodes'[u].dir = vnodes[u].dir
                        /\ vnodes'[u].fs = vnodes[u].fs /\ vnodes'[u].parent = vnodes[u].parent
                        /\ vnodes'[u].parent_is_mount <=> vnodes[u].parent_is_mount
                        /\ u # v => vnodes'[u].mount = vnodes[u].mount
  <2>1. ASSUME NEW u \in Vnodes
        PROVE  /\ vnodes'[u].name = vnodes[u].name /\ vnodes'[u].dir = vnodes[u].dir
               /\ vnodes'[u].fs = vnodes[u].fs /\ vnodes'[u].parent = vnodes[u].parent
               /\ vnodes'[u].parent_is_mount <=> vnodes[u].parent_is_mount
               /\ u # v => vnodes'[u].mount = vnodes[u].mount
    <3>1. CASE u = v
      BY <1>4, <1>6, <3>1 DEF IsMounted
    <3>2. CASE u # v
      <4>1. vnodes'[u] = vnodes[u]
        BY <1>5, <3>2
      <4> QED BY <4>1
    <3> QED BY <3>1, <3>2
  <2> QED BY <2>1
<1>16. \A d \in Vnodes : \A nm : Named(d, nm)' = Named(d, nm)
  <2> SUFFICES ASSUME NEW d \in Vnodes, NEW nm PROVE Named(d, nm)' = Named(d, nm)
    OBVIOUS
  <2>1. ASSUME NEW c \in ToSet(children[d]) PROVE vnodes'[c].name = vnodes[c].name
    <3>1. PICK i \in DOMAIN children[d] : c = children[d][i]
      BY <1>3, <2>1 DEF ToSet
    <3>2. c \in Vnodes
      BY <1>3, <3>1 DEF Placed
    <3> QED BY <1>8, <3>2
  <2>2. children'[d] = children[d] /\ vnodes'[d].fs = vnodes[d].fs
    BY <1>5, <1>8
  <2> QED BY <2>1, <2>2 DEF Named, tmpfs_lookup, initramfs_lookup
<1> QED BY <1>8, <1>16

\* A mount keeps the name space.
LEMMA MountKeeps ==
    ASSUME NameSpace, NEW t \in Threads, MountStore(t), UNCHANGED archive
    PROVE  NameSpace'
<1>1. /\ Running /\ creating[t] # NoCreate /\ UNCHANGED <<cwd, overlapped, fault>>
      /\ creating' \in [Threads -> Creates] /\ creating'[t] = NoCreate
      /\ \A u \in Threads \ {t} : creating'[u] = creating[u]
      /\ \E v, m : MountedOn(v, m)
  BY MountStep
<1>2. PICK v, m : MountedOn(v, m)
  BY <1>1
<1>3. /\ Typed /\ Older /\ Placed /\ MountsRight /\ ArchiveKept /\ Bounded /\ InProgress /\ UniqueNames
      /\ Vnodes \subseteq Nat /\ Len(vnodes) \in Nat /\ NULL \notin Vnodes
      /\ {1, 2, 3} \subseteq Vnodes /\ Root \in Vnodes
      /\ \A u \in Vnodes : children[u] \in Seq(Nat)
  BY VnodeFacts, RootFacts DEF NameSpace
<1>4. /\ m = Len(vnodes) + 1 /\ m \in Nat /\ m > 3
      /\ v \in Vnodes \ {Root} /\ vnodes[v].mount = NULL /\ ~IsMounted(v)
      /\ vnodes' \in Seq(VnodeRecords) /\ Len(vnodes') = m
      /\ children' \in Seq(Seq(Nat)) /\ Len(children') = m
  BY <1>2 DEF MountedOn
<1>5. /\ Vnodes' = Vnodes \cup {m} /\ m \notin Vnodes
      /\ \A u \in Vnodes : u < m /\ children'[u] = children[u]
      /\ \A u \in Vnodes \ {v} : vnodes'[u] = vnodes[u]
  BY <1>2 DEF MountedOn
<1>6. /\ vnodes'[v].mount = m /\ vnodes'[v].name = vnodes[v].name
      /\ vnodes'[v].dir = vnodes[v].dir /\ vnodes'[v].fs = vnodes[v].fs
      /\ vnodes'[v].parent = vnodes[v].parent /\ ~vnodes'[v].parent_is_mount
  BY <1>2 DEF MountedOn
<1>7. /\ vnodes'[m].parent = v /\ vnodes'[m].mount = NULL /\ vnodes'[m].dir
      /\ vnodes'[m].parent_is_mount /\ children'[m] = <<>>
  BY <1>2 DEF MountedOn
\* All but the mount of v is as it was.
<1>8. \A u \in Vnodes : /\ vnodes'[u].name = vnodes[u].name /\ vnodes'[u].dir = vnodes[u].dir
                        /\ vnodes'[u].fs = vnodes[u].fs /\ vnodes'[u].parent = vnodes[u].parent
                        /\ vnodes'[u].parent_is_mount <=> vnodes[u].parent_is_mount
                        /\ u # v => vnodes'[u].mount = vnodes[u].mount
  BY <1>2, MountQuiet
<1>9. Typed'
  <2>1. \A u \in Threads : cwd'[u] <= Len(vnodes')
    <3>1. ASSUME NEW u \in Threads PROVE cwd'[u] <= Len(vnodes')
      <4>1. cwd[u] \in Nat /\ cwd[u] <= Len(vnodes)
        BY <1>3 DEF Typed
      <4> QED BY <1>1, <1>3, <1>4, <4>1
    <3> QED BY <3>1
  <2>2. overlapped' \subseteq Vnodes' \X Names
    <3>1. overlapped \subseteq Vnodes \X Names
      BY <1>3 DEF Typed
    <3> QED BY <1>1, <1>5, <3>1
  <2> QED BY <1>1, <1>3, <1>4, <2>1, <2>2 DEF Typed
<1>10. Older'
  <2>1. Len(vnodes') >= 3
    BY <1>4
  <2>2. vnodes'[Root].parent = NULL /\ IsMounted(Root)'
    BY <1>3, <1>8 DEF Older, IsMounted
  <2>3. \A u \in Vnodes' \ {Root} : vnodes'[u].parent \in Vnodes' /\ vnodes'[u].parent < u
    <3>1. ASSUME NEW u \in Vnodes' \ {Root}
          PROVE  vnodes'[u].parent \in Vnodes' /\ vnodes'[u].parent < u
      <4>1. CASE u = m
        BY <1>4, <1>5, <1>7, <4>1
      <4>2. CASE u \in Vnodes
        BY <1>3, <1>5, <1>8, <4>2 DEF Older
      <4> QED BY <1>5, <4>1, <4>2
    <3> QED BY <3>1
  <2> QED BY <2>1, <2>2, <2>3 DEF Older
<1>11. Placed'
  <2>1. ASSUME NEW d \in Vnodes', NEW i \in DOMAIN children'[d]
        PROVE  /\ children'[d][i] \in Vnodes' \ {Root}
               /\ vnodes'[children'[d][i]].parent = d
               /\ ~vnodes'[children'[d][i]].parent_is_mount
               /\ vnodes'[children'[d][i]].name \in Names
               /\ vnodes'[d].dir
               /\ \A j \in DOMAIN children'[d] : i < j => children'[d][i] < children'[d][j]
    <3>1. CASE d = m
      BY <1>7, <3>1
    <3>2. CASE d \in Vnodes
      <4>1. children'[d] = children[d]
        BY <1>5, <3>2
      <4>2. children[d][i] \in Vnodes \ {Root}
        BY <1>3, <3>2, <4>1 DEF Placed
      <4> PICK c : c = children[d][i]
        OBVIOUS
      <4>3. /\ c \in Vnodes \ {Root} /\ vnodes[c].parent = d /\ ~IsMounted(c)
            /\ vnodes[c].name \in Names /\ vnodes[d].dir
            /\ \A j \in DOMAIN children[d] : i < j => children[d][i] < children[d][j]
        BY <1>3, <3>2, <4>1 DEF Placed
      <4>4. /\ vnodes'[c].parent = d /\ ~vnodes'[c].parent_is_mount
            /\ vnodes'[c].name \in Names /\ vnodes'[d].dir
        BY <1>8, <3>2, <4>3 DEF IsMounted
      <4>5. c \in Vnodes' \ {Root} /\ children'[d][i] = c
        BY <1>5, <4>1, <4>3
      <4> QED BY <4>1, <4>3, <4>4, <4>5
    <3> QED BY <1>5, <3>1, <3>2
  <2>2. ASSUME NEW u \in Vnodes' \ {Root}, ~vnodes'[u].parent_is_mount
        PROVE  \E i \in DOMAIN children'[vnodes'[u].parent] : children'[vnodes'[u].parent][i] = u
    <3>1. u \in Vnodes \ {Root} /\ ~IsMounted(u)
      BY <1>5, <1>7, <1>8, <2>2 DEF IsMounted
    <3>2. vnodes'[u].parent = vnodes[u].parent /\ vnodes[u].parent \in Vnodes
      BY <1>3, <1>8, <3>1 DEF Older
    <3>3. children'[vnodes[u].parent] = children[vnodes[u].parent]
      BY <1>5, <3>2
    <3>4. PICK i \in DOMAIN children[vnodes[u].parent] : children[vnodes[u].parent][i] = u
      BY <1>3, <3>1 DEF Placed
    <3> QED BY <3>2, <3>3, <3>4
  <2> QED BY <2>1, <2>2 DEF Placed, IsMounted
<1>12. \A u \in Vnodes : Inherits(u)' <=> Inherits(u)
  <2>1. ASSUME NEW u \in Vnodes PROVE Inherits(u)' <=> Inherits(u)
    <3>1. CASE u = v
      <4>1. ~Inherits(u) /\ ~Inherits(u)'
        BY <1>4, <1>6, <1>7, <3>1 DEF Inherits
      <4> QED BY <4>1
    <3>2. CASE u # v
      <4>1. vnodes'[u].mount = vnodes[u].mount
        BY <1>8, <3>2
      <4>2. vnodes[u].mount # NULL => vnodes[u].mount \in Vnodes
        BY <1>3 DEF MountsRight
      <4> QED BY <1>8, <4>1, <4>2 DEF Inherits
    <3> QED BY <3>1, <3>2
  <2> QED BY <2>1
<1>13. MountsRight'
  <2>1. \A u \in Vnodes' : vnodes'[u].parent_is_mount => vnodes'[u].mount = NULL /\ vnodes'[u].dir
    <3>1. ASSUME NEW u \in Vnodes, vnodes'[u].parent_is_mount
          PROVE  vnodes'[u].mount = NULL /\ vnodes'[u].dir
      <4>1. IsMounted(u) /\ u # v
        BY <1>6, <1>8, <3>1 DEF IsMounted
      <4> QED BY <1>3, <1>8, <4>1 DEF MountsRight
    <3> QED BY <1>5, <1>7, <3>1
  <2>2. \A u \in Vnodes' \ {Root} : vnodes'[u].parent_is_mount => vnodes'[vnodes'[u].parent].mount = u
    <3>1. ASSUME NEW u \in Vnodes \ {Root}, vnodes'[u].parent_is_mount
          PROVE  vnodes'[vnodes'[u].parent].mount = u
      <4>1. IsMounted(u) /\ vnodes[u].parent \in Vnodes /\ vnodes[vnodes[u].parent].mount = u
        BY <1>3, <1>8, <3>1 DEF IsMounted, Older, MountsRight
      <4>2. vnodes[u].parent # v
        BY <1>3, <1>4, <4>1
      <4> QED BY <1>8, <4>1, <4>2
    <3> QED BY <1>5, <1>6, <1>7, <3>1
  <2>3. \A u \in Vnodes' : vnodes'[u].mount # NULL =>
          /\ vnodes'[u].mount \in Vnodes' \ {Root}
          /\ vnodes'[vnodes'[u].mount].parent_is_mount
          /\ Inherits(u)' => vnodes'[vnodes'[u].mount].parent = vnodes'[u].parent
    <3>1. ASSUME NEW u \in Vnodes \ {v}, vnodes'[u].mount # NULL
          PROVE  /\ vnodes'[u].mount \in Vnodes' \ {Root}
                 /\ vnodes'[vnodes'[u].mount].parent_is_mount
                 /\ Inherits(u)' => vnodes'[vnodes'[u].mount].parent = vnodes'[u].parent
      <4>1. vnodes'[u].mount = vnodes[u].mount /\ vnodes'[u].parent = vnodes[u].parent
        BY <1>8
      <4>2. /\ vnodes[u].mount \in Vnodes \ {Root} /\ IsMounted(vnodes[u].mount)
            /\ Inherits(u) => vnodes[vnodes[u].mount].parent = vnodes[u].parent
        BY <1>3, <3>1, <4>1 DEF MountsRight
      <4>3. /\ vnodes'[vnodes[u].mount].parent_is_mount
            /\ vnodes'[vnodes[u].mount].parent = vnodes[vnodes[u].mount].parent
        BY <1>8, <4>2 DEF IsMounted
      <4> QED BY <1>5, <1>12, <4>1, <4>2, <4>3
    <3>2. /\ vnodes'[v].mount \in Vnodes' \ {Root}
          /\ vnodes'[vnodes'[v].mount].parent_is_mount
          /\ ~Inherits(v)'
      BY <1>3, <1>4, <1>5, <1>6, <1>7 DEF Inherits
    <3> QED BY <1>5, <1>7, <3>1, <3>2
  <2>4. \A u \in Vnodes' \ {Root} : \E p : p = vnodes'[u].parent /\ ~Inherits(p)'
    <3>1. ASSUME NEW u \in Vnodes' \ {Root}
          PROVE  \E p \in Vnodes : p = vnodes'[u].parent /\ ~Inherits(p)
      <4>1. CASE u = m
        BY <1>4, <1>7, <4>1 DEF Inherits
      <4>2. CASE u \in Vnodes
        <5>1. vnodes[u].parent \in Vnodes /\ ~Inherits(vnodes[u].parent)
          BY <1>3, <4>2 DEF Older, MountsRight
        <5> QED BY <1>8, <4>2, <5>1
      <4> QED BY <1>5, <4>1, <4>2
    <3> QED BY <1>12, <3>1
  <2>5. \A u \in Threads : cwd'[u] # NULL => \E p : p = cwd'[u] /\ ~Inherits(p)'
    <3>1. ASSUME NEW u \in Threads, cwd[u] # NULL
          PROVE  \E p \in Vnodes : p = cwd[u] /\ ~Inherits(p)
      <4>1. cwd[u] \in Nat /\ cwd[u] <= Len(vnodes)
        BY <1>3 DEF Typed
      <4>2. cwd[u] \in Vnodes
        BY <1>3, <3>1, <4>1 DEF Vnodes, NULL
      <4> QED BY <1>3, <3>1, <4>2 DEF MountsRight
    <3> QED BY <1>1, <1>12, <3>1
  <2> QED BY <2>1, <2>2, <2>3, <2>4, <2>5, MountsRightAfter
<1>14. ArchiveKept'
  <2>1. v # 2
    BY <1>3, <1>4 DEF ArchiveKept, NULL
  <2>2. ~TooLong(archive) /\ ~(Len(archive) > MAX_CHILDREN)
    BY <1>1, <1>3 DEF ArchiveKept, Running, OVERRUN
  <2>3. /\ children'[3] = [k \in 1 .. Len(archive) |-> 3 + k]
        /\ \A k \in 1 .. Len(archive) :
              3 + k \in Vnodes' /\ vnodes'[3 + k].name = Prefix[archive[k].name]
    BY <1>3, <1>5, <1>8, <2>2 DEF ArchiveKept
  <2> QED BY <1>1, <1>3, <1>5, <1>8, <2>1, <2>2, <2>3 DEF ArchiveKept, IsMounted, TooLong
<1>15. Bounded'
  <2>1. Inside' = Inside \ {t} /\ t \in Inside
    BY <1>1 DEF Inside
  <2>2. m + Cardinality(Inside') <= MaxVnodes
    <3> PICK k \in Nat : k = Cardinality(Inside)
      BY InsideFacts
    <3>1. Cardinality(Inside') = k - 1
      BY <2>1, InsideFacts, FS_RemoveElement
    <3>2. Len(vnodes) + k <= MaxVnodes
      BY <1>3 DEF Bounded, Inside
    <3>3. Len(vnodes) + 1 + (k - 1) = Len(vnodes) + k
      BY <1>3
    <3> QED BY <1>4, <3>1, <3>2, <3>3
  <2>3. (Len(vnodes) + Cardinality({u \in Threads : creating[u] # NoCreate}) <= MaxVnodes)'
    BY <1>4, <2>2 DEF Inside
  <2>4. FullChecked'
    BY <1>1, <1>3 DEF Bounded, FullChecked
  <2>5. fault' # OVERRUN => \A d \in Vnodes' : Len(children'[d]) <= MAX_CHILDREN
    <3> SUFFICES ASSUME fault' # OVERRUN, NEW d \in Vnodes' PROVE Len(children'[d]) <= MAX_CHILDREN
      OBVIOUS
    <3>1. CASE d = m
      <4>1. Len(children'[d]) = 0
        BY <1>7, <3>1
      <4> QED BY <4>1, VfsAssumption
    <3>2. CASE d \in Vnodes
      BY <1>1, <1>3, <1>5, <3>2 DEF Bounded
    <3> QED BY <1>5, <3>1, <3>2
  <2> QED BY <2>3, <2>4, <2>5 DEF Bounded
<1>16. \A d \in Vnodes : \A nm : Named(d, nm)' = Named(d, nm)
  BY <1>2, MountQuiet
<1>17. InProgress'
  <2>0. Known(NoCreate)'
    BY <1>4, NoCreateFacts DEF Known, NULL
  <2>1. ASSUME NEW u \in Threads \ {t} PROVE \E f : creating'[u] = f /\ Known(f)'
    <3> PICK f : f = creating[u]
      OBVIOUS
    <3>1. creating'[u] = f /\ Known(f) /\ f.vnode \in Vnodes \cup {NULL}
      BY <1>1, <1>3, CreatingFacts DEF InProgress
    <3>2. f.vnode <= Len(vnodes')
      <4> PICK k : k = f.vnode
        OBVIOUS
      <4>1. k \in Vnodes => k \in Nat /\ k < m
        BY <1>3, <1>5
      <4>2. k = NULL => k \in Nat /\ k < m
        BY <1>4 DEF NULL
      <4>3. k \in Nat /\ k < m
        BY <3>1, <4>1, <4>2
      <4>4. k <= Len(vnodes')
        BY <1>4, <4>3
      <4> QED BY <4>4
    <3>3. f.pc # "none" => Wanted(f)'
      BY <1>5, <1>8, <1>12, <3>1 DEF Known, Wanted, IsMounted
    <3>4. ASSUME f.pc \in {"link", "store"} PROVE Checked(f)'
      <4>1. Checked(f) /\ f.dir \in Vnodes
        BY <3>1, <3>4 DEF Known, Wanted
      <4>2. vnodes'[f.dir].fs = vnodes[f.dir].fs /\ vnodes'[f.dir].dir = vnodes[f.dir].dir
        BY <1>8, <4>1
      <4>3. Named(f.dir, f.name)' = Named(f.dir, f.name) /\ children'[f.dir] = children[f.dir]
        BY <1>5, <1>16, <4>1
      <4> QED BY <1>1, <4>1, <4>2, <4>3 DEF Checked
    <3>5. f.pc = "store" => f.mount \in {NULL, vnodes'[f.dir].mount}
      BY <1>4, <1>8, <3>1 DEF Known, Wanted
    <3> QED BY <3>1, <3>2, <3>3, <3>4, <3>5 DEF Known
  <2>2. \A u \in Threads : \E f : creating'[u] = f /\ Known(f)'
    BY <1>1, <2>0, <2>1
  <2> QED BY <2>2, InProgressAfter
<1>18. UniqueNames'
  <2> SUFFICES ASSUME NEW d \in Vnodes', NEW i \in DOMAIN children'[d], NEW j \in DOMAIN children'[d],
                      vnodes'[d].fs = "tmpfs", i # j,
                      vnodes'[children'[d][i]].name = vnodes'[children'[d][j]].name
               PROVE  <<d, vnodes'[children'[d][i]].name>> \in overlapped'
    BY DEF UniqueNames
  <2>1. CASE d = m
    BY <1>7, <2>1
  <2>2. CASE d \in Vnodes
    <3>1. children'[d] = children[d] /\ vnodes'[d].fs = vnodes[d].fs
      BY <1>5, <1>8, <2>2
    <3>2. \A k \in DOMAIN children[d] : vnodes'[children[d][k]].name = vnodes[children[d][k]].name
      BY <1>3, <1>8, <2>2 DEF Placed
    <3>3. \A k, l \in DOMAIN children[d] :
             (vnodes[d].fs = "tmpfs" /\ k # l /\ vnodes[children[d][k]].name = vnodes[children[d][l]].name)
                => <<d, vnodes[children[d][k]].name>> \in overlapped
      BY <1>3, <2>2 DEF UniqueNames
    <3> QED BY <1>1, <3>1, <3>2, <3>3
  <2> QED BY <1>5, <2>1, <2>2
<1> QED BY <1>9, <1>10, <1>11, <1>13, <1>14, <1>15, <1>17, <1>18 DEF NameSpace

\* What a sequence of three with another behind it holds
LEMMA ConcatFacts ==
    ASSUME NEW S, NEW a \in S, NEW b \in S, NEW c \in S, NEW n \in Nat,
           NEW u \in Seq(S), Len(u) = n, NEW q, q = <<a, b, c>> \o u
    PROVE  /\ q \in Seq(S) /\ Len(q) = n + 3
           /\ q[1] = a /\ q[2] = b /\ q[3] = c
           /\ \A k \in 1 .. n : q[3 + k] = u[k]
<1> PICK s : s = <<a, b, c>>
  OBVIOUS
<1>1. s \in Seq(S) /\ Len(s) = 3 /\ s[1] = a /\ s[2] = b /\ s[3] = c
  OBVIOUS
<1>2. /\ s \o u \in Seq(S) /\ Len(s \o u) = Len(s) + Len(u)
      /\ \A i \in 1 .. Len(s) : (s \o u)[i] = s[i]
      /\ \A i \in 1 .. Len(u) : (s \o u)[Len(s) + i] = u[i]
  BY <1>1
<1>3. q = s \o u
  OBVIOUS
<1> QED BY <1>1, <1>2, <1>3

\* The name space that vfs_init leaves; n is the number of files it makes.
AfterInit(n) ==
    /\ n \in Nat /\ n <= Len(archive) /\ archive \in Archives
    /\ ~TooLong(archive) => n = Len(archive)
    /\ vnodes \in Seq(VnodeRecords) /\ Len(vnodes) = n + 3
    /\ children \in Seq(Seq(Nat)) /\ Len(children) = n + 3
    /\ vnodes[1].parent = NULL /\ vnodes[1].parent_is_mount /\ vnodes[1].dir
    /\ vnodes[1].mount = NULL
    /\ vnodes[2].parent = 1 /\ ~vnodes[2].parent_is_mount /\ vnodes[2].dir
    /\ vnodes[2].mount = 3 /\ vnodes[2].name = "initramfs"
    /\ vnodes[3].parent = 2 /\ vnodes[3].parent_is_mount /\ vnodes[3].dir
    /\ vnodes[3].mount = NULL /\ vnodes[3].fs = "initramfs"
    /\ \A k \in 1 .. n : /\ vnodes[3 + k].parent = 3 /\ ~vnodes[3 + k].parent_is_mount
                         /\ vnodes[3 + k].mount = NULL
                         /\ vnodes[3 + k].fs = "initramfs"
                         /\ vnodes[3 + k].name = Prefix[archive[k].name]
                         /\ Prefix[archive[k].name] \in Names
                         /\ children[3 + k] = <<>>
    /\ children[1] = <<2>> /\ children[2] = <<>>
    /\ children[3] = [k \in 1 .. n |-> 3 + k]
    /\ fault = IF n > MAX_CHILDREN \/ TooLong(archive) THEN OVERRUN ELSE 0
    /\ cwd = [t \in Threads |-> Root]
    /\ creating = [t \in Threads |-> NoCreate]
    /\ overlapped = {}

\* vfs_init leaves just that.
LEMMA InitIsFresh == ASSUME vfs_init PROVE \E n : AfterInit(n)
<1>0. archive \in Archives
  BY DEF vfs_init
<1> PICK n : StopsAt(archive, n)
  BY <1>0, StopExists, ArchiveFacts
<1> PICK names : names = [k \in 1 .. n |-> Prefix[archive[k].name]]
  OBVIOUS
<1>1. /\ archive \in Archives /\ n \in Nat /\ n <= Len(archive)
      /\ ~TooLong(archive) => n = Len(archive)
      /\ \A k \in 1 .. n : names[k] \in Names
  <2>1. Len(archive) \in Nat /\ \A k \in 1 .. Len(archive) : archive[k].name \in Names
    BY <1>0, ArchiveFacts
  <2>2. n \in Nat /\ n <= Len(archive)
    BY <2>1 DEF StopsAt
  <2>3. Prefix \in [Names -> Names]
    BY VfsAssumption
  <2>4. \A k \in 1 .. n : k \in 1 .. Len(archive)
    BY <2>1, <2>2
  <2> QED BY <1>0, <2>1, <2>2, <2>3, <2>4, AllShort
<1>2. PICK files : files = initramfs_init(archive)
  OBVIOUS
<1>3. files = names
  BY <1>1, <1>2, InitramfsIs
<1>4. DOMAIN files = 1 .. n /\ Len(files) = n /\ \A k \in 1 .. n : files[k] = names[k]
  BY <1>1, <1>3
<1>5. NULL = 0 /\ Root = 1 /\ "initramfs" \in Names
  BY VfsAssumption DEF NULL, Root
<1>6. PICK v1, v2, v3 : /\ v1 = Vnode("/", TRUE, "tmpfs", NULL, NULL, TRUE)
                        /\ v2 = Vnode("initramfs", TRUE, "tmpfs", Root, 3, FALSE)
                        /\ v3 = Vnode("/", TRUE, "initramfs", 2, NULL, TRUE)
  OBVIOUS
<1>7. PICK entries : entries = [i \in DOMAIN files |->
                                   Vnode(files[i], FALSE, "initramfs", 3, NULL, FALSE)]
  OBVIOUS
<1>8. PICK list : list = [i \in DOMAIN files |-> 3 + i]
  OBVIOUS
<1>9. PICK empty : empty = [i \in DOMAIN files |-> <<>>]
  OBVIOUS
<1>20. /\ vnodes = <<v1, v2, v3>> \o entries /\ children = << <<2>>, <<>>, list>> \o empty
       /\ fault = IF Len(files) > MAX_CHILDREN \/ TooLong(archive) THEN OVERRUN ELSE 0
       /\ cwd = [t \in Threads |-> Root]
       /\ creating = [t \in Threads |-> NoCreate]
       /\ overlapped = {}
  BY <1>2, <1>6, <1>7, <1>8, <1>9 DEF vfs_init
<1>21. v1 \in VnodeRecords /\ v2 \in VnodeRecords /\ v3 \in VnodeRecords
  BY <1>5, <1>6 DEF Vnode, VnodeRecords
<1>22. /\ entries \in Seq(VnodeRecords) /\ Len(entries) = n
       /\ \A k \in 1 .. n :
             entries[k] = Vnode(names[k], FALSE, "initramfs", 3, NULL, FALSE)
  <2>1. \A k \in 1 .. n :
           /\ entries[k] = Vnode(names[k], FALSE, "initramfs", 3, NULL, FALSE)
           /\ entries[k] \in VnodeRecords
    BY <1>1, <1>4, <1>5, <1>7 DEF Vnode, VnodeRecords
  <2>2. entries \in [1 .. n -> VnodeRecords]
    <3>1. entries = [k \in 1 .. n |-> Vnode(names[k], FALSE, "initramfs", 3, NULL, FALSE)]
      BY <1>4, <1>7
    <3>2. \A k \in 1 .. n :
             Vnode(names[k], FALSE, "initramfs", 3, NULL, FALSE) \in VnodeRecords
      BY <2>1
    <3> QED BY <3>1, <3>2
  <2>3. Len(entries) = n /\ entries \in Seq(VnodeRecords)
    BY <1>1, <2>2
  <2> QED BY <2>1, <2>3
<1>23. list \in Seq(Nat) /\ list = [k \in 1 .. n |-> 3 + k]
  <2>1. list = [k \in 1 .. n |-> 3 + k]
    BY <1>4, <1>8
  <2> QED BY <1>1, <2>1
<1>24. /\ empty \in Seq(Seq(Nat)) /\ Len(empty) = n /\ \A k \in 1 .. n : empty[k] = <<>>
  <2>1. empty = [k \in 1 .. n |-> <<>>]
    BY <1>4, <1>9
  <2>2. <<>> \in Seq(Nat)
    OBVIOUS
  <2> QED BY <1>1, <2>1, <2>2
<1>10. /\ vnodes \in Seq(VnodeRecords) /\ Len(vnodes) = n + 3
       /\ vnodes[1] = v1 /\ vnodes[2] = v2 /\ vnodes[3] = v3
       /\ \A k \in 1 .. n : vnodes[3 + k] = entries[k]
  BY <1>1, <1>20, <1>21, <1>22, ConcatFacts
<1>11. /\ children \in Seq(Seq(Nat)) /\ Len(children) = n + 3
       /\ children[1] = <<2>> /\ children[2] = <<>>
       /\ children[3] = [k \in 1 .. n |-> 3 + k]
       /\ \A k \in 1 .. n : children[3 + k] = <<>>
  <2>1. <<2>> \in Seq(Nat) /\ <<>> \in Seq(Nat)
    OBVIOUS
  <2>2. PICK one, none : one = <<2>> /\ none = <<>>
    OBVIOUS
  <2>3. children = <<one, none, list>> \o empty
    BY <1>20, <2>2
  <2>4. one \in Seq(Nat) /\ none \in Seq(Nat)
    BY <2>1, <2>2
  <2>5. /\ children \in Seq(Seq(Nat)) /\ Len(children) = n + 3
        /\ children[1] = one /\ children[2] = none /\ children[3] = list
        /\ \A k \in 1 .. n : children[3 + k] = empty[k]
    BY <1>1, <1>23, <1>24, <2>3, <2>4, ConcatFacts
  <2> QED BY <1>23, <1>24, <2>2, <2>5
<1>12. /\ vnodes[1].parent = NULL /\ vnodes[1].parent_is_mount /\ vnodes[1].dir
       /\ vnodes[1].mount = NULL
       /\ vnodes[2].parent = 1 /\ ~vnodes[2].parent_is_mount /\ vnodes[2].dir
       /\ vnodes[2].mount = 3 /\ vnodes[2].name = "initramfs"
       /\ vnodes[3].parent = 2 /\ vnodes[3].parent_is_mount /\ vnodes[3].dir
       /\ vnodes[3].mount = NULL /\ vnodes[3].fs = "initramfs"
  BY <1>5, <1>6, <1>10 DEF Vnode
<1>13. \A k \in 1 .. n : /\ vnodes[3 + k].parent = 3 /\ ~vnodes[3 + k].parent_is_mount
                         /\ vnodes[3 + k].mount = NULL
                         /\ vnodes[3 + k].fs = "initramfs"
                         /\ vnodes[3 + k].name = names[k]
  <2>1. ASSUME NEW k \in 1 .. n
        PROVE  vnodes[3 + k] = Vnode(names[k], FALSE, "initramfs", 3, NULL, FALSE)
    BY <1>10, <1>22
  <2>2. ASSUME NEW k \in 1 .. n
        PROVE  /\ vnodes[3 + k].parent = 3 /\ ~vnodes[3 + k].parent_is_mount
               /\ vnodes[3 + k].mount = NULL
               /\ vnodes[3 + k].fs = "initramfs"
               /\ vnodes[3 + k].name = names[k]
    <3> PICK w : w = vnodes[3 + k]
      OBVIOUS
    <3> PICK nm : nm = names[k]
      OBVIOUS
    <3>1. w = Vnode(nm, FALSE, "initramfs", 3, NULL, FALSE)
      BY <2>1
    <3>2. /\ w.parent = 3 /\ ~w.parent_is_mount /\ w.mount = NULL /\ w.fs = "initramfs"
          /\ w.name = nm
      BY <3>1 DEF Vnode
    <3> QED BY <3>2
  <2> QED BY <2>2
<1>14. AfterInit(n)
  <2>1. \A k \in 1 .. n : names[k] = Prefix[archive[k].name]
    OBVIOUS
  <2> QED BY <1>1, <1>4, <1>10, <1>11, <1>12, <1>13, <1>20, <2>1 DEF AfterInit
<1> QED BY <1>14

\* The name space starts well.
LEMMA InitKeeps == vfs_init => NameSpace
<1> SUFFICES ASSUME vfs_init PROVE NameSpace
  OBVIOUS
<1>1. PICK n : AfterInit(n)
  BY InitIsFresh
<1> USE DEF NULL, Root
<1>2. /\ n \in Nat /\ n <= Len(archive) /\ archive \in Archives
      /\ ~TooLong(archive) => n = Len(archive)
      /\ vnodes \in Seq(VnodeRecords) /\ Len(vnodes) = n + 3
      /\ children \in Seq(Seq(Nat)) /\ Len(children) = n + 3
      /\ fault = IF n > MAX_CHILDREN \/ TooLong(archive) THEN OVERRUN ELSE 0
      /\ cwd = [t \in Threads |-> Root]
      /\ creating = [t \in Threads |-> NoCreate]
      /\ overlapped = {}
  BY <1>1 DEF AfterInit
<1>3. /\ vnodes[1].parent = NULL /\ vnodes[1].parent_is_mount /\ vnodes[1].dir
      /\ vnodes[1].mount = NULL
      /\ vnodes[2].parent = 1 /\ ~vnodes[2].parent_is_mount /\ vnodes[2].dir
      /\ vnodes[2].mount = 3 /\ vnodes[2].name = "initramfs"
      /\ vnodes[3].parent = 2 /\ vnodes[3].parent_is_mount /\ vnodes[3].dir
      /\ vnodes[3].mount = NULL /\ vnodes[3].fs = "initramfs"
  BY <1>1 DEF AfterInit
<1>4. \A k \in 1 .. n : /\ vnodes[3 + k].parent = 3 /\ ~vnodes[3 + k].parent_is_mount
                        /\ vnodes[3 + k].mount = NULL
                        /\ vnodes[3 + k].fs = "initramfs"
                        /\ vnodes[3 + k].name = Prefix[archive[k].name]
                        /\ Prefix[archive[k].name] \in Names
                        /\ children[3 + k] = <<>>
  BY <1>1 DEF AfterInit
<1>5. /\ children[1] = <<2>> /\ children[2] = <<>>
      /\ children[3] = [k \in 1 .. n |-> 3 + k]
  BY <1>1 DEF AfterInit
<1>6. /\ Vnodes = 1 .. n + 3
      /\ \A v \in Vnodes : v = 1 \/ v = 2 \/ v = 3 \/ \E k \in 1 .. n : v = 3 + k
      /\ 1 \in Vnodes /\ 2 \in Vnodes /\ 3 \in Vnodes /\ \A k \in 1 .. n : 3 + k \in Vnodes
  <2>1. Vnodes = 1 .. n + 3
    BY <1>2 DEF Vnodes
  <2>2. ASSUME NEW v \in Vnodes PROVE v = 1 \/ v = 2 \/ v = 3 \/ \E k \in 1 .. n : v = 3 + k
    <3>1. v \in Nat /\ 1 <= v /\ v <= n + 3
      BY <1>2, <2>1
    <3>2. v > 3 => v - 3 \in 1 .. n /\ v = 3 + (v - 3)
      BY <1>2, <3>1
    <3> QED BY <3>1, <3>2
  <2> QED BY <1>2, <2>1, <2>2
<1>7. Typed
  <2>1. cwd \in [Threads -> Nat] /\ \A t \in Threads : cwd[t] <= Len(vnodes)
    BY <1>2
  <2>2. creating \in [Threads -> Creates]
    BY <1>2, NoCreateFacts
  <2> QED BY <1>2, <2>1, <2>2 DEF Typed
<1>8. Older
  <2>1. ASSUME NEW v \in Vnodes \ {Root} PROVE vnodes[v].parent \in Vnodes /\ vnodes[v].parent < v
    <3>1. CASE v = 2
      BY <1>3, <1>6, <3>1
    <3>2. CASE v = 3
      BY <1>3, <1>6, <3>2
    <3>3. ASSUME NEW k \in 1 .. n, v = 3 + k PROVE vnodes[v].parent = 3 /\ 3 < v
      <4>1. 3 < 3 + k
        BY <1>2
      <4> QED BY <1>4, <3>3, <4>1
    <3> QED BY <1>6, <3>1, <3>2, <3>3
  <2> QED BY <1>2, <1>3, <2>1 DEF Older, IsMounted
<1>9. Placed
  <2>1. ASSUME NEW d \in Vnodes, NEW i \in DOMAIN children[d]
        PROVE  /\ children[d][i] \in Vnodes \ {Root}
               /\ vnodes[children[d][i]].parent = d
               /\ ~vnodes[children[d][i]].parent_is_mount
               /\ vnodes[children[d][i]].name \in Names
               /\ vnodes[d].dir
               /\ \A j \in DOMAIN children[d] : i < j => children[d][i] < children[d][j]
    <3>1. CASE d = 1
      <4>1. i = 1 /\ DOMAIN children[d] = {1} /\ children[d][1] = 2
        BY <1>5, <3>1
      <4> QED BY <1>3, <1>6, <3>1, <4>1, VfsAssumption
    <3>2. CASE d = 3
      <4>1. /\ DOMAIN children[d] = 1 .. n
            /\ \A j \in 1 .. n : children[d][j] = 3 + j
        BY <1>2, <1>5, <3>2
      <4>2. 3 + i # 1 /\ \A j \in 1 .. n : i < j => 3 + i < 3 + j
        BY <1>2, <4>1
      <4> QED BY <1>3, <1>4, <1>6, <3>2, <4>1, <4>2
    <3>3. CASE d \notin {1, 3}
      <4>1. children[d] = <<>>
        BY <1>4, <1>5, <1>6, <3>3
      <4> QED BY <4>1
    <3> QED BY <3>1, <3>2, <3>3
  <2>2. ASSUME NEW v \in Vnodes \ {Root}, ~vnodes[v].parent_is_mount
        PROVE  \E i \in DOMAIN children[vnodes[v].parent] : children[vnodes[v].parent][i] = v
    <3>1. CASE v = 2
      BY <1>3, <1>5, <3>1
    <3>2. ASSUME NEW k \in 1 .. n, v = 3 + k
          PROVE  \E i \in DOMAIN children[vnodes[v].parent] : children[vnodes[v].parent][i] = v
      <4>1. DOMAIN children[3] = 1 .. n /\ children[3][k] = 3 + k
        BY <1>5
      <4>2. vnodes[v].parent = 3
        BY <1>4, <3>2
      <4> QED BY <3>2, <4>1, <4>2
    <3> QED BY <1>3, <1>6, <2>2, <3>1, <3>2
  <2> QED BY <2>1, <2>2 DEF Placed, IsMounted
<1>10. \A v \in Vnodes : ~Inherits(v) /\ (vnodes[v].mount # NULL => v = 2)
  BY <1>3, <1>4, <1>6 DEF Inherits
<1>11. MountsRight
  <2>1. \A v \in Vnodes : IsMounted(v) => v = 1 \/ v = 3
    BY <1>3, <1>4, <1>6 DEF IsMounted
  <2>2. \A t \in Threads : cwd[t] = 1
    BY <1>2
  <2>3. \A v \in Vnodes \ {Root} : ~Inherits(vnodes[v].parent)
    BY <1>8, <1>10 DEF Older
  <2> QED BY <1>3, <1>6, <1>10, <2>1, <2>2, <2>3 DEF MountsRight, IsMounted
<1>12. ArchiveKept
  <2>1. children[Root] # <<>> /\ children[Root][1] = 2
    BY <1>5
  <2> QED BY <1>2, <1>3, <1>4, <1>5, <1>6, <2>1 DEF ArchiveKept, IsMounted
<1>13. Bounded
  <2>1. ASSUME fault # OVERRUN, NEW d \in Vnodes PROVE Len(children[d]) <= MAX_CHILDREN
    <3>1. n <= MAX_CHILDREN
      BY <1>2, <2>1, VfsAssumption
    <3>a. n \in Nat
      BY <1>2
    <3>b. \A k \in 1 .. n : children[3 + k] = <<>>
      BY <1>4
    <3>2. Len(children[1]) = 1 /\ Len(children[2]) = 0 /\ Len(children[3]) = n
          /\ \A k \in 1 .. n : Len(children[3 + k]) = 0
      BY <1>5, <3>a, <3>b
    <3>3. 1 <= MAX_CHILDREN /\ 0 <= MAX_CHILDREN
      BY VfsAssumption
    <3> QED BY <1>6, <3>1, <3>2, <3>3
  <2>a. Len(archive) \in Nat /\ Len(archive) + 3 <= MaxVnodes /\ MaxVnodes \in Nat
    BY <1>2, ArchiveFacts, VfsAssumption
  <2>2. FullChecked
    BY <1>2, <2>a, VfsAssumption DEF FullChecked, OVERRUN
  <2>3. Inside = {}
    BY <1>2 DEF Inside
  <2>4. Cardinality(Inside) = 0
    BY <2>3, FS_EmptySet
  <2>5. Len(vnodes) + Cardinality(Inside) <= MaxVnodes
    BY <1>2, <2>4, <2>a
  <2> QED BY <2>1, <2>2, <2>5 DEF Bounded, Inside
<1>14. InProgress
  <2>1. Known(NoCreate)
    BY <1>2, NoCreateFacts DEF Known
  <2> QED BY <1>2, <2>1 DEF InProgress
<1>15. UniqueNames
  <2> SUFFICES ASSUME NEW d \in Vnodes, NEW i \in DOMAIN children[d], NEW j \in DOMAIN children[d],
                      vnodes[d].fs = "tmpfs", i # j
               PROVE  FALSE
    BY DEF UniqueNames
  <2>1. d = 1 \/ d = 2
    BY <1>3, <1>4, <1>6
  <2> QED BY <1>5, <2>1
<1> QED BY <1>7, <1>8, <1>9, <1>11, <1>12, <1>13, <1>14, <1>15 DEF NameSpace

\* What a path is, and what its directory is.
LEMMA PathRecord ==
    ASSUME NEW t \in Threads, NEW path \in Paths[t]
    PROVE  /\ path.abs \in BOOLEAN /\ path.comps \in Seq(Components)
           /\ path.comps # <<>> =>
                 LET up == [path EXCEPT !.comps = Front(@)]
                 IN  /\ up.abs = path.abs /\ up.comps \in Seq(Components)
                     /\ Len(up.comps) = Len(path.comps) - 1 /\ Len(path.comps) \in Nat \ {0}
                     /\ \A i \in 1 .. Len(up.comps) : up.comps[i] = path.comps[i]
                     /\ Last(path.comps) = path.comps[Len(path.comps)]
<1>1. path \in [abs : BOOLEAN, comps : Seq(Components)]
  BY VfsAssumption
<1>2. path.abs \in BOOLEAN /\ path.comps \in Seq(Components)
  BY <1>1
<1>3. SUFFICES ASSUME path.comps # <<>>
               PROVE  LET up == [path EXCEPT !.comps = Front(@)]
                      IN  /\ up.abs = path.abs /\ up.comps \in Seq(Components)
                          /\ Len(up.comps) = Len(path.comps) - 1 /\ Len(path.comps) \in Nat \ {0}
                          /\ \A i \in 1 .. Len(up.comps) : up.comps[i] = path.comps[i]
                          /\ Last(path.comps) = path.comps[Len(path.comps)]
  BY <1>2
<1>4. PICK up : up = [path EXCEPT !.comps = Front(@)]
  OBVIOUS
<1>5. PICK C : C = Components
  OBVIOUS
<1>6. PICK s : s = path.comps
  OBVIOUS
<1>7. s \in Seq(C) /\ s # <<>>
  BY <1>2, <1>3, <1>5, <1>6
<1>8. /\ Front(s) \in Seq(C) /\ Len(Front(s)) = Len(s) - 1 /\ Len(s) \in Nat \ {0}
      /\ \A i \in 1 .. Len(s) - 1 : Front(s)[i] = s[i]
      /\ Last(s) = s[Len(s)]
  <2> PICK k : k = Len(s)
    OBVIOUS
  <2>1. k \in Nat \ {0} /\ k - 1 \in Nat /\ \A i \in 1 .. k : s[i] \in C
    BY <1>7
  <2>2. Front(s) = [i \in 1 .. k - 1 |-> s[i]]
    BY <1>7 DEF Front
  <2>3. \A i \in 1 .. k - 1 : s[i] \in C
    BY <2>1
  <2>4. Front(s) \in Seq(C) /\ Len(Front(s)) = k - 1 /\ \A i \in 1 .. k - 1 : Front(s)[i] = s[i]
    BY <2>1, <2>2, <2>3
  <2> QED BY <2>1, <2>4 DEF Last
<1>9. up.abs = path.abs /\ up.comps = Front(s)
  BY <1>1, <1>4, <1>6
<1> QED BY <1>4, <1>5, <1>6, <1>8, <1>9

\* The last component of a path is a name.
LEMMA LastFacts ==
    ASSUME NEW t \in Threads, NEW path \in Paths[t], path.comps # <<>>
    PROVE  Last(path.comps) \in Components /\ Last(path.comps) \in Names
<1> PICK s : s = path.comps
  OBVIOUS
<1>1. s \in Seq(Components) /\ Len(s) \in Nat \ {0} /\ Last(s) = s[Len(s)]
  BY PathRecord
<1>2. s[Len(s)] \in Components
  BY <1>1
<1> QED BY <1>1, <1>2, VfsAssumption

\* A working directory is a vnode that inherits no mount, or none.
LEMMA CwdFacts ==
    ASSUME NameSpace, NEW t \in Threads
    PROVE  cwd[t] \in Vnodes \cup {NULL} /\ (cwd[t] # NULL => ~Inherits(cwd[t]))
<1>1. cwd[t] \in Nat /\ cwd[t] <= Len(vnodes) /\ Len(vnodes) \in Nat
  BY VnodeFacts DEF NameSpace, Typed
<1> QED BY <1>1 DEF NameSpace, MountsRight, Vnodes, NULL

\* The lookup of a directory goes as far as that of the path, but for the last component.
LEMMA ParentFacts ==
    ASSUME NameSpace, NEW t \in Threads, NEW path \in Paths[t], path.comps # <<>>,
           NEW dir \in Vnodes \cup {NULL}, dir # NULL => ~Inherits(dir),
           NEW p, p = LookupParent(dir, path), p.err = 0
    PROVE  \E start, last :
              /\ start = (IF path.abs THEN Root ELSE dir) /\ start \in Vnodes /\ ~Inherits(start)
              /\ last = Walk(start, path.comps)[Len(path.comps) - 1]
              /\ last.err = 0 /\ last.v = p.v
              /\ last \in Results /\ p.v \in Vnodes /\ ~Inherits(p.v)
<1>20. PICK up : up = [path EXCEPT !.comps = Front(@)]
  OBVIOUS
<1>21. PICK start : start = IF path.abs THEN Root ELSE dir
  OBVIOUS
<1>1. /\ path.abs \in BOOLEAN /\ path.comps \in Seq(Components)
      /\ up.abs = path.abs /\ up.comps \in Seq(Components)
      /\ Len(up.comps) = Len(path.comps) - 1 /\ Len(path.comps) \in Nat \ {0}
      /\ \A i \in 1 .. Len(up.comps) : up.comps[i] = path.comps[i]
  BY <1>20, PathRecord
<1>22. PICK n : n = Len(path.comps)
  OBVIOUS
<1>2. n \in Nat \ {0} /\ Len(up.comps) = n - 1 /\ n - 1 \in Nat /\ n - 1 \in 0 .. n
  BY <1>1, <1>22
<1>3. start # NULL => start \in Vnodes /\ ~Inherits(start)
  BY <1>21, RootFacts
<1>4. CASE n = 1 /\ ~path.abs
  <2>1. p = [v |-> dir, t |-> dir, err |-> IF dir = NULL THEN EINTERR_VFS ELSE 0]
    BY <1>4, <1>22 DEF LookupParent
  <2>2. dir # NULL /\ p.v = dir /\ start = dir
    BY <1>4, <1>21, <2>1 DEF EINTERR_VFS
  <2>3. Walk(start, path.comps)[0] = Begin(start) /\ Begin(start) \in Results
    BY <1>1, <1>2, <1>3, <2>2, WalkFacts
  <2>4. Begin(start).err = 0 /\ Begin(start).v = start
    BY DEF Begin
  <2>5. PICK last : last = Walk(start, path.comps)[Len(path.comps) - 1]
    OBVIOUS
  <2>6. n - 1 = 0
    BY <1>4
  <2>7. last = Begin(start)
    BY <1>22, <2>3, <2>5, <2>6
  <2>8. start \in Vnodes /\ ~Inherits(start) /\ p.v = start
    BY <1>3, <2>2
  <2> QED BY <1>21, <2>3, <2>4, <2>5, <2>7, <2>8
<1>5. CASE ~(n = 1 /\ ~path.abs)
  <2>1. p = vfs_lookup(dir, up)
    BY <1>5, <1>20, <1>22 DEF LookupParent
  <2> PICK mine : mine = Walk(start, up.comps)[n - 1]
    OBVIOUS
  <2>2. start # NULL /\ mine.err = 0 /\ p.v = mine.v
    <3>1. start = IF up.abs THEN Root ELSE dir
      BY <1>1, <1>21
    <3>2. /\ p.err = 0 <=> start # NULL /\ Walk(start, up.comps)[Len(up.comps)].err = 0
          /\ p.err = 0 => p.v = Walk(start, up.comps)[Len(up.comps)].v
      <4>1. PICK C : C = Components
        OBVIOUS
      <4>2. up.comps \in Seq(C)
        BY <1>1, <4>1
      <4>3. LET s == IF up.abs THEN Root ELSE dir
                r == vfs_lookup(dir, up)
                last == Walk(s, up.comps)[Len(up.comps)]
            IN  /\ r.err = 0 <=> s # NULL /\ last.err = 0
                /\ r.err = 0 => r.v = last.v
        BY <4>2, LookupFacts
      <4> QED BY <2>1, <3>1, <4>3
    <3> QED BY <1>2, <3>2
  <2>3. mine \in Results
    BY <1>1, <1>2, <1>3, <2>2, WalkFacts
  <2>4. \A i \in 1 .. n - 1 : up.comps[i] = path.comps[i]
    BY <1>1, <1>2
  <2>5. n - 1 <= Len(path.comps) /\ n - 1 <= Len(up.comps) /\ n - 1 \in 0 .. n - 1
    BY <1>2, <1>22
  <2>6. \A i \in 0 .. n - 1 : Walk(start, up.comps)[i] = Walk(start, path.comps)[i]
    <3>3. PICK C : C = Components
      OBVIOUS
    <3>4. PICK a, b : a = up.comps /\ b = path.comps
      OBVIOUS
    <3>1. /\ a \in Seq(C) /\ b \in Seq(C) /\ n - 1 <= Len(b) /\ n - 1 <= Len(a)
          /\ \A i \in 1 .. n - 1 : a[i] = b[i]
      BY <1>1, <2>4, <2>5, <3>3, <3>4
    <3>2. start \in Vnodes /\ ~Inherits(start) /\ n - 1 \in Nat
      BY <1>2, <1>3, <2>2
    <3>5. \A i \in 0 .. n - 1 : Walk(start, a)[i] = Walk(start, b)[i]
      BY <3>1, <3>2, WalkPrefix
    <3> QED BY <3>4, <3>5
  <2>7. mine = Walk(start, path.comps)[n - 1]
    BY <2>5, <2>6
  <2> QED BY <1>3, <1>21, <1>22, <2>2, <2>3, <2>7, ResultFacts
<1> QED BY <1>4, <1>5

\* A mkdir's call keeps the name space.
LEMMA MkdirKeeps ==
    ASSUME NameSpace, NEW t \in Threads, sys_mkdir(t), UNCHANGED archive
    PROVE  NameSpace'
<1>1. PICK path \in Paths[t] : vfs_mkdir(t, path)
  BY DEF sys_mkdir
<1>2. PICK p : p = LookupParent(cwd[t], path)
  OBVIOUS
<1>3. CallCreate(t, p, path, TRUE, NULL)
  BY <1>1, <1>2 DEF vfs_mkdir
<1>4. p.err = 0 /\ path.comps # <<>>
  BY <1>3 DEF CallCreate, Creatable
<1>5. p.v \in Vnodes /\ ~Inherits(p.v)
  BY <1>2, <1>4, CwdFacts, ParentFacts
<1>6. Last(path.comps) \in Names
  BY <1>4, LastFacts
<1> QED BY <1>3, <1>5, <1>6, CallCreateKeeps

\* What an open's create is called with
Opens(t, path, r, p, vnode) ==
    /\ path \in Paths[t] /\ Creatable(path) /\ path.comps # <<>>
    /\ r = vfs_lookup(cwd[t], path) /\ r.err # 0
    /\ p = CreateDir(t, path) /\ p.err = 0
    /\ vnode = IF vnodes[p.v].fs = "initramfs" THEN r.t ELSE NULL
    /\ vnode \in Vnodes \cup {NULL}
    /\ p.v \in Vnodes /\ ~Inherits(p.v) /\ Last(path.comps) \in Names
    /\ CallCreate(t, p, path, FALSE, vnode)

\* OpenCreate calls it just so.
LEMMA OpenFacts ==
    ASSUME NameSpace, NEW t \in Threads, OpenCreate(t)
    PROVE  \E path, r, p, vnode : Opens(t, path, r, p, vnode)
<1>1. PICK path \in Paths[t] :
         LET r == vfs_lookup(cwd[t], path)
             p == CreateDir(t, path)
         IN  /\ r.err # 0
             /\ CallCreate(t, p, path, FALSE, IF vnodes[p.v].fs = "initramfs" THEN r.t ELSE NULL)
  BY DEF OpenCreate
<1>2. PICK r : r = vfs_lookup(cwd[t], path)
  OBVIOUS
<1>3. PICK p : p = CreateDir(t, path)
  OBVIOUS
<1>4. PICK vnode : vnode = IF vnodes[p.v].fs = "initramfs" THEN r.t ELSE NULL
  OBVIOUS
<1>5. r.err # 0 /\ CallCreate(t, p, path, FALSE, vnode)
  BY <1>1, <1>2, <1>3, <1>4
<1>6. Creatable(path) /\ path.comps # <<>> /\ p.err = 0
  BY <1>5 DEF CallCreate, Creatable
<1>7. r.t \in Vnodes \cup {NULL}
  BY <1>2, CwdFacts, PathRecord, LookupFacts
<1>8. PICK dir : dir = IF cwd[t] = NULL /\ Len(path.comps) = 1 THEN Root ELSE cwd[t]
  OBVIOUS
<1>9. dir \in Vnodes \cup {NULL} /\ (dir # NULL => ~Inherits(dir)) /\ p = LookupParent(dir, path)
  BY <1>3, <1>8, CwdFacts, RootFacts DEF CreateDir
<1>10. p.v \in Vnodes /\ ~Inherits(p.v)
  BY <1>6, <1>9, ParentFacts
<1>11. Opens(t, path, r, p, vnode)
  BY <1>2, <1>3, <1>4, <1>5, <1>6, <1>7, <1>10, LastFacts DEF Opens
<1> QED BY <1>11

\* An open's call of create keeps the name space.
LEMMA OpenKeeps ==
    ASSUME NameSpace, NEW t \in Threads, OpenCreate(t), UNCHANGED archive
    PROVE  NameSpace'
<1>1. PICK path, r, p, vnode : Opens(t, path, r, p, vnode)
  BY OpenFacts
<1>2. /\ vnode \in Vnodes \cup {NULL} /\ p.v \in Vnodes /\ ~Inherits(p.v)
      /\ Last(path.comps) \in Names
      /\ CallCreate(t, p, path, FALSE, vnode)
  BY <1>1 DEF Opens
<1> QED BY <1>2, CallCreateKeeps

\* Every step keeps the name space.
LEMMA NextKeeps ==
    NameSpace /\ [VfsNext /\ UNCHANGED archive]_vfs_vars => NameSpace'
<1> SUFFICES ASSUME NameSpace, [VfsNext /\ UNCHANGED archive]_vfs_vars PROVE NameSpace'
  OBVIOUS
<1>1. ASSUME VfsNext, UNCHANGED archive PROVE NameSpace'
  <2>1. PICK t \in Threads :
           \/ sys_mkdir(t) \/ OpenCreate(t) \/ sys_mount(t) \/ sys_chdir(t)
           \/ CreateCheck(t) \/ CreateFails(t) \/ CreateLoad(t) \/ CreateStore(t)
           \/ MountStore(t) \/ StaleStore(t) \/ NullRead(t)
    BY <1>1 DEF VfsNext
  <2> QED BY <1>1, <2>1, MkdirKeeps, OpenKeeps, MountCallKeeps, ChdirKeeps, CheckKeeps,
             FailsKeeps, LoadKeeps, LinkKeeps, MountKeeps, FaultKeeps
<1> QED BY <1>1, StutterKeeps

\* The name space keeps its shape.
THEOREM VfsNameSpace == VfsSpec => []NameSpace
<1> QED BY InitKeeps, NextKeeps, PTL DEF VfsSpec

\* Whatever calls succeed and fail, and whatever runs inside of them: the vnodes
\* form a tree with unique names and mounts where vfs_mount made them, until two
\* threads store into one slot or mount on one vnode, a directory is overrun by
\* creates in it that overlap, or the archive does not fit.
THEOREM VfsTreeOK == VfsSpec => []TreeOK
<1> QED BY VfsNameSpace, TreeIs, PTL

\* vfs_lookup's ".." undoes a component, also across mounts.
THEOREM VfsDotDotInverse == VfsSpec => []DotDotInverse
<1> QED BY VfsNameSpace, DotDotIs, PTL

\* initramfs_init and the cpio walks find every file whose name they can hold of
\* every archive they can hold, at any time.
THEOREM VfsArchiveListed == VfsSpec => []ArchiveListed
<1> QED BY VfsNameSpace, ArchiveIs, PTL

\* No mount covers w or what is above it.
Seen(w) == \A v \in Ancestors(w) : vnodes[v].mount \in Ancestors(w) \cup {NULL}

\* The threads that a mount covers
CoveredRight == \A t \in Threads : \A w : w = cwd[t] => (Covered(t) <=> ~Seen(w))

\* These are the covered threads.
LEMMA CoveredIs == CoveredRight
  BY DEF CoveredRight, Covered, Seen

\* Two vnodes of a line have different parents.
LEMMA OneBelow ==
    ASSUME NameSpace, NEW w \in Vnodes,
           NEW a \in Ancestors(w) \ {Root}, NEW b \in Ancestors(w) \ {Root},
           vnodes[a].parent = vnodes[b].parent
    PROVE  a = b
<1>1. PICK A : A = Ancestors(w)
  OBVIOUS
<1>2. Line(A, w, Parents)
  BY <1>1, AncestorsAre DEF AncestorsRight
<1>3. A \subseteq Vnodes
  BY <1>2, VnodeFacts DEF Line, NameSpace, Vnodes
<1>4. a \in A /\ b \in A /\ a \in Vnodes \ {Root} /\ b \in Vnodes \ {Root} /\ a \in Nat /\ b \in Nat
  BY <1>1, <1>3, VnodeFacts DEF NameSpace
<1>5. PICK p : p = vnodes[a].parent /\ p = vnodes[b].parent /\ p \in Nat
  BY <1>4, VnodeFacts DEF NameSpace
<1>6. p < a /\ p < b
  BY <1>4, <1>5 DEF NameSpace, Older
<1>7. Parents[a] = p /\ Parents[b] = p
  BY <1>4, <1>5 DEF Parents
<1>8. (a < b => a <= p) /\ (b < a => b <= p)
  BY <1>2, <1>4, <1>7 DEF Line
<1> QED BY <1>4, <1>5, <1>6, <1>8

\* A vnode that no mount covers is live.
LEMMA SeenIsLive ==
    ASSUME NameSpace, NEW w \in Vnodes, ~Inherits(w), Seen(w)
    PROVE  w \in Live
<1>1. PICK A : A = Ancestors(w)
  OBVIOUS
<1>2. Line(A, w, Parents)
  BY <1>1, AncestorsAre DEF AncestorsRight
<1>3. A \subseteq Vnodes /\ w \in A /\ \A a \in A : a \in Nat /\ a <= w
  BY <1>2, VnodeFacts DEF Line, NameSpace, Vnodes
<1>4. \A v \in A : vnodes[v].mount \in A \cup {NULL}
  BY <1>1 DEF Seen
<1>5. /\ Older /\ MountsRight /\ NULL \notin Vnodes /\ Vnodes \subseteq Nat
      /\ vnodes[Root].mount = NULL /\ ~Inherits(Root)
  BY VnodeFacts, RootFacts DEF NameSpace
\* A mount leads from a vnode that inherits none to its child.
<1>6. ASSUME NEW v \in A, vnodes[v].mount # NULL, ~Inherits(v)
      PROVE  /\ vnodes[v].mount \in A \ {Root} /\ vnodes[vnodes[v].mount].parent = v
             /\ IsMounted(vnodes[v].mount)
  BY <1>3, <1>4, <1>5, <1>6 DEF MountsRight, Inherits
<1>7. vnodes[w].mount = NULL
  <2> SUFFICES ASSUME vnodes[w].mount # NULL PROVE FALSE
    OBVIOUS
  <2>1. vnodes[w].mount \in A \ {Root} /\ vnodes[vnodes[w].mount].parent = w
    BY <1>3, <1>6
  <2>2. w < vnodes[w].mount
    BY <1>3, <1>5, <2>1 DEF Older
  <2> QED BY <1>3, <2>1, <2>2
<1>8. \A v \in A \ {Root} : vnodes[v].parent \in A /\ ~Inherits(vnodes[v].parent)
  <2>1. ASSUME NEW v \in A \ {Root}
        PROVE  vnodes[v].parent \in A /\ ~Inherits(vnodes[v].parent)
    <3>1. Parents[v] = vnodes[v].parent
      BY <1>3 DEF Parents
    <3> QED BY <1>2, <1>3, <1>5, <3>1 DEF Line, MountsRight
  <2> QED BY <2>1
<1>9. ASSUME NEW v \in A \ {Root}, vnodes[v].mount = NULL
      PROVE  DotDot(v) \in A /\ vnodes[DotDot(v)].mount = NULL
  <2>1. PICK p : p = vnodes[v].parent
    OBVIOUS
  <2>2. p \in A /\ ~Inherits(p)
    BY <1>8, <2>1
  <2>3. CASE vnodes[p].mount # v
    <3>1. DotDot(v) = p
      BY <2>1, <2>3 DEF DotDot
    <3>2. ASSUME vnodes[p].mount # NULL PROVE FALSE
      <4>1. vnodes[p].mount \in A \ {Root} /\ vnodes[vnodes[p].mount].parent = p
        BY <1>6, <2>2, <3>2
      <4> QED BY <1>1, <2>1, <2>3, <4>1, OneBelow
    <3> QED BY <2>2, <3>1, <3>2
  <2>4. CASE vnodes[p].mount = v
    <3>1. v # NULL /\ p # Root
      BY <1>3, <1>5, <2>4
    <3>2. PICK g : g = vnodes[p].parent
      OBVIOUS
    <3>3. g \in A /\ ~Inherits(g) /\ DotDot(v) = g
      BY <1>8, <2>1, <2>2, <2>4, <3>1, <3>2 DEF DotDot
    <3>4. ASSUME vnodes[g].mount # NULL PROVE FALSE
      <4>1. /\ vnodes[g].mount \in A \ {Root} /\ vnodes[vnodes[g].mount].parent = g
            /\ IsMounted(vnodes[g].mount)
        BY <1>6, <3>3, <3>4
      <4>2. vnodes[g].mount = p
        BY <1>1, <2>2, <3>1, <3>2, <4>1, OneBelow
      <4>3. vnodes[p].mount = NULL
        BY <1>3, <1>5, <2>2, <4>1, <4>2 DEF MountsRight
      <4> QED BY <2>4, <3>1, <4>3
    <3> QED BY <3>3, <3>4
  <2> QED BY <2>3, <2>4
<1>10. PICK S : S = {v \in A : vnodes[v].mount = NULL}
  OBVIOUS
<1>11. DotDot(Root) = Root
  BY DEF DotDot
<1>12. Uncovered(S)
  BY <1>3, <1>9, <1>10, <1>11 DEF Uncovered
<1>13. w \in S /\ S \in SUBSET Vnodes
  BY <1>3, <1>7, <1>10
<1> QED BY <1>12, <1>13 DEF Live

\* An open that creates a name that is there had no working directory or a covered one.
LEMMA OpenExplained ==
    ASSUME NameSpace, NEW t \in Threads, cwd[t] # NULL, ~Covered(t),
           NEW path, NEW r, NEW p, NEW vnode, Opens(t, path, r, p, vnode)
    PROVE  Named(p.v, Last(path.comps)) = {}
<1>1. /\ path \in Paths[t] /\ Creatable(path) /\ path.comps # <<>>
      /\ r = vfs_lookup(cwd[t], path) /\ r.err # 0
      /\ p = CreateDir(t, path) /\ p.err = 0
  BY DEF Opens
<1>2. PICK w : w = cwd[t]
  OBVIOUS
<1>3. w \in Vnodes /\ ~Inherits(w) /\ w # NULL /\ Seen(w)
  BY <1>2, CwdFacts, CoveredIs DEF CoveredRight
<1>4. w \in Live
  BY <1>3, SeenIsLive
<1>5. p = LookupParent(w, path) /\ r = vfs_lookup(w, path)
  BY <1>1, <1>2, <1>3 DEF CreateDir
<1>6. PICK start, last :
         /\ start = (IF path.abs THEN Root ELSE w) /\ start \in Vnodes /\ ~Inherits(start)
         /\ last = Walk(start, path.comps)[Len(path.comps) - 1]
         /\ last.err = 0 /\ last.v = p.v
         /\ last \in Results /\ p.v \in Vnodes /\ ~Inherits(p.v)
  BY <1>1, <1>3, <1>5, ParentFacts
<1>7. start \in Live
  BY <1>4, <1>6, LiveFacts
<1>8. PICK C : C = Components
  OBVIOUS
<1>9. PICK n : n = Len(path.comps)
  OBVIOUS
<1>10. /\ path.comps \in Seq(C) /\ n \in Nat \ {0} /\ n - 1 \in 0 .. n /\ n \in 1 .. n
       /\ Last(path.comps) = path.comps[n]
  BY <1>1, <1>8, <1>9, PathRecord
<1>11. p.v \in Live
  <2>1. Walk(start, path.comps)[n - 1].v \in Live
    BY <1>6, <1>7, <1>9, <1>10, LiveWalk
  <2> QED BY <1>6, <1>9, <2>1
<1>12. PICK c : c = Last(path.comps)
  OBVIOUS
<1>14. Walk(start, path.comps)[n] = Step(last, c)
  BY <1>6, <1>9, <1>10, <1>12, WalkFacts
<1>15. ASSUME Named(p.v, c) # {} PROVE FALSE
  <2>1. Through(last.v) = p.v
    BY <1>6, <1>11, LiveFacts
  <2>2. Step(last, c).err = 0
    <3>1. CASE c = "." \/ c = ".."
      BY <1>6, <3>1, StepFacts
    <3>2. CASE c # "." /\ c # ".."
      BY <1>6, <1>15, <2>1, <3>2, StepFinds
    <3> QED BY <3>1, <3>2
  <2>3. LET s == IF path.abs THEN Root ELSE w
            q == vfs_lookup(w, path)
            end == Walk(s, path.comps)[Len(path.comps)]
        IN  q.err = 0 <=> s # NULL /\ end.err = 0
    BY <1>3, <1>10, LookupFacts
  <2>4. start # NULL
    BY <1>6, VnodeFacts DEF NameSpace
  <2> QED BY <1>1, <1>5, <1>6, <1>9, <1>14, <2>2, <2>3, <2>4
<1> QED BY <1>12, <1>15

\* Ancestors stay when no parent changes.
LEMMA AncestorsKept ==
    ASSUME NameSpace, NameSpace', NEW w \in Vnodes,
           \A v \in Vnodes : v \in Vnodes' /\ vnodes'[v].parent = vnodes[v].parent
    PROVE  Ancestors(w)' = Ancestors(w)
<1>1. AncestorsRight /\ AncestorsRight'
  BY AncestorsAre, PTL
<1>2. PICK A, B : A = Ancestors(w) /\ B = Ancestors(w)'
  OBVIOUS
<1>3. PICK P, Q : P = Parents /\ Q = Parents'
  OBVIOUS
<1>4. Line(A, w, P)
  BY <1>1, <1>2, <1>3 DEF AncestorsRight
<1>5. Line(B, w, Q)
  BY <1>1, <1>2, <1>3 DEF AncestorsRight
<1>6. w \in Nat /\ Vnodes = 1 .. Len(vnodes) /\ Len(vnodes) \in Nat /\ w <= Len(vnodes)
  BY VnodeFacts DEF NameSpace, Vnodes
<1>7. \A a \in 1 .. w : P[a] \in Nat /\ P[a] < a /\ Q[a] = P[a] /\ Q[a] \in Nat /\ Q[a] < a
  <2>1. ASSUME NEW a \in 1 .. w
        PROVE  P[a] \in Nat /\ P[a] < a /\ Q[a] = P[a]
    <3>1. a \in Vnodes /\ a \in Vnodes' /\ a \in Nat /\ a > 0
      BY <1>6
    <3>2. P[a] = vnodes[a].parent /\ Q[a] = vnodes[a].parent
      BY <1>3, <3>1 DEF Parents
    <3>3. vnodes[a].parent \in Nat /\ vnodes[a].parent < a
      <4>1. CASE a = Root
        BY <3>1, <4>1 DEF NameSpace, Older, NULL
      <4>2. CASE a # Root
        BY <3>1, <4>2, VnodeFacts DEF NameSpace, Older
      <4> QED BY <4>1, <4>2
    <3> QED BY <3>2, <3>3
  <2> QED BY <2>1
<1>8. A \subseteq B
  BY <1>4, <1>5, <1>6, <1>7, OneLine
<1>9. B \subseteq A
  BY <1>4, <1>5, <1>6, <1>7, OneLine
<1> QED BY <1>2, <1>8, <1>9

\* What is covered stays so when parents and mounts stay.
LEMMA CoveredKept ==
    ASSUME NameSpace, NameSpace',
           \A v \in Vnodes : /\ v \in Vnodes' /\ vnodes'[v].parent = vnodes[v].parent
                             /\ vnodes[v].mount # NULL => vnodes'[v].mount = vnodes[v].mount,
           NEW u \in Threads, cwd'[u] = cwd[u], cwd[u] # NULL, Covered(u)
    PROVE  Covered(u)'
<1>1. CoveredRight /\ CoveredRight'
  BY CoveredIs, PTL
<1>2. PICK w : w = cwd[u]
  OBVIOUS
<1>3. w \in Vnodes /\ ~Seen(w)
  BY <1>1, <1>2, CwdFacts DEF CoveredRight
<1>4. PICK A : A = Ancestors(w)
  OBVIOUS
<1>5. A = Ancestors(w)'
  BY <1>3, <1>4, AncestorsKept
<1>6. A \subseteq Vnodes
  BY <1>3, <1>4, AncestorsAre, VnodeFacts DEF AncestorsRight, Line, NameSpace, Vnodes
<1>7. PICK v \in A : vnodes[v].mount \notin A \cup {NULL}
  BY <1>3, <1>4 DEF Seen
<1>8. vnodes'[v].mount = vnodes[v].mount
  BY <1>6, <1>7
<1>9. ~Seen(w)'
  BY <1>5, <1>7, <1>8 DEF Seen
<1> QED BY <1>1, <1>2, <1>9 DEF CoveredRight

\* An open that will find its name there
Doubt(c) ==
    /\ c.pc = "check" /\ ~c.isDir /\ c.vnode = NULL
    /\ vnodes[c.dir].fs = "tmpfs" /\ Named(c.dir, c.name) # {}

\* Why a name may be there
Excused(u) == overlapped # {} \/ cwd[u] = NULL \/ Covered(u)

\* Explained, for arguments that do not change with the state
ExplainedAll == \A u \in Threads : \E c : c = creating[u] /\ (Doubt(c) => Excused(u))

\* It is the same.
LEMMA ExplainedIs == Explained <=> ExplainedAll
  BY DEF Explained, ExplainedAll, Doubt, Excused

\* An excuse stays when parents and mounts stay.
LEMMA ExcusedKept ==
    ASSUME NameSpace, NameSpace',
           \A v \in Vnodes : /\ v \in Vnodes' /\ vnodes'[v].parent = vnodes[v].parent
                             /\ vnodes[v].mount # NULL => vnodes'[v].mount = vnodes[v].mount,
           NEW u \in Threads, cwd'[u] = cwd[u], overlapped \subseteq overlapped', Excused(u)
    PROVE  Excused(u)'
  BY CoveredKept DEF Excused

\* A create whose directory is as it was is excused as it was.
LEMMA ExplainedKept ==
    ASSUME NameSpace, NameSpace', ExplainedAll,
           \A v \in Vnodes : /\ v \in Vnodes' /\ vnodes'[v].parent = vnodes[v].parent
                             /\ vnodes[v].mount # NULL => vnodes'[v].mount = vnodes[v].mount,
           \A v \in Vnodes : vnodes'[v].fs = vnodes[v].fs,
           NEW u \in Threads, cwd'[u] = cwd[u], overlapped \subseteq overlapped',
           creating'[u] = creating[u],
           creating[u].pc = "check" =>
              overlapped' # {} \/ \A d \in Vnodes : \A nm :
                 d = creating[u].dir => Named(d, nm)' = Named(d, nm)
    PROVE  \E c : c = creating'[u] /\ (Doubt(c)' => Excused(u)')
<1>1. PICK c : c = creating[u] /\ (Doubt(c) => Excused(u))
  BY DEF ExplainedAll
<1>2. ASSUME Doubt(c)' PROVE Excused(u)'
  <2>1. c.pc = "check"
    BY <1>2 DEF Doubt
  <2>2. c.dir \in Vnodes
    BY <1>1, <2>1, CreatingFacts
  <2>3. CASE overlapped' # {}
    BY <2>3 DEF Excused
  <2>4. CASE overlapped' = {}
    <3>1. Named(c.dir, c.name)' = Named(c.dir, c.name)
      BY <1>1, <2>1, <2>2, <2>4
    <3>2. Doubt(c)
      BY <1>2, <2>2, <3>1 DEF Doubt
    <3> QED BY <1>1, <3>2, ExcusedKept
  <2> QED BY <2>3, <2>4
<1> QED BY <1>1, <1>2

\* A step of a thread that leaves the vnodes and the other threads as they are
LEMMA QuietExplained ==
    ASSUME NameSpace, NameSpace', ExplainedAll,
           UNCHANGED <<vnodes, children, overlapped, archive>>, NEW t \in Threads,
           \A u \in Threads \ {t} : cwd'[u] = cwd[u] /\ creating'[u] = creating[u],
           \E c : c = creating'[t] /\ (Doubt(c)' => Excused(t)')
    PROVE  ExplainedAll'
<1>1. Vnodes' = Vnodes /\ \A d, nm : Named(d, nm)' = Named(d, nm)
  BY QuietFacts
<1>2. ASSUME NEW u \in Threads \ {t} PROVE \E c : c = creating'[u] /\ (Doubt(c)' => Excused(u)')
  BY <1>1, ExplainedKept
<1> QED BY <1>2 DEF ExplainedAll

\* An excuse stays in a step that leaves the vnodes as they are.
LEMMA QuietExcused ==
    ASSUME NameSpace, NameSpace', UNCHANGED <<vnodes, children, overlapped, archive, cwd>>,
           NEW t \in Threads, Excused(t)
    PROVE  Excused(t)'
<1>1. Vnodes' = Vnodes
  BY QuietFacts
<1> QED BY <1>1, ExcusedKept

\* A create that is called is excused if its name is not there or it is.
LEMMA CallExplained ==
    ASSUME NameSpace, NameSpace', ExplainedAll, NEW t \in Threads, NEW p, NEW path,
           NEW isDir \in BOOLEAN, NEW vnode,
           CallCreate(t, p, path, isDir, vnode), UNCHANGED archive,
           isDir \/ Named(p.v, Last(path.comps)) = {} \/ Excused(t)
    PROVE  ExplainedAll'
<1>1. PICK c : c = Create("check", p.v, Last(path.comps), isDir, vnode)
  OBVIOUS
<1>2. /\ c.pc = "check" /\ c.isDir = isDir /\ c.dir = p.v /\ c.name = Last(path.comps)
  BY <1>1 DEF Create
<1>3. /\ creating' = [creating EXCEPT ![t] = c]
      /\ UNCHANGED <<vnodes, children, cwd, overlapped, fault>>
  BY <1>1 DEF CallCreate
<1>4. creating \in [Threads -> Creates]
  BY CreatingFacts
<1>5. creating'[t] = c /\ \A u \in Threads \ {t} : creating'[u] = creating[u]
  BY <1>3, <1>4
<1>6. ASSUME Doubt(c)' PROVE Excused(t)'
  <2> PICK d, nm : d = p.v /\ nm = Last(path.comps)
    OBVIOUS
  <2>1. Named(d, nm)' = Named(d, nm)
    BY <1>3, QuietFacts
  <2>2. ~isDir /\ Named(d, nm) # {}
    BY <1>2, <1>6, <2>1 DEF Doubt
  <2>3. Excused(t)
    BY <2>2
  <2> QED BY <1>3, <2>3, QuietExcused
<1> QED BY <1>3, <1>5, <1>6, QuietExplained

\* A mkdir's call of create leaves all creates explained.
LEMMA MkdirExplained ==
    ASSUME NameSpace, NameSpace', ExplainedAll, NEW t \in Threads, sys_mkdir(t), UNCHANGED archive
    PROVE  ExplainedAll'
<1>1. PICK path \in Paths[t] : vfs_mkdir(t, path)
  BY DEF sys_mkdir
<1>2. PICK p : p = LookupParent(cwd[t], path)
  OBVIOUS
<1>3. CallCreate(t, p, path, TRUE, NULL)
  BY <1>1, <1>2 DEF vfs_mkdir
<1> QED BY <1>3, CallExplained

\* An open's call of create leaves all creates explained.
LEMMA OpenCreateExplained ==
    ASSUME NameSpace, NameSpace', ExplainedAll, NEW t \in Threads, OpenCreate(t), UNCHANGED archive
    PROVE  ExplainedAll'
<1>1. PICK path, r, p, vnode : Opens(t, path, r, p, vnode)
  BY OpenFacts
<1>2. CallCreate(t, p, path, FALSE, vnode)
  BY <1>1 DEF Opens
<1>3. Named(p.v, Last(path.comps)) = {} \/ Excused(t)
  BY <1>1, OpenExplained DEF Excused
<1> QED BY <1>2, <1>3, CallExplained

\* So does passing the checks.
LEMMA CheckExplained ==
    ASSUME NameSpace, NameSpace', ExplainedAll, NEW t \in Threads, CreateCheck(t), UNCHANGED archive
    PROVE  ExplainedAll'
<1>1. /\ creating' = [creating EXCEPT ![t].pc = "link"]
      /\ UNCHANGED <<vnodes, children, cwd, overlapped, fault>>
  BY DEF CreateCheck
<1>2. creating \in [Threads -> Creates] /\ creating[t] \in Creates
  BY CreatingFacts
<1>3. creating'[t].pc = "link" /\ \A u \in Threads \ {t} : creating'[u] = creating[u]
  BY <1>1, <1>2 DEF Creates
<1>4. PICK c : c = creating'[t]
  OBVIOUS
<1>5. ~Doubt(c)'
  BY <1>3, <1>4 DEF Doubt
<1> QED BY <1>1, <1>3, <1>4, <1>5, QuietExplained

\* So does reading num_children and the mount.
LEMMA LoadExplained ==
    ASSUME NameSpace, NameSpace', ExplainedAll, NEW t \in Threads, CreateLoad(t), UNCHANGED archive
    PROVE  ExplainedAll'
<1> PICK m, n : m = vnodes[creating[t].dir].mount /\ n = Len(children[creating[t].dir])
  OBVIOUS
<1>1. /\ creating' = [creating EXCEPT ![t].pc = "store", ![t].mount = m, ![t].slot = n]
      /\ UNCHANGED <<vnodes, children, cwd, overlapped, fault>>
  BY DEF CreateLoad
<1>2. creating \in [Threads -> Creates] /\ creating[t] \in Creates
  BY CreatingFacts
<1>3. creating'[t].pc = "store" /\ \A u \in Threads \ {t} : creating'[u] = creating[u]
  BY <1>1, <1>2 DEF Creates
<1>4. PICK c : c = creating'[t]
  OBVIOUS
<1>5. ~Doubt(c)'
  BY <1>3, <1>4 DEF Doubt
<1> QED BY <1>1, <1>3, <1>4, <1>5, QuietExplained

\* So does the check of a mount.
LEMMA MountCallExplained ==
    ASSUME NameSpace, NameSpace', ExplainedAll, NEW t \in Threads, sys_mount(t), UNCHANGED archive
    PROVE  ExplainedAll'
<1>1. /\ UNCHANGED <<vnodes, children, cwd, overlapped, fault>>
      /\ \E c : creating' = [creating EXCEPT ![t] = c] /\ c.pc = "mount"
  BY MountCallKeeps
<1>2. PICK c : creating' = [creating EXCEPT ![t] = c] /\ c.pc = "mount"
  BY <1>1
<1>3. creating \in [Threads -> Creates]
  BY CreatingFacts
<1>4. creating'[t] = c /\ \A u \in Threads \ {t} : creating'[u] = creating[u]
  BY <1>2, <1>3
<1>5. ~Doubt(c)'
  BY <1>2 DEF Doubt
<1> QED BY <1>1, <1>4, <1>5, QuietExplained

\* So does a fault.
LEMMA FaultExplained ==
    ASSUME NameSpace, NameSpace', ExplainedAll, NEW t \in Threads, StaleStore(t) \/ NullRead(t),
           UNCHANGED archive
    PROVE  ExplainedAll'
<1>1. UNCHANGED <<vnodes, children, cwd, creating, overlapped, archive>>
  BY FaultKeeps
<1>2. Vnodes' = Vnodes /\ \A d, nm : Named(d, nm)' = Named(d, nm)
  BY <1>1, QuietFacts
<1>3. ASSUME NEW u \in Threads PROVE \E c : c = creating'[u] /\ (Doubt(c)' => Excused(u)')
  BY <1>1, <1>2, ExplainedKept
<1> QED BY <1>3 DEF ExplainedAll

\* So does failing them, with a fault that is explained.
LEMMA FailsExplained ==
    ASSUME NameSpace, NameSpace', ExplainedAll, NEW t \in Threads, CreateFails(t), UNCHANGED archive
    PROVE  ExplainedAll' /\ NamesAgree'
<1>1. PICK c, err : c = creating[t] /\ err = CreateError(c.dir, c.name)
  OBVIOUS
<1>2. /\ c.pc = "check" /\ creating' = [creating EXCEPT ![t] = NoCreate]
      /\ fault' = IF c.isDir \/ c.vnode # NULL THEN 0 ELSE err
      /\ UNCHANGED <<vnodes, children, cwd, overlapped>>
  BY <1>1 DEF CreateFails
<1>3. creating \in [Threads -> Creates] /\ NoCreate.pc = "none"
  BY CreatingFacts, NoCreateFacts
<1>4. creating'[t] = NoCreate /\ \A u \in Threads \ {t} : creating'[u] = creating[u]
  BY <1>2, <1>3
<1>5. PICK e : e = creating'[t]
  OBVIOUS
<1>6. ~Doubt(e)'
  BY <1>3, <1>4, <1>5 DEF Doubt
<1>7. ExplainedAll'
  BY <1>2, <1>4, <1>5, <1>6, QuietExplained
<1>8. ASSUME fault' = EEXIST_VFS PROVE Excused(t)'
  <2>1. ~c.isDir /\ c.vnode = NULL /\ CreateError(c.dir, c.name) = EEXIST_VFS
    BY <1>1, <1>2, <1>8 DEF EEXIST_VFS
  <2>2. vnodes[c.dir].fs # "initramfs" /\ Named(c.dir, c.name) # {}
    <3>1. PICK d, name : d = c.dir /\ name = c.name
      OBVIOUS
    <3>2. CreateError(d, name) = EEXIST_VFS
      BY <2>1, <3>1
    <3>3. /\ EACCES_VFS # EEXIST_VFS /\ ENOMEM_VFS # EEXIST_VFS /\ EEXIST_VFS # 0
          /\ EINVAL_VFS # EEXIST_VFS
      BY DEF EACCES_VFS, EEXIST_VFS, ENOMEM_VFS, EINVAL_VFS
    <3>4. ~(vnodes[d].fs = "initramfs" \/ ~vnodes[d].dir)
      BY <3>2, <3>3 DEF CreateError
    <3>5. ASSUME Named(d, name) = {} PROVE FALSE
      <4>0. ~(strlen[name] >= MAX_FILE_NAME)
        BY <3>2, <3>3, <3>4 DEF CreateError
      <4>1. CASE Len(children[d]) >= MAX_CHILDREN
        BY <3>2, <3>3, <3>4, <3>5, <4>0, <4>1 DEF CreateError
      <4>2. CASE ~(Len(children[d]) >= MAX_CHILDREN)
        BY <3>2, <3>3, <3>4, <3>5, <4>0, <4>2 DEF CreateError
      <4> QED BY <4>1, <4>2
    <3> QED BY <3>1, <3>4, <3>5
  <2>3. c.dir \in Vnodes
    BY <1>1, <1>2, CreatingFacts
  <2>4. vnodes[c.dir].fs = "tmpfs"
    BY <2>2, <2>3, VnodeFacts DEF NameSpace
  <2>5. Doubt(c)
    BY <1>2, <2>1, <2>2, <2>4 DEF Doubt
  <2>6. Excused(t)
    BY <1>1, <2>5 DEF ExplainedAll
  <2> QED BY <1>2, <2>6, QuietExcused
<1>9. NamesAgree'
  BY <1>8 DEF NamesAgree, Excused
<1> QED BY <1>7, <1>9

\* So does a chdir.
LEMMA ChdirExplained ==
    ASSUME NameSpace, NameSpace', ExplainedAll, NEW t \in Threads, sys_chdir(t), UNCHANGED archive
    PROVE  ExplainedAll'
<1>1. /\ UNCHANGED <<vnodes, children, creating, overlapped, fault>>
      /\ creating[t] = NoCreate /\ \A u \in Threads \ {t} : cwd'[u] = cwd[u]
  BY ChdirKeeps
<1>2. PICK c : c = creating'[t]
  OBVIOUS
<1>3. ~Doubt(c)'
  BY <1>1, <1>2, NoCreateFacts DEF Doubt
<1> QED BY <1>1, <1>2, <1>3, QuietExplained

\* So does a link, which overlaps the creates in its directory.
LEMMA LinkExplained ==
    ASSUME NameSpace, NameSpace', ExplainedAll, NEW t \in Threads, CreateStore(t)
    PROVE  ExplainedAll'
<1>1. PICK dir, name, v : Linked(t, dir, name, v)
  BY LinkFacts
<1>2. /\ Vnodes' = Vnodes \cup {v} /\ \A u \in Vnodes : vnodes'[u] = vnodes[u]
      /\ creating'[t] = NoCreate
      /\ \A u \in Threads \ {t} : creating'[u] = creating[u]
      /\ overlapped' = overlapped \cup
            {<<dir, creating[u].name>> :
                u \in {w \in Threads \ {t} : creating[w].dir = dir /\ creating[w].pc # "mount"}}
      /\ cwd' = cwd
  BY <1>1 DEF Linked
<1>3. \A d \in Vnodes \ {dir} : \A nm : Named(d, nm)' = Named(d, nm)
  BY <1>1, LinkNamed
<1>4. \E c : c = creating'[t] /\ (Doubt(c)' => Excused(t)')
  <2>1. PICK c : c = creating'[t]
    OBVIOUS
  <2>2. ~Doubt(c)'
    BY <1>2, <2>1, NoCreateFacts DEF Doubt
  <2> QED BY <2>1, <2>2
<1>5. ASSUME NEW u \in Threads \ {t} PROVE \E c : c = creating'[u] /\ (Doubt(c)' => Excused(u)')
  <2>1. /\ \A w \in Vnodes : /\ w \in Vnodes' /\ vnodes'[w].parent = vnodes[w].parent
                             /\ vnodes[w].mount # NULL => vnodes'[w].mount = vnodes[w].mount
        /\ \A w \in Vnodes : vnodes'[w].fs = vnodes[w].fs
        /\ cwd'[u] = cwd[u] /\ overlapped \subseteq overlapped' /\ creating'[u] = creating[u]
    BY <1>2
  <2>2. CASE creating[u].dir = dir
    <3>1. creating[u].pc = "check" => <<dir, creating[u].name>> \in overlapped'
      BY <1>2, <2>2
    <3> QED BY <2>1, <3>1, ExplainedKept
  <2>3. CASE creating[u].dir # dir
    <3>1. \A d \in Vnodes : \A nm : d = creating[u].dir => Named(d, nm)' = Named(d, nm)
      BY <1>3, <2>3
    <3> QED BY <2>1, <3>1, ExplainedKept
  <2> QED BY <2>2, <2>3
<1> QED BY <1>4, <1>5 DEF ExplainedAll

\* So does a mount.
LEMMA MountExplained ==
    ASSUME NameSpace, NameSpace', ExplainedAll, NEW t \in Threads, MountStore(t)
    PROVE  ExplainedAll'
<1>1. /\ UNCHANGED <<cwd, overlapped, fault>> /\ creating'[t] = NoCreate
      /\ \A u \in Threads \ {t} : creating'[u] = creating[u]
      /\ \E v, m : MountedOn(v, m)
  BY MountStep
<1>2. PICK v, m : MountedOn(v, m)
  BY <1>1
<1>3. Vnodes' = Vnodes \cup {m} /\ vnodes[v].mount = NULL
  BY <1>2 DEF MountedOn
<1>4. /\ \A u \in Vnodes :
            /\ vnodes'[u].fs = vnodes[u].fs /\ vnodes'[u].parent = vnodes[u].parent
            /\ u # v => vnodes'[u].mount = vnodes[u].mount
      /\ \A d \in Vnodes : \A nm : Named(d, nm)' = Named(d, nm)
  BY <1>2, MountQuiet
<1>5. ASSUME NEW u \in Threads \ {t} PROVE \E c : c = creating'[u] /\ (Doubt(c)' => Excused(u)')
  <2>1. /\ \A w \in Vnodes : /\ w \in Vnodes' /\ vnodes'[w].parent = vnodes[w].parent
                             /\ vnodes[w].mount # NULL => vnodes'[w].mount = vnodes[w].mount
        /\ \A w \in Vnodes : vnodes'[w].fs = vnodes[w].fs
        /\ cwd'[u] = cwd[u] /\ overlapped \subseteq overlapped' /\ creating'[u] = creating[u]
    BY <1>1, <1>3, <1>4
  <2> QED BY <1>4, <2>1, ExplainedKept
<1>6. \E c : c = creating'[t] /\ (Doubt(c)' => Excused(t)')
  <2>1. PICK c : c = creating'[t]
    OBVIOUS
  <2>2. ~Doubt(c)'
    BY <1>1, <2>1, NoCreateFacts DEF Doubt
  <2> QED BY <2>1, <2>2
<1> QED BY <1>5, <1>6 DEF ExplainedAll

\* What a step leaves of the faults
LEMMA FaultFacts ==
    ASSUME NEW t \in Threads,
           \/ sys_mkdir(t) \/ OpenCreate(t) \/ sys_mount(t) \/ sys_chdir(t)
           \/ CreateCheck(t) \/ CreateLoad(t) \/ CreateStore(t)
           \/ MountStore(t) \/ StaleStore(t) \/ NullRead(t)
    PROVE  fault' # EEXIST_VFS
<1> USE DEF EEXIST_VFS
<1>1. CASE sys_mkdir(t)
  BY <1>1 DEF sys_mkdir, vfs_mkdir, CallCreate, Ready, Running
<1>2. CASE OpenCreate(t)
  BY <1>2 DEF OpenCreate, CallCreate, Ready, Running
<1>3. CASE CreateCheck(t)
  BY <1>3 DEF CreateCheck, Running
<1>4. CASE CreateStore(t)
  BY <1>4 DEF CreateStore, OVERRUN
<1>5. CASE sys_mount(t)
  BY <1>5 DEF sys_mount, vfs_mount, Ready, Running
<1>6. CASE sys_chdir(t)
  BY <1>6 DEF sys_chdir, Ready, Running
<1>7. CASE CreateLoad(t)
  BY <1>7 DEF CreateLoad, Running
<1>8. CASE MountStore(t)
  BY <1>8 DEF MountStore, Running
<1>9. CASE StaleStore(t) \/ NullRead(t)
  BY <1>9 DEF StaleStore, NullRead, STALE, NULL_READ
<1> QED BY <1>1, <1>2, <1>3, <1>4, <1>5, <1>6, <1>7, <1>8, <1>9

\* The invariant that explains the faults
Agreement == NameSpace /\ ExplainedAll /\ NamesAgree

\* It holds in the initial states.
LEMMA InitAgrees == vfs_init => Agreement
<1> SUFFICES ASSUME vfs_init PROVE Agreement
  OBVIOUS
<1>1. NameSpace
  BY InitKeeps
<1>2. /\ creating = [t \in Threads |-> NoCreate]
      /\ fault = OVERRUN \/ fault = 0
  BY DEF vfs_init
<1>3. NamesAgree
  BY <1>2 DEF NamesAgree, OVERRUN, EEXIST_VFS
<1>4. ExplainedAll
  BY <1>2, NoCreateFacts DEF ExplainedAll, Doubt
<1> QED BY <1>1, <1>3, <1>4 DEF Agreement

\* It is kept by every step.
LEMMA NextAgrees ==
    Agreement /\ [VfsNext /\ UNCHANGED archive]_vfs_vars => Agreement'
<1> SUFFICES ASSUME Agreement, [VfsNext /\ UNCHANGED archive]_vfs_vars PROVE Agreement'
  OBVIOUS
<1>1. NameSpace /\ NameSpace' /\ ExplainedAll /\ NamesAgree
  BY NextKeeps DEF Agreement
<1>2. ASSUME VfsNext, UNCHANGED archive PROVE ExplainedAll' /\ NamesAgree'
  <2>1. PICK t \in Threads :
           \/ sys_mkdir(t) \/ OpenCreate(t) \/ sys_mount(t) \/ sys_chdir(t)
           \/ CreateCheck(t) \/ CreateFails(t) \/ CreateLoad(t) \/ CreateStore(t)
           \/ MountStore(t) \/ StaleStore(t) \/ NullRead(t)
    BY <1>2 DEF VfsNext
  <2>2. CASE CreateFails(t)
    BY <1>1, <1>2, <2>2, FailsExplained
  <2>3. CASE ~CreateFails(t)
    <3>1. fault' # EEXIST_VFS
      BY <2>1, <2>3, FaultFacts
    <3>2. NamesAgree'
      BY <3>1 DEF NamesAgree
    <3>3. ExplainedAll'
      BY <1>1, <1>2, <2>1, <2>3, MkdirExplained, OpenCreateExplained, CheckExplained,
         LoadExplained, LinkExplained, MountCallExplained, MountExplained, ChdirExplained,
         FaultExplained
    <3> QED BY <3>2, <3>3
  <2> QED BY <2>2, <2>3
<1>3. ASSUME UNCHANGED vfs_vars PROVE ExplainedAll' /\ NamesAgree'
  <2>1. UNCHANGED <<vnodes, children, cwd, archive, creating, overlapped, fault>>
    BY <1>3 DEF vfs_vars
  <2>2. ExplainedAll'
    <3>1. Vnodes' = Vnodes /\ \A d, nm : Named(d, nm)' = Named(d, nm)
      BY <1>1, <2>1, QuietFacts
    <3>2. ASSUME NEW u \in Threads PROVE \E c : c = creating'[u] /\ (Doubt(c)' => Excused(u)')
      BY <1>1, <2>1, <3>1, ExplainedKept
    <3> QED BY <3>2 DEF ExplainedAll
  <2>3. NamesAgree'
    <3>1. \A u \in Threads : Excused(u) => Excused(u)'
      BY <1>1, <2>1, QuietExcused
    <3>2. NamesAgree => (fault = EEXIST_VFS => \E u \in Threads : Excused(u)) \/ overlapped # {}
      BY DEF NamesAgree, Excused
    <3>3. (\E u \in Threads : Excused(u)') \/ overlapped' # {} \/ fault' # EEXIST_VFS => NamesAgree'
      BY DEF NamesAgree, Excused
    <3> QED BY <1>1, <2>1, <3>1, <3>2, <3>3
  <2> QED BY <2>2, <2>3
<1> QED BY <1>1, <1>2, <1>3 DEF Agreement

\* The invariant of the name space, with what explains the names that are there
THEOREM VfsInvariant == VfsSpec => []VfsInv
<1>1. VfsSpec => []Agreement
  BY InitAgrees, NextAgrees, PTL DEF VfsSpec
<1>2. Agreement => VfsInv
  BY ExplainedIs DEF Agreement, VfsInv
<1> QED BY <1>1, <1>2, PTL

\* vfs_open goes on with a NULL vnode because of a name that is there only if
\* creates overlap, or in a thread whose working directory is lost or covered.
THEOREM VfsNamesAgree == VfsSpec => []NamesAgree
<1>1. VfsInv => NamesAgree
  BY DEF VfsInv
<1> QED BY <1>1, VfsInvariant, PTL

\* A lookup enters e by the component c.
Enters(r, c, d, found, k, e) ==
    /\ r.err = 0 /\ c \notin {".", ".."} /\ d = Through(r.v) /\ found = Named(d, c)
    /\ found # {} /\ k = Min(found) /\ e = Through(k)

\* The result of a step to e
Moved(r, e) == [r EXCEPT !.v = e]

\* What a component does, for arguments that do not change with the state.
StepRight ==
    /\ \A r \in Results : r.err = 0 => Step(r, ".") = r
    /\ \A r \in Results : (r.err = 0 /\ r.v = Root) => Step(r, "..") = r
    /\ \A r \in Results : \A e : (r.err = 0 /\ r.v # Root /\ e = DotDot(r.v)) =>
          Step(r, "..") = [r EXCEPT !.v = e, !.t = e]
    /\ \A r \in Results : \A c, d, found, k, e :
          Enters(r, c, d, found, k, e) => Step(r, c) = Moved(r, e)

\* Components do this.
LEMMA GoesIs == NameSpace => StepRight
<1> SUFFICES ASSUME NameSpace PROVE StepRight
  OBVIOUS
<1>1. ASSUME NEW r \in Results, r.err = 0 PROVE Step(r, ".") = r
  BY <1>1, StepFacts
<1>2. ASSUME NEW r \in Results, r.err = 0, r.v = Root PROVE Step(r, "..") = r
  BY <1>2 DEF Step
<1>3. ASSUME NEW r \in Results, NEW e, r.err = 0, r.v # Root, e = DotDot(r.v)
      PROVE  Step(r, "..") = [r EXCEPT !.v = e, !.t = e]
  BY <1>3 DEF Step
<1>4. ASSUME NEW r \in Results, NEW c, NEW d, NEW found, NEW k, NEW e,
             Enters(r, c, d, found, k, e)
      PROVE  Step(r, c) = Moved(r, e)
  <2>1. LET found2 == Named(Through(r.v), c)
        IN  found2 # {} => Step(r, c) = [r EXCEPT !.v = Through(Min(found2))]
    BY <1>4, StepFacts DEF Enters
  <2> QED BY <1>4, <2>1 DEF Enters, Moved
<1> QED BY <1>1, <1>2, <1>3, <1>4 DEF StepRight

\* What a walk is, for arguments that do not change with the state
WalkRight ==
    \A comps \in AbsPaths : \A w, r, n :
        (w = Walk(Root, comps) /\ r = Resolve(comps) /\ n = Len(comps)) =>
            /\ w[0] = Begin(Root)
            /\ \A i \in 0 .. n : w[i] \in Results
            /\ \A i \in 1 .. n : w[i].err = 0 => w[i - 1].err = 0
            /\ \A i \in 1 .. n : \A q, c : (q = w[i - 1] /\ c = comps[i]) => w[i] = Step(q, c)
            /\ r.err = 0 <=> w[n].err = 0
            /\ \A z : (r.err = 0 /\ z = w[n]) => r = [z EXCEPT !.t = z.v]

\* Walks are this.
LEMMA WalkIs == NameSpace => WalkRight
<1> SUFFICES ASSUME NameSpace, NEW comps \in AbsPaths, NEW w, NEW r, NEW n,
                    w = Walk(Root, comps), r = Resolve(comps), n = Len(comps)
             PROVE  /\ w[0] = Begin(Root)
                    /\ \A i \in 0 .. n : w[i] \in Results
                    /\ \A i \in 1 .. n : w[i].err = 0 => w[i - 1].err = 0
                    /\ \A i \in 1 .. n : \A q, c :
                          (q = w[i - 1] /\ c = comps[i]) => w[i] = Step(q, c)
                    /\ r.err = 0 <=> w[n].err = 0
                    /\ \A z : (r.err = 0 /\ z = w[n]) => r = [z EXCEPT !.t = z.v]
  BY DEF WalkRight
<1>1. PICK C : C = Components
  OBVIOUS
<1>2. comps \in Seq(C)
  BY <1>1, PathFacts
<1>3. Root \in Vnodes /\ ~Inherits(Root)
  BY RootFacts
<1>4. /\ w[0] = Begin(Root)
      /\ \A i \in 1 .. n : w[i] = Step(w[i - 1], comps[i])
      /\ \A i \in 0 .. n : w[i] \in Results
      /\ \A i \in 1 .. n : w[i].err = 0 => w[i - 1].err = 0
  BY <1>2, <1>3, WalkFacts
<1>5. LET last == Walk(Root, comps)[Len(comps)]
          s == Resolve(comps)
      IN  /\ s.err = 0 <=> last.err = 0
          /\ s.err = 0 => s.v = last.v /\ s = [last EXCEPT !.t = last.v]
  BY <1>2, ResolveIs
<1> QED BY <1>4, <1>5

\* A link changes no component that can be gone.
LEMMA StepStable ==
    ASSUME NameSpace, NameSpace',
           NEW t, NEW dir, NEW name, NEW v, Linked(t, dir, name, v),
           NEW q \in Results, q \in Results', NEW c, q.err = 0, Step(q, c).err = 0
    PROVE  Step(q, c)' = Step(q, c)
<1>1. StepRight /\ StepRight'
  BY GoesIs, PTL
<1>2. /\ Vnodes' = Vnodes \cup {v} /\ v \in Nat /\ v \notin Vnodes
      /\ \A u \in Vnodes : u < v /\ u \in Nat /\ vnodes'[u] = vnodes[u]
  BY VnodeFacts DEF Linked, NameSpace
<1>3. q.v \in Vnodes
  BY ResultFacts
<1>4. CASE c = "."
  BY <1>1, <1>4 DEF StepRight
<1>5. CASE c = ".."
  <2>1. CASE q.v = Root
    BY <1>1, <1>5, <2>1 DEF StepRight
  <2>2. CASE q.v # Root
    <3>1. vnodes[q.v].parent \in Vnodes
      BY <1>3, <2>2 DEF NameSpace, Older
    <3>2. PICK e : e = DotDot(q.v)
      OBVIOUS
    <3>3. DotDot(q.v)' = e
      BY <1>2, <1>3, <3>1, <3>2 DEF DotDot
    <3>4. Step(q, "..") = [q EXCEPT !.v = e, !.t = e]
      BY <1>1, <2>2, <3>2 DEF StepRight
    <3>5. Step(q, "..")' = [q EXCEPT !.v = e, !.t = e]
      BY <1>1, <2>2, <3>3 DEF StepRight
    <3> QED BY <1>5, <3>4, <3>5
  <2> QED BY <2>1, <2>2
<1>6. CASE c \notin {".", ".."}
  <2>1. PICK d, found, more : d = Through(q.v) /\ found = Named(d, c) /\ more = Named(d, c)'
    OBVIOUS
  <2>2. d \in Vnodes
    BY <1>3, <2>1, ThroughFacts
  <2>3. found # {}
    BY <1>6, <2>1, StepFacts
  <2>4. found \subseteq more /\ more \subseteq found \cup {v}
    BY <2>1, <2>2, LinkNamed
  <2>5. found \subseteq Vnodes
    BY <2>1, <2>2, NamedFacts
  <2>6. PICK k : k = Min(found)
    OBVIOUS
  <2>7. k \in found /\ \A x \in found : k <= x
    BY <2>1, <2>2, <2>3, <2>6, NamedFacts
  <2>8. Min(more) = k
    <3>1. PICK m : m = Min(more)
      OBVIOUS
    <3>2. more \subseteq Nat /\ more # {}
      BY <1>2, <2>3, <2>4, <2>5
    <3>3. m \in more /\ \A x \in more : m <= x
      BY <3>1, <3>2, MinFacts
    <3>4. m <= k /\ k < v /\ k \in Nat /\ m \in Nat
      BY <1>2, <2>4, <2>5, <2>7, <3>2, <3>3
    <3>5. m \in found
      BY <1>2, <2>4, <3>3, <3>4
    <3> QED BY <2>7, <3>1, <3>4, <3>5
  <2>9. PICK e : e = Through(k)
    OBVIOUS
  <2>10. Through(q.v)' = d /\ Through(k)' = e
    BY <1>2, <1>3, <2>1, <2>5, <2>7, <2>9 DEF Through
  <2>11. Step(q, c) = Moved(q, e)
    <3>1. Enters(q, c, d, found, k, e)
      BY <1>6, <2>1, <2>3, <2>6, <2>9 DEF Enters
    <3>2. \A b, o, m, l, i : Enters(q, b, o, m, l, i) => Step(q, b) = Moved(q, i)
      BY <1>1 DEF StepRight
    <3> QED BY <3>1, <3>2, Zenon
  <2>12. more # {}
    BY <2>3, <2>4
  <2>13. Step(q, c)' = Moved(q, e)
    <3>1. Enters(q, c, d, more, k, e)'
      BY <1>6, <2>1, <2>8, <2>10, <2>12 DEF Enters
    <3>2. \A b, o, m, l, i : Enters(q, b, o, m, l, i)' => Step(q, b)' = Moved(q, i)
      BY <1>1 DEF StepRight
    <3> QED BY <3>1, <3>2, Zenon
  <2> QED BY <2>11, <2>13
<1> QED BY <1>4, <1>5, <1>6

\* A link changes no path that resolves.
LEMMA ResolveStable ==
    ASSUME NameSpace, NameSpace',
           NEW t, NEW dir, NEW name, NEW v, Linked(t, dir, name, v),
           NEW comps \in AbsPaths, Resolve(comps).err = 0
    PROVE  Resolve(comps)' = Resolve(comps)
<1>1. WalkRight /\ WalkRight'
  BY WalkIs, PTL
<1>2. PICK w, x, r, s : /\ w = Walk(Root, comps) /\ x = Walk(Root, comps)'
                        /\ r = Resolve(comps) /\ s = Resolve(comps)'
  OBVIOUS
<1>3. PICK n : n = Len(comps)
  OBVIOUS
<1>4. n \in Nat
  BY <1>3, PathFacts
<1>5. /\ w[0] = Begin(Root)
      /\ \A i \in 0 .. n : w[i] \in Results
      /\ \A i \in 1 .. n : w[i].err = 0 => w[i - 1].err = 0
      /\ \A i \in 1 .. n : \A q, c : (q = w[i - 1] /\ c = comps[i]) => w[i] = Step(q, c)
      /\ r.err = 0 <=> w[n].err = 0
      /\ \A z : (r.err = 0 /\ z = w[n]) => r = [z EXCEPT !.t = z.v]
  BY <1>1, <1>2, <1>3 DEF WalkRight
<1>6. /\ x[0] = Begin(Root)
      /\ \A i \in 0 .. n : x[i] \in Results'
      /\ \A i \in 1 .. n : \A q, c : (q = x[i - 1] /\ c = comps[i]) => x[i] = Step(q, c)'
      /\ s.err = 0 <=> x[n].err = 0
      /\ \A z : (s.err = 0 /\ z = x[n]) => s = [z EXCEPT !.t = z.v]
  BY <1>1, <1>2, <1>3 DEF WalkRight, Begin
<1>7. PICK f : f = [i \in 0 .. n |-> i]
  OBVIOUS
<1>8. PICK S : S = {i \in 0 .. n : w[i].err = 0 => x[i] = w[i]}
  OBVIOUS
<1>9. f[0] \in S
  BY <1>4, <1>5, <1>6, <1>7, <1>8
<1>10. ASSUME NEW i \in 1 .. n, f[i - 1] \in S PROVE f[i] \in S
  <2>1. i - 1 \in 0 .. n /\ i \in 0 .. n /\ f[i - 1] = i - 1 /\ f[i] = i
    BY <1>4, <1>7
  <2>2. w[i - 1].err = 0 => x[i - 1] = w[i - 1]
    BY <1>8, <1>10, <2>1
  <2>3. ASSUME w[i].err = 0 PROVE x[i] = w[i]
    <3>1. PICK q, c : q = w[i - 1] /\ c = comps[i]
      OBVIOUS
    <3>2. q = x[i - 1] /\ q.err = 0
      BY <1>5, <2>2, <2>3, <3>1
    <3>3. w[i] = Step(q, c) /\ x[i] = Step(q, c)' /\ q \in Results /\ q \in Results'
      <4>1. w[i] = Step(q, c)
        BY <1>5, <3>1
      <4>2. x[i] = Step(q, c)'
        BY <1>6, <3>1, <3>2
      <4>3. q \in Results /\ q \in Results'
        BY <1>5, <1>6, <2>1, <3>1, <3>2
      <4> QED BY <4>1, <4>2, <4>3
    <3>4. Step(q, c).err = 0
      BY <2>3, <3>3
    <3> QED BY <3>2, <3>3, <3>4, StepStable
  <2> QED BY <1>8, <2>1, <2>3
<1>11. \A i \in 0 .. n : f[i] \in S
  BY <1>4, <1>9, <1>10, WalkInduction
<1>12. n \in 0 .. n /\ f[n] = n
  BY <1>4, <1>7
<1>13. w[n].err = 0 => x[n] = w[n]
  BY <1>8, <1>11, <1>12
<1>14. r.err = 0
  BY <1>2
<1> QED BY <1>2, <1>5, <1>6, <1>13, <1>14

\* The steps that change the name space without a mount
LEMMA StableStep ==
    ASSUME NameSpace, NameSpace', VfsNext, UNCHANGED archive,
           <<vnodes, children>>' # <<vnodes, children>>,
           \A v \in Vnodes : vnodes'[v].mount = vnodes[v].mount,
           NEW comps \in AbsPaths, Leads[comps].err = 0
    PROVE  Leads'[comps] = Leads[comps]
<1>1. PICK t \in Threads :
         \/ sys_mkdir(t) \/ OpenCreate(t) \/ sys_mount(t) \/ sys_chdir(t)
         \/ CreateCheck(t) \/ CreateFails(t) \/ CreateLoad(t) \/ CreateStore(t)
         \/ MountStore(t) \/ StaleStore(t) \/ NullRead(t)
  BY DEF VfsNext
<1>2. /\ ~sys_mkdir(t) /\ ~OpenCreate(t) /\ ~sys_mount(t) /\ ~sys_chdir(t)
      /\ ~CreateCheck(t) /\ ~CreateFails(t) /\ ~CreateLoad(t)
      /\ ~StaleStore(t) /\ ~NullRead(t)
  BY DEF sys_mkdir, vfs_mkdir, OpenCreate, CallCreate, sys_mount, vfs_mount, sys_chdir,
         CreateCheck, CreateFails, CreateLoad, StaleStore, NullRead
<1>3. ~MountStore(t)
  <2> SUFFICES ASSUME MountStore(t) PROVE FALSE
    OBVIOUS
  <2>1. PICK v, m : MountedOn(v, m)
    BY MountStep
  <2>2. v \in Vnodes /\ vnodes[v].mount = NULL /\ vnodes'[v].mount = m /\ m \in Nat /\ m > 3
    BY <2>1 DEF MountedOn
  <2> QED BY <2>2 DEF NULL
<1>4. PICK dir, name, v : Linked(t, dir, name, v)
  BY <1>1, <1>2, <1>3, LinkFacts
<1>5. Leads[comps] = Resolve(comps) /\ Leads'[comps] = Resolve(comps)'
  BY DEF Leads, AbsPaths
<1> QED BY <1>4, <1>5, ResolveStable

\* Only a mount changes what an absolute path leads to.
THEOREM VfsNamesStable == VfsSpec => NamesStable
<1>1. NameSpace /\ NameSpace' /\ [VfsNext /\ UNCHANGED archive]_vfs_vars =>
         [(/\ <<vnodes, children>>' # <<vnodes, children>>
           /\ \A v \in Vnodes : vnodes'[v].mount = vnodes[v].mount) =>
             LET before == Leads
                 after == Leads'
             IN  \A comps \in AbsPaths :
                     before[comps].err = 0 => after[comps] = before[comps]]_vfs_vars
  BY StableStep
<1> QED BY <1>1, VfsNameSpace, PTL DEF VfsSpec, NamesStable
=============================================================================
