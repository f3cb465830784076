------------------------------ MODULE KmemProofs ------------------------------
(***************************************************************************)
(* TLAPS proofs about Kmem, for every set of clients, every number of      *)
(* caches and pages and every size of chunks and headers that the          *)
(* assumption allows.                                                      *)
(***************************************************************************)
EXTENDS Kmem, FiniteSetTheorems, SequenceTheorems, TLAPS

-----------------------------------------------------------------------------
(* Powers of two, by way of the subsets of 1 .. n.                         *)

\* Min of a non-empty set of natural numbers is its least element.
LEMMA MinFacts ==
    ASSUME NEW T, T \subseteq Nat, T # {}
    PROVE  Min(T) \in T /\ \A k \in T : Min(T) <= k
<1>1. PICK m \in T : \A k \in T : ~(<<k, m>> \in OpToRel(<, Nat))
  BY NatLessThanWellFounded, WFMin
<1>2. \A k \in T : ~(k < m)
  BY <1>1 DEF OpToRel
<1>3. \A k \in T : m <= k
  BY <1>2
<1> QED BY <1>3 DEF Min

\* Induction on the natural numbers, for a set
LEMMA SetInduction ==
    ASSUME NEW S, 0 \in S, \A n \in Nat : n \in S => n + 1 \in S
    PROVE  Nat \subseteq S
<1> SUFFICES ASSUME Nat \ S # {} PROVE FALSE
  OBVIOUS
<1> DEFINE m == Min(Nat \ S)
<1>1. m \in Nat \ S /\ \A k \in Nat \ S : m <= k
  BY MinFacts
<1> HIDE DEF m
<1>2. m # 0 /\ m - 1 \in Nat
  BY <1>1
<1>3. m - 1 \in S
  BY <1>1, <1>2
<1> QED BY <1>1, <1>2, <1>3

\* A set of n elements has 2^n subsets, one of n + 1 twice as many.
LEMMA PowerFacts ==
    ASSUME NEW n \in Nat
    PROVE  2 ^ n \in Nat /\ 2 ^ (n + 1) = 2 * 2 ^ n
<1> DEFINE S == 1 .. n
           With == {A \cup {n + 1} : A \in SUBSET S}
           f == [A \in SUBSET S |-> A \cup {n + 1}]
<1>1. IsFiniteSet(S) /\ Cardinality(S) = n
  BY FS_Interval
<1>2. IsFiniteSet(1 .. n + 1) /\ Cardinality(1 .. n + 1) = n + 1
  BY FS_Interval
<1>3. IsFiniteSet(SUBSET S) /\ Cardinality(SUBSET S) = 2 ^ n
  BY <1>1, FS_SUBSET
<1>4. Cardinality(SUBSET (1 .. n + 1)) = 2 ^ (n + 1)
  BY <1>2, FS_SUBSET
<1>5. n + 1 \notin S /\ 1 .. n + 1 = S \cup {n + 1}
  OBVIOUS
<1> HIDE DEF S
<1>6. f \in Bijection(SUBSET S, With)
  <2>1. \A A, B \in SUBSET S : A \cup {n + 1} = B \cup {n + 1} => A = B
    BY <1>5
  <2>2. f \in [SUBSET S -> With] /\ \A T \in With : \E A \in SUBSET S : f[A] = T
    OBVIOUS
  <2>3. \A A, B \in SUBSET S : f[A] = f[B] => A = B
    BY <2>1
  <2> QED BY <2>2, <2>3 DEF Bijection, Injection, Surjection, IsInjective
<1>7. IsFiniteSet(With) /\ Cardinality(With) = 2 ^ n
  BY <1>3, <1>6, FS_Bijection DEF ExistsBijection
<1>w. \A X : X \in With <=> \E A \in SUBSET S : X = A \cup {n + 1}
  BY Zenon
<1> HIDE DEF With, f
<1> DEFINE P == SUBSET S
           Q == SUBSET (1 .. n + 1)
<1>8. Q = P \cup With
  <2>1. ASSUME NEW A \in Q, n + 1 \in A PROVE A \in With
    <3>1. A \ {n + 1} \in SUBSET S
      BY <1>5
    <3>2. A = (A \ {n + 1}) \cup {n + 1}
      BY <2>1
    <3> QED BY <1>w, <3>1, <3>2, Zenon
  <2>2. ASSUME NEW A \in Q, n + 1 \notin A PROVE A \in P
    BY <1>5, <2>2
  <2>3. ASSUME NEW A \in With PROVE A \in Q
    <3>1. PICK B \in SUBSET S : A = B \cup {n + 1}
      BY <1>w, Zenon
    <3> QED BY <1>5, <3>1
  <2>4. ASSUME NEW A \in P PROVE A \in Q
    BY <1>5
  <2> HIDE DEF P, Q
  <2> QED BY <2>1, <2>2, <2>3, <2>4
<1>9. P \cap With = {}
  <2>1. ASSUME NEW A \in With PROVE n + 1 \in A
    <3>1. PICK B \in SUBSET S : A = B \cup {n + 1}
      BY <1>w, Zenon
    <3> QED BY <3>1
  <2>2. ASSUME NEW A \in P PROVE n + 1 \notin A
    BY <1>5
  <2> HIDE DEF P
  <2> QED BY <2>1, <2>2
<1>10. Cardinality(P) \in Nat /\ Cardinality({}) = 0
  BY <1>3, FS_EmptySet, FS_CardinalityType
<1>11. Cardinality(Q) = Cardinality(P) + Cardinality(With) - Cardinality(P \cap With)
  <2>1. IsFiniteSet(P)
    BY <1>3
  <2> HIDE DEF P, Q
  <2> QED BY <1>7, <1>8, <2>1, FS_Union
<1>12. 2 ^ n = Cardinality(P) /\ 2 ^ (n + 1) = Cardinality(Q)
  BY <1>3, <1>4
<1> HIDE DEF P, Q
<1>13. Cardinality(Q) = Cardinality(P) + Cardinality(P)
  <2>1. Cardinality(P \cap With) = 0
    BY <1>9, <1>10, Zenon
  <2>2. Cardinality(With) = Cardinality(P)
    BY <1>7, <1>12, Zenon
  <2> QED BY <1>10, <1>11, <2>1, <2>2
<1> QED BY <1>10, <1>12, <1>13

\* 2^n grows beyond every number.
LEMMA PowerAbove == \A n \in Nat : n < 2 ^ n
<1> DEFINE S == {n \in Nat : n < 2 ^ n}
<1>1. 0 \in S
  <2>1. 2 ^ 0 = 1
    OBVIOUS
  <2> QED BY <2>1
<1>2. ASSUME NEW n \in Nat, n \in S PROVE n + 1 \in S
  BY <1>2, PowerFacts
<1> HIDE DEF S
<1>3. Nat \subseteq S
  BY <1>1, <1>2, SetInduction
<1> QED BY <1>3 DEF S

\* A larger exponent gives a larger power.
LEMMA PowerMono == \A a, d \in Nat : 2 ^ a <= 2 ^ (a + d)
<1> SUFFICES ASSUME NEW a \in Nat PROVE \A d \in Nat : 2 ^ a <= 2 ^ (a + d)
  OBVIOUS
<1> DEFINE S == {d \in Nat : 2 ^ a <= 2 ^ (a + d)}
<1>1. 0 \in S
  <2>1. a + 0 = a /\ 2 ^ a \in Nat
    BY PowerFacts
  <2> QED BY <2>1
<1>2. ASSUME NEW d \in Nat, d \in S PROVE d + 1 \in S
  <2>1. 2 ^ a \in Nat /\ 2 ^ (a + d) \in Nat
    BY PowerFacts
  <2>2. 2 ^ ((a + d) + 1) = 2 * 2 ^ (a + d)
    BY PowerFacts
  <2>3. a + (d + 1) = (a + d) + 1
    OBVIOUS
  <2>4. 2 ^ a <= 2 ^ (a + d)
    BY <1>2
  <2>5. 2 ^ (a + (d + 1)) = 2 * 2 ^ (a + d)
    BY <2>2, <2>3
  <2> DEFINE x == 2 ^ a
             y == 2 ^ (a + d)
             z == 2 ^ (a + (d + 1))
  <2>6. x \in Nat /\ y \in Nat /\ x <= y /\ z = 2 * y
    BY <2>1, <2>4, <2>5
  <2>7. x <= z
    <3> HIDE DEF x, y, z
    <3> QED BY <2>6
  <2> QED BY <2>7
<1> HIDE DEF S
<1>3. Nat \subseteq S
  BY <1>1, <1>2, SetInduction
<1> QED BY <1>3 DEF S

-----------------------------------------------------------------------------
(* Addresses: pages, and the chunks they are cut into.                     *)

\* A byte's page and its place in the page
LEMMA Division ==
    ASSUME NEW P \in Nat \ {0}, NEW p \in Nat, NEW r \in 0 .. P - 1
    PROVE  (p * P + r) \div P = p /\ (p * P + r) % P = r
OBVIOUS

\* Chunks of U bytes in a page of P: they fit and lie on multiples of U.
LEMMA Cutting ==
    ASSUME NEW P \in Nat, NEW U \in Nat \ {0}, NEW j \in 0 .. (P \div U) - 1
    PROVE  j * U \in Nat /\ j * U + U <= P /\ (j * U) % U = 0
OBVIOUS

\* Two of them fit if there is room for two.
LEMMA TwoFit ==
    ASSUME NEW P \in Nat, NEW U \in Nat \ {0}, 2 * U <= P
    PROVE  P \div U \in Nat /\ P \div U >= 2
OBVIOUS

\* Different chunks do not overlap.
LEMMA Apart ==
    ASSUME NEW U \in Nat, NEW i \in Nat, NEW j \in Nat, i < j
    PROVE  i * U + U <= j * U
OBVIOUS

\* What the assumption says of the sizes
LEMMA CacheFacts ==
    ASSUME NEW c \in Caches
    PROVE  /\ CacheSize(c) \in Nat \ {0} /\ CacheSize(c) = 2 ^ (c + MIN_CACHE_ORDER)
           /\ CacheSize(c) + HEADER \in Nat \ {0}
           /\ 2 * (CacheSize(c) + HEADER) <= PAGE_SIZE
           /\ CacheSize(c) < PAGE_SIZE /\ PAGE_SIZE \in Nat \ {0}
           /\ ChunkNum(c) \in Nat /\ ChunkNum(c) >= 2
           /\ c + MIN_CACHE_ORDER \in
                 MIN_CACHE_ORDER .. CACHE_NUM + MIN_CACHE_ORDER - 1
<1> DEFINE a == c + MIN_CACHE_ORDER
           d == CACHE_NUM - 1 - c
<1>1. c \in Nat /\ c <= CACHE_NUM - 1 /\ CACHE_NUM \in Nat /\ MIN_CACHE_ORDER \in Nat
      /\ HEADER \in Nat \ {0} /\ PAGE_SIZE \in Nat
  BY KmemAssumption DEF Caches
<1>2. a \in Nat /\ d \in Nat /\ a + d = CACHE_NUM - 1 + MIN_CACHE_ORDER
  BY <1>1
<1>3. CacheSize(c) = 2 ^ a /\ MAX_CHUNK_SIZE = 2 ^ (a + d)
  BY <1>2 DEF CacheSize, MAX_CHUNK_SIZE
<1>4. 2 ^ a <= 2 ^ (a + d) /\ 2 ^ a \in Nat /\ 2 ^ (a + d) \in Nat /\ a < 2 ^ a
  <2> HIDE DEF a, d
  <2>1. 2 ^ a <= 2 ^ (a + d)
    BY <1>2, PowerMono
  <2>2. 2 ^ a \in Nat /\ 2 ^ (a + d) \in Nat
    BY <1>2, PowerFacts
  <2>3. a < 2 ^ a
    BY <1>2, PowerAbove
  <2> QED BY <2>1, <2>2, <2>3
<1>5. CacheSize(c) \in Nat \ {0} /\ MAX_CHUNK_SIZE \in Nat
      /\ CacheSize(c) <= MAX_CHUNK_SIZE
  <2> HIDE DEF a, d
  <2> QED BY <1>2, <1>3, <1>4
<1>6. 2 * (MAX_CHUNK_SIZE + HEADER) <= PAGE_SIZE
  BY KmemAssumption
<1>7. /\ CacheSize(c) + HEADER \in Nat \ {0}
      /\ 2 * (CacheSize(c) + HEADER) <= PAGE_SIZE
      /\ CacheSize(c) < PAGE_SIZE /\ PAGE_SIZE \in Nat \ {0}
  BY <1>1, <1>5, <1>6
<1>8. ChunkNum(c) \in Nat /\ ChunkNum(c) >= 2
  <2> DEFINE U == CacheSize(c) + HEADER
  <2>1. U \in Nat \ {0} /\ 2 * U <= PAGE_SIZE /\ PAGE_SIZE \in Nat
    BY <1>7
  <2>2. ChunkNum(c) = PAGE_SIZE \div U
    BY DEF ChunkNum
  <2> HIDE DEF U
  <2> QED BY <2>1, <2>2, TwoFit
<1>9. a \in MIN_CACHE_ORDER .. CACHE_NUM + MIN_CACHE_ORDER - 1
  BY <1>1
<1> QED BY <1>3, <1>5, <1>7, <1>8, <1>9

\* Where the j-th chunk of a page is
LEMMA EntryFacts ==
    ASSUME NEW c \in Caches, NEW p \in Nat, NEW j \in 0 .. ChunkNum(c) - 1
    PROVE  /\ Entry(p, c, j) \in Nat /\ p * PAGE_SIZE \in Nat
           /\ p * PAGE_SIZE <= Entry(p, c, j)
           /\ Entry(p, c, j) + HEADER + CacheSize(c) <= p * PAGE_SIZE + PAGE_SIZE
           /\ (Entry(p, c, j) % PAGE_SIZE) % (CacheSize(c) + HEADER) = 0
<1> DEFINE U == CacheSize(c) + HEADER
           s == p * PAGE_SIZE
           r == j * U
<1>1. /\ U \in Nat \ {0} /\ PAGE_SIZE \in Nat \ {0} /\ ChunkNum(c) = PAGE_SIZE \div U
      /\ CacheSize(c) \in Nat /\ HEADER \in Nat
  BY CacheFacts, KmemAssumption DEF ChunkNum
<1>2. Entry(p, c, j) = s + r
  BY DEF Entry
<1>3. r \in Nat /\ r + U <= PAGE_SIZE /\ r % U = 0
  <2> HIDE DEF U
  <2> QED BY <1>1, Cutting
<1>4. s \in Nat
  BY <1>1
<1>5. (s + r) % PAGE_SIZE = r
  <2>1. r \in 0 .. PAGE_SIZE - 1
    <3> HIDE DEF r, U
    <3> QED BY <1>1, <1>3
  <2> HIDE DEF r, U
  <2> QED BY <1>1, <2>1, Division
<1>6. HEADER + CacheSize(c) = U
  BY <1>1
<1>7. (Entry(p, c, j) % PAGE_SIZE) % U = 0
  BY <1>2, <1>3, <1>5, Zenon
<1>8. /\ s + r \in Nat /\ s <= s + r /\ s + r + U <= s + PAGE_SIZE
  <2> HIDE DEF s, r, U
  <2> QED BY <1>1, <1>3, <1>4
<1>9. s + r + HEADER + CacheSize(c) <= s + PAGE_SIZE
  <2> HIDE DEF s, r
  <2> QED BY <1>1, <1>3, <1>4, <1>8
<1> HIDE DEF r
<1> QED BY <1>2, <1>4, <1>7, <1>8, <1>9

\* Every byte of a page belongs to that page.
LEMMA PageOf ==
    ASSUME NEW p \in Nat, NEW b \in Int, p * PAGE_SIZE <= b, b < p * PAGE_SIZE + PAGE_SIZE,
           PAGE_SIZE \in Nat \ {0}
    PROVE  b \div PAGE_SIZE = p
<1> DEFINE s == p * PAGE_SIZE
           r == b - s
<1>1. s \in Nat /\ s <= b /\ b < s + PAGE_SIZE
  OBVIOUS
<1>2. r \in 0 .. PAGE_SIZE - 1 /\ b = s + r
  <2> HIDE DEF s
  <2> QED BY <1>1
<1> HIDE DEF r
<1> QED BY <1>2, Division

-----------------------------------------------------------------------------
(* Where chunks may be, with o for cache_order.                            *)

\* e is a chunk of cache c.
Slot(o, c, e) ==
    \E p \in Pages : \E j \in 0 .. ChunkNum(c) - 1 :
        e = Entry(p, c, j) /\ o[p] = c + MIN_CACHE_ORDER

\* The block a client gets for the chunk e of cache c
Block(c, e) == <<e + HEADER, CacheSize(c)>>

ChunkBlock(o, b) == \E c \in Caches : \E e \in Nat : Slot(o, c, e) /\ b = Block(c, e)

PageBlock(o, f, b) ==
    \E p \in Pages : o[p] = -1 /\ p \notin f /\ b = <<p * PAGE_SIZE, PAGE_SIZE>>

\* e is at a chunk boundary in a page of cache c, all of it.
Lies(o, c, e) ==
    /\ e \in Nat /\ e \div PAGE_SIZE \in Pages
    /\ o[e \div PAGE_SIZE] = c + MIN_CACHE_ORDER
    /\ (e % PAGE_SIZE) % (CacheSize(c) + HEADER) = 0
    /\ \A b \in FreeBytes(c, e) : b \div PAGE_SIZE = e \div PAGE_SIZE
    /\ (e + HEADER) \div PAGE_SIZE = e \div PAGE_SIZE

\* A chunk lies in one page, which belongs to its cache.
LEMMA SlotFacts ==
    ASSUME NEW o, NEW c \in Caches, NEW e, Slot(o, c, e)
    PROVE  Lies(o, c, e)
<1>1. PICK p \in Pages : \E j \in 0 .. ChunkNum(c) - 1 :
         e = Entry(p, c, j) /\ o[p] = c + MIN_CACHE_ORDER
  BY DEF Slot
<1>2. PICK j \in 0 .. ChunkNum(c) - 1 : e = Entry(p, c, j) /\ o[p] = c + MIN_CACHE_ORDER
  BY <1>1
<1> DEFINE s == p * PAGE_SIZE
<1>3. p \in Nat /\ PAGE_SIZE \in Nat \ {0} /\ CacheSize(c) \in Nat \ {0} /\ HEADER \in Nat
  BY CacheFacts, KmemAssumption DEF Pages
<1>4. /\ e \in Nat /\ s \in Nat /\ s <= e
      /\ e + HEADER + CacheSize(c) <= s + PAGE_SIZE
      /\ (e % PAGE_SIZE) % (CacheSize(c) + HEADER) = 0
  BY <1>2, <1>3, EntryFacts
<1>5. \A b \in Int : s <= b /\ b < s + PAGE_SIZE => b \div PAGE_SIZE = p
  BY <1>3, PageOf
<1> HIDE DEF s
<1>6. \A b \in FreeBytes(c, e) : b \in Int /\ s <= b /\ b < s + PAGE_SIZE
  BY <1>3, <1>4 DEF FreeBytes
<1>7. e \in FreeBytes(c, e) /\ e + HEADER \in FreeBytes(c, e)
  BY <1>3, <1>4 DEF FreeBytes
<1>8. e \div PAGE_SIZE = p
  BY <1>5, <1>6, <1>7
<1> QED BY <1>2, <1>4, <1>5, <1>6, <1>7, <1>8 DEF Lies

\* A page has one cache, and a chunk one as well.
LEMMA SlotCache ==
    ASSUME NEW o, NEW c \in Caches, NEW d \in Caches, NEW e, Slot(o, c, e), Slot(o, d, e)
    PROVE  c = d
<1>1. Lies(o, c, e) /\ Lies(o, d, e)
  BY SlotFacts, Zenon
<1>2. c + MIN_CACHE_ORDER = d + MIN_CACHE_ORDER
  BY <1>1 DEF Lies
<1> QED BY <1>2, KmemAssumption DEF Caches

\* The page of the j-th chunk of a page
LEMMA EntryPage ==
    ASSUME NEW c \in Caches, NEW p \in Pages, NEW j \in 0 .. ChunkNum(c) - 1
    PROVE  Entry(p, c, j) \div PAGE_SIZE = p
<1>1. p \in Nat /\ PAGE_SIZE \in Nat \ {0} /\ CacheSize(c) \in Nat \ {0} /\ HEADER \in Nat
  BY CacheFacts, KmemAssumption DEF Pages
<1> DEFINE w == p * PAGE_SIZE
           x == Entry(p, c, j)
<1>2. x \in Nat /\ w \in Nat /\ w <= x /\ x + HEADER + CacheSize(c) <= w + PAGE_SIZE
  BY <1>1, EntryFacts
<1>3. x \in Int /\ w <= x /\ x < w + PAGE_SIZE
  <2> HIDE DEF w, x
  <2> QED BY <1>1, <1>2
<1> QED BY <1>1, <1>3, PageOf

\* Different chunks share no byte.
LEMMA SlotsApart ==
    ASSUME NEW o, NEW c \in Caches, NEW e, Slot(o, c, e),
           NEW d \in Caches, NEW g, Slot(o, d, g), e # g
    PROVE  FreeBytes(c, e) \cap FreeBytes(d, g) = {}
<1>0. Lies(o, c, e) /\ Lies(o, d, g)
  BY SlotFacts, Zenon
<1>1. CASE e \div PAGE_SIZE # g \div PAGE_SIZE
  <2>1. \A b \in FreeBytes(c, e) : b \div PAGE_SIZE = e \div PAGE_SIZE
    BY <1>0 DEF Lies
  <2>2. \A b \in FreeBytes(d, g) : b \div PAGE_SIZE = g \div PAGE_SIZE
    BY <1>0 DEF Lies
  <2> QED BY <2>1, <2>2, <1>1
<1>2. CASE e \div PAGE_SIZE = g \div PAGE_SIZE
  <2>1. c + MIN_CACHE_ORDER = d + MIN_CACHE_ORDER
    BY <1>0, <1>2 DEF Lies
  <2>2. c = d
    BY <2>1, KmemAssumption DEF Caches
  <2>3. PICK p \in Pages : \E i \in 0 .. ChunkNum(c) - 1 : e = Entry(p, c, i)
    BY DEF Slot
  <2>4. PICK i \in 0 .. ChunkNum(c) - 1 : e = Entry(p, c, i)
    BY <2>3
  <2>5. PICK q \in Pages : \E j \in 0 .. ChunkNum(c) - 1 : g = Entry(q, c, j)
    BY <2>2 DEF Slot
  <2>6. PICK j \in 0 .. ChunkNum(c) - 1 : g = Entry(q, c, j)
    BY <2>5
  <2> DEFINE U == CacheSize(c) + HEADER
             s == p * PAGE_SIZE
  <2>7. U \in Nat \ {0} /\ CacheSize(c) \in Nat /\ HEADER \in Nat
        /\ PAGE_SIZE \in Nat \ {0} /\ i \in Nat /\ j \in Nat /\ p \in Nat /\ q \in Nat
    BY CacheFacts, KmemAssumption DEF Pages
  <2>8. e \div PAGE_SIZE = p /\ g \div PAGE_SIZE = q
    BY <2>4, <2>6, EntryPage
  <2>9. e = s + i * U /\ g = s + j * U /\ s \in Nat
    BY <1>2, <2>4, <2>6, <2>7, <2>8 DEF Entry
  <2>10. i # j
    BY <2>4, <2>6, <1>2, <2>8
  <2>11. i * U \in Nat /\ j * U \in Nat /\ (i * U + U <= j * U \/ j * U + U <= i * U)
    <3> HIDE DEF U
    <3>1. i * U \in Nat /\ j * U \in Nat
      BY <2>7
    <3>2. CASE i < j
      BY <3>1, <3>2, <2>7, Apart
    <3>3. CASE j < i
      BY <3>1, <3>3, <2>7, Apart
    <3> QED BY <3>2, <3>3, <2>7, <2>10
  <2> DEFINE x == i * U
             y == j * U
  <2>12. /\ x \in Nat /\ y \in Nat /\ (x + U <= y \/ y + U <= x)
         /\ e = s + x /\ g = s + y
         /\ U = CacheSize(c) + HEADER
    BY <2>9, <2>11
  <2> HIDE DEF x, y, U, s
  <2> QED BY <2>12, <2>9, <2>7, <2>2 DEF FreeBytes
<1> QED BY <1>1, <1>2

\* Different chunks of a page have different places.
LEMMA EntryInj ==
    ASSUME NEW c \in Caches, NEW p \in Pages,
           NEW i \in Nat, NEW j \in Nat, Entry(p, c, i) = Entry(p, c, j)
    PROVE  i = j
<1> DEFINE U == CacheSize(c) + HEADER
           s == p * PAGE_SIZE
<1>1. s \in Nat /\ U \in Nat \ {0} /\ s + i * U = s + j * U
  <2>1. p \in Nat /\ PAGE_SIZE \in Nat
    BY CacheFacts DEF Pages
  <2> QED BY <2>1, CacheFacts DEF Entry
<1> HIDE DEF U, s
<1>2. i * U = j * U /\ i * U \in Nat /\ j * U \in Nat
  <2>1. i * U \in Nat /\ j * U \in Nat
    BY <1>1
  <2> QED BY <2>1, <1>1
<1>3. ~(i < j)
  <2> SUFFICES ASSUME i < j PROVE FALSE
    OBVIOUS
  <2>1. i * U + U <= j * U
    BY <1>1, Apart
  <2> QED BY <2>1, <1>1, <1>2
<1>4. ~(j < i)
  <2> SUFFICES ASSUME j < i PROVE FALSE
    OBVIOUS
  <2>1. j * U + U <= i * U
    BY <1>1, Apart
  <2> QED BY <2>1, <1>1, <1>2
<1> QED BY <1>3, <1>4

\* The list of a page that has been cut into n chunks
LEMMA ChunksFacts ==
    ASSUME NEW c \in Caches, NEW p \in Pages, NEW n \in 0 .. ChunkNum(c)
    PROVE  /\ Chunks(p, c, n) \in Seq(Nat)
           /\ IsInjective(Chunks(p, c, n))
           /\ \A e : e \in ToSet(Chunks(p, c, n)) <=>
                        \E j \in 0 .. n - 1 : e = Entry(p, c, j)
           /\ n > 0 => Chunks(p, c, n) # <<>>
<1>1. ChunkNum(c) \in Nat /\ p \in Nat /\ PAGE_SIZE \in Nat /\ CacheSize(c) + HEADER \in Nat \ {0}
  BY CacheFacts DEF Pages
<1>2. \A i \in 1 .. n : n - i \in 0 .. ChunkNum(c) - 1 /\ n - i \in 0 .. n - 1
  BY <1>1
<1>3. \A i \in 1 .. n : Entry(p, c, n - i) \in Nat
  BY <1>1, <1>2, EntryFacts
<1>4. Chunks(p, c, n) \in Seq(Nat) /\ DOMAIN Chunks(p, c, n) = 1 .. n
      /\ Len(Chunks(p, c, n)) = n
      /\ \A i \in 1 .. n : Chunks(p, c, n)[i] = Entry(p, c, n - i)
  BY <1>1, <1>3 DEF Chunks
<1>5. ASSUME NEW i \in 1 .. n, NEW j \in 1 .. n, Entry(p, c, n - i) = Entry(p, c, n - j)
      PROVE  i = j
  <2>1. n - i \in Nat /\ n - j \in Nat
    BY <1>1
  <2>2. n - i = n - j
    BY <2>1, <1>5, EntryInj
  <2> QED BY <2>2, <1>1
<1>6. IsInjective(Chunks(p, c, n))
  BY <1>4, <1>5 DEF IsInjective
<1>7. ASSUME NEW j \in 0 .. n - 1 PROVE Entry(p, c, j) \in ToSet(Chunks(p, c, n))
  <2>1. n - j \in 1 .. n /\ n - (n - j) = j
    BY <1>1
  <2>2. Chunks(p, c, n)[n - j] = Entry(p, c, j)
    BY <1>4, <2>1
  <2> QED BY <1>4, <2>1, <2>2 DEF ToSet
<1>8. ASSUME NEW e \in ToSet(Chunks(p, c, n)) PROVE \E j \in 0 .. n - 1 : e = Entry(p, c, j)
  BY <1>2, <1>4 DEF ToSet
<1>9. n > 0 => Chunks(p, c, n) # <<>>
  BY <1>4
<1> QED BY <1>4, <1>6, <1>7, <1>8, <1>9

\* kmalloc finds a cache for every size up to the largest chunk.
LEMMA OrderFacts ==
    ASSUME NEW size \in 1 .. MAX_CHUNK_SIZE
    PROVE  get_chunk_order(size) - MIN_CACHE_ORDER \in Caches
<1> DEFINE K == MIN_CACHE_ORDER .. CACHE_NUM + MIN_CACHE_ORDER - 1
           T == {k \in K : size <= 2 ^ k}
           k0 == Min(T)
<1>1. CACHE_NUM \in Nat \ {0} /\ MIN_CACHE_ORDER \in Nat
  BY KmemAssumption
<1>2. T \subseteq Nat /\ T # {}
  <2>1. K \subseteq Nat
    BY <1>1
  <2>2. CACHE_NUM - 1 + MIN_CACHE_ORDER \in K
    BY <1>1
  <2>3. MAX_CHUNK_SIZE = 2 ^ (CACHE_NUM - 1 + MIN_CACHE_ORDER) /\ MAX_CHUNK_SIZE \in Nat
    <3>1. CACHE_NUM - 1 + MIN_CACHE_ORDER \in Nat
      BY <1>1
    <3>2. MAX_CHUNK_SIZE = 2 ^ (CACHE_NUM - 1 + MIN_CACHE_ORDER)
      BY DEF MAX_CHUNK_SIZE, CacheSize
    <3> QED BY <3>1, <3>2, PowerFacts
  <2>4. size <= 2 ^ (CACHE_NUM - 1 + MIN_CACHE_ORDER)
    BY <2>3
  <2> QED BY <2>1, <2>2, <2>4
<1>3. k0 \in T /\ \A k \in T : k0 <= k
  BY <1>2, MinFacts
<1> HIDE DEF k0
<1>4. k0 \in K /\ size <= 2 ^ k0 /\ \A j \in MIN_CACHE_ORDER .. k0 - 1 : 2 ^ j < size
  <2>1. ASSUME NEW j \in MIN_CACHE_ORDER .. k0 - 1 PROVE 2 ^ j < size
    <3>1. j \in K /\ j \in Nat /\ j < k0
      BY <1>1, <1>3
    <3>2. j \notin T
      BY <3>1, <1>1, <1>3
    <3>3. 2 ^ j \in Nat
      BY <3>1, PowerFacts
    <3>4. ~(size <= 2 ^ j)
      BY <3>1, <3>2
    <3>5. size \in Int
      OBVIOUS
    <3> QED BY <3>3, <3>4, <3>5
  <2> QED BY <2>1, <1>3
<1>5. get_chunk_order(size) \in K
  BY <1>4 DEF get_chunk_order
<1> QED BY <1>5, <1>1 DEF Caches

-----------------------------------------------------------------------------
(* The inductive invariant.                                                *)

\* Free lists hold chunks, clients hold chunks and pages, what kmalloc has read
\* and what is to be pushed are chunks, and free pages have not been cut.
ListsIn == \A c \in Caches : \A e \in ToSet(free_list[c]) : Slot(cache_order, c, e)

BlocksIn ==
    \A t \in Clients : \A b \in held[t] :
        ChunkBlock(cache_order, b) \/ PageBlock(cache_order, free_pages, b)

Reading == {"tmp", "list", "next", "unlink"}

ReadIn == \A t \in Clients : pc[t] \in Reading => Slot(cache_order, class[t], pending[t])

TodoIn == \A t \in Clients : \A e \in ToSet(todo[t]) : Slot(cache_order, class[t], e)

PagesFree == \A p \in free_pages : cache_order[p] = -1

InPlace == ListsIn /\ BlocksIn /\ TodoIn /\ PagesFree

\* A client has entries to push exactly while it pushes, kfree one.
Pushing == {"fill", "filllink", "push", "link"}

TodoPc ==
    \A t \in Clients :
        /\ pc[t] \in Pushing <=> todo[t] # <<>>
        /\ pc[t] \in {"push", "link"} => Len(todo[t]) = 1

\* No chunk is twice on its list or to be pushed twice, none is in two of these
\* places or held as well, and no block has two holders.
NoTwice ==
    (\A c \in Caches : IsInjective(free_list[c])) /\ (\A t \in Clients : IsInjective(todo[t]))

Unshared ==
    \A t \in Clients : \A b \in held[t] :
        \A c \in Caches : \A e \in ToSet(free_list[c]) : b # Block(c, e)

OneHolder == \A t, u \in Clients : \A b \in held[t] : b \in held[u] => t = u

TodoOnly ==
    \A t \in Clients : \A e \in ToSet(todo[t]) :
        /\ e \notin ToSet(free_list[class[t]])
        /\ \A u \in Clients : Block(class[t], e) \notin held[u]
        /\ \A u \in Clients : u # t => e \notin ToSet(todo[u])

Exclusive == NoTwice /\ Unshared /\ OneHolder /\ TodoOnly

\* Of a page's chunks all but the last are free, on their way to be, or held.
Somewhere(c, e) ==
    \/ e \in ToSet(free_list[c])
    \/ \E t \in Clients : class[t] = c /\ e \in ToSet(todo[t])
    \/ \E t \in Clients : Block(c, e) \in held[t]

Kept ==
    \A p \in Pages : \A c \in Caches : cache_order[p] = c + MIN_CACHE_ORDER =>
        \A j \in 0 .. ChunkNum(c) - 2 : Somewhere(c, Entry(p, c, j))

KmemInv == TypeOK /\ InPlace /\ ReadIn /\ TodoPc /\ Exclusive /\ Kept

-----------------------------------------------------------------------------
(* What kmalloc and kfree do to a list.                                    *)

\* The head of a list is on it.
LEMMA HeadIn ==
    ASSUME NEW s \in Seq(Nat), s # <<>>
    PROVE  Head(s) \in Nat /\ Head(s) \in ToSet(s)
<1>1. 1 \in DOMAIN s /\ Head(s) = s[1] /\ s[1] \in Nat
  OBVIOUS
<1> QED BY <1>1 DEF ToSet

\* kmem_freelist_pop: the head leaves, the others stay.
LEMMA PopFacts ==
    ASSUME NEW s \in Seq(Nat)
    PROVE  /\ kmem_freelist_pop(s) \in Seq(Nat)
           /\ \A e \in ToSet(kmem_freelist_pop(s)) : e \in ToSet(s)
           /\ IsInjective(s) => IsInjective(kmem_freelist_pop(s))
<1> DEFINE r == SubSeq(s, 2, Len(s))
<1>1. Len(s) \in Nat /\ DOMAIN s = 1 .. Len(s)
  OBVIOUS
<1>2. r \in Seq(Nat) /\ \A i \in DOMAIN r : i + 1 \in DOMAIN s /\ r[i] = s[i + 1] /\ i \in Nat
  OBVIOUS
<1>3. r = kmem_freelist_pop(s)
  BY DEF kmem_freelist_pop, Rest
<1> HIDE DEF r
<1>4. \A e \in ToSet(r) : e \in ToSet(s)
  BY <1>2 DEF ToSet
<1>5. ASSUME IsInjective(s) PROVE IsInjective(r)
  <2>1. ASSUME NEW i \in DOMAIN r, NEW j \in DOMAIN r, r[i] = r[j] PROVE i = j
    <3>1. s[i + 1] = s[j + 1] /\ i + 1 \in DOMAIN s /\ j + 1 \in DOMAIN s
      BY <1>2, <2>1
    <3>2. i + 1 = j + 1
      BY <3>1, <1>5 DEF IsInjective
    <3> QED BY <3>2, <1>2
  <2> QED BY <2>1 DEF IsInjective
<1> QED BY <1>2, <1>3, <1>4, <1>5

\* ... if what was read is still the head, it is what leaves.
LEMMA PopHead ==
    ASSUME NEW s \in Seq(Nat), NEW e \in Nat, s # <<>>, e = Head(s)
    PROVE  /\ e \in ToSet(s)
           /\ \A x \in ToSet(s) : x = e \/ x \in ToSet(kmem_freelist_pop(s))
           /\ IsInjective(s) => e \notin ToSet(kmem_freelist_pop(s))
<1> DEFINE r == SubSeq(s, 2, Len(s))
<1>1. Len(s) \in Nat /\ DOMAIN s = 1 .. Len(s)
  OBVIOUS
<1>2. 1 \in DOMAIN s /\ s[1] = e
  BY <1>1
<1>3. /\ \A i \in DOMAIN r : i + 1 \in DOMAIN s /\ r[i] = s[i + 1] /\ i \in Nat \ {0}
      /\ \A i \in DOMAIN s : i = 1 \/ (i - 1 \in DOMAIN r /\ r[i - 1] = s[i])
  OBVIOUS
<1>4. r = kmem_freelist_pop(s)
  BY DEF kmem_freelist_pop, Rest
<1> HIDE DEF r
<1>5. e \in ToSet(s)
  BY <1>2 DEF ToSet
<1>6. ASSUME NEW x \in ToSet(s) PROVE x = e \/ x \in ToSet(r)
  <2>1. PICK i \in DOMAIN s : x = s[i]
    BY DEF ToSet
  <2>2. CASE i = 1
    BY <2>1, <2>2, <1>2
  <2>3. CASE i # 1
    <3>1. i - 1 \in DOMAIN r /\ r[i - 1] = x
      BY <2>1, <2>3, <1>3
    <3> QED BY <3>1 DEF ToSet
  <2> QED BY <2>2, <2>3
<1>7. ASSUME IsInjective(s), e \in ToSet(r) PROVE FALSE
  <2>1. PICK i \in DOMAIN r : r[i] = e
    BY <1>7 DEF ToSet
  <2>2. s[i + 1] = s[1] /\ i + 1 \in DOMAIN s
    BY <2>1, <1>2, <1>3
  <2>3. i + 1 = 1
    BY <2>2, <1>2, <1>7 DEF IsInjective
  <2> QED BY <2>1, <2>3, <1>3
<1> QED BY <1>4, <1>5, <1>6, <1>7

\* What is pushed first is the last entry of todo.
LEMMA LastFacts ==
    ASSUME NEW s \in Seq(Nat), s # <<>>
    PROVE  /\ Last(s) \in Nat /\ Front(s) \in Seq(Nat) /\ Len(Front(s)) = Len(s) - 1
           /\ \A x : x \in ToSet(s) <=> x = Last(s) \/ x \in ToSet(Front(s))
           /\ IsInjective(s) => IsInjective(Front(s)) /\ Last(s) \notin ToSet(Front(s))
<1> DEFINE n == Len(s)
           r == Front(s)
<1>1. n \in Nat \ {0} /\ DOMAIN s = 1 .. n /\ \A i \in 1 .. n : s[i] \in Nat
  OBVIOUS
<1>2. r \in Seq(Nat) /\ Len(r) = n - 1 /\ \A i \in 1 .. n - 1 : r[i] = s[i]
  BY <1>1 DEF Front
<1>3. Last(s) = s[n]
  BY DEF Last
<1>4. DOMAIN r = 1 .. n - 1
  BY <1>1, <1>2
<1>s. Len(s) = n
  OBVIOUS
<1> HIDE DEF n, r
<1>5. ASSUME NEW x PROVE x \in ToSet(s) <=> x = Last(s) \/ x \in ToSet(r)
  <2>1. ASSUME x \in ToSet(s) PROVE x = Last(s) \/ x \in ToSet(r)
    <3>1. PICK i \in 1 .. n : x = s[i]
      BY <2>1, <1>1 DEF ToSet
    <3>2. CASE i = n
      BY <3>1, <3>2, <1>3
    <3>3. CASE i # n
      <4>1. i \in 1 .. n - 1
        BY <3>3, <1>1
      <4>2. i \in DOMAIN r /\ r[i] = x
        BY <4>1, <3>1, <1>2, <1>4
      <4> QED BY <4>2 DEF ToSet
    <3> QED BY <3>2, <3>3
  <2>2. ASSUME x \in ToSet(r) PROVE x \in ToSet(s)
    <3>1. PICK i \in 1 .. n - 1 : x = r[i]
      BY <2>2, <1>4 DEF ToSet
    <3>2. i \in DOMAIN s /\ s[i] = x
      BY <3>1, <1>1, <1>2
    <3> QED BY <3>2 DEF ToSet
  <2>3. Last(s) \in ToSet(s)
    <3>1. n \in DOMAIN s
      BY <1>1
    <3> QED BY <3>1, <1>3 DEF ToSet
  <2> QED BY <2>1, <2>2, <2>3
<1>6. ASSUME IsInjective(s) PROVE IsInjective(r) /\ Last(s) \notin ToSet(r)
  <2>1. ASSUME NEW i \in 1 .. n - 1, NEW j \in 1 .. n - 1, r[i] = r[j] PROVE i = j
    <3>1. i \in DOMAIN s /\ j \in DOMAIN s /\ s[i] = s[j]
      BY <2>1, <1>1, <1>2
    <3> QED BY <3>1, <1>6 DEF IsInjective
  <2>2. ASSUME NEW i \in 1 .. n - 1, r[i] = s[n] PROVE FALSE
    <3>1. i \in DOMAIN s /\ n \in DOMAIN s /\ s[i] = s[n] /\ i # n
      BY <2>2, <1>1, <1>2
    <3> QED BY <3>1, <1>6 DEF IsInjective
  <2> QED BY <2>1, <2>2, <1>3, <1>4 DEF IsInjective, ToSet
<1>7. Last(s) \in Nat
  BY <1>1, <1>3
<1> QED BY <1>2, <1>5, <1>6, <1>7, <1>s DEF r

\* kfree and request_page put an entry at the head.
LEMMA PushFacts ==
    ASSUME NEW s \in Seq(Nat), NEW e \in Nat
    PROVE  /\ <<e>> \o s \in Seq(Nat)
           /\ \A x : x \in ToSet(<<e>> \o s) <=> x = e \/ x \in ToSet(s)
           /\ IsInjective(s) /\ e \notin ToSet(s) => IsInjective(<<e>> \o s)
<1> DEFINE r == <<e>> \o s
<1>1. /\ r \in Seq(Nat) /\ 1 \in DOMAIN r /\ r[1] = e
      /\ \A i \in DOMAIN s : i + 1 \in DOMAIN r /\ r[i + 1] = s[i]
      /\ \A i \in DOMAIN r : i \in Nat /\ (i = 1 \/ (i - 1 \in DOMAIN s /\ r[i] = s[i - 1]))
  OBVIOUS
<1> HIDE DEF r
<1>2. ASSUME NEW x PROVE x \in ToSet(r) <=> x = e \/ x \in ToSet(s)
  <2>1. ASSUME x \in ToSet(r) PROVE x = e \/ x \in ToSet(s)
    <3>1. PICK i \in DOMAIN r : x = r[i]
      BY <2>1 DEF ToSet
    <3> QED BY <3>1, <1>1 DEF ToSet
  <2>2. ASSUME x \in ToSet(s) PROVE x \in ToSet(r)
    <3>1. PICK i \in DOMAIN s : x = s[i]
      BY <2>2 DEF ToSet
    <3>2. i + 1 \in DOMAIN r /\ r[i + 1] = x
      BY <3>1, <1>1
    <3> QED BY <3>2 DEF ToSet
  <2>3. e \in ToSet(r)
    BY <1>1 DEF ToSet
  <2> QED BY <2>1, <2>2, <2>3
<1>3. ASSUME IsInjective(s), e \notin ToSet(s) PROVE IsInjective(r)
  <2>1. ASSUME NEW i \in DOMAIN r, NEW j \in DOMAIN r, r[i] = r[j] PROVE i = j
    <3>1. CASE i = 1 /\ j = 1
      BY <3>1
    <3>2. CASE i = 1 /\ j # 1
      <4>1. j - 1 \in DOMAIN s /\ s[j - 1] = e
        BY <1>1, <2>1, <3>2
      <4> QED BY <4>1, <1>3 DEF ToSet
    <3>3. CASE i # 1 /\ j = 1
      <4>1. i - 1 \in DOMAIN s /\ s[i - 1] = e
        BY <1>1, <2>1, <3>3
      <4> QED BY <4>1, <1>3 DEF ToSet
    <3>4. CASE i # 1 /\ j # 1
      <4>1. i - 1 \in DOMAIN s /\ j - 1 \in DOMAIN s /\ s[i - 1] = s[j - 1]
        BY <1>1, <2>1, <3>4
      <4>2. i - 1 = j - 1
        BY <4>1, <1>3 DEF IsInjective
      <4> QED BY <4>2, <1>1
    <3> QED BY <3>1, <3>2, <3>3, <3>4
  <2> QED BY <2>1 DEF IsInjective
<1>4. /\ r \in Seq(Nat)
      /\ \A x : x \in ToSet(r) <=> x = e \/ x \in ToSet(s)
      /\ IsInjective(s) /\ e \notin ToSet(s) => IsInjective(r)
  BY <1>1, <1>2, <1>3
<1> QED BY <1>4 DEF r

-----------------------------------------------------------------------------
(* Chunks and blocks in a state and the next one.                          *)

\* q has the pages of o as they are, and perhaps more.
Extends(o, q) == \A p \in Pages : o[p] # -1 => q[p] = o[p]

\* An order is never -1.
LEMMA OrderNotFree == \A c \in Caches : c + MIN_CACHE_ORDER # -1
BY KmemAssumption DEF Caches

\* A chunk stays one when another page is cut.
LEMMA SlotKept ==
    ASSUME NEW o, NEW q, Extends(o, q), NEW c \in Caches, NEW e, Slot(o, c, e)
    PROVE  Slot(q, c, e)
BY OrderNotFree DEF Slot, Extends

\* ... and so does the block behind it.
LEMMA BlockKept ==
    ASSUME NEW o, NEW q, Extends(o, q), NEW b, ChunkBlock(o, b)
    PROVE  ChunkBlock(q, b)
<1>1. PICK c \in Caches, e \in Nat : Slot(o, c, e) /\ b = Block(c, e)
  BY DEF ChunkBlock
<1>2. Slot(q, c, e)
  BY <1>1, SlotKept, Zenon
<1> QED BY <1>1, <1>2 DEF ChunkBlock

\* A block leads to its chunk and its page, where free looks for them.
Behind(o, c, e) ==
    /\ e \in Nat /\ e # NULL /\ Block(c, e) \in Nat \X Nat
    /\ Block(c, e)[1] - HEADER = e
    /\ Block(c, e)[2] = CacheSize(c) /\ CacheSize(c) < PAGE_SIZE
    /\ Block(c, e)[1] \div PAGE_SIZE = e \div PAGE_SIZE
    /\ e \div PAGE_SIZE \in Pages
    /\ o[e \div PAGE_SIZE] = c + MIN_CACHE_ORDER

\* That holds for every chunk.
LEMMA BlockFacts ==
    ASSUME NEW o, NEW c \in Caches, NEW e, Slot(o, c, e)
    PROVE  Behind(o, c, e)
<1>1. Lies(o, c, e)
  BY SlotFacts, Zenon
<1>2. CacheSize(c) \in Nat /\ CacheSize(c) < PAGE_SIZE /\ HEADER \in Nat /\ PAGE_SIZE \in Nat \ {0}
  BY CacheFacts, KmemAssumption
<1>3. e \in Nat /\ e + HEADER \in Nat /\ e + HEADER - HEADER = e
  BY <1>1, <1>2 DEF Lies
<1>4. e # 0
  <2>1. 0 \div PAGE_SIZE = 0
    BY <1>2
  <2>2. e \div PAGE_SIZE \in Pages /\ 0 \notin Pages
    BY <1>1, KmemAssumption DEF Lies, Pages
  <2> QED BY <2>1, <2>2
<1>5. (e + HEADER) \div PAGE_SIZE = e \div PAGE_SIZE /\ e \div PAGE_SIZE \in Pages
      /\ o[e \div PAGE_SIZE] = c + MIN_CACHE_ORDER
  BY <1>1 DEF Lies
<1>6. Block(c, e) = <<e + HEADER, CacheSize(c)>>
  BY DEF Block
<1>7. Block(c, e)[1] = e + HEADER /\ Block(c, e)[2] = CacheSize(c)
  BY <1>6
<1>8. Block(c, e) \in Nat \X Nat
  BY <1>2, <1>3, <1>6
<1>9. Block(c, e)[1] - HEADER = e
  <2> DEFINE x == Block(c, e)[1]
  <2>1. x = e + HEADER
    BY <1>7
  <2> HIDE DEF x
  <2>2. x - HEADER = e
    BY <1>2, <1>3, <2>1
  <2> QED BY <2>2 DEF x
<1>10. Block(c, e)[1] \div PAGE_SIZE = e \div PAGE_SIZE
  BY <1>5, <1>7
<1> QED BY <1>2, <1>3, <1>4, <1>5, <1>7, <1>8, <1>9, <1>10 DEF NULL, Behind

\* The same chunk is behind the same block.
LEMMA BlockInj ==
    ASSUME NEW o, NEW c \in Caches, NEW e, Slot(o, c, e),
           NEW d \in Caches, NEW g, Slot(o, d, g), Block(c, e) = Block(d, g)
    PROVE  e = g /\ c = d
<1>1. Behind(o, c, e) /\ Behind(o, d, g)
  BY BlockFacts, Zenon
<1>2. Block(c, e)[1] - HEADER = e /\ Block(d, g)[1] - HEADER = g
  BY <1>1 DEF Behind
<1>3. e = g
  BY <1>2, Zenon
<1> QED BY <1>3, SlotCache

\* A block that is a page
LEMMA PageFacts ==
    ASSUME NEW p \in Pages, NEW b, b = <<p * PAGE_SIZE, PAGE_SIZE>>
    PROVE  /\ b \in Nat \X Nat /\ b[2] = PAGE_SIZE
           /\ b[1] \div PAGE_SIZE = p
<1>1. p \in Nat /\ PAGE_SIZE \in Nat \ {0}
  <2>1. 0 \in Caches
    BY KmemAssumption DEF Caches
  <2> QED BY <2>1, CacheFacts DEF Pages
<1>2. p * PAGE_SIZE \in Nat
  BY <1>1
<1>3. (p * PAGE_SIZE) \div PAGE_SIZE = p
  BY <1>1, Division
<1> QED BY <1>1, <1>2, <1>3

\* A block is not both a chunk and a page.
LEMMA ChunkNotPage ==
    ASSUME NEW c \in Caches, NEW e, NEW p \in Pages
    PROVE  Block(c, e) # <<p * PAGE_SIZE, PAGE_SIZE>>
<1>1. CacheSize(c) < PAGE_SIZE /\ CacheSize(c) \in Nat /\ PAGE_SIZE \in Nat
  BY CacheFacts
<1>2. CacheSize(c) # PAGE_SIZE
  BY <1>1
<1> QED BY <1>2 DEF Block

-----------------------------------------------------------------------------
(* The steps.                                                              *)

\* What the steps need of the types
Types ==
    /\ free_list \in [Caches -> Seq(Nat)]
    /\ \A c \in Caches : free_list[c] \in Seq(Nat)
    /\ cache_order \in [Pages -> {-1} \cup
                          (MIN_CACHE_ORDER .. CACHE_NUM + MIN_CACHE_ORDER - 1)]
    /\ free_pages \subseteq Pages
    /\ pc \in [Clients -> {"idle", "entry", "tmp", "list", "next", "unlink",
                           "fill", "filllink", "push", "link"}]
    /\ class \in [Clients -> Caches]
    /\ pending \in [Clients -> Nat] /\ next \in [Clients -> Nat]
    /\ todo \in [Clients -> Seq(Nat)]
    /\ held \in [Clients -> SUBSET (Nat \X Nat)]
    /\ raced \in BOOLEAN

\* They are those of the type invariant.
LEMMA TypesFacts == Types <=> TypeOK
BY DEF Types, TypeOK

\* The rest of the invariant, by its parts
LEMMA InvParts ==
    ASSUME KmemInv
    PROVE  /\ Types /\ ListsIn /\ BlocksIn /\ ReadIn /\ TodoIn /\ PagesFree /\ TodoPc
           /\ NoTwice /\ Unshared /\ OneHolder /\ TodoOnly /\ Kept
BY TypesFacts DEF KmemInv, InPlace, Exclusive

\* A step that leaves lists, pages and blocks as they are, and the cache of what
\* is to be pushed, keeps the invariant if it keeps the types and what goes with pc.
LEMMA QuietStep ==
    ASSUME KmemInv,
           UNCHANGED <<free_list, cache_order, free_pages, todo, held>>,
           TypeOK', ReadIn', TodoPc',
           \A t \in Clients : todo[t] # <<>> => class'[t] = class[t]
    PROVE  KmemInv'
<1>1. /\ Types /\ ListsIn /\ BlocksIn /\ TodoIn /\ PagesFree
      /\ NoTwice /\ Unshared /\ OneHolder /\ TodoOnly /\ Kept
  BY InvParts
<1>2. \A t \in Clients : \A e \in ToSet(todo[t]) : class'[t] = class[t]
  BY DEF ToSet
<1>3. ListsIn' /\ BlocksIn' /\ PagesFree'
  BY <1>1 DEF ListsIn, BlocksIn, PagesFree
<1>4. TodoIn'
  BY <1>1, <1>2 DEF TodoIn
<1>5. NoTwice' /\ Unshared' /\ OneHolder'
  BY <1>1 DEF NoTwice, Unshared, OneHolder
<1>6. TodoOnly'
  BY <1>1, <1>2 DEF TodoOnly
<1>7. \A c, e : Somewhere(c, e) => Somewhere(c, e)'
  BY <1>2 DEF Somewhere
<1>8. Kept'
  BY <1>1, <1>7 DEF Kept
<1> QED BY <1>3, <1>4, <1>5, <1>6, <1>8 DEF KmemInv, InPlace, Exclusive

\* The client that returns has nothing read,
LEMMA ReturnFacts ==
    ASSUME KmemInv, NEW t \in Clients, Return(t)
    PROVE  /\ pc' \in [Clients -> {"idle", "entry", "tmp", "list", "next", "unlink",
                                   "fill", "filllink", "push", "link"}]
           /\ class' \in [Clients -> Caches]
           /\ pending' \in [Clients -> Nat] /\ next' \in [Clients -> Nat]
           /\ pc'[t] = "idle"
           /\ \A u \in Clients : u # t => /\ pc'[u] = pc[u] /\ class'[u] = class[u]
                                          /\ pending'[u] = pending[u]
<1>1. 0 \in Caches
  BY KmemAssumption DEF Caches
<1>2. Types
  BY InvParts
<1> QED BY <1>1, <1>2 DEF Return, Types, NULL

\* and what the others have read stays a chunk when pages are cut.
LEMMA ReadInKept ==
    ASSUME KmemInv, Extends(cache_order, cache_order'), NEW t \in Clients,
           \A u \in Clients : u # t => /\ pc'[u] = pc[u] /\ class'[u] = class[u]
                                       /\ pending'[u] = pending[u],
           pc'[t] \in Reading => Slot(cache_order', class'[t], pending'[t])
    PROVE  ReadIn'
<1> SUFFICES ASSUME NEW u \in Clients, pc'[u] \in Reading
             PROVE  Slot(cache_order', class'[u], pending'[u])
  BY DEF ReadIn
<1>1. CASE u = t
  BY <1>1
<1>2. CASE u # t
  <2>1. Slot(cache_order, class[u], pending[u]) /\ class[u] \in Caches
    BY <1>2, InvParts DEF ReadIn, Types
  <2>2. Slot(cache_order', class[u], pending[u])
    BY <2>1, SlotKept, Zenon
  <2> QED BY <1>2, <2>2
<1> QED BY <1>1, <1>2

\* Steps of kmalloc and kmem_freelist_push that only read
LEMMA LookStep ==
    ASSUME KmemInv, NEW t \in Clients, ~Stale(t),
           KmallocEntry(t) \/ PopRead(t) \/ PopNext(t) \/ PushNext(t)
    PROVE  KmemInv'
<1>1. /\ Types /\ ListsIn /\ ReadIn /\ TodoPc /\ class[t] \in Caches
      /\ free_list[class[t]] \in Seq(Nat)
  BY InvParts DEF Types
<1>2. UNCHANGED <<free_list, cache_order, free_pages, todo, held, raced>>
  BY DEF KmallocEntry, PopRead, PopNext, PushNext
<1>3. First(List(t)) \in Nat
  BY <1>1, HeadIn DEF First, List, NULL
<1>4. First(Rest(List(t))) \in Nat
  <2>1. Rest(List(t)) \in Seq(Nat)
    BY <1>1, PopFacts DEF List, kmem_freelist_pop
  <2> QED BY <2>1, HeadIn DEF First, NULL
<1>5. Extends(cache_order, cache_order')
  BY <1>2 DEF Extends
<1>6. CASE KmallocEntry(t) /\ List(t) = <<>>
  <2>1. Return(t) /\ pc[t] = "entry"
    BY <1>6 DEF KmallocEntry
  <2>2. TypeOK'
    BY <2>1, <1>1, <1>2, ReturnFacts DEF Types, TypeOK
  <2>3. ReadIn'
    BY <2>1, <1>5, ReturnFacts, ReadInKept DEF Reading
  <2>4. TodoPc'
    BY <2>1, <1>1, <1>2, ReturnFacts DEF TodoPc, Pushing
  <2>5. \A u \in Clients : todo[u] # <<>> => class'[u] = class[u]
    BY <2>1, <1>1, ReturnFacts DEF TodoPc, Pushing
  <2> QED BY <2>2, <2>3, <2>4, <2>5, <1>2, QuietStep
<1>7. CASE KmallocEntry(t) /\ List(t) # <<>>
  <2>1. /\ pc[t] = "entry" /\ pc' = [pc EXCEPT ![t] = "tmp"]
        /\ pending' = [pending EXCEPT ![t] = Head(List(t))]
        /\ class' = class /\ next' = next
    BY <1>7 DEF KmallocEntry
  <2>2. Head(List(t)) \in Nat /\ Head(List(t)) \in ToSet(free_list[class[t]])
    BY <1>1, <1>7, HeadIn DEF List
  <2>3. TypeOK'
    BY <2>1, <2>2, <1>1, <1>2 DEF Types, TypeOK
  <2>4. Slot(cache_order', class'[t], pending'[t])
    BY <2>1, <2>2, <1>1, <1>2 DEF ListsIn, Types
  <2>5. ReadIn'
    BY <2>1, <2>4, <1>1, <1>5, ReadInKept DEF Types
  <2>6. TodoPc'
    BY <2>1, <1>1, <1>2 DEF TodoPc, Pushing, Types
  <2> QED BY <2>1, <2>3, <2>5, <2>6, <1>2, QuietStep
<1>8. CASE PopRead(t) \/ PopNext(t)
  <2>1. /\ pc[t] \in {"tmp", "list", "next"}
        /\ pc' = [pc EXCEPT ![t] = "list"] \/ pc' = [pc EXCEPT ![t] = "next"]
             \/ pc' = [pc EXCEPT ![t] = "unlink"]
        /\ class' = class /\ pending' = pending
    BY <1>8 DEF PopRead, PopNext
  <2>2. next' = next \/ next' = [next EXCEPT ![t] = First(Rest(List(t)))]
    BY <1>8 DEF PopRead, PopNext
  <2>3. TypeOK'
    BY <2>1, <2>2, <1>1, <1>2, <1>4 DEF Types, TypeOK
  <2>4. Slot(cache_order', class'[t], pending'[t])
    BY <2>1, <1>1, <1>2 DEF ReadIn, Reading
  <2>5. \A u \in Clients : u # t => pc'[u] = pc[u]
    BY <2>1, <1>1 DEF Types
  <2>6. ReadIn'
    BY <2>1, <2>4, <2>5, <1>5, ReadInKept
  <2>7. pc'[t] \in {"list", "next", "unlink"}
    BY <2>1, <1>1 DEF Types
  <2>8. TodoPc'
    BY <2>1, <2>5, <2>7, <1>1, <1>2 DEF TodoPc, Pushing
  <2> QED BY <2>1, <2>3, <2>6, <2>8, <1>2, QuietStep
<1>9. CASE PushNext(t)
  <2>1. /\ \/ pc[t] = "fill" /\ pc' = [pc EXCEPT ![t] = "filllink"]
           \/ pc[t] = "push" /\ pc' = [pc EXCEPT ![t] = "link"]
        /\ class' = class /\ pending' = pending
        /\ next' = [next EXCEPT ![t] = First(List(t))]
    BY <1>9 DEF PushNext
  <2>2. TypeOK'
    BY <2>1, <1>1, <1>2, <1>3 DEF Types, TypeOK
  <2>3. \A u \in Clients : u # t => pc'[u] = pc[u]
    BY <2>1, <1>1 DEF Types
  <2>4. \/ pc[t] = "fill" /\ pc'[t] = "filllink"
        \/ pc[t] = "push" /\ pc'[t] = "link"
    BY <2>1, <1>1 DEF Types
  <2>5. ReadIn'
    BY <2>1, <2>3, <2>4, <1>5, ReadInKept DEF Reading
  <2>6. TodoPc'
    BY <2>3, <2>4, <1>1, <1>2 DEF TodoPc, Pushing
  <2> QED BY <2>1, <2>2, <2>5, <2>6, <1>2, QuietStep
<1> QED BY <1>6, <1>7, <1>8, <1>9


\* A page that has not been cut has no chunks yet.
LEMMA FreshApart ==
    ASSUME NEW o, NEW page \in Pages, o[page] = -1,
           NEW c \in Caches, NEW j \in 0 .. ChunkNum(c) - 1,
           NEW d \in Caches, NEW g, Slot(o, d, g)
    PROVE  Entry(page, c, j) # g
<1>1. Behind(o, d, g)
  BY BlockFacts, Zenon
<1>2. o[g \div PAGE_SIZE] # -1
  BY <1>1, OrderNotFree DEF Behind
<1>3. Entry(page, c, j) \div PAGE_SIZE = page
  BY EntryPage
<1> QED BY <1>2, <1>3

\* request_page cuts a free page into chunks that it has to push.
LEMMA RequestStep ==
    ASSUME KmemInv, NEW t \in Clients, pc[t] = "idle",
           NEW c \in Caches, NEW page \in free_pages, request_page(t, c, page),
           class' = [class EXCEPT ![t] = c],
           UNCHANGED <<free_list, pending, next, held, raced>>
    PROVE  KmemInv'
<1> DEFINE n == ChunkNum(c) - 1
           L == Chunks(page, c, n)
<1>1. /\ Types /\ ListsIn /\ BlocksIn /\ TodoIn /\ PagesFree /\ TodoPc
      /\ NoTwice /\ Unshared /\ OneHolder /\ TodoOnly /\ Kept
      /\ page \in Pages /\ cache_order[page] = -1 /\ todo[t] = <<>>
  BY InvParts DEF PagesFree, Types, TodoPc, Pushing
<1>2. /\ n \in 0 .. ChunkNum(c) /\ n > 0 /\ ChunkNum(c) \in Nat
      /\ c + MIN_CACHE_ORDER \in MIN_CACHE_ORDER .. CACHE_NUM + MIN_CACHE_ORDER - 1
  BY CacheFacts
<1>3. /\ L \in Seq(Nat) /\ IsInjective(L) /\ L # <<>>
      /\ \A e : e \in ToSet(L) <=> \E j \in 0 .. n - 1 : e = Entry(page, c, j)
  <2> HIDE DEF n
  <2> QED BY <1>1, <1>2, ChunksFacts
<1>4. /\ cache_order' = [cache_order EXCEPT ![page] = c + MIN_CACHE_ORDER]
      /\ free_pages' = free_pages \ {page}
      /\ todo' = [todo EXCEPT ![t] = L]
      /\ pc' = [pc EXCEPT ![t] = "fill"]
  BY DEF request_page
<1> HIDE DEF L
<1>5. TypeOK'
  BY <1>1, <1>2, <1>3, <1>4 DEF Types, TypeOK
<1>6. /\ todo'[t] = L /\ class'[t] = c /\ pc'[t] = "fill"
      /\ \A u \in Clients : u # t => /\ todo'[u] = todo[u] /\ class'[u] = class[u]
                                     /\ pc'[u] = pc[u]
      /\ cache_order'[page] = c + MIN_CACHE_ORDER
      /\ \A p \in Pages : p # page => cache_order'[p] = cache_order[p]
      /\ page \notin free_pages' /\ \A p \in free_pages' : p \in free_pages /\ p \in Pages
  BY <1>1, <1>4 DEF Types
<1>7. Extends(cache_order, cache_order')
  BY <1>1, <1>6 DEF Extends
<1>8. \A e \in ToSet(L) : Slot(cache_order', c, e)
  <2>1. \A j \in 0 .. n - 1 : j \in 0 .. ChunkNum(c) - 1
    BY <1>2
  <2> HIDE DEF n
  <2> QED BY <1>1, <1>3, <1>6, <2>1 DEF Slot
<1>9. ASSUME NEW e \in ToSet(L), NEW d \in Caches, NEW g, Slot(cache_order, d, g)
      PROVE  e # g
  <2>1. PICK j \in 0 .. n - 1 : e = Entry(page, c, j)
    BY <1>3
  <2>2. j \in 0 .. ChunkNum(c) - 1
    BY <1>2
  <2> QED BY <2>1, <2>2, <1>1, <1>9, FreshApart
<1>10. ListsIn' /\ TodoIn'
  <2>1. ASSUME NEW d \in Caches, NEW e, Slot(cache_order, d, e)
        PROVE  Slot(cache_order', d, e)
    BY <2>1, <1>7, SlotKept, Zenon
  <2>2. ListsIn'
    BY <2>1, <1>1 DEF ListsIn
  <2>3. ASSUME NEW u \in Clients, NEW e \in ToSet(todo'[u])
        PROVE  Slot(cache_order', class'[u], e)
    <3>1. CASE u = t
      BY <3>1, <1>6, <1>8
    <3>2. CASE u # t
      <4>1. Slot(cache_order, class[u], e) /\ class[u] \in Caches
        BY <3>2, <1>1, <1>6 DEF TodoIn, Types
      <4> QED BY <4>1, <2>1, <3>2, <1>6
    <3> QED BY <3>1, <3>2
  <2> QED BY <2>2, <2>3 DEF TodoIn
<1>11. BlocksIn'
  <2> SUFFICES ASSUME NEW u \in Clients, NEW b \in held[u]
               PROVE  ChunkBlock(cache_order', b) \/ PageBlock(cache_order', free_pages', b)
    BY DEF BlocksIn
  <2>1. CASE ChunkBlock(cache_order, b)
    BY <2>1, <1>7, BlockKept, Zenon
  <2>2. CASE PageBlock(cache_order, free_pages, b)
    <3>1. PICK p \in Pages : /\ cache_order[p] = -1 /\ p \notin free_pages
                             /\ b = <<p * PAGE_SIZE, PAGE_SIZE>>
      BY <2>2 DEF PageBlock
    <3>2. cache_order'[p] = -1 /\ p \notin free_pages'
      BY <3>1, <1>6
    <3> QED BY <3>1, <3>2 DEF PageBlock
  <2> QED BY <2>1, <2>2, <1>1 DEF BlocksIn
<1>12. PagesFree'
  BY <1>1, <1>6 DEF PagesFree
<1>13. ReadIn'
  BY <1>6, <1>7, ReadInKept DEF Reading
<1>14. TodoPc'
  BY <1>1, <1>3, <1>6 DEF TodoPc, Pushing
<1>15. NoTwice' /\ Unshared' /\ OneHolder'
  BY <1>1, <1>3, <1>6 DEF NoTwice, Unshared, OneHolder
<1>16. ASSUME NEW e \in ToSet(L), NEW u \in Clients PROVE Block(c, e) \notin held[u]
  <2> SUFFICES ASSUME Block(c, e) \in held[u] PROVE FALSE
    OBVIOUS
  <2>1. CASE ChunkBlock(cache_order, Block(c, e))
    <3>1. PICK d \in Caches, g \in Nat : Slot(cache_order, d, g) /\ Block(c, e) = Block(d, g)
      BY <2>1 DEF ChunkBlock
    <3>2. Slot(cache_order', d, g)
      BY <3>1, <1>7, SlotKept, Zenon
    <3>3. Slot(cache_order', c, e)
      BY <1>8
    <3>4. e = g
      BY <3>1, <3>2, <3>3, BlockInj, Zenon
    <3> QED BY <3>1, <3>4, <1>9
  <2>2. CASE PageBlock(cache_order, free_pages, Block(c, e))
    BY <2>2, ChunkNotPage DEF PageBlock
  <2> QED BY <2>1, <2>2, <1>1 DEF BlocksIn
<1>17. TodoOnly'
  <2> SUFFICES ASSUME NEW u \in Clients, NEW e \in ToSet(todo'[u])
               PROVE  /\ e \notin ToSet(free_list[class'[u]])
                      /\ \A v \in Clients : Block(class'[u], e) \notin held[v]
                      /\ \A v \in Clients : v # u => e \notin ToSet(todo'[v])
    BY DEF TodoOnly
  <2>1. CASE u = t
    <3>1. e \in ToSet(L) /\ class'[u] = c
      BY <2>1, <1>6
    <3>2. e \notin ToSet(free_list[c])
      BY <3>1, <1>1, <1>9 DEF ListsIn
    <3>3. ASSUME NEW v \in Clients, v # u PROVE e \notin ToSet(todo'[v])
      <4>1. \A g \in ToSet(todo[v]) : Slot(cache_order, class[v], g)
        BY <1>1 DEF TodoIn
      <4>2. class[v] \in Caches
        BY <1>1 DEF Types
      <4> QED BY <4>1, <4>2, <3>1, <3>3, <2>1, <1>6, <1>9
    <3> QED BY <3>1, <3>2, <3>3, <1>16
  <2>2. CASE u # t
    <3>1. e \in ToSet(todo[u]) /\ class'[u] = class[u] /\ class[u] \in Caches
      BY <2>2, <1>1, <1>6 DEF Types
    <3>2. e \notin ToSet(L)
      <4>1. Slot(cache_order, class[u], e)
        BY <3>1, <1>1 DEF TodoIn
      <4> QED BY <4>1, <3>1, <1>9
    <3> QED BY <3>1, <3>2, <1>1, <1>6 DEF TodoOnly
  <2> QED BY <2>1, <2>2
<1>18. Kept'
  <2> SUFFICES ASSUME NEW p \in Pages, NEW d \in Caches,
                      cache_order'[p] = d + MIN_CACHE_ORDER, NEW j \in 0 .. ChunkNum(d) - 2
               PROVE  \/ Entry(p, d, j) \in ToSet(free_list[d])
                      \/ \E u \in Clients : class'[u] = d /\ Entry(p, d, j) \in ToSet(todo'[u])
                      \/ \E u \in Clients : Block(d, Entry(p, d, j)) \in held[u]
    BY DEF Kept, Somewhere
  <2>1. CASE p = page
    <3>1. d = c
      BY <2>1, <1>6, KmemAssumption DEF Caches
    <3>2. j \in 0 .. n - 1
      BY <3>1, <1>2
    <3> QED BY <2>1, <3>1, <3>2, <1>3, <1>6
  <2>2. CASE p # page
    <3>1. Somewhere(d, Entry(p, d, j))
      BY <2>2, <1>1, <1>6 DEF Kept
    <3>2. ASSUME NEW u \in Clients, class[u] = d, Entry(p, d, j) \in ToSet(todo[u])
          PROVE  class'[u] = d /\ Entry(p, d, j) \in ToSet(todo'[u])
      <4>1. u # t
        BY <3>2, <1>1 DEF ToSet
      <4> QED BY <4>1, <3>2, <1>6
    <3> QED BY <3>1, <3>2 DEF Somewhere
  <2> QED BY <2>1, <2>2
<1> QED BY <1>5, <1>10, <1>11, <1>12, <1>13, <1>14, <1>15, <1>17, <1>18
       DEF KmemInv, InPlace, Exclusive

\* kmalloc requests a page or goes on to read an entry.
LEMMA KmallocStep ==
    ASSUME KmemInv, NEW t \in Clients, pc[t] = "idle", NEW size \in 1 .. MAX_CHUNK_SIZE,
           kmalloc(t, size)
    PROVE  KmemInv'
<1> DEFINE c == get_chunk_order(size) - MIN_CACHE_ORDER
<1>1. c \in Caches
  BY OrderFacts
<1>2. /\ class' = [class EXCEPT ![t] = c]
      /\ UNCHANGED <<free_list, pending, next, held, raced>>
      /\ \/ /\ pc' = [pc EXCEPT ![t] = "entry"]
            /\ UNCHANGED <<cache_order, free_pages, todo>>
         \/ \E page \in free_pages : request_page(t, c, page)
  BY DEF kmalloc
<1> HIDE DEF c
<1>3. CASE /\ pc' = [pc EXCEPT ![t] = "entry"]
           /\ UNCHANGED <<cache_order, free_pages, todo>>
  <2>1. Types /\ TodoPc
    BY InvParts
  <2>2. TypeOK'
    BY <2>1, <1>1, <1>2, <1>3 DEF Types, TypeOK
  <2>3. /\ pc'[t] = "entry"
        /\ \A u \in Clients : u # t => pc'[u] = pc[u] /\ class'[u] = class[u]
    BY <2>1, <1>2, <1>3 DEF Types
  <2>4. ReadIn'
    <3>1. Extends(cache_order, cache_order')
      BY <1>3 DEF Extends
    <3> QED BY <3>1, <2>3, <1>2, ReadInKept DEF Reading
  <2>5. TodoPc'
    BY <2>1, <2>3, <1>3 DEF TodoPc, Pushing
  <2>6. \A u \in Clients : todo[u] # <<>> => class'[u] = class[u]
    BY <2>1, <2>3 DEF TodoPc, Pushing
  <2> QED BY <2>2, <2>4, <2>5, <2>6, <1>2, <1>3, QuietStep
<1>4. CASE \E page \in free_pages : request_page(t, c, page)
  BY <1>1, <1>2, <1>4, RequestStep
<1> QED BY <1>2, <1>3, <1>4

\* kmem_freelist_pop unlinks the entry that kmalloc has read and gives to its client.
LEMMA PopStep ==
    ASSUME KmemInv, NEW t \in Clients, ~Stale(t), PopUnlink(t)
    PROVE  KmemInv'
<1> DEFINE c == class[t]
           e == pending[t]
           b == Block(c, e)
<1>1. /\ Types /\ ListsIn /\ BlocksIn /\ ReadIn /\ TodoIn /\ PagesFree /\ TodoPc
      /\ NoTwice /\ Unshared /\ OneHolder /\ TodoOnly /\ Kept
      /\ c \in Caches /\ free_list[c] \in Seq(Nat) /\ todo[t] = <<>>
  BY InvParts DEF Types, TodoPc, Pushing, PopUnlink
<1>2. Slot(cache_order, c, e)
  BY <1>1 DEF PopUnlink, ReadIn, Reading
<1>3. Behind(cache_order, c, e)
  BY <1>1, <1>2, BlockFacts, Zenon
<1>4. free_list[c] # <<>> /\ e = Head(free_list[c])
  BY <1>3 DEF Stale, PopUnlink, List, First, Behind
<1>5. /\ free_list' = [free_list EXCEPT ![c] = kmem_freelist_pop(@)]
      /\ held' = [held EXCEPT ![t] = @ \cup {b}]
      /\ UNCHANGED <<cache_order, free_pages, todo, raced>>
      /\ Return(t)
  BY DEF PopUnlink, Block
<1>6. /\ e \in Nat /\ b \in Nat \X Nat
  BY <1>3 DEF Behind
<1> HIDE DEF c, e, b
<1>7. /\ kmem_freelist_pop(free_list[c]) \in Seq(Nat)
      /\ \A x \in ToSet(kmem_freelist_pop(free_list[c])) : x \in ToSet(free_list[c])
      /\ IsInjective(kmem_freelist_pop(free_list[c]))
  BY <1>1, PopFacts DEF NoTwice
<1>8. /\ e \in ToSet(free_list[c])
      /\ \A x \in ToSet(free_list[c]) : x = e \/ x \in ToSet(kmem_freelist_pop(free_list[c]))
      /\ e \notin ToSet(kmem_freelist_pop(free_list[c]))
  BY <1>1, <1>4, <1>6, PopHead DEF NoTwice
<1>9. /\ free_list' \in [Caches -> Seq(Nat)]
      /\ free_list'[c] = kmem_freelist_pop(free_list[c])
      /\ \A d \in Caches : d # c => free_list'[d] = free_list[d]
  BY <1>1, <1>5, <1>7 DEF Types
<1>10. /\ \A d \in Caches : \A x \in ToSet(free_list'[d]) :
             x \in ToSet(free_list[d]) /\ ~(d = c /\ x = e)
       /\ \A d \in Caches : \A x \in ToSet(free_list[d]) :
             (d = c /\ x = e) \/ x \in ToSet(free_list'[d])
  BY <1>7, <1>8, <1>9
<1>11. /\ held' \in [Clients -> SUBSET (Nat \X Nat)]
       /\ held'[t] = held[t] \cup {b}
       /\ \A u \in Clients : u # t => held'[u] = held[u]
  BY <1>1, <1>5, <1>6 DEF Types
<1>12. TypeOK'
  BY <1>1, <1>5, <1>9, <1>11, ReturnFacts DEF Types, TypeOK
<1>13. ListsIn' /\ PagesFree'
  BY <1>1, <1>5, <1>10 DEF ListsIn, PagesFree
<1>14. BlocksIn'
  <2> SUFFICES ASSUME NEW u \in Clients, NEW a \in held'[u]
               PROVE  ChunkBlock(cache_order, a) \/ PageBlock(cache_order, free_pages, a)
    BY <1>5 DEF BlocksIn
  <2>1. CASE a \in held[u]
    BY <2>1, <1>1 DEF BlocksIn
  <2>2. CASE a = b
    BY <2>2, <1>1, <1>2, <1>6 DEF ChunkBlock, b
  <2> QED BY <2>1, <2>2, <1>11
<1>15. ReadIn'
  <2>1. Extends(cache_order, cache_order')
    BY <1>5 DEF Extends
  <2> QED BY <2>1, <1>5, ReturnFacts, ReadInKept DEF Reading
<1>16. /\ pc'[t] = "idle"
       /\ \A u \in Clients : u # t => pc'[u] = pc[u] /\ class'[u] = class[u]
       /\ \A u \in Clients : \A x \in ToSet(todo[u]) : u # t
  <2>1. ToSet(todo[t]) = {}
    BY <1>1 DEF ToSet
  <2> QED BY <2>1, <1>5, ReturnFacts
<1>17. TodoPc'
  BY <1>1, <1>5, <1>16 DEF TodoPc, Pushing
<1>18. TodoIn'
  BY <1>1, <1>5, <1>16 DEF TodoIn
<1>19. NoTwice'
  BY <1>1, <1>5, <1>7, <1>9 DEF NoTwice
<1>20. Unshared'
  <2> SUFFICES ASSUME NEW u \in Clients, NEW a \in held'[u], NEW d \in Caches,
                      NEW x \in ToSet(free_list'[d]), a = Block(d, x)
               PROVE  FALSE
    BY DEF Unshared
  <2>1. x \in ToSet(free_list[d]) /\ ~(d = c /\ x = e)
    BY <1>10
  <2>2. CASE a \in held[u]
    BY <2>1, <2>2, <1>1 DEF Unshared
  <2>3. CASE a = b
    <3>1. Slot(cache_order, d, x) /\ Block(c, e) = Block(d, x)
      BY <2>1, <2>3, <1>1 DEF ListsIn, b
    <3>2. e = x /\ c = d
      BY <3>1, <1>1, <1>2, BlockInj, Zenon
    <3> QED BY <3>2, <2>1
  <2> QED BY <2>2, <2>3, <1>11
<1>21. \A u \in Clients : b \notin held[u]
  BY <1>1, <1>8 DEF Unshared, b
<1>22. OneHolder'
  <2> SUFFICES ASSUME NEW u \in Clients, NEW v \in Clients, NEW a \in held'[u], a \in held'[v]
               PROVE  u = v
    BY DEF OneHolder
  <2>1. CASE a = b
    BY <2>1, <1>11, <1>21
  <2>2. CASE a # b
    <3>1. a \in held[u] /\ a \in held[v]
      BY <2>2, <1>11
    <3> QED BY <3>1, <1>1 DEF OneHolder
  <2> QED BY <2>1, <2>2
<1>23. TodoOnly'
  <2> SUFFICES ASSUME NEW u \in Clients, NEW x \in ToSet(todo[u])
               PROVE  /\ x \notin ToSet(free_list'[class'[u]])
                      /\ \A v \in Clients : Block(class'[u], x) \notin held'[v]
                      /\ \A v \in Clients : v # u => x \notin ToSet(todo[v])
    BY <1>5 DEF TodoOnly
  <2>1. class'[u] = class[u] /\ class[u] \in Caches /\ Slot(cache_order, class[u], x)
    BY <1>1, <1>16 DEF TodoIn, Types
  <2>2. /\ x \notin ToSet(free_list[class[u]])
        /\ \A v \in Clients : Block(class[u], x) \notin held[v]
        /\ \A v \in Clients : v # u => x \notin ToSet(todo[v])
    BY <1>1 DEF TodoOnly
  <2>3. Block(class[u], x) # b
    <3> SUFFICES ASSUME Block(class[u], x) = b PROVE FALSE
      OBVIOUS
    <3>1. Block(class[u], x) = Block(c, e)
      BY DEF b
    <3>2. x = e /\ class[u] = c
      BY <3>1, <2>1, <1>1, <1>2, BlockInj, Zenon
    <3> QED BY <3>2, <2>2, <1>8
  <2> QED BY <2>1, <2>2, <2>3, <1>10, <1>11
<1>24. Kept'
  <2> SUFFICES ASSUME NEW p \in Pages, NEW d \in Caches, NEW x, Somewhere(d, x)
               PROVE  Somewhere(d, x)'
    BY <1>1, <1>5 DEF Kept
  <2>1. CASE x \in ToSet(free_list[d])
    <3>1. CASE d = c /\ x = e
      BY <3>1, <1>11 DEF Somewhere, b
    <3>2. CASE x \in ToSet(free_list'[d])
      BY <3>2 DEF Somewhere
    <3> QED BY <3>1, <3>2, <2>1, <1>10
  <2>2. CASE \E u \in Clients : class[u] = d /\ x \in ToSet(todo[u])
    BY <2>2, <1>5, <1>16 DEF Somewhere
  <2>3. CASE \E u \in Clients : Block(d, x) \in held[u]
    BY <2>3, <1>11 DEF Somewhere
  <2> QED BY <2>1, <2>2, <2>3 DEF Somewhere
<1> QED BY <1>12, <1>13, <1>14, <1>15, <1>17, <1>18, <1>19, <1>20, <1>22, <1>23, <1>24
       DEF KmemInv, InPlace, Exclusive

\* kmem_freelist_push links the last entry of todo before the list.
LEMMA PushStep ==
    ASSUME KmemInv, NEW t \in Clients, PushLink(t)
    PROVE  KmemInv'
<1> DEFINE c == class[t]
           e == Last(todo[t])
<1>1. /\ Types /\ ListsIn /\ BlocksIn /\ ReadIn /\ TodoIn /\ PagesFree /\ TodoPc
      /\ NoTwice /\ Unshared /\ OneHolder /\ TodoOnly /\ Kept
      /\ c \in Caches /\ free_list[c] \in Seq(Nat) /\ todo[t] \in Seq(Nat)
      /\ todo[t] # <<>>
  BY InvParts DEF Types, TodoPc, Pushing, PushLink
<1>2. /\ e \in Nat /\ Front(todo[t]) \in Seq(Nat)
      /\ Len(Front(todo[t])) = Len(todo[t]) - 1
      /\ \A x : x \in ToSet(todo[t]) <=> x = e \/ x \in ToSet(Front(todo[t]))
      /\ IsInjective(Front(todo[t])) /\ e \notin ToSet(Front(todo[t]))
  BY <1>1, LastFacts DEF NoTwice
<1>3. /\ free_list' = [free_list EXCEPT ![c] = <<e>> \o @]
      /\ todo' = [todo EXCEPT ![t] = Front(@)]
      /\ UNCHANGED <<cache_order, free_pages, held, raced>>
  BY DEF PushLink
<1>4. \/ /\ pc[t] = "filllink"
         /\ pc' = [pc EXCEPT ![t] = IF Len(todo[t]) = 1 THEN "entry" ELSE "fill"]
         /\ next' = [next EXCEPT ![t] = NULL]
         /\ UNCHANGED <<class, pending>>
      \/ pc[t] = "link" /\ Return(t) /\ Len(todo[t]) = 1
  BY <1>1 DEF PushLink, TodoPc
<1> HIDE DEF c, e
<1>5. /\ Slot(cache_order, c, e) /\ e \notin ToSet(free_list[c])
      /\ \A u \in Clients : Block(c, e) \notin held[u]
      /\ \A u \in Clients : u # t => e \notin ToSet(todo[u])
  <2>1. e \in ToSet(todo[t])
    BY <1>2
  <2> QED BY <2>1, <1>1 DEF TodoIn, TodoOnly, c
<1>6. /\ <<e>> \o free_list[c] \in Seq(Nat)
      /\ \A x : x \in ToSet(<<e>> \o free_list[c]) <=> x = e \/ x \in ToSet(free_list[c])
      /\ IsInjective(<<e>> \o free_list[c])
  BY <1>1, <1>2, <1>5, PushFacts DEF NoTwice
<1>7. /\ free_list' \in [Caches -> Seq(Nat)]
      /\ free_list'[c] = <<e>> \o free_list[c]
      /\ \A d \in Caches : d # c => free_list'[d] = free_list[d]
  BY <1>1, <1>3, <1>6 DEF Types
<1>8. \A d \in Caches : \A x : x \in ToSet(free_list'[d])
                                  <=> (d = c /\ x = e) \/ x \in ToSet(free_list[d])
  BY <1>6, <1>7
<1>9. /\ todo' \in [Clients -> Seq(Nat)] /\ todo'[t] = Front(todo[t])
      /\ \A u \in Clients : u # t => todo'[u] = todo[u]
  BY <1>1, <1>2, <1>3 DEF Types
<1>10. TypeOK' /\ (\A u \in Clients : u # t => /\ pc'[u] = pc[u] /\ class'[u] = class[u]
                                               /\ pending'[u] = pending[u])
  <2>1. CASE pc[t] = "filllink"
    <3>1. /\ pc' = [pc EXCEPT ![t] = "entry"] \/ pc' = [pc EXCEPT ![t] = "fill"]
          /\ next' = [next EXCEPT ![t] = NULL]
          /\ UNCHANGED <<class, pending>>
      BY <2>1, <1>4
    <3>2. /\ pc' \in [Clients -> {"idle", "entry", "tmp", "list", "next", "unlink",
                                  "fill", "filllink", "push", "link"}]
          /\ next' \in [Clients -> Nat]
          /\ \A u \in Clients : u # t => pc'[u] = pc[u]
      BY <3>1, <1>1 DEF Types, NULL
    <3> QED BY <3>1, <3>2, <1>1, <1>3, <1>7, <1>9 DEF Types, TypeOK
  <2>2. CASE Return(t)
    BY <2>2, <1>1, <1>3, <1>7, <1>9, ReturnFacts DEF Types, TypeOK
  <2> QED BY <2>1, <2>2, <1>4
<1>11. /\ Len(todo[t]) = 1 => todo'[t] = <<>> /\ pc'[t] \in {"entry", "idle"}
       /\ Len(todo[t]) # 1 => todo'[t] # <<>> /\ pc'[t] = "fill" /\ class'[t] = class[t]
  <2>1. todo'[t] = <<>> <=> Len(todo[t]) = 1
    <3>1. todo'[t] \in Seq(Nat) /\ Len(todo'[t]) = Len(todo[t]) - 1 /\ Len(todo[t]) \in Nat
      BY <1>1, <1>2, <1>9
    <3>2. \A s \in Seq(Nat) : s = <<>> <=> Len(s) = 0
      BY EmptySeq
    <3>3. Len(todo[t]) - 1 = 0 <=> Len(todo[t]) = 1
      BY <3>1
    <3>4. todo'[t] = <<>> <=> Len(todo'[t]) = 0
      BY <3>1, <3>2, Zenon
    <3>5. Len(todo'[t]) = Len(todo[t]) - 1
      BY <3>1
    <3> QED BY <3>3, <3>4, <3>5, Zenon
  <2>2. CASE pc[t] = "filllink"
    BY <2>1, <2>2, <1>1, <1>4 DEF Types
  <2>3. CASE Return(t) /\ Len(todo[t]) = 1
    BY <2>1, <2>3, ReturnFacts
  <2> QED BY <2>2, <2>3, <1>4
<1>12. TodoPc'
  BY <1>1, <1>9, <1>10, <1>11 DEF TodoPc, Pushing
<1>13. ReadIn'
  <2>1. Extends(cache_order, cache_order')
    BY <1>3 DEF Extends
  <2>2. pc'[t] \notin Reading
    BY <1>11 DEF Reading
  <2> QED BY <2>1, <2>2, <1>10, ReadInKept
<1>14. ASSUME NEW u \in Clients, NEW x \in ToSet(todo'[u])
       PROVE  /\ x \in ToSet(todo[u]) /\ class'[u] = class[u] /\ class[u] \in Caches
              /\ ~(class[u] = c /\ x = e)
  <2>1. CASE u = t
    <3>1. todo'[t] # <<>>
      BY <2>1 DEF ToSet
    <3> QED BY <3>1, <2>1, <1>1, <1>2, <1>9, <1>11 DEF c
  <2>2. CASE u # t
    BY <2>2, <1>1, <1>5, <1>9, <1>10 DEF Types
  <2> QED BY <2>1, <2>2
<1>15. ListsIn' /\ BlocksIn' /\ PagesFree'
  BY <1>1, <1>3, <1>5, <1>8 DEF ListsIn, BlocksIn, PagesFree
<1>16. TodoIn'
  BY <1>1, <1>3, <1>14 DEF TodoIn
<1>17. NoTwice'
  BY <1>1, <1>2, <1>6, <1>7, <1>9 DEF NoTwice
<1>18. Unshared' /\ OneHolder'
  <2>1. OneHolder'
    BY <1>1, <1>3 DEF OneHolder
  <2>2. ASSUME NEW u \in Clients, NEW b \in held[u], NEW d \in Caches,
               NEW x \in ToSet(free_list'[d])
        PROVE  b # Block(d, x)
    <3>1. (d = c /\ x = e) \/ x \in ToSet(free_list[d])
      BY <1>8
    <3> QED BY <3>1, <1>1, <1>5 DEF Unshared
  <2> QED BY <2>1, <2>2, <1>3 DEF Unshared
<1>19. TodoOnly'
  <2> SUFFICES ASSUME NEW u \in Clients, NEW x \in ToSet(todo'[u])
               PROVE  /\ x \notin ToSet(free_list'[class'[u]])
                      /\ \A v \in Clients : Block(class'[u], x) \notin held[v]
                      /\ \A v \in Clients : v # u => x \notin ToSet(todo'[v])
    BY <1>3 DEF TodoOnly
  <2>1. /\ x \in ToSet(todo[u]) /\ class'[u] = class[u] /\ class[u] \in Caches
        /\ ~(class[u] = c /\ x = e)
    BY <1>14
  <2>2. /\ x \notin ToSet(free_list[class[u]])
        /\ \A v \in Clients : Block(class[u], x) \notin held[v]
        /\ \A v \in Clients : v # u => x \notin ToSet(todo[v])
    BY <2>1, <1>1 DEF TodoOnly
  <2>3. \A v \in Clients : v # u => x \notin ToSet(todo'[v])
    BY <2>2, <1>14
  <2> QED BY <2>1, <2>2, <2>3, <1>8
<1>20. Kept'
  <2> SUFFICES ASSUME NEW d \in Caches, NEW x, Somewhere(d, x) PROVE Somewhere(d, x)'
    BY <1>1, <1>3 DEF Kept
  <2>1. CASE x \in ToSet(free_list[d])
    BY <2>1, <1>8 DEF Somewhere
  <2>2. ASSUME NEW u \in Clients, class[u] = d, x \in ToSet(todo[u]) PROVE Somewhere(d, x)'
    <3>1. CASE u = t /\ x = e
      BY <2>2, <3>1, <1>8 DEF Somewhere, c
    <3>2. CASE ~(u = t /\ x = e)
      <4>1. x \in ToSet(todo'[u])
        BY <2>2, <3>2, <1>2, <1>9
      <4> QED BY <4>1, <2>2, <1>14 DEF Somewhere
    <3> QED BY <3>1, <3>2
  <2>3. CASE \E u \in Clients : Block(d, x) \in held[u]
    BY <2>3, <1>3 DEF Somewhere
  <2> QED BY <2>1, <2>2, <2>3 DEF Somewhere
<1> QED BY <1>10, <1>12, <1>13, <1>15, <1>16, <1>17, <1>18, <1>19, <1>20
       DEF KmemInv, InPlace, Exclusive

\* alloc gives the client a page.
LEMMA PageStep ==
    ASSUME KmemInv, NEW t \in Clients, AllocPage(t)
    PROVE  KmemInv'
<1>1. PICK page \in free_pages :
        /\ free_pages' = free_pages \ {page}
        /\ held' = [held EXCEPT ![t] = @ \cup {<<page * PAGE_SIZE, PAGE_SIZE>>}]
        /\ UNCHANGED <<free_list, cache_order, pc, class, pending, todo, next, raced>>
  BY DEF AllocPage
<1> DEFINE blk == <<page * PAGE_SIZE, PAGE_SIZE>>
<1>2. /\ Types /\ ListsIn /\ BlocksIn /\ ReadIn /\ TodoIn /\ PagesFree /\ TodoPc
      /\ NoTwice /\ Unshared /\ OneHolder /\ TodoOnly /\ Kept
      /\ page \in Pages /\ cache_order[page] = -1
  BY InvParts DEF PagesFree, Types
<1>3. /\ blk \in Nat \X Nat /\ blk[1] \div PAGE_SIZE = page
  BY <1>2, PageFacts
<1>4. /\ held' \in [Clients -> SUBSET (Nat \X Nat)]
      /\ held'[t] = held[t] \cup {blk}
      /\ \A u \in Clients : u # t => held'[u] = held[u]
  BY <1>1, <1>2, <1>3 DEF Types
<1>5. TypeOK'
  <2>1. free_pages' \subseteq Pages
    BY <1>1, <1>2 DEF Types
  <2> QED BY <2>1, <1>1, <1>2, <1>4 DEF Types, TypeOK
<1>6. ListsIn' /\ ReadIn' /\ TodoIn' /\ PagesFree' /\ TodoPc' /\ NoTwice'
  BY <1>1, <1>2 DEF ListsIn, ReadIn, TodoIn, PagesFree, TodoPc, NoTwice
<1>n. \A d \in Caches : \A x : blk # Block(d, x)
  BY <1>2, ChunkNotPage
<1>s. blk = <<page * PAGE_SIZE, PAGE_SIZE>>
  OBVIOUS
<1> HIDE DEF blk
<1>7. BlocksIn'
  <2> SUFFICES ASSUME NEW u \in Clients, NEW b \in held'[u]
               PROVE  ChunkBlock(cache_order, b) \/ PageBlock(cache_order, free_pages', b)
    BY <1>1 DEF BlocksIn
  <2>1. CASE b \in held[u]
    <3>1. CASE ChunkBlock(cache_order, b)
      BY <3>1
    <3>2. CASE PageBlock(cache_order, free_pages, b)
      BY <3>2, <1>1 DEF PageBlock
    <3> QED BY <3>1, <3>2, <2>1, <1>2 DEF BlocksIn
  <2>2. CASE b = blk
    BY <2>2, <1>1, <1>2, <1>s DEF PageBlock
  <2> QED BY <2>1, <2>2, <1>4
<1>8. Unshared'
  <2> SUFFICES ASSUME NEW u \in Clients, NEW b \in held'[u], NEW d \in Caches,
                      NEW x \in ToSet(free_list[d])
               PROVE  b # Block(d, x)
    BY <1>1 DEF Unshared
  <2>1. CASE b \in held[u]
    BY <2>1, <1>2 DEF Unshared
  <2>2. CASE b = blk
    BY <2>2, <1>n
  <2> QED BY <2>1, <2>2, <1>4
<1>9. ASSUME NEW u \in Clients, blk \in held[u] PROVE FALSE
  <2>1. CASE ChunkBlock(cache_order, blk)
    BY <2>1, <1>n DEF ChunkBlock
  <2>2. CASE PageBlock(cache_order, free_pages, blk)
    <3>1. PICK p \in Pages : p \notin free_pages /\ blk = <<p * PAGE_SIZE, PAGE_SIZE>>
      BY <2>2 DEF PageBlock
    <3>2. blk[1] \div PAGE_SIZE = p
      BY <3>1, PageFacts
    <3> QED BY <3>1, <3>2, <1>3
  <2> QED BY <2>1, <2>2, <1>2, <1>9 DEF BlocksIn
<1>10. OneHolder'
  <2> SUFFICES ASSUME NEW u \in Clients, NEW v \in Clients, NEW b \in held'[u], b \in held'[v]
               PROVE  u = v
    BY DEF OneHolder
  <2>1. CASE b = blk
    BY <2>1, <1>4, <1>9
  <2>2. CASE b # blk
    <3>1. b \in held[u] /\ b \in held[v]
      BY <2>2, <1>4
    <3> QED BY <3>1, <1>2 DEF OneHolder
  <2> QED BY <2>1, <2>2
<1>11. TodoOnly'
  <2>1. ASSUME NEW u \in Clients, NEW e \in ToSet(todo[u]), NEW v \in Clients
        PROVE  Block(class[u], e) \notin held'[v]
    <3>1. Block(class[u], e) # blk /\ Block(class[u], e) \notin held[v]
      BY <1>2, <1>n DEF Types, TodoOnly
    <3> QED BY <3>1, <1>4
  <2> QED BY <2>1, <1>1, <1>2 DEF TodoOnly
<1>12. Kept'
  <2>1. \A d, x : Somewhere(d, x) => Somewhere(d, x)'
    BY <1>1, <1>4 DEF Somewhere
  <2> QED BY <2>1, <1>1, <1>2 DEF Kept
<1> QED BY <1>5, <1>6, <1>7, <1>8, <1>10, <1>11, <1>12 DEF KmemInv, InPlace, Exclusive

\* kfree has the chunk before the block to push, _free takes a page back.
LEMMA FreeStep ==
    ASSUME KmemInv, NEW t \in Clients, free(t)
    PROVE  KmemInv'
<1>1. PICK blk \in held[t] :
        /\ pc[t] = "idle"
        /\ IF cache_order[blk[1] \div PAGE_SIZE] # -1 THEN kfree(t, blk) ELSE FreePage(t, blk)
        /\ held' = [held EXCEPT ![t] = @ \ {blk}]
        /\ UNCHANGED <<free_list, cache_order, pending, next, raced>>
  BY DEF free
<1> DEFINE page == blk[1] \div PAGE_SIZE
<1>2. /\ Types /\ ListsIn /\ BlocksIn /\ ReadIn /\ TodoIn /\ PagesFree /\ TodoPc
      /\ NoTwice /\ Unshared /\ OneHolder /\ TodoOnly /\ Kept /\ todo[t] = <<>>
  BY <1>1, InvParts DEF TodoPc, Pushing
<1>4. /\ held' \in [Clients -> SUBSET (Nat \X Nat)]
      /\ held'[t] = held[t] \ {blk}
      /\ \A u \in Clients : u # t => held'[u] = held[u]
  BY <1>1, <1>2 DEF Types
<1>5. /\ \A u \in Clients : \A b \in held'[u] : b \in held[u]
      /\ \A u \in Clients : blk \notin held'[u]
      /\ \A u \in Clients : \A b \in held[u] : b = blk \/ b \in held'[u]
  <2>1. \A u \in Clients : blk \in held[u] => u = t
    BY <1>2 DEF OneHolder
  <2> QED BY <2>1, <1>4
<1>6. OneHolder' /\ Unshared' /\ ListsIn'
  BY <1>1, <1>2, <1>5 DEF OneHolder, Unshared, ListsIn
<1>e. Extends(cache_order, cache_order')
  BY <1>1 DEF Extends
<1>7. CASE ChunkBlock(cache_order, blk)
  <2>1. PICK d \in Caches, e \in Nat : Slot(cache_order, d, e) /\ blk = Block(d, e)
    BY <1>7 DEF ChunkBlock
  <2>2. Behind(cache_order, d, e)
    BY <2>1, BlockFacts, Zenon
  <2>3. /\ blk[1] - HEADER = e /\ blk[1] \div PAGE_SIZE = e \div PAGE_SIZE
        /\ cache_order[e \div PAGE_SIZE] = d + MIN_CACHE_ORDER
    BY <2>1, <2>2 DEF Behind
  <2>4. cache_order[page] = d + MIN_CACHE_ORDER
    BY <2>3
  <2>5. cache_order[page] # -1 /\ cache_order[page] - MIN_CACHE_ORDER = d
    BY <2>4, OrderNotFree, KmemAssumption DEF Caches
  <2>6. /\ todo' = [todo EXCEPT ![t] = <<e>>] /\ class' = [class EXCEPT ![t] = d]
        /\ pc' = [pc EXCEPT ![t] = "push"] /\ free_pages' = free_pages
    BY <1>1, <2>3, <2>5 DEF kfree
  <2>7. /\ todo'[t] = <<e>> /\ class'[t] = d /\ pc'[t] = "push"
        /\ \A u \in Clients : u # t => /\ todo'[u] = todo[u] /\ class'[u] = class[u]
                                       /\ pc'[u] = pc[u]
    BY <1>2, <2>6 DEF Types
  <2>8. ToSet(<<e>>) = {e} /\ IsInjective(<<e>>) /\ <<e>> # <<>> /\ Len(<<e>>) = 1
        /\ <<e>> \in Seq(Nat)
    <3>1. DOMAIN <<e>> = {1} /\ <<e>>[1] = e
      OBVIOUS
    <3>2. ToSet(<<e>>) = {e}
      BY <3>1 DEF ToSet
    <3>3. IsInjective(<<e>>)
      BY <3>1 DEF IsInjective
    <3> QED BY <3>2, <3>3
  <2>9. TypeOK'
    BY <1>1, <1>2, <1>4, <2>6, <2>8 DEF Types, TypeOK
  <2>10. BlocksIn' /\ PagesFree'
    BY <1>1, <1>2, <1>5, <2>6 DEF BlocksIn, PagesFree
  <2>11. ReadIn'
    BY <1>1, <1>e, <2>7, ReadInKept DEF Reading
  <2>12. TodoPc'
    BY <1>2, <2>7, <2>8 DEF TodoPc, Pushing
  <2>13. \A u \in Clients : \A x \in ToSet(todo'[u]) :
            \/ u = t /\ x = e
            \/ u # t /\ x \in ToSet(todo[u]) /\ class'[u] = class[u]
    BY <2>7, <2>8
  <2>14. TodoIn'
    BY <1>1, <1>2, <2>1, <2>7, <2>13 DEF TodoIn
  <2>15. NoTwice'
    BY <1>1, <1>2, <2>7, <2>8 DEF NoTwice
  <2>16. ASSUME NEW u \in Clients, e \in ToSet(todo[u]) PROVE FALSE
    <3>1. Slot(cache_order, class[u], e) /\ class[u] \in Caches
      BY <2>16, <1>2 DEF TodoIn, Types
    <3>2. class[u] = d
      BY <3>1, <2>1, SlotCache, Zenon
    <3> QED BY <3>2, <2>1, <2>16, <1>2 DEF TodoOnly
  <2>17. TodoOnly'
    <3> SUFFICES ASSUME NEW u \in Clients, NEW x \in ToSet(todo'[u])
                 PROVE  /\ x \notin ToSet(free_list[class'[u]])
                        /\ \A v \in Clients : Block(class'[u], x) \notin held'[v]
                        /\ \A v \in Clients : v # u => x \notin ToSet(todo'[v])
      BY <1>1 DEF TodoOnly
    <3>1. CASE u = t /\ x = e
      <4>1. e \notin ToSet(free_list[d])
        BY <1>2, <2>1 DEF Unshared
      <4> QED BY <3>1, <4>1, <1>5, <2>1, <2>7, <2>13, <2>16
    <3>2. CASE u # t /\ x \in ToSet(todo[u]) /\ class'[u] = class[u]
      <4>1. /\ x \notin ToSet(free_list[class[u]])
            /\ \A v \in Clients : Block(class[u], x) \notin held[v]
            /\ \A v \in Clients : v # u => x \notin ToSet(todo[v])
        BY <3>2, <1>2 DEF TodoOnly
      <4>2. \A v \in Clients : Block(class'[u], x) \notin held'[v]
        BY <3>2, <4>1, <1>5
      <4>3. \A v \in Clients : v # u => x \notin ToSet(todo'[v])
        BY <3>2, <4>1, <2>13, <2>16
      <4> QED BY <3>2, <4>1, <4>2, <4>3
    <3> QED BY <3>1, <3>2, <2>13
  <2>18. Kept'
    <3>0. \A p \in Pages, c \in Caches : cache_order[p] = c + MIN_CACHE_ORDER =>
             \A j \in 0 .. ChunkNum(c) - 2 : Slot(cache_order, c, Entry(p, c, j))
      <4>1. \A c \in Caches : \A j \in 0 .. ChunkNum(c) - 2 : j \in 0 .. ChunkNum(c) - 1
        BY CacheFacts
      <4> QED BY <4>1 DEF Slot
    <3> SUFFICES ASSUME NEW c \in Caches, NEW x, Slot(cache_order, c, x), Somewhere(c, x)
                 PROVE  Somewhere(c, x)'
      BY <3>0, <1>1, <1>2 DEF Kept
    <3>1. CASE x \in ToSet(free_list[c])
      BY <3>1, <1>1 DEF Somewhere
    <3>2. ASSUME NEW u \in Clients, class[u] = c, x \in ToSet(todo[u]) PROVE Somewhere(c, x)'
      <4>1. u # t
        BY <3>2, <1>2 DEF ToSet
      <4> QED BY <4>1, <3>2, <2>7 DEF Somewhere
    <3>3. ASSUME NEW u \in Clients, Block(c, x) \in held[u] PROVE Somewhere(c, x)'
      <4>1. CASE Block(c, x) = blk
        <5>1. Block(c, x) = Block(d, e)
          BY <4>1, <2>1
        <5>2. x = e /\ c = d
          BY <5>1, <2>1, BlockInj, Zenon
        <5>3. class'[t] = c /\ x \in ToSet(todo'[t])
          BY <5>2, <2>7, <2>8
        <5> QED BY <5>3 DEF Somewhere
      <4>2. CASE Block(c, x) # blk
        BY <4>2, <3>3, <1>5 DEF Somewhere
      <4> QED BY <4>1, <4>2
    <3> QED BY <3>1, <3>2, <3>3 DEF Somewhere
  <2> QED BY <2>9, <2>10, <2>11, <2>12, <2>14, <2>15, <2>17, <2>18, <1>6
          DEF KmemInv, InPlace, Exclusive
<1>8. CASE PageBlock(cache_order, free_pages, blk)
  <2>1. PICK p \in Pages : /\ cache_order[p] = -1 /\ p \notin free_pages
                           /\ blk = <<p * PAGE_SIZE, PAGE_SIZE>>
    BY <1>8 DEF PageBlock
  <2>2. blk[1] \div PAGE_SIZE = p
    BY <2>1, PageFacts
  <2>3. free_pages' = free_pages \cup {p} /\ UNCHANGED <<pc, class, todo>>
    BY <1>1, <2>1, <2>2 DEF FreePage
  <2>4. TypeOK'
    BY <1>1, <1>2, <1>4, <2>3 DEF Types, TypeOK
  <2>5. ReadIn' /\ TodoIn' /\ PagesFree' /\ TodoPc' /\ NoTwice'
    BY <1>1, <1>2, <2>1, <2>3 DEF ReadIn, TodoIn, PagesFree, TodoPc, NoTwice
  <2>6. BlocksIn'
    <3> SUFFICES ASSUME NEW u \in Clients, NEW b \in held'[u]
                 PROVE  ChunkBlock(cache_order, b) \/ PageBlock(cache_order, free_pages', b)
      BY <1>1 DEF BlocksIn
    <3>1. b \in held[u] /\ b # blk
      BY <1>5
    <3>2. CASE ChunkBlock(cache_order, b)
      BY <3>2
    <3>3. CASE PageBlock(cache_order, free_pages, b)
      <4>1. PICK q \in Pages : /\ cache_order[q] = -1 /\ q \notin free_pages
                               /\ b = <<q * PAGE_SIZE, PAGE_SIZE>>
        BY <3>3 DEF PageBlock
      <4>2. q # p
        BY <4>1, <3>1, <2>1
      <4> QED BY <4>1, <4>2, <2>3 DEF PageBlock
    <3> QED BY <3>1, <3>2, <3>3, <1>2 DEF BlocksIn
  <2>7. TodoOnly'
    BY <1>1, <1>2, <1>5, <2>3 DEF TodoOnly
  <2>8. Kept'
    <3> SUFFICES ASSUME NEW c \in Caches, NEW x, Somewhere(c, x) PROVE Somewhere(c, x)'
      BY <1>1, <1>2 DEF Kept
    <3>1. Block(c, x) # blk
      BY <2>1, ChunkNotPage
    <3> QED BY <3>1, <1>1, <1>5, <2>3 DEF Somewhere
  <2> QED BY <2>4, <2>5, <2>6, <2>7, <2>8, <1>6 DEF KmemInv, InPlace, Exclusive
<1> QED BY <1>7, <1>8, <1>2 DEF BlocksIn

\* The invariant holds once the caches have been set up.
LEMMA KmemInvInit == kmem_cache_init => KmemInv
<1> SUFFICES ASSUME kmem_cache_init PROVE KmemInv
  OBVIOUS
<1>1. /\ CACHE_NUM \in Nat \ {0} /\ MIN_CACHE_ORDER \in Nat /\ PageNum \in Nat
      /\ PageNum >= CACHE_NUM
  BY KmemAssumption
<1>2. ASSUME NEW c \in Caches
      PROVE  /\ c + 1 \in Pages /\ ChunkNum(c) \in 0 .. ChunkNum(c) /\ c \in Nat
             /\ cache_order[c + 1] = c + MIN_CACHE_ORDER
  <2>1. ChunkNum(c) \in Nat
    BY CacheFacts
  <2>2. c + 1 \in Pages /\ (c + 1) - 1 = c /\ c \in Nat
    BY <1>1 DEF Caches, Pages
  <2> QED BY <2>1, <2>2 DEF kmem_cache_init
<1>3. ASSUME NEW c \in Caches
      PROVE  /\ free_list[c] \in Seq(Nat) /\ IsInjective(free_list[c])
             /\ \A e : e \in ToSet(free_list[c]) <=>
                          \E j \in 0 .. ChunkNum(c) - 1 : e = Entry(c + 1, c, j)
  <2>1. free_list[c] = Chunks(c + 1, c, ChunkNum(c))
    BY DEF kmem_cache_init
  <2> QED BY <2>1, <1>2, ChunksFacts
<1>4. \A p \in Pages : /\ cache_order[p] = -1 <=> p - 1 \notin Caches
                       /\ \A c \in Caches : cache_order[p] = c + MIN_CACHE_ORDER => p = c + 1
  BY <1>1, OrderNotFree DEF kmem_cache_init, Pages, Caches
<1>5. /\ free_list \in [Caches -> Seq(Nat)]
      /\ cache_order \in [Pages -> {-1} \cup
                            (MIN_CACHE_ORDER .. CACHE_NUM + MIN_CACHE_ORDER - 1)]
  <2>1. free_list \in [Caches -> Seq(Nat)]
    BY <1>3 DEF kmem_cache_init
  <2>2. \A p \in Pages : p - 1 \in Caches =>
           p - 1 + MIN_CACHE_ORDER \in MIN_CACHE_ORDER .. CACHE_NUM + MIN_CACHE_ORDER - 1
    BY <1>1 DEF Pages, Caches
  <2> QED BY <2>1, <2>2 DEF kmem_cache_init
<1>6. \A t \in Clients : pc[t] = "idle" /\ todo[t] = <<>> /\ held[t] = {}
  BY DEF kmem_cache_init
<1>7. TypeOK
  <2>1. 0 \in Caches /\ <<>> \in Seq(Nat)
    BY <1>1 DEF Caches
  <2> QED BY <1>5, <2>1 DEF TypeOK, kmem_cache_init, NULL
<1>8. ListsIn
  BY <1>2, <1>3 DEF ListsIn, Slot
<1>9. /\ BlocksIn /\ ReadIn /\ TodoIn /\ TodoPc /\ Unshared /\ OneHolder /\ TodoOnly
  <2>1. ToSet(<<>>) = {}
    BY DEF ToSet
  <2> QED BY <1>6, <2>1 DEF BlocksIn, ReadIn, Reading, TodoIn, TodoPc, Pushing,
                            Unshared, OneHolder, TodoOnly
<1>10. PagesFree
  BY <1>4 DEF kmem_cache_init, PagesFree
<1>11. NoTwice
  <2>1. IsInjective(<<>>)
    BY DEF IsInjective
  <2> QED BY <2>1, <1>3, <1>6 DEF NoTwice
<1>12. Kept
  <2> SUFFICES ASSUME NEW p \in Pages, NEW c \in Caches,
                      cache_order[p] = c + MIN_CACHE_ORDER, NEW j \in 0 .. ChunkNum(c) - 2
               PROVE  Entry(p, c, j) \in ToSet(free_list[c])
    BY DEF Kept, Somewhere
  <2>1. j \in 0 .. ChunkNum(c) - 1
    BY CacheFacts
  <2> QED BY <2>1, <1>3, <1>4
<1> QED BY <1>7, <1>8, <1>9, <1>10, <1>11, <1>12 DEF KmemInv, InPlace, Exclusive

\* Each step keeps it.
LEMMA KmemInvNext == KmemInv /\ [Next]_vars => KmemInv'
<1> SUFFICES ASSUME KmemInv, [Next]_vars PROVE KmemInv'
  OBVIOUS
<1>0. ASSUME UNCHANGED <<free_list, cache_order, free_pages, pc, class, pending, todo, next,
                         held>>, raced' \in BOOLEAN
      PROVE  KmemInv'
  BY <1>0 DEF KmemInv, TypeOK, InPlace, ListsIn, BlocksIn, ReadIn, TodoIn, TodoPc, PagesFree,
              Exclusive, NoTwice, Unshared, OneHolder, TodoOnly, Kept, Somewhere
<1>1. CASE UNCHANGED vars
  BY <1>0, <1>1 DEF vars, KmemInv, TypeOK
<1>2. CASE Next
  <2>1. PICK t \in Clients : Race(t) \/ (~Stale(t) /\ Step(t))
    BY <1>2 DEF Next
  <2>2. CASE Race(t)
    BY <1>0, <2>2 DEF Race
  <2>3. CASE ~Stale(t) /\ alloc(t)
    <3>1. PICK size \in 1 .. MAX_CHUNK_SIZE + 1 :
             /\ pc[t] = "idle"
             /\ IF size > MAX_CHUNK_SIZE THEN AllocPage(t) ELSE kmalloc(t, size)
      BY <2>3 DEF alloc
    <3>2. CASE size > MAX_CHUNK_SIZE
      BY <3>1, <3>2, PageStep
    <3>3. CASE ~(size > MAX_CHUNK_SIZE)
      <4>1. MAX_CHUNK_SIZE \in Nat
        <5>1. CACHE_NUM - 1 \in Caches
          BY KmemAssumption DEF Caches
        <5> QED BY <5>1, CacheFacts DEF MAX_CHUNK_SIZE
      <4>2. size \in 1 .. MAX_CHUNK_SIZE
        BY <4>1, <3>3
      <4> QED BY <4>2, <3>1, <3>3, KmallocStep
    <3> QED BY <3>2, <3>3
  <2>4. CASE ~Stale(t) /\ (KmallocEntry(t) \/ PopRead(t) \/ PopNext(t) \/ PushNext(t))
    BY <2>4, LookStep
  <2>5. CASE ~Stale(t) /\ PopUnlink(t)
    BY <2>5, PopStep
  <2>6. CASE PushLink(t)
    BY <2>6, PushStep
  <2>7. CASE free(t)
    BY <2>7, FreeStep
  <2> QED BY <2>1, <2>2, <2>3, <2>4, <2>5, <2>6, <2>7 DEF Step
<1> QED BY <1>1, <1>2

\* It holds in every reachable state.
LEMMA KmemInvAlways == Spec => []KmemInv
BY KmemInvInit, KmemInvNext, PTL DEF Spec

-----------------------------------------------------------------------------
(* What the invariant says of the properties.                              *)

\* The members of the three unions, one by one
LEMMA Members ==
    /\ \A x : x \in AllHeld <=> \E t \in Clients : \E b \in held[t] : x = <<t, b>>
    /\ \A x : x \in AllFree <=> \E c \in Caches : \E e \in ToSet(free_list[c]) : x = <<c, e>>
    /\ \A x : x \in AllTodo <=> \E t \in Clients : \E e \in ToSet(todo[t]) : x = <<t, e>>
<1>1. ASSUME NEW x PROVE x \in AllHeld <=> \E t \in Clients : \E b \in held[t] : x = <<t, b>>
  BY DEF AllHeld
<1>2. ASSUME NEW x
      PROVE  x \in AllFree <=> \E c \in Caches : \E e \in ToSet(free_list[c]) : x = <<c, e>>
  BY DEF AllFree
<1>3. ASSUME NEW x
      PROVE  x \in AllTodo <=> \E t \in Clients : \E e \in ToSet(todo[t]) : x = <<t, e>>
  BY DEF AllTodo
<1> QED BY <1>1, <1>2, <1>3

\* Chunks are where RightCache wants them.
LEMMA InvRightCache == ASSUME KmemInv PROVE RightCache
<1>1. TypeOK /\ ListsIn /\ BlocksIn
  BY DEF KmemInv, InPlace
<1>2. ASSUME NEW x \in AllFree
      PROVE  /\ cache_order[x[2] \div PAGE_SIZE] = x[1] + MIN_CACHE_ORDER
             /\ (x[2] % PAGE_SIZE) % (CacheSize(x[1]) + HEADER) = 0
  <2>0. PICK c \in Caches : \E e \in ToSet(free_list[c]) : x = <<c, e>>
    BY Members
  <2>1. PICK e \in ToSet(free_list[c]) : x = <<c, e>>
    BY <2>0
  <2>2. Slot(cache_order, c, e)
    BY <1>1 DEF ListsIn
  <2>3. Lies(cache_order, c, e)
    BY <2>2, SlotFacts, Zenon
  <2>4. x[1] = c /\ x[2] = e
    BY <2>1
  <2> QED BY <2>3, <2>4 DEF Lies
<1>3. ASSUME NEW x \in AllHeld
      PROVE  LET k == cache_order[x[2][1] \div PAGE_SIZE]
             IN  IF k = -1 THEN x[2][2] = PAGE_SIZE ELSE x[2][2] = 2 ^ k
  <2>0. PICK t \in Clients : \E b \in held[t] : x = <<t, b>>
    BY Members
  <2>1. PICK b \in held[t] : x = <<t, b>>
    BY <2>0
  <2>2. x[2] = b
    BY <2>1
  <2>3. CASE ChunkBlock(cache_order, b)
    <3>1. PICK d \in Caches, e \in Nat : Slot(cache_order, d, e) /\ b = Block(d, e)
      BY <2>3 DEF ChunkBlock
    <3>2. Behind(cache_order, d, e)
      BY <3>1, BlockFacts, Zenon
    <3>3. cache_order[b[1] \div PAGE_SIZE] = d + MIN_CACHE_ORDER /\ b[2] = CacheSize(d)
      BY <3>1, <3>2 DEF Behind
    <3>4. d + MIN_CACHE_ORDER # -1 /\ CacheSize(d) = 2 ^ (d + MIN_CACHE_ORDER)
      BY OrderNotFree DEF CacheSize
    <3>5. b[2] = 2 ^ cache_order[b[1] \div PAGE_SIZE]
      BY <3>3, <3>4, Zenon
    <3> QED BY <2>2, <3>3, <3>4, <3>5
  <2>4. CASE PageBlock(cache_order, free_pages, b)
    <3>1. PICK p \in Pages : cache_order[p] = -1 /\ b = <<p * PAGE_SIZE, PAGE_SIZE>>
      BY <2>4 DEF PageBlock
    <3>2. b[1] \div PAGE_SIZE = p /\ b[2] = PAGE_SIZE
      BY <3>1, PageFacts
    <3> QED BY <2>2, <3>1, <3>2
  <2> QED BY <2>3, <2>4, <1>1 DEF BlocksIn
<1> QED BY <1>1, <1>2, <1>3 DEF RightCache

\* The bytes of a block whose chunk is e
LEMMA ChunkBytes ==
    ASSUME NEW o, NEW c \in Caches, NEW e, Slot(o, c, e)
    PROVE  HeldBytes(Block(c, e)) = FreeBytes(c, e)
<1>1. Behind(o, c, e)
  BY BlockFacts, Zenon
<1>2. CacheSize(c) < PAGE_SIZE /\ CacheSize(c) \in Nat /\ HEADER \in Nat /\ e \in Nat
  BY <1>1, CacheFacts, KmemAssumption DEF Behind
<1> DEFINE b == Block(c, e)
<1>3. b[1] = e + HEADER /\ b[2] = CacheSize(c)
  BY DEF Block
<1> HIDE DEF b
<1>4. b[2] < PAGE_SIZE /\ b[1] - HEADER = e
      /\ b[1] + b[2] - 1 = e + HEADER + CacheSize(c) - 1
  BY <1>2, <1>3
<1>5. HeldBytes(b) = FreeBytes(c, e)
  BY <1>4 DEF HeldBytes, FreeBytes
<1> QED BY <1>5 DEF b

\* A block lies in a page p that is not free.
Occupies(b, p) ==
    /\ p \in Pages \ free_pages /\ HeldBytes(b) # {}
    /\ \A x \in HeldBytes(b) : x \div PAGE_SIZE = p
    /\ b[1] \div PAGE_SIZE = p

\* The page of a chunk that is held
LEMMA ChunkOccupies ==
    ASSUME KmemInv, NEW c \in Caches, NEW e, Slot(cache_order, c, e)
    PROVE  /\ Occupies(Block(c, e), e \div PAGE_SIZE)
           /\ cache_order[e \div PAGE_SIZE] = c + MIN_CACHE_ORDER
           /\ \A x \in FreeBytes(c, e) : x \div PAGE_SIZE = e \div PAGE_SIZE
<1>1. Behind(cache_order, c, e) /\ Lies(cache_order, c, e)
  BY BlockFacts, SlotFacts, Zenon
<1>2. HeldBytes(Block(c, e)) = FreeBytes(c, e)
  BY ChunkBytes, Zenon
<1>3. e \in FreeBytes(c, e)
  <2>1. e \in Nat /\ CacheSize(c) \in Nat \ {0} /\ HEADER \in Nat
    BY <1>1, CacheFacts, KmemAssumption DEF Lies
  <2> QED BY <2>1 DEF FreeBytes
<1>4. cache_order[e \div PAGE_SIZE] = c + MIN_CACHE_ORDER /\ e \div PAGE_SIZE \in Pages
      /\ \A x \in FreeBytes(c, e) : x \div PAGE_SIZE = e \div PAGE_SIZE
      /\ Block(c, e)[1] \div PAGE_SIZE = e \div PAGE_SIZE
  BY <1>1 DEF Lies, Behind
<1>5. e \div PAGE_SIZE \notin free_pages
  BY <1>4, OrderNotFree DEF KmemInv, InPlace, PagesFree
<1>6. HeldBytes(Block(c, e)) # {}
  BY <1>2, <1>3
<1>7. \A x \in HeldBytes(Block(c, e)) : x \div PAGE_SIZE = e \div PAGE_SIZE
  BY <1>2, <1>4
<1>8. Occupies(Block(c, e), e \div PAGE_SIZE)
  <2> DEFINE p == e \div PAGE_SIZE
             b == Block(c, e)
  <2>1. p \in Pages \ free_pages /\ HeldBytes(b) # {}
    BY <1>4, <1>5, <1>6
  <2>2. \A x \in HeldBytes(b) : x \div PAGE_SIZE = p
    BY <1>7
  <2>3. b[1] \div PAGE_SIZE = p
    BY <1>1 DEF Behind
  <2> HIDE DEF p, b
  <2>4. Occupies(b, p)
    BY <2>1, <2>2, <2>3 DEF Occupies
  <2> QED BY <2>4 DEF p, b
<1> QED BY <1>4, <1>8

\* The page of a page
LEMMA PageOccupies ==
    ASSUME KmemInv, NEW p \in Pages, p \notin free_pages, NEW b,
           b = <<p * PAGE_SIZE, PAGE_SIZE>>
    PROVE  Occupies(b, p)
<1>1. b[1] \div PAGE_SIZE = p
  BY PageFacts
<1>2. p \in Nat /\ PAGE_SIZE \in Nat \ {0}
  <2>1. 0 \in Caches
    BY KmemAssumption DEF Caches
  <2> QED BY <2>1, CacheFacts DEF Pages
<1> DEFINE w == p * PAGE_SIZE
<1>3. w \in Nat /\ b[1] = w /\ b[2] = PAGE_SIZE
  BY <1>2
<1>4. HeldBytes(b) = w .. w + PAGE_SIZE - 1
  BY <1>2, <1>3 DEF HeldBytes
<1>5. \A x \in Int : w <= x /\ x < w + PAGE_SIZE => x \div PAGE_SIZE = p
  BY <1>2, PageOf
<1> HIDE DEF w
<1>6. \A x \in HeldBytes(b) : x \in Int /\ w <= x /\ x < w + PAGE_SIZE
  BY <1>2, <1>3, <1>4
<1>7. w \in HeldBytes(b)
  BY <1>2, <1>3, <1>4
<1> QED BY <1>1, <1>5, <1>6, <1>7 DEF Occupies

\* A block, with its page
LEMMA BlockKinds ==
    ASSUME KmemInv, NEW t \in Clients, NEW b \in held[t]
    PROVE  \/ \E c \in Caches : \E e \in Nat :
                 /\ Slot(cache_order, c, e) /\ b = Block(c, e)
                 /\ Occupies(b, e \div PAGE_SIZE)
                 /\ cache_order[e \div PAGE_SIZE] # -1
           \/ \E p \in Pages : /\ b = <<p * PAGE_SIZE, PAGE_SIZE>>
                               /\ Occupies(b, p) /\ cache_order[p] = -1
<1>1. CASE ChunkBlock(cache_order, b)
  <2>1. PICK c \in Caches, e \in Nat : Slot(cache_order, c, e) /\ b = Block(c, e)
    BY <1>1 DEF ChunkBlock
  <2>2. /\ Occupies(Block(c, e), e \div PAGE_SIZE)
        /\ cache_order[e \div PAGE_SIZE] = c + MIN_CACHE_ORDER
    BY <2>1, ChunkOccupies
  <2> QED BY <2>1, <2>2, OrderNotFree
<1>2. CASE PageBlock(cache_order, free_pages, b)
  <2>1. PICK p \in Pages : /\ cache_order[p] = -1 /\ p \notin free_pages
                           /\ b = <<p * PAGE_SIZE, PAGE_SIZE>>
    BY <1>2 DEF PageBlock
  <2> QED BY <2>1, PageOccupies
<1> QED BY <1>1, <1>2 DEF KmemInv, InPlace, BlocksIn

\* Two chunks with different places share no byte, whoever has them.
LEMMA ChunksApart ==
    ASSUME NEW o, NEW c \in Caches, NEW e, Slot(o, c, e),
           NEW d \in Caches, NEW g, Slot(o, d, g), Block(c, e) # Block(d, g)
    PROVE  FreeBytes(c, e) \cap FreeBytes(d, g) = {}
<1>1. e # g
  <2> SUFFICES ASSUME e = g PROVE FALSE
    OBVIOUS
  <2>1. Slot(o, d, e)
    OBVIOUS
  <2>2. c = d
    BY <2>1, SlotCache, Zenon
  <2> QED BY <2>2
<1> QED BY <1>1, SlotsApart, Zenon

\* Nothing in one page meets anything in another.
LEMMA PagesApart ==
    ASSUME NEW A, NEW B, NEW p, NEW q, p # q,
           \A x \in A : x \div PAGE_SIZE = p, \A x \in B : x \div PAGE_SIZE = q
    PROVE  A \cap B = {}
OBVIOUS

\* No byte has two owners.
LEMMA InvNoOverlap == ASSUME KmemInv PROVE NoOverlap
<1> SUFFICES ASSUME ~raced
             PROVE  /\ \A x, y \in AllHeld : x # y => HeldBytes(x[2]) \cap HeldBytes(y[2]) = {}
                    /\ \A x, y \in AllFree :
                          x # y => FreeBytes(x[1], x[2]) \cap FreeBytes(y[1], y[2]) = {}
                    /\ \A x, y \in AllTodo : x # y =>
                          FreeBytes(class[x[1]], x[2]) \cap FreeBytes(class[y[1]], y[2]) = {}
                    /\ \A x \in AllHeld, y \in AllFree :
                          HeldBytes(x[2]) \cap FreeBytes(y[1], y[2]) = {}
                    /\ \A x \in AllHeld, y \in AllTodo :
                          HeldBytes(x[2]) \cap FreeBytes(class[y[1]], y[2]) = {}
                    /\ \A x \in AllTodo, y \in AllFree :
                          FreeBytes(class[x[1]], x[2]) \cap FreeBytes(y[1], y[2]) = {}
                    /\ \A x \in AllHeld :
                          \A b \in HeldBytes(x[2]) : b \div PAGE_SIZE \notin free_pages
                    /\ \A x \in AllHeld :
                          Cardinality({b \div PAGE_SIZE : b \in HeldBytes(x[2])}) = 1
  BY DEF NoOverlap
<1>1. ListsIn /\ TodoIn /\ Unshared /\ OneHolder /\ TodoOnly /\ Types
  BY InvParts
<1>2. ASSUME NEW t \in Clients, NEW b \in held[t], NEW u \in Clients, NEW a \in held[u], b # a
      PROVE  HeldBytes(b) \cap HeldBytes(a) = {}
  <2> DEFINE IsChunk(z, c, e) == /\ Slot(cache_order, c, e) /\ z = Block(c, e)
                                 /\ Occupies(z, e \div PAGE_SIZE)
                                 /\ cache_order[e \div PAGE_SIZE] # -1
             IsPage(z, p) == /\ z = <<p * PAGE_SIZE, PAGE_SIZE>>
                             /\ Occupies(z, p) /\ cache_order[p] = -1
  <2>1. (\E c \in Caches : \E e \in Nat : IsChunk(b, c, e)) \/ \E p \in Pages : IsPage(b, p)
    BY BlockKinds
  <2>2. (\E c \in Caches : \E e \in Nat : IsChunk(a, c, e)) \/ \E p \in Pages : IsPage(a, p)
    BY BlockKinds
  <2>3. ASSUME NEW c \in Caches, NEW e \in Nat, IsChunk(b, c, e),
               NEW d \in Caches, NEW g \in Nat, IsChunk(a, d, g)
        PROVE  HeldBytes(b) \cap HeldBytes(a) = {}
    <3>1. HeldBytes(b) = FreeBytes(c, e) /\ HeldBytes(a) = FreeBytes(d, g)
      BY <2>3, ChunkBytes
    <3>2. Block(c, e) # Block(d, g) /\ Slot(cache_order, c, e) /\ Slot(cache_order, d, g)
      BY <2>3, <1>2
    <3>3. FreeBytes(c, e) \cap FreeBytes(d, g) = {}
      BY <3>2, ChunksApart, Zenon
    <3> QED BY <3>1, <3>3
  <2>4. ASSUME NEW p, NEW q, p # q, Occupies(b, p), Occupies(a, q)
        PROVE  HeldBytes(b) \cap HeldBytes(a) = {}
    BY <2>4, PagesApart DEF Occupies
  <2>5. ASSUME NEW c \in Caches, NEW e \in Nat, IsChunk(b, c, e), NEW q \in Pages, IsPage(a, q)
        PROVE  HeldBytes(b) \cap HeldBytes(a) = {}
    <3>1. e \div PAGE_SIZE # q
      BY <2>5
    <3> QED BY <3>1, <2>4, <2>5
  <2>6. ASSUME NEW p \in Pages, IsPage(b, p), NEW d \in Caches, NEW g \in Nat, IsChunk(a, d, g)
        PROVE  HeldBytes(b) \cap HeldBytes(a) = {}
    <3>1. p # g \div PAGE_SIZE
      BY <2>6
    <3> QED BY <3>1, <2>4, <2>6
  <2>7. ASSUME NEW p \in Pages, IsPage(b, p), NEW q \in Pages, IsPage(a, q)
        PROVE  HeldBytes(b) \cap HeldBytes(a) = {}
    <3>1. p # q
      BY <2>7, <1>2
    <3> QED BY <3>1, <2>4, <2>7
  <2> HIDE DEF IsChunk, IsPage
  <2> QED BY <2>1, <2>2, <2>3, <2>5, <2>6, <2>7
<1>3. ASSUME NEW c \in Caches, NEW e \in ToSet(free_list[c]),
             NEW d \in Caches, NEW g \in ToSet(free_list[d]), <<c, e>> # <<d, g>>
      PROVE  FreeBytes(c, e) \cap FreeBytes(d, g) = {}
  <2>1. Slot(cache_order, c, e) /\ Slot(cache_order, d, g)
    BY <1>1 DEF ListsIn
  <2>2. Block(c, e) # Block(d, g)
    <3> SUFFICES ASSUME Block(c, e) = Block(d, g) PROVE FALSE
      OBVIOUS
    <3>1. e = g /\ c = d
      BY <2>1, BlockInj, Zenon
    <3> QED BY <3>1, <1>3
  <2> QED BY <2>1, <2>2, ChunksApart, Zenon
<1>4. ASSUME NEW t \in Clients, NEW b \in held[t],
             NEW d \in Caches, NEW g, Slot(cache_order, d, g), b # Block(d, g)
      PROVE  HeldBytes(b) \cap FreeBytes(d, g) = {}
  <2>1. Slot(cache_order, d, g) /\ b # Block(d, g)
    BY <1>4
  <2>2. /\ cache_order[g \div PAGE_SIZE] = d + MIN_CACHE_ORDER
        /\ \A x \in FreeBytes(d, g) : x \div PAGE_SIZE = g \div PAGE_SIZE
    BY <2>1, ChunkOccupies
  <2>3. ASSUME NEW c \in Caches, NEW e \in Nat, Slot(cache_order, c, e), b = Block(c, e)
        PROVE  HeldBytes(b) \cap FreeBytes(d, g) = {}
    <3>1. Block(c, e) # Block(d, g)
      BY <2>1, <2>3
    <3>2. FreeBytes(c, e) \cap FreeBytes(d, g) = {}
      BY <3>1, <2>1, <2>3, ChunksApart, Zenon
    <3>3. HeldBytes(b) = FreeBytes(c, e)
      BY <2>3, ChunkBytes
    <3> QED BY <3>2, <3>3
  <2>4. ASSUME NEW p \in Pages, Occupies(b, p), cache_order[p] = -1
        PROVE  HeldBytes(b) \cap FreeBytes(d, g) = {}
    <3>1. p # g \div PAGE_SIZE
      BY <2>2, <2>4, OrderNotFree
    <3> QED BY <3>1, <2>2, <2>4, PagesApart DEF Occupies
  <2> QED BY <2>3, <2>4, BlockKinds
<1>5. ASSUME NEW t \in Clients, NEW b \in held[t]
      PROVE  /\ \A x \in HeldBytes(b) : x \div PAGE_SIZE \notin free_pages
             /\ Cardinality({x \div PAGE_SIZE : x \in HeldBytes(b)}) = 1
  <2>1. \E p : Occupies(b, p)
    BY BlockKinds
  <2>2. PICK p : Occupies(b, p)
    BY <2>1
  <2>3. {x \div PAGE_SIZE : x \in HeldBytes(b)} = {p}
    BY <2>2 DEF Occupies
  <2>4. Cardinality({p}) = 1
    BY FS_Singleton
  <2> QED BY <2>2, <2>3, <2>4 DEF Occupies
<1>6. ASSUME NEW x \in AllHeld
      PROVE  \E t \in Clients : x = <<t, x[2]>> /\ x[2] \in held[t]
  <2>1. PICK t \in Clients : \E b \in held[t] : x = <<t, b>>
    BY Members
  <2> QED BY <2>1
<1>7. ASSUME NEW x \in AllFree
      PROVE  x = <<x[1], x[2]>> /\ x[1] \in Caches /\ x[2] \in ToSet(free_list[x[1]])
  <2>1. PICK c \in Caches : \E e \in ToSet(free_list[c]) : x = <<c, e>>
    BY Members
  <2> QED BY <2>1
<1>8. ASSUME NEW x \in AllHeld, NEW y \in AllHeld, x # y
      PROVE  HeldBytes(x[2]) \cap HeldBytes(y[2]) = {}
  <2>1. PICK t \in Clients : x = <<t, x[2]>> /\ x[2] \in held[t]
    BY <1>6
  <2>2. PICK u \in Clients : y = <<u, y[2]>> /\ y[2] \in held[u]
    BY <1>6
  <2>3. x[2] # y[2]
    <3> SUFFICES ASSUME x[2] = y[2] PROVE FALSE
      OBVIOUS
    <3>1. t = u
      BY <2>1, <2>2, <1>1 DEF OneHolder
    <3> QED BY <3>1, <2>1, <2>2, <1>8, Zenon
  <2> QED BY <2>1, <2>2, <2>3, <1>2
<1>9. ASSUME NEW x \in AllFree, NEW y \in AllFree, x # y
      PROVE  FreeBytes(x[1], x[2]) \cap FreeBytes(y[1], y[2]) = {}
  BY <1>3, <1>7, <1>9
<1>10. ASSUME NEW x \in AllHeld, NEW y \in AllFree
       PROVE  HeldBytes(x[2]) \cap FreeBytes(y[1], y[2]) = {}
  <2>1. PICK t \in Clients : x[2] \in held[t]
    BY <1>6
  <2>2. Slot(cache_order, y[1], y[2]) /\ x[2] # Block(y[1], y[2])
    BY <2>1, <1>1, <1>7 DEF ListsIn, Unshared
  <2> QED BY <2>1, <2>2, <1>4, <1>7
<1>t. ASSUME NEW x \in AllTodo
      PROVE  /\ x = <<x[1], x[2]>> /\ x[1] \in Clients /\ x[2] \in ToSet(todo[x[1]])
             /\ class[x[1]] \in Caches /\ Slot(cache_order, class[x[1]], x[2])
             /\ x[2] \notin ToSet(free_list[class[x[1]]])
             /\ \A u \in Clients : Block(class[x[1]], x[2]) \notin held[u]
             /\ \A u \in Clients : u # x[1] => x[2] \notin ToSet(todo[u])
  <2>1. PICK t \in Clients : \E e \in ToSet(todo[t]) : x = <<t, e>>
    BY Members
  <2>2. x = <<x[1], x[2]>> /\ x[1] \in Clients /\ x[2] \in ToSet(todo[x[1]])
    BY <2>1
  <2> QED BY <2>2, <1>1 DEF TodoIn, TodoOnly, Types
<1>11. ASSUME NEW x \in AllTodo, NEW y \in AllTodo, x # y
       PROVE  FreeBytes(class[x[1]], x[2]) \cap FreeBytes(class[y[1]], y[2]) = {}
  <2>1. x[2] # y[2]
    <3> SUFFICES ASSUME x[2] = y[2] PROVE FALSE
      OBVIOUS
    <3>1. x[1] = y[1]
      BY <1>t
    <3>2. x = <<x[1], x[2]>> /\ y = <<y[1], y[2]>>
      BY <1>t
    <3> QED BY <3>1, <3>2, <1>11, Zenon
  <2>2. /\ Slot(cache_order, class[x[1]], x[2]) /\ class[x[1]] \in Caches
        /\ Slot(cache_order, class[y[1]], y[2]) /\ class[y[1]] \in Caches
    BY <1>t
  <2> QED BY <2>1, <2>2, SlotsApart
<1>12. ASSUME NEW x \in AllHeld, NEW y \in AllTodo
       PROVE  HeldBytes(x[2]) \cap FreeBytes(class[y[1]], y[2]) = {}
  <2>1. PICK t \in Clients : x[2] \in held[t]
    BY <1>6
  <2>2. /\ Slot(cache_order, class[y[1]], y[2]) /\ class[y[1]] \in Caches
        /\ Block(class[y[1]], y[2]) \notin held[t]
    BY <1>t
  <2>3. x[2] # Block(class[y[1]], y[2])
    BY <2>1, <2>2
  <2> QED BY <2>1, <2>2, <2>3, <1>4
<1>13. ASSUME NEW x \in AllTodo, NEW y \in AllFree
       PROVE  FreeBytes(class[x[1]], x[2]) \cap FreeBytes(y[1], y[2]) = {}
  <2>1. /\ Slot(cache_order, class[x[1]], x[2]) /\ class[x[1]] \in Caches
        /\ x[2] \notin ToSet(free_list[class[x[1]]])
    BY <1>t
  <2>2. /\ Slot(cache_order, y[1], y[2]) /\ y[1] \in Caches
        /\ y[2] \in ToSet(free_list[y[1]])
    BY <1>1, <1>7 DEF ListsIn
  <2>3. x[2] # y[2]
    <3> SUFFICES ASSUME x[2] = y[2] PROVE FALSE
      OBVIOUS
    <3>1. class[x[1]] = y[1]
      BY <2>1, <2>2, SlotCache
    <3> QED BY <3>1, <2>1, <2>2
  <2> QED BY <2>1, <2>2, <2>3, SlotsApart
<1>14. ASSUME NEW x \in AllHeld
       PROVE  /\ \A b \in HeldBytes(x[2]) : b \div PAGE_SIZE \notin free_pages
              /\ Cardinality({b \div PAGE_SIZE : b \in HeldBytes(x[2])}) = 1
  BY <1>5, <1>6
<1> QED BY <1>8, <1>9, <1>10, <1>11, <1>12, <1>13, <1>14

\* Three parts of 0 .. n - 1 that cover 0 .. n - 2 have n - 1 members or more.
LEMMA CoverCount ==
    ASSUME NEW n \in Nat \ {0}, NEW A, NEW B, NEW C, A \subseteq 0 .. n - 1,
           B \subseteq 0 .. n - 1, C \subseteq 0 .. n - 1, 0 .. n - 2 \subseteq A \cup B \cup C
    PROVE  /\ IsFiniteSet(A) /\ IsFiniteSet(B) /\ IsFiniteSet(C)
           /\ Cardinality(A) \in Nat /\ Cardinality(B) \in Nat /\ Cardinality(C) \in Nat
           /\ Cardinality(A) + Cardinality(B) + Cardinality(C) >= n - 1
<1>1. IsFiniteSet(0 .. n - 1)
  BY FS_Interval
<1>2. IsFiniteSet(A) /\ IsFiniteSet(B) /\ IsFiniteSet(C)
  BY <1>1, FS_Subset
<1> DEFINE D == A \cup B
<1>3. /\ IsFiniteSet(D) /\ IsFiniteSet(A \cap B)
      /\ Cardinality(D) = Cardinality(A) + Cardinality(B) - Cardinality(A \cap B)
  BY <1>2, FS_Union, FS_Intersection
<1>d. 0 .. n - 2 \subseteq D \cup C
  OBVIOUS
<1> HIDE DEF D
<1>4. /\ IsFiniteSet(D \cup C) /\ IsFiniteSet(D \cap C)
      /\ Cardinality(D \cup C) = Cardinality(D) + Cardinality(C) - Cardinality(D \cap C)
  BY <1>2, <1>3, FS_Union, FS_Intersection
<1>5. Cardinality(0 .. n - 2) = n - 1
  <2>1. Cardinality(0 .. n - 2) = IF 0 > n - 2 THEN 0 ELSE (n - 2) - 0 + 1
    BY FS_Interval
  <2> QED BY <2>1
<1>6. Cardinality(0 .. n - 2) <= Cardinality(D \cup C)
  BY <1>4, <1>d, FS_Subset
<1>7. /\ Cardinality(A) \in Nat /\ Cardinality(B) \in Nat /\ Cardinality(A \cap B) \in Nat
      /\ Cardinality(C) \in Nat /\ Cardinality(D \cap C) \in Nat
  BY <1>2, <1>3, <1>4, FS_CardinalityType
<1> QED BY <1>2, <1>3, <1>4, <1>5, <1>6, <1>7

\* All chunks of a page but one are free, on their way to be, or held.
LEMMA InvChunksKept == ASSUME KmemInv PROVE ChunksKept
<1> SUFFICES ASSUME ~raced, NEW p \in Pages, cache_order[p] # -1
             PROVE  Cardinality({x \in AllFree : x[2] \div PAGE_SIZE = p})
                      + Cardinality({x \in AllTodo : x[2] \div PAGE_SIZE = p})
                      + Cardinality({x \in AllHeld : x[2][1] \div PAGE_SIZE = p})
                    >= ChunkNum(cache_order[p] - MIN_CACHE_ORDER) - 1
  BY DEF ChunksKept
<1> DEFINE c == cache_order[p] - MIN_CACHE_ORDER
           n == ChunkNum(c)
           F == {x \in AllFree : x[2] \div PAGE_SIZE = p}
           W == {x \in AllTodo : x[2] \div PAGE_SIZE = p}
           H == {x \in AllHeld : x[2][1] \div PAGE_SIZE = p}
           JF == {j \in 0 .. n - 1 : Entry(p, c, j) \in ToSet(free_list[c])}
           JH == {j \in 0 .. n - 1 : \E t \in Clients : Block(c, Entry(p, c, j)) \in held[t]}
           JW == {j \in 0 .. n - 1 :
                     \E t \in Clients : class[t] = c /\ Entry(p, c, j) \in ToSet(todo[t])}
           owner(b) == CHOOSE t \in Clients : b \in held[t]
           pusher(e) == CHOOSE t \in Clients : class[t] = c /\ e \in ToSet(todo[t])
           f == [j \in JF |-> <<c, Entry(p, c, j)>>]
           w == [j \in JW |-> <<pusher(Entry(p, c, j)), Entry(p, c, j)>>]
           h == [j \in JH |-> <<owner(Block(c, Entry(p, c, j))), Block(c, Entry(p, c, j))>>]
<1>1. Types /\ ListsIn /\ BlocksIn /\ TodoIn /\ OneHolder /\ TodoOnly /\ Kept
  BY InvParts
<1>2. c \in Caches /\ cache_order[p] = c + MIN_CACHE_ORDER
  BY <1>1, KmemAssumption DEF Types, Caches
<1> HIDE DEF c
<1>3. n \in Nat \ {0}
  BY <1>2, CacheFacts
<1>4. 0 .. n - 2 \subseteq JF \cup JW \cup JH
  <2> SUFFICES ASSUME NEW j \in 0 .. n - 2 PROVE j \in JF \/ j \in JW \/ j \in JH
    OBVIOUS
  <2>1. j \in 0 .. n - 1
    BY <1>3
  <2>2. \/ Entry(p, c, j) \in ToSet(free_list[c])
        \/ \E t \in Clients : class[t] = c /\ Entry(p, c, j) \in ToSet(todo[t])
        \/ \E t \in Clients : Block(c, Entry(p, c, j)) \in held[t]
    BY <1>1, <1>2 DEF Kept, Somewhere
  <2> QED BY <2>1, <2>2
<1>e. \A i, j \in 0 .. n - 1 : Entry(p, c, i) = Entry(p, c, j) => i = j
  <2>1. \A i \in 0 .. n - 1 : i \in Nat
    BY <1>3
  <2> QED BY <2>1, <1>2, EntryInj
<1>p. \A j \in 0 .. n - 1 : /\ Entry(p, c, j) \div PAGE_SIZE = p
                             /\ Slot(cache_order, c, Entry(p, c, j))
  BY <1>2, EntryPage DEF Slot
<1>q. ASSUME NEW d \in Caches, NEW e, Slot(cache_order, d, e), e \div PAGE_SIZE = p
      PROVE  d = c /\ \E j \in 0 .. n - 1 : e = Entry(p, c, j)
  <2>1. PICK q \in Pages : \E j \in 0 .. ChunkNum(d) - 1 :
           e = Entry(q, d, j) /\ cache_order[q] = d + MIN_CACHE_ORDER
    BY <1>q DEF Slot
  <2>2. PICK j \in 0 .. ChunkNum(d) - 1 : e = Entry(q, d, j) /\ cache_order[q] = d + MIN_CACHE_ORDER
    BY <2>1
  <2>3. q = p
    BY <2>2, <1>q, EntryPage
  <2>4. d = c
    BY <2>2, <2>3, <1>2, KmemAssumption DEF Caches
  <2> QED BY <2>2, <2>3, <2>4
<1>5. f \in Bijection(JF, F)
  <2>1. \A j \in JF : <<c, Entry(p, c, j)>> \in F
    <3> SUFFICES ASSUME NEW j \in JF PROVE <<c, Entry(p, c, j)>> \in F
      OBVIOUS
    <3>1. <<c, Entry(p, c, j)>> \in AllFree
      BY <1>2, Members
    <3>2. Entry(p, c, j) \div PAGE_SIZE = p
      BY <1>p
    <3> QED BY <3>1, <3>2
  <2>2. ASSUME NEW x \in F PROVE \E j \in JF : <<c, Entry(p, c, j)>> = x
    <3>1. PICK d \in Caches : \E e \in ToSet(free_list[d]) : x = <<d, e>>
      BY Members
    <3>2. PICK e \in ToSet(free_list[d]) : x = <<d, e>>
      BY <3>1
    <3>3. Slot(cache_order, d, e) /\ e \div PAGE_SIZE = p
      BY <1>1, <3>2 DEF ListsIn
    <3>4. d = c /\ \E j \in 0 .. n - 1 : e = Entry(p, c, j)
      BY <3>3, <1>q
    <3>5. PICK j \in 0 .. n - 1 : e = Entry(p, c, j)
      BY <3>4
    <3>6. j \in JF
      BY <3>4, <3>5
    <3> QED BY <3>2, <3>4, <3>5, <3>6
  <2>3. \A i, j \in JF : <<c, Entry(p, c, i)>> = <<c, Entry(p, c, j)>> => i = j
    BY <1>e
  <2> HIDE DEF F, JF
  <2>4. f \in [JF -> F] /\ \A x \in F : \E j \in JF : f[j] = x
    BY <2>1, <2>2
  <2>5. \A i, j \in JF : f[i] = f[j] => i = j
    BY <2>3
  <2> QED BY <2>4, <2>5 DEF Bijection, Injection, Surjection, IsInjective
<1>6. h \in Bijection(JH, H)
  <2>1. ASSUME NEW j \in JH
        PROVE  /\ owner(Block(c, Entry(p, c, j))) \in Clients
               /\ Block(c, Entry(p, c, j)) \in held[owner(Block(c, Entry(p, c, j)))]
               /\ <<owner(Block(c, Entry(p, c, j))), Block(c, Entry(p, c, j))>> \in H
    <3> DEFINE e == Entry(p, c, j)
               b == Block(c, e)
               t == owner(b)
    <3>1. t \in Clients /\ b \in held[t]
      BY Zenon
    <3>2. Slot(cache_order, c, e) /\ e \div PAGE_SIZE = p
      BY <1>p
    <3>3. Behind(cache_order, c, e)
      BY <3>2, <1>2, BlockFacts, Zenon
    <3>4. b[1] \div PAGE_SIZE = p
      BY <3>2, <3>3 DEF Behind
    <3> HIDE DEF t, b
    <3>5. <<t, b>> \in AllHeld
      BY <3>1, Members
    <3>6. <<t, b>> \in H
      BY <3>4, <3>5
    <3> QED BY <3>1, <3>6 DEF t, b
  <2>2. ASSUME NEW x \in H
        PROVE  \E j \in JH : <<owner(Block(c, Entry(p, c, j))), Block(c, Entry(p, c, j))>> = x
    <3>1. PICK t \in Clients : \E b \in held[t] : x = <<t, b>>
      BY Members
    <3>2. PICK b \in held[t] : x = <<t, b>>
      BY <3>1
    <3>3. b[1] \div PAGE_SIZE = p
      BY <3>2
    <3>4. ChunkBlock(cache_order, b)
      <4>1. ASSUME PageBlock(cache_order, free_pages, b) PROVE FALSE
        <5>1. PICK q \in Pages : cache_order[q] = -1 /\ b = <<q * PAGE_SIZE, PAGE_SIZE>>
          BY <4>1 DEF PageBlock
        <5>2. b[1] \div PAGE_SIZE = q
          BY <5>1, PageFacts
        <5> QED BY <5>1, <5>2, <3>3
      <4> QED BY <4>1, <1>1 DEF BlocksIn
    <3>5. PICK d \in Caches, e \in Nat : Slot(cache_order, d, e) /\ b = Block(d, e)
      BY <3>4 DEF ChunkBlock
    <3>6. Behind(cache_order, d, e)
      BY <3>5, BlockFacts, Zenon
    <3>7. e \div PAGE_SIZE = p
      BY <3>3, <3>5, <3>6 DEF Behind
    <3>8. d = c /\ \E j \in 0 .. n - 1 : e = Entry(p, c, j)
      BY <3>5, <3>7, <1>q
    <3>9. PICK j \in 0 .. n - 1 : e = Entry(p, c, j)
      BY <3>8
    <3>10. b = Block(c, Entry(p, c, j))
      BY <3>5, <3>8, <3>9
    <3>11. j \in JH
      BY <3>10
    <3>12. owner(b) \in Clients /\ b \in held[owner(b)]
      BY Zenon
    <3>13. owner(b) = t
      BY <3>12, <1>1 DEF OneHolder
    <3> QED BY <3>2, <3>10, <3>11, <3>13
  <2>3. ASSUME NEW i \in JH, NEW j \in JH, Block(c, Entry(p, c, i)) = Block(c, Entry(p, c, j))
        PROVE  i = j
    <3>1. Slot(cache_order, c, Entry(p, c, i)) /\ Slot(cache_order, c, Entry(p, c, j))
      BY <1>p
    <3>2. Entry(p, c, i) = Entry(p, c, j)
      BY <3>1, <2>3, <1>2, BlockInj, Zenon
    <3> QED BY <3>2, <1>e
  <2> HIDE DEF H, JH, owner
  <2>4. h \in [JH -> H]
    BY <2>1
  <2>5. \A x \in H : \E j \in JH : h[j] = x
    BY <2>2
  <2>6. \A i, j \in JH : h[i] = h[j] => i = j
    <3> SUFFICES ASSUME NEW i \in JH, NEW j \in JH, h[i] = h[j] PROVE i = j
      OBVIOUS
    <3>1. h[i][2] = Block(c, Entry(p, c, i)) /\ h[j][2] = Block(c, Entry(p, c, j))
      OBVIOUS
    <3> QED BY <3>1, <2>3
  <2> QED BY <2>4, <2>5, <2>6 DEF Bijection, Injection, Surjection, IsInjective
<1>w. w \in Bijection(JW, W)
  <2>1. ASSUME NEW e, NEW t \in Clients, class[t] = c, e \in ToSet(todo[t])
        PROVE  pusher(e) = t
    <3>1. pusher(e) \in Clients /\ e \in ToSet(todo[pusher(e)])
      BY <2>1, Zenon
    <3> HIDE DEF pusher
    <3> QED BY <2>1, <3>1, <1>1 DEF TodoOnly
  <2>2. ASSUME NEW j \in JW PROVE <<pusher(Entry(p, c, j)), Entry(p, c, j)>> \in W
    <3>1. PICK t \in Clients : class[t] = c /\ Entry(p, c, j) \in ToSet(todo[t])
      OBVIOUS
    <3>2. pusher(Entry(p, c, j)) = t
      BY <3>1, <2>1
    <3> HIDE DEF pusher
    <3>3. <<t, Entry(p, c, j)>> \in AllTodo
      BY <3>1, Members
    <3>4. Entry(p, c, j) \div PAGE_SIZE = p
      BY <1>p
    <3> QED BY <3>2, <3>3, <3>4
  <2>3. ASSUME NEW x \in W PROVE \E j \in JW : <<pusher(Entry(p, c, j)), Entry(p, c, j)>> = x
    <3>1. PICK t \in Clients : \E e \in ToSet(todo[t]) : x = <<t, e>>
      BY Members
    <3>2. PICK e \in ToSet(todo[t]) : x = <<t, e>>
      BY <3>1
    <3>3. Slot(cache_order, class[t], e) /\ e \div PAGE_SIZE = p /\ class[t] \in Caches
      BY <1>1, <3>2 DEF TodoIn, Types
    <3>4. class[t] = c /\ \E j \in 0 .. n - 1 : e = Entry(p, c, j)
      BY <3>3, <1>q
    <3>5. PICK j \in 0 .. n - 1 : e = Entry(p, c, j)
      BY <3>4
    <3>6. j \in JW
      BY <3>4, <3>5
    <3>7. pusher(e) = t
      BY <3>4, <2>1
    <3> QED BY <3>2, <3>5, <3>6, <3>7
  <2> HIDE DEF W, JW, pusher
  <2>4. w \in [JW -> W]
    BY <2>2
  <2>5. \A x \in W : \E j \in JW : w[j] = x
    BY <2>3
  <2>6. \A i, j \in JW : w[i] = w[j] => i = j
    <3> SUFFICES ASSUME NEW i \in JW, NEW j \in JW, w[i] = w[j] PROVE i = j
      OBVIOUS
    <3>1. Entry(p, c, i) = Entry(p, c, j)
      <4>1. w[i][2] = Entry(p, c, i) /\ w[j][2] = Entry(p, c, j)
        OBVIOUS
      <4> QED BY <4>1
    <3> QED BY <3>1, <1>e DEF JW
  <2> QED BY <2>4, <2>5, <2>6 DEF Bijection, Injection, Surjection, IsInjective
<1> HIDE DEF f, h, w, owner, pusher
<1>7. /\ IsFiniteSet(JF) /\ IsFiniteSet(JW) /\ IsFiniteSet(JH)
      /\ Cardinality(JF) \in Nat /\ Cardinality(JW) \in Nat /\ Cardinality(JH) \in Nat
      /\ Cardinality(JF) + Cardinality(JW) + Cardinality(JH) >= n - 1
  <2>1. JF \subseteq 0 .. n - 1 /\ JW \subseteq 0 .. n - 1 /\ JH \subseteq 0 .. n - 1
    OBVIOUS
  <2> HIDE DEF JF, JW, JH, n
  <2> QED BY <2>1, <1>3, <1>4, CoverCount
<1> HIDE DEF F, W, H, JF, JW, JH
<1>8. Cardinality(F) = Cardinality(JF)
  BY <1>5, <1>7, FS_Bijection DEF ExistsBijection
<1>9. Cardinality(H) = Cardinality(JH)
  BY <1>6, <1>7, FS_Bijection DEF ExistsBijection
<1>10. Cardinality(W) = Cardinality(JW)
  BY <1>w, <1>7, FS_Bijection DEF ExistsBijection
<1>11. Cardinality(F) + Cardinality(W) + Cardinality(H) >= n - 1
  BY <1>7, <1>8, <1>9, <1>10
<1> QED BY <1>11 DEF c, F, W, H

-----------------------------------------------------------------------------
\* Free chunks and held ones are in pages of their cache, at chunk boundaries,
\* also when clients preempt each other inside kmalloc, request_page and kfree.
THEOREM KmemRightCache == Spec => []RightCache
<1>1. KmemInv => RightCache
  BY InvRightCache
<1> QED BY <1>1, KmemInvAlways, PTL

\* However the clients preempt each other inside kmalloc, request_page and kfree,
\* every byte has one owner until an access to a free list is stale.
THEOREM KmemNoOverlap == Spec => []NoOverlap
<1>1. KmemInv => NoOverlap
  BY InvNoOverlap
<1> QED BY <1>1, KmemInvAlways, PTL

\* Until then no chunk but the one request_page leaves out gets lost either.
THEOREM KmemChunksKept == Spec => []ChunksKept
<1>1. KmemInv => ChunksKept
  BY InvChunksKept
<1> QED BY <1>1, KmemInvAlways, PTL
=============================================================================
