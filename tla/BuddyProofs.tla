---------------------------- MODULE BuddyProofs ----------------------------
(***************************************************************************)
(* TLAPS proofs about Buddy, for every number of orders, blocks and        *)
(* regions and every page size.                                            *)
(***************************************************************************)
EXTENDS Buddy, FiniteSetTheorems, SequenceTheorems, TLAPS

-----------------------------------------------------------------------------
(* Powers of two, by way of the subsets of 1 .. n.                         *)

\* Min of a non-empty set of natural numbers is its least element.
LEMMA MinFacts ==
    ASSUME NEW T, T \subseteq Nat, T # {}
    PROVE  Min(T) \in T /\ \A k \in T : Min(T) <= k
<1>1. PICK m \in T : \A k \in T : ~(<<k, m>> \in OpToRel(<, Nat))
  BY NatLessThanWellFounded, WFMin
<1>2. \A k \in T : ~(k < m)
  BY <1>1 DEF OpToRel
<1>3. \A k \in T : m <= k
  BY <1>2
<1> QED BY <1>3 DEF Min

\* Induction on the natural numbers, for a set
LEMMA SetInduction ==
    ASSUME NEW S, 0 \in S, \A n \in Nat : n \in S => n + 1 \in S
    PROVE  Nat \subseteq S
<1> SUFFICES ASSUME Nat \ S # {} PROVE FALSE
  OBVIOUS
<1> DEFINE m == Min(Nat \ S)
<1>1. m \in Nat \ S /\ \A k \in Nat \ S : m <= k
  BY MinFacts
<1> HIDE DEF m
<1>2. m # 0 /\ m - 1 \in Nat
  BY <1>1
<1>3. m - 1 \in S
  BY <1>1, <1>2
<1> QED BY <1>1, <1>2, <1>3

\* A set of n elements has 2^n subsets, one of n + 1 twice as many.
LEMMA PowerFacts ==
    ASSUME NEW n \in Nat
    PROVE  2 ^ n \in Nat /\ 2 ^ (n + 1) = 2 * 2 ^ n
<1> DEFINE S == 1 .. n
           With == {A \cup {n + 1} : A \in SUBSET S}
           f == [A \in SUBSET S |-> A \cup {n + 1}]
<1>1. IsFiniteSet(S) /\ Cardinality(S) = n
  BY FS_Interval
<1>2. IsFiniteSet(1 .. n + 1) /\ Cardinality(1 .. n + 1) = n + 1
  BY FS_Interval
<1>3. IsFiniteSet(SUBSET S) /\ Cardinality(SUBSET S) = 2 ^ n
  BY <1>1, FS_SUBSET
<1>4. Cardinality(SUBSET (1 .. n + 1)) = 2 ^ (n + 1)
  BY <1>2, FS_SUBSET
<1>5. n + 1 \notin S /\ 1 .. n + 1 = S \cup {n + 1}
  OBVIOUS
<1> HIDE DEF S
<1>6. f \in Bijection(SUBSET S, With)
  <2>1. \A A, B \in SUBSET S : A \cup {n + 1} = B \cup {n + 1} => A = B
    BY <1>5
  <2>2. f \in [SUBSET S -> With] /\ \A T \in With : \E A \in SUBSET S : f[A] = T
    OBVIOUS
  <2>3. \A A, B \in SUBSET S : f[A] = f[B] => A = B
    BY <2>1
  <2> QED BY <2>2, <2>3 DEF Bijection, Injection, Surjection, IsInjective
<1>7. IsFiniteSet(With) /\ Cardinality(With) = 2 ^ n
  BY <1>3, <1>6, FS_Bijection DEF ExistsBijection
<1>w. \A X : X \in With <=> \E A \in SUBSET S : X = A \cup {n + 1}
  BY Zenon
<1> HIDE DEF With, f
<1> DEFINE P == SUBSET S
           Q == SUBSET (1 .. n + 1)
<1>8. Q = P \cup With
  <2>1. ASSUME NEW A \in Q, n + 1 \in A PROVE A \in With
    <3>1. A \ {n + 1} \in SUBSET S
      BY <1>5
    <3>2. A = (A \ {n + 1}) \cup {n + 1}
      BY <2>1
    <3> QED BY <1>w, <3>1, <3>2, Zenon
  <2>2. ASSUME NEW A \in Q, n + 1 \notin A PROVE A \in P
    BY <1>5, <2>2
  <2>3. ASSUME NEW A \in With PROVE A \in Q
    <3>1. PICK B \in SUBSET S : A = B \cup {n + 1}
      BY <1>w, Zenon
    <3> QED BY <1>5, <3>1
  <2>4. ASSUME NEW A \in P PROVE A \in Q
    BY <1>5
  <2> HIDE DEF P, Q
  <2> QED BY <2>1, <2>2, <2>3, <2>4
<1>9. P \cap With = {}
  <2>1. ASSUME NEW A \in With PROVE n + 1 \in A
    <3>1. PICK B \in SUBSET S : A = B \cup {n + 1}
      BY <1>w, Zenon
    <3> QED BY <3>1
  <2>2. ASSUME NEW A \in P PROVE n + 1 \notin A
    BY <1>5
  <2> HIDE DEF P
  <2> QED BY <2>1, <2>2
<1>10. Cardinality(P) \in Nat /\ Cardinality({}) = 0
  BY <1>3, FS_EmptySet, FS_CardinalityType
<1>11. Cardinality(Q) = Cardinality(P) + Cardinality(With) - Cardinality(P \cap With)
  <2>1. IsFiniteSet(P)
    BY <1>3
  <2> HIDE DEF P, Q
  <2> QED BY <1>7, <1>8, <2>1, FS_Union
<1>12. 2 ^ n = Cardinality(P) /\ 2 ^ (n + 1) = Cardinality(Q)
  BY <1>3, <1>4
<1> HIDE DEF P, Q
<1>13. Cardinality(Q) = Cardinality(P) + Cardinality(P)
  <2>1. Cardinality(P \cap With) = 0
    BY <1>9, <1>10, Zenon
  <2>2. Cardinality(With) = Cardinality(P)
    BY <1>7, <1>12, Zenon
  <2> QED BY <1>10, <1>11, <2>1, <2>2
<1> QED BY <1>10, <1>12, <1>13

\* A larger exponent gives a larger power.
LEMMA PowerMono == \A a, d \in Nat : 2 ^ a <= 2 ^ (a + d)
<1> SUFFICES ASSUME NEW a \in Nat PROVE \A d \in Nat : 2 ^ a <= 2 ^ (a + d)
  OBVIOUS
<1> DEFINE S == {d \in Nat : 2 ^ a <= 2 ^ (a + d)}
<1>1. 0 \in S
  <2>1. a + 0 = a /\ 2 ^ a \in Nat
    BY PowerFacts
  <2> QED BY <2>1
<1>2. ASSUME NEW d \in Nat, d \in S PROVE d + 1 \in S
  <2>1. 2 ^ a \in Nat /\ 2 ^ (a + d) \in Nat
    BY PowerFacts
  <2>2. 2 ^ ((a + d) + 1) = 2 * 2 ^ (a + d)
    BY PowerFacts
  <2>3. a + (d + 1) = (a + d) + 1
    OBVIOUS
  <2>4. 2 ^ a <= 2 ^ (a + d)
    BY <1>2
  <2>5. 2 ^ (a + (d + 1)) = 2 * 2 ^ (a + d)
    BY <2>2, <2>3
  <2> DEFINE x == 2 ^ a
             y == 2 ^ (a + d)
             z == 2 ^ (a + (d + 1))
  <2>6. x \in Nat /\ y \in Nat /\ x <= y /\ z = 2 * y
    BY <2>1, <2>4, <2>5
  <2>7. x <= z
    <3> HIDE DEF x, y, z
    <3> QED BY <2>6
  <2> QED BY <2>7
<1> HIDE DEF S
<1>3. Nat \subseteq S
  BY <1>1, <1>2, SetInduction
<1> QED BY <1>3 DEF S

-----------------------------------------------------------------------------
(* Blocks: intervals of 2^k pages that start at a multiple of 2^k.         *)

Size(k) == 2 ^ k

Aligned(p, k) == \E a \in Nat : p = a * Size(k)

In(x, p, k) == p <= x /\ x < p + Size(k)

\* Sizes double from order to order.
LEMMA SizeFacts ==
    ASSUME NEW k \in Nat
    PROVE  Size(k) \in Nat \ {0} /\ Size(k + 1) = 2 * Size(k) /\ Size(0) = 1
<1>1. 2 ^ 0 = 1
  OBVIOUS
<1>2. Size(k) \in Nat /\ Size(k + 1) = 2 * Size(k) /\ Size(0) = 1
  BY <1>1, PowerFacts DEF Size
<1>a. \A a, d \in Nat : Size(a) <= Size(a + d)
  BY PowerMono DEF Size
<1>3. Size(0) <= Size(k)
  <2>1. 0 \in Nat /\ 0 + k = k
    OBVIOUS
  <2> QED BY <1>a, <2>1
<1>4. Size(k) >= 1
  BY <1>2, <1>3
<1> QED BY <1>2, <1>4

\* A larger order has larger blocks.
LEMMA SizeMono ==
    ASSUME NEW j \in Nat, NEW k \in Nat, j <= k
    PROVE  Size(j) <= Size(k) /\ (j < k => Size(j) + Size(j) <= Size(k))
<1>1. \A a, d \in Nat : Size(a) <= Size(a + d)
  BY PowerMono DEF Size
<1>2. k - j \in Nat /\ j + (k - j) = k
  OBVIOUS
<1>3. Size(j) <= Size(k)
  BY <1>1, <1>2
<1>4. CASE j < k
  <2>1. k - (j + 1) \in Nat /\ (j + 1) + (k - (j + 1)) = k /\ j + 1 \in Nat
    BY <1>4
  <2>2. Size(j + 1) <= Size(k)
    BY <1>1, <2>1
  <2> QED BY <1>3, <2>2, SizeFacts
<1> QED BY <1>3, <1>4

\* Multiples of U: the largest up to x, and two of them
LEMMA Multiples ==
    ASSUME NEW U \in Nat \ {0}
    PROVE  /\ \A x \in Nat : /\ x \div U \in Nat /\ x - (x % U) = (x \div U) * U
                             /\ (x \div U) * U <= x /\ x < (x \div U) * U + U
           /\ \A a, b \in Nat : a < b => a * U + U <= b * U
           /\ \A a, b \in Nat : a * U < b * U => a < b
           /\ \A a \in Nat : (a * U) \div U = a /\ a * U \in Nat
<1>1. \A x \in Nat : x \div U \in Nat /\ x - (x % U) = (x \div U) * U
  OBVIOUS
<1>2. \A x \in Nat : (x \div U) * U <= x /\ x < (x \div U) * U + U
  OBVIOUS
<1>3. \A a, b \in Nat : a < b => a * U + U <= b * U
  OBVIOUS
<1>4. \A a, b \in Nat : a * U < b * U => a < b
  OBVIOUS
<1>5. \A a \in Nat : (a * U) \div U = a /\ a * U \in Nat
  OBVIOUS
<1> QED BY <1>1, <1>2, <1>3, <1>4, <1>5

\* Aligned pages are natural numbers.
LEMMA AlignedNat ==
    ASSUME NEW k \in Nat, NEW p, Aligned(p, k)
    PROVE  p \in Nat
  BY SizeFacts, Multiples DEF Aligned

\* Two that are aligned to one order are a block apart.
LEMMA AlignedApart ==
    ASSUME NEW k \in Nat, NEW p, NEW q, Aligned(p, k), Aligned(q, k), p < q
    PROVE  p + Size(k) <= q
<1>1. PICK a \in Nat : p = a * Size(k)
  BY DEF Aligned
<1>2. PICK b \in Nat : q = b * Size(k)
  BY DEF Aligned
<1>3. Size(k) \in Nat \ {0}
  BY SizeFacts
<1>4. a < b
  BY <1>1, <1>2, <1>3, Multiples
<1>5. a * Size(k) + Size(k) <= b * Size(k)
  BY <1>3, <1>4, Multiples
<1> QED BY <1>1, <1>2, <1>5, Zenon

\* What is aligned to an order is aligned to the lower ones.
LEMMA AlignedDown ==
    ASSUME NEW j \in Nat, NEW k \in Nat, j <= k, NEW p, Aligned(p, k)
    PROVE  Aligned(p, j)
<1> DEFINE S == {d \in Nat : \A q : Aligned(q, j + d) => Aligned(q, j)}
<1>1. 0 \in S
  <2>1. j + 0 = j
    OBVIOUS
  <2> QED BY <2>1
<1>2. ASSUME NEW d \in Nat, d \in S PROVE d + 1 \in S
  <2> SUFFICES ASSUME NEW q, Aligned(q, (j + d) + 1) PROVE Aligned(q, j)
    <3>1. j + (d + 1) = (j + d) + 1 /\ d + 1 \in Nat
      OBVIOUS
    <3> QED BY <3>1
  <2>1. PICK a \in Nat : q = a * Size((j + d) + 1)
    BY DEF Aligned
  <2>2. j + d \in Nat
    OBVIOUS
  <2>3. Size((j + d) + 1) = 2 * Size(j + d) /\ Size(j + d) \in Nat
    BY <2>2, SizeFacts
  <2>4. \A U \in Nat : a * (2 * U) = (2 * a) * U /\ 2 * a \in Nat
    OBVIOUS
  <2>5. q = (2 * a) * Size(j + d) /\ 2 * a \in Nat
    BY <2>1, <2>3, <2>4
  <2>6. Aligned(q, j + d)
    BY <2>5, Zenon DEF Aligned
  <2> QED BY <1>2, <2>6
<1> HIDE DEF S
<1>3. Nat \subseteq S
  BY <1>1, <1>2, SetInduction
<1>4. k - j \in S /\ j + (k - j) = k
  BY <1>3
<1> QED BY <1>4 DEF S

\* Sums and sizes
LEMMA AlignedSum ==
    ASSUME NEW k \in Nat, NEW p, NEW q, Aligned(p, k), Aligned(q, k)
    PROVE  Aligned(p + q, k)
<1>1. PICK a \in Nat : p = a * Size(k)
  BY DEF Aligned
<1>2. PICK b \in Nat : q = b * Size(k)
  BY DEF Aligned
<1>3. \A U \in Nat : a * U + b * U = (a + b) * U
  OBVIOUS
<1>4. p + q = (a + b) * Size(k) /\ a + b \in Nat
  BY <1>1, <1>2, <1>3, SizeFacts
<1> QED BY <1>4, Zenon DEF Aligned

\* The size of an order is aligned to the lower ones.
LEMMA AlignedSize ==
    ASSUME NEW j \in Nat, NEW k \in Nat, j <= k
    PROVE  Aligned(Size(k), j)
<1>1. Size(k) = 1 * Size(k)
  BY SizeFacts
<1>2. Aligned(Size(k), k)
  BY <1>1, Zenon DEF Aligned
<1> QED BY <1>2, AlignedDown

\* Every page is aligned to order 0, page 0 to every order.
LEMMA AlignedZero == (\A p \in Nat : Aligned(p, 0)) /\ (\A k \in Nat : Aligned(0, k))
<1>1. ASSUME NEW p \in Nat PROVE Aligned(p, 0)
  <2>1. p = p * Size(0)
    BY SizeFacts
  <2> QED BY <2>1, Zenon DEF Aligned
<1>2. ASSUME NEW k \in Nat PROVE Aligned(0, k)
  <2>1. 0 = 0 * Size(k)
    BY SizeFacts
  <2> QED BY <2>1 DEF Aligned
<1> QED BY <1>1, <1>2

\* The block of order k that holds page x
LEMMA BlockOfFacts ==
    ASSUME NEW k \in Nat, NEW x \in Nat
    PROVE  /\ BlockOf(x, k) \in Nat /\ Aligned(BlockOf(x, k), k) /\ In(x, BlockOf(x, k), k)
           /\ \A p : Aligned(p, k) /\ In(x, p, k) => p = BlockOf(x, k)
<1>1. Size(k) \in Nat \ {0}
  BY SizeFacts
<1> DEFINE a == x \div Size(k)
<1>2. BlockOf(x, k) = a * Size(k) /\ a \in Nat
  BY <1>1, Multiples DEF BlockOf, Size
<1>3. a * Size(k) <= x /\ x < a * Size(k) + Size(k)
  BY <1>1, Multiples
<1> HIDE DEF a
<1>4. Aligned(BlockOf(x, k), k)
  BY <1>2, Zenon DEF Aligned
<1>5. BlockOf(x, k) \in Nat /\ In(x, BlockOf(x, k), k)
  BY <1>2, <1>3, <1>4, AlignedNat DEF In
<1>6. ASSUME NEW p, Aligned(p, k), In(x, p, k) PROVE p = BlockOf(x, k)
  <2> DEFINE q == BlockOf(x, k)
  <2>1. p \in Nat /\ p <= x /\ x < p + Size(k)
    BY <1>6, AlignedNat DEF In
  <2>2. q \in Nat /\ q <= x /\ x < q + Size(k) /\ Aligned(q, k)
    BY <1>4, <1>5 DEF In
  <2> HIDE DEF q
  <2>3. ~(p < q) /\ ~(q < p)
    BY <1>1, <1>6, <2>1, <2>2, AlignedApart
  <2>4. p = q
    BY <2>1, <2>2, <2>3
  <2> QED BY <2>4 DEF q
<1> QED BY <1>4, <1>5, <1>6

\* The buddy of a block of order k is the other half of the block of order
\* k + 1 they both lie in.
Halves(p, b, q, k) ==
    /\ b \in Nat /\ Aligned(b, k) /\ b # p
    /\ q \in Nat /\ Aligned(q, k + 1)
    /\ (p = q /\ b = q + Size(k)) \/ (b = q /\ p = q + Size(k))

\* get_buddy finds it, and is its own inverse.
LEMMA BuddyFacts ==
    ASSUME NEW k \in Nat, NEW p, Aligned(p, k)
    PROVE  \E q : /\ Halves(p, get_buddy(p, k), q, k)
                  /\ get_buddy(get_buddy(p, k), k) = p
<1>1. PICK a \in Nat : p = a * Size(k)
  BY DEF Aligned
<1>2. Size(k) \in Nat \ {0} /\ Size(k + 1) = 2 * Size(k)
  BY SizeFacts
<1>g. \A c \in Nat : get_buddy(c * Size(k), k) =
          IF c % 2 = 0 THEN c * Size(k) + Size(k) ELSE c * Size(k) - Size(k)
  <2>1. \A c \in Nat : (c * Size(k)) \div Size(k) = c
    BY <1>2, Multiples
  <2> QED BY <2>1 DEF get_buddy, Size
<1>s. \A c \in Nat : (c + 1) * Size(k) = c * Size(k) + Size(k)
  BY <1>2
<1>d. \A c \in Nat : (2 * c) * Size(k) = c * Size(k + 1)
  BY <1>2
<1>3. PICK c \in Nat : a = 2 * c \/ a = 2 * c + 1
  <2>1. a \div 2 \in Nat /\ (a = 2 * (a \div 2) \/ a = 2 * (a \div 2) + 1)
    OBVIOUS
  <2> QED BY <2>1
<1> DEFINE e == (2 * c) * Size(k)
           f == (2 * c + 1) * Size(k)
<1>4. f = e + Size(k) /\ e \in Nat /\ f \in Nat /\ 2 * c \in Nat /\ 2 * c + 1 \in Nat
  <2>1. 2 * c \in Nat /\ 2 * c + 1 \in Nat
    OBVIOUS
  <2>2. f = e + Size(k)
    BY <1>s, <2>1
  <2>3. e \in Nat
    BY <1>2, <2>1, Multiples
  <2> HIDE DEF e, f
  <2> QED BY <1>2, <2>1, <2>2, <2>3
<1>5. Aligned(e, k) /\ Aligned(f, k) /\ Aligned(e, k + 1)
  <2>1. Aligned(e, k) /\ Aligned(f, k)
    BY <1>4, Zenon DEF Aligned
  <2>2. e = c * Size(k + 1)
    BY <1>d
  <2>3. Aligned(e, k + 1)
    BY <2>2, Zenon DEF Aligned
  <2> QED BY <2>1, <2>3
<1>6. get_buddy(e, k) = f /\ get_buddy(f, k) = e
  <2>1. (2 * c) % 2 = 0 /\ (2 * c + 1) % 2 = 1
    OBVIOUS
  <2>2. get_buddy(e, k) = e + Size(k)
    BY <1>g, <1>4, <2>1
  <2>3. get_buddy(f, k) = f - Size(k)
    BY <1>g, <1>4, <2>1
  <2> HIDE DEF e, f
  <2> QED BY <1>2, <1>4, <2>2, <2>3
<1>7. p = e \/ p = f
  BY <1>1, <1>3
<1> HIDE DEF e, f
<1>8. CASE p = e
  <2>1. Halves(p, get_buddy(p, k), e, k)
    BY <1>2, <1>4, <1>5, <1>6, <1>8 DEF Halves
  <2> QED BY <1>6, <1>8, <2>1
<1>9. CASE p = f
  <2>1. Halves(p, get_buddy(p, k), e, k)
    BY <1>2, <1>4, <1>5, <1>6, <1>9 DEF Halves
  <2> QED BY <1>6, <1>9, <2>1
<1> QED BY <1>7, <1>8, <1>9

\* The blocks that _free merges: of order k, with page idx in one half
LEMMA MergeFacts ==
    ASSUME NEW k \in Nat, NEW x \in Nat
    PROVE  /\ Halves(BlockOf(x, k), get_buddy(BlockOf(x, k), k), BlockOf(x, k + 1), k)
           /\ get_buddy(get_buddy(BlockOf(x, k), k), k) = BlockOf(x, k)
<1> DEFINE p == BlockOf(x, k)
<1>1. p \in Nat /\ Aligned(p, k) /\ p <= x /\ x < p + Size(k) /\ k + 1 \in Nat
  BY BlockOfFacts DEF In
<1>2. Size(k + 1) = 2 * Size(k) /\ Size(k) \in Nat
  BY SizeFacts
<1> HIDE DEF p
<1>3. PICK q : Halves(p, get_buddy(p, k), q, k) /\ get_buddy(get_buddy(p, k), k) = p
  BY <1>1, BuddyFacts
<1>4. q <= x /\ x < q + Size(k + 1)
  BY <1>1, <1>2, <1>3 DEF Halves
<1>5. q = BlockOf(x, k + 1)
  BY <1>1, <1>3, <1>4, BlockOfFacts DEF Halves, In
<1> QED BY <1>3, <1>5 DEF p

\* A block is made of its halves.
LEMMA HalvesCover ==
    ASSUME NEW k \in Nat, NEW p \in Nat, NEW b, NEW q, Halves(p, b, q, k), NEW x \in Int
    PROVE  /\ In(x, q, k + 1) <=> In(x, p, k) \/ In(x, b, k)
           /\ ~(In(x, p, k) /\ In(x, b, k))
  BY SizeFacts DEF Halves, In

-----------------------------------------------------------------------------
(* Pages and orders *)

\* What the assumption says of the memory's size
LEMMA MemoryFacts ==
    /\ MAX_ORDER \in Nat \ {0} /\ Orders \subseteq Nat /\ MAX_ORDER - 1 \in Orders
    /\ 0 \in Orders /\ \A k \in Orders : k <= MAX_ORDER - 1
    /\ PAGE_NUM \in Nat \ {0} /\ Pages \subseteq Nat /\ 0 \in Pages
    /\ \A k \in Orders : Aligned(PAGE_NUM, k)
<1>1. /\ MAX_ORDER \in Nat \ {0} /\ Orders \subseteq Nat /\ MAX_ORDER - 1 \in Orders
      /\ 0 \in Orders /\ (\A k \in Orders : k <= MAX_ORDER - 1) /\ MaxBlocks \in Nat \ {0}
  BY BuddyAssumption DEF Orders
<1>2. PAGE_NUM = MaxBlocks * Size(MAX_ORDER - 1)
  BY DEF PAGE_NUM, MAX_BLOCK_SIZE, Size
<1>3. MAX_ORDER - 1 \in Nat /\ Size(MAX_ORDER - 1) \in Nat \ {0}
  BY <1>1, SizeFacts
<1>4. \A U \in Nat \ {0} : \A m \in Nat \ {0} : m * U \in Nat \ {0}
  OBVIOUS
<1>5. PAGE_NUM \in Nat \ {0}
  BY <1>1, <1>2, <1>3, <1>4
<1>6. Aligned(PAGE_NUM, MAX_ORDER - 1)
  BY <1>1, <1>2, Zenon DEF Aligned
<1>7. \A k \in Orders : Aligned(PAGE_NUM, k)
  BY <1>1, <1>3, <1>6, AlignedDown
<1>8. Pages \subseteq Nat /\ 0 \in Pages
  BY <1>5 DEF Pages
<1> QED BY <1>1, <1>5, <1>7, <1>8

\* A block that starts in memory lies in it.
LEMMA BlockInMemory ==
    ASSUME NEW k \in Orders, NEW p, Aligned(p, k), p < PAGE_NUM
    PROVE  p \in Pages /\ p + Size(k) <= PAGE_NUM
<1>1. k \in Nat /\ p \in Nat /\ Aligned(PAGE_NUM, k) /\ PAGE_NUM \in Nat
  BY MemoryFacts, AlignedNat
<1>2. p + Size(k) <= PAGE_NUM
  BY <1>1, AlignedApart
<1> QED BY <1>1, <1>2 DEF Pages

\* The buddy of a block below the highest order exists.
LEMMA BuddyInMemory ==
    ASSUME NEW k \in Orders, k < MAX_ORDER - 1, NEW p \in Pages, Aligned(p, k)
    PROVE  get_buddy(p, k) \in Pages /\ k + 1 \in Orders
<1>1. k \in Nat /\ k + 1 \in Orders /\ p \in Nat /\ PAGE_NUM \in Nat /\ p < PAGE_NUM
  BY MemoryFacts DEF Orders, Pages
<1>2. PICK q : Halves(p, get_buddy(p, k), q, k)
  BY <1>1, BuddyFacts
<1>3. Size(k + 1) = 2 * Size(k) /\ Size(k) \in Nat \ {0}
  BY <1>1, SizeFacts
<1>4. q \in Nat /\ Aligned(q, k + 1) /\ q < PAGE_NUM
  BY <1>1, <1>2, <1>3 DEF Halves
<1>5. q + Size(k + 1) <= PAGE_NUM
  BY <1>1, <1>4, BlockInMemory
<1> QED BY <1>1, <1>2, <1>3, <1>4, <1>5 DEF Halves, Pages

\* BlockOf stays in memory.
LEMMA BlockOfPage ==
    ASSUME NEW k \in Orders, NEW x \in Pages
    PROVE  /\ BlockOf(x, k) \in Pages /\ Aligned(BlockOf(x, k), k)
           /\ In(x, BlockOf(x, k), k) /\ BlockOf(x, k) + Size(k) <= PAGE_NUM
<1>1. k \in Nat /\ x \in Nat /\ x < PAGE_NUM /\ PAGE_NUM \in Nat
  BY MemoryFacts DEF Pages
<1>2. BlockOf(x, k) \in Nat /\ Aligned(BlockOf(x, k), k) /\ In(x, BlockOf(x, k), k)
  BY <1>1, BlockOfFacts
<1>3. BlockOf(x, k) < PAGE_NUM
  BY <1>1, <1>2 DEF In
<1> QED BY <1>2, <1>3, BlockInMemory

\* Extents as intervals
LEMMA ExtentIs ==
    ASSUME NEW p \in Int, NEW k \in Nat, NEW x
    PROVE  x \in Extent(p, k) <=> x \in Int /\ In(x, p, k)
  BY SizeFacts DEF Extent, In, Size

-----------------------------------------------------------------------------
(* Functions defined by recursion: CHOOSE finds one.                       *)

\* f goes from start by the steps F.
Iterates(f, F, start, N) ==
    f[0] = start /\ \A n \in 1 .. N : f[n] = F[<<n, f[n - 1]>>]

\* A step function can be iterated as often as one likes.
LEMMA IterationExists ==
    ASSUME NEW T, NEW start \in T, NEW F \in [Nat \X T -> T]
    PROVE  \A N \in Nat : \E f \in [0 .. N -> T] : Iterates(f, F, start, N)
<1> DEFINE S == {N \in Nat : \E f \in [0 .. N -> T] : Iterates(f, F, start, N)}
<1>1. 0 \in S
  <2> DEFINE f == [n \in 0 .. 0 |-> start]
  <2>1. f \in [0 .. 0 -> T] /\ f[0] = start
    OBVIOUS
  <2>2. 1 .. 0 = {}
    OBVIOUS
  <2> HIDE DEF f
  <2>3. Iterates(f, F, start, 0)
    BY <2>1, <2>2 DEF Iterates
  <2> QED BY <2>1, <2>3
<1>2. ASSUME NEW N \in Nat, N \in S PROVE N + 1 \in S
  <2>1. PICK f \in [0 .. N -> T] : Iterates(f, F, start, N)
    BY <1>2
  <2> DEFINE g == [n \in 0 .. N + 1 |-> IF n = N + 1 THEN F[<<N + 1, f[N]>>] ELSE f[n]]
  <2>2. F[<<N + 1, f[N]>>] \in T
    OBVIOUS
  <2>3. g \in [0 .. N + 1 -> T]
    BY <2>2
  <2>4. \A n \in 0 .. N : g[n] = f[n]
    OBVIOUS
  <2>5. g[N + 1] = F[<<N + 1, f[N]>>]
    OBVIOUS
  <2> HIDE DEF g
  <2>6. \A n \in 1 .. N + 1 : g[n] = F[<<n, g[n - 1]>>]
    <3>1. ASSUME NEW n \in 1 .. N PROVE g[n] = F[<<n, g[n - 1]>>]
      <4>1. n \in 0 .. N /\ n - 1 \in 0 .. N
        OBVIOUS
      <4> QED BY <2>1, <2>4, <4>1 DEF Iterates
    <3>2. (N + 1) - 1 = N /\ N \in 0 .. N
      OBVIOUS
    <3>3. g[N + 1] = F[<<N + 1, g[(N + 1) - 1]>>]
      BY <2>4, <2>5, <3>2
    <3>4. \A n \in 1 .. N + 1 : n \in 1 .. N \/ n = N + 1
      OBVIOUS
    <3> QED BY <3>1, <3>3, <3>4
  <2>7. 0 \in 0 .. N /\ g[0] = start
    BY <2>1, <2>4 DEF Iterates
  <2> QED BY <2>3, <2>6, <2>7 DEF Iterates
<1> HIDE DEF S
<1>3. Nat \subseteq S
  BY <1>1, <1>2, SetInduction
<1> QED BY <1>3 DEF S

-----------------------------------------------------------------------------
(* What the operations on free lists do.                                   *)

\* Putting a page in front of a list
LEMMA PushFacts ==
    ASSUME NEW S, NEW q \in Seq(S), NEW e \in S
    PROVE  /\ <<e>> \o q \in Seq(S)
           /\ ToSet(<<e>> \o q) = ToSet(q) \cup {e}
           /\ IsInjective(q) /\ e \notin ToSet(q) => IsInjective(<<e>> \o q)
<1> DEFINE r == <<e>> \o q
<1>1. /\ r \in Seq(S) /\ DOMAIN r = 1 .. Len(q) + 1 /\ DOMAIN q = 1 .. Len(q)
      /\ Len(q) \in Nat /\ r[1] = e
      /\ \A i \in 2 .. Len(q) + 1 : r[i] = q[i - 1] /\ i - 1 \in 1 .. Len(q)
      /\ \A i \in 1 .. Len(q) : r[i + 1] = q[i] /\ i + 1 \in 1 .. Len(q) + 1
  OBVIOUS
<1> HIDE DEF r
<1>2. \A i \in 1 .. Len(q) + 1 : i = 1 \/ i \in 2 .. Len(q) + 1
  BY <1>1
<1>3. ToSet(r) = ToSet(q) \cup {e}
  <2>1. ASSUME NEW x \in ToSet(r) PROVE x \in ToSet(q) \cup {e}
    <3>1. PICK i \in 1 .. Len(q) + 1 : x = r[i]
      BY <1>1 DEF ToSet
    <3>2. CASE i = 1
      BY <1>1, <3>1, <3>2
    <3>3. CASE i # 1
      <4>1. x = q[i - 1] /\ i - 1 \in 1 .. Len(q)
        BY <1>1, <1>2, <3>1, <3>3
      <4> QED BY <1>1, <4>1 DEF ToSet
    <3> QED BY <3>2, <3>3
  <2>2. ASSUME NEW x \in ToSet(q) PROVE x \in ToSet(r)
    <3>1. PICK i \in 1 .. Len(q) : x = q[i]
      BY <1>1 DEF ToSet
    <3>2. r[i + 1] = x /\ i + 1 \in 1 .. Len(q) + 1
      BY <1>1, <3>1
    <3> QED BY <1>1, <3>2 DEF ToSet
  <2>3. e \in ToSet(r)
    <3>1. 1 \in 1 .. Len(q) + 1
      BY <1>1
    <3> QED BY <1>1, <3>1 DEF ToSet
  <2> QED BY <2>1, <2>2, <2>3
<1>4. ASSUME IsInjective(q), e \notin ToSet(q) PROVE IsInjective(r)
  <2> SUFFICES ASSUME NEW i \in 1 .. Len(q) + 1, NEW j \in 1 .. Len(q) + 1, r[i] = r[j]
               PROVE  i = j
    BY <1>1 DEF IsInjective
  <2>1. \A k \in 1 .. Len(q) : q[k] # e
    BY <1>1, <1>4 DEF ToSet
  <2>2. CASE i \in 2 .. Len(q) + 1 /\ j \in 2 .. Len(q) + 1
    <3>1. i - 1 = j - 1
      BY <1>1, <1>4, <2>2 DEF IsInjective
    <3> QED BY <3>1
  <2> QED BY <1>1, <1>2, <2>1, <2>2
<1> QED BY <1>1, <1>3, <1>4 DEF r

\* Unlinking the first page of a list
LEMMA PopFacts ==
    ASSUME NEW S, NEW q \in Seq(S), q # <<>>
    PROVE  /\ Head(q) \in ToSet(q) /\ Head(q) \in S /\ Tail(q) \in Seq(S)
           /\ IsInjective(q) => /\ IsInjective(Tail(q))
                                /\ ToSet(Tail(q)) = ToSet(q) \ {Head(q)}
<1> DEFINE r == Tail(q)
<1>1. /\ Len(q) \in Nat \ {0} /\ DOMAIN q = 1 .. Len(q) /\ Head(q) = q[1] /\ q[1] \in S
      /\ r \in Seq(S) /\ DOMAIN r = 1 .. Len(q) - 1
      /\ \A i \in 1 .. Len(q) - 1 : r[i] = q[i + 1] /\ i + 1 \in 1 .. Len(q) /\ i + 1 # 1
  OBVIOUS
<1> HIDE DEF r
<1>2. 1 \in 1 .. Len(q)
  BY <1>1
<1>3. Head(q) \in ToSet(q)
  BY <1>1, <1>2 DEF ToSet
<1>4. ASSUME IsInjective(q) PROVE IsInjective(r) /\ ToSet(r) = ToSet(q) \ {Head(q)}
  <2>1. ASSUME NEW i \in 1 .. Len(q) - 1, NEW j \in 1 .. Len(q) - 1, r[i] = r[j] PROVE i = j
    <3>1. i + 1 = j + 1
      BY <1>1, <1>4, <2>1 DEF IsInjective
    <3> QED BY <3>1
  <2>2. IsInjective(r)
    BY <1>1, <2>1 DEF IsInjective
  <2>3. ASSUME NEW x \in ToSet(r) PROVE x \in ToSet(q) \ {Head(q)}
    <3>1. PICK i \in 1 .. Len(q) - 1 : x = r[i]
      BY <1>1 DEF ToSet
    <3>2. x = q[i + 1] /\ i + 1 \in 1 .. Len(q) /\ i + 1 # 1
      BY <1>1, <3>1
    <3>3. x # q[1]
      BY <1>1, <1>2, <1>4, <3>2 DEF IsInjective
    <3> QED BY <1>1, <3>2, <3>3 DEF ToSet
  <2>4. ASSUME NEW x \in ToSet(q) \ {Head(q)} PROVE x \in ToSet(r)
    <3>1. PICK i \in 1 .. Len(q) : x = q[i]
      BY <1>1 DEF ToSet
    <3>2. i # 1
      BY <1>1, <3>1
    <3>3. i - 1 \in 1 .. Len(q) - 1 /\ (i - 1) + 1 = i
      BY <1>1, <3>2
    <3>4. r[i - 1] = x
      BY <1>1, <3>1, <3>3
    <3> QED BY <1>1, <3>3, <3>4 DEF ToSet
  <2> QED BY <2>2, <2>3, <2>4
<1> QED BY <1>1, <1>3, <1>4 DEF r

\* Appending, for the walk along a list
LEMMA AppendFacts ==
    ASSUME NEW S, NEW q \in Seq(S), NEW e \in S
    PROVE  /\ Append(q, e) \in Seq(S)
           /\ ToSet(Append(q, e)) = ToSet(q) \cup {e}
           /\ IsInjective(q) /\ e \notin ToSet(q) => IsInjective(Append(q, e))
<1> DEFINE r == Append(q, e)
<1>1. /\ r \in Seq(S) /\ DOMAIN r = 1 .. Len(q) + 1 /\ DOMAIN q = 1 .. Len(q)
      /\ Len(q) \in Nat /\ r[Len(q) + 1] = e
      /\ \A i \in 1 .. Len(q) : r[i] = q[i] /\ i \in 1 .. Len(q) + 1
  OBVIOUS
<1> HIDE DEF r
<1>2. \A i \in 1 .. Len(q) + 1 : i = Len(q) + 1 \/ i \in 1 .. Len(q)
  BY <1>1
<1>3. ToSet(r) = ToSet(q) \cup {e}
  <2>1. ASSUME NEW x \in ToSet(r) PROVE x \in ToSet(q) \cup {e}
    BY <1>1, <1>2 DEF ToSet
  <2>2. ASSUME NEW x \in ToSet(q) \cup {e} PROVE x \in ToSet(r)
    <3>1. Len(q) + 1 \in 1 .. Len(q) + 1
      BY <1>1
    <3> QED BY <1>1, <3>1 DEF ToSet
  <2> QED BY <2>1, <2>2
<1>4. ASSUME IsInjective(q), e \notin ToSet(q) PROVE IsInjective(r)
  <2> SUFFICES ASSUME NEW i \in 1 .. Len(q) + 1, NEW j \in 1 .. Len(q) + 1, r[i] = r[j]
               PROVE  i = j
    BY <1>1 DEF IsInjective
  <2>1. \A k \in 1 .. Len(q) : q[k] # e
    BY <1>1, <1>4 DEF ToSet
  <2>2. CASE i \in 1 .. Len(q) /\ j \in 1 .. Len(q)
    BY <1>1, <1>4, <2>2 DEF IsInjective
  <2> QED BY <1>1, <1>2, <2>1, <2>2
<1> QED BY <1>1, <1>3, <1>4 DEF r

\* f gives what is left of the first pages of the list q without those in gone.
Keeps(f, q, gone) ==
    f = [i \in 0 .. Len(q) |->
            IF i = 0 THEN <<>>
            ELSE IF q[i] \in gone THEN f[i - 1] ELSE Append(f[i - 1], q[i])]

\* There is such a function for every list.
LEMMA KeepsExists ==
    ASSUME NEW S, NEW q \in Seq(S), NEW gone
    PROVE  \E f : Keeps(f, q, gone)
<1> DEFINE F == [x \in Nat \X Seq(S) |->
                    IF x[1] \notin 1 .. Len(q) \/ q[x[1]] \in gone THEN x[2]
                    ELSE Append(x[2], q[x[1]])]
<1>1. F \in [Nat \X Seq(S) -> Seq(S)]
  OBVIOUS
<1>2. <<>> \in Seq(S) /\ Len(q) \in Nat
  OBVIOUS
<1>f. \A n \in 1 .. Len(q) : \A s \in Seq(S) :
         F[<<n, s>>] = IF q[n] \in gone THEN s ELSE Append(s, q[n])
  OBVIOUS
<1> HIDE DEF F
<1>3. PICK f \in [0 .. Len(q) -> Seq(S)] : Iterates(f, F, <<>>, Len(q))
  BY <1>1, <1>2, IterationExists
<1>4. ASSUME NEW i \in 0 .. Len(q)
      PROVE  f[i] = IF i = 0 THEN <<>>
                    ELSE IF q[i] \in gone THEN f[i - 1] ELSE Append(f[i - 1], q[i])
  <2>1. CASE i = 0
    BY <1>3, <2>1 DEF Iterates
  <2>2. CASE i # 0
    <3>1. i \in 1 .. Len(q) /\ i - 1 \in 0 .. Len(q)
      BY <1>2, <2>2
    <3>2. f[i] = F[<<i, f[i - 1]>>] /\ f[i - 1] \in Seq(S)
      BY <1>3, <3>1 DEF Iterates
    <3> QED BY <1>f, <2>2, <3>1, <3>2
  <2> QED BY <2>1, <2>2
<1>5. Keeps(f, q, gone)
  BY <1>4 DEF Keeps
<1> QED BY <1>5

\* Unlinking pages from a list
LEMMA WithoutFacts ==
    ASSUME NEW S, NEW q \in Seq(S), NEW gone
    PROVE  /\ Without(q, gone) \in Seq(S)
           /\ ToSet(Without(q, gone)) = ToSet(q) \ gone
           /\ IsInjective(q) => IsInjective(Without(q, gone))
<1> DEFINE f == CHOOSE f : f = [i \in 0 .. Len(q) |->
                                  IF i = 0 THEN <<>>
                                  ELSE IF q[i] \in gone THEN f[i - 1] ELSE Append(f[i - 1], q[i])]
<1>1. Without(q, gone) = f[Len(q)]
  BY Zenon DEF Without
<1>e. \E g : Keeps(g, q, gone)
  BY KeepsExists
<1>2. Keeps(f, q, gone)
  BY <1>e, Zenon DEF Keeps
<1> HIDE DEF f
<1>3. Len(q) \in Nat /\ DOMAIN q = 1 .. Len(q)
  OBVIOUS
<1> DEFINE First(n) == {q[j] : j \in 1 .. n} \ gone
           T == {n \in Nat : n <= Len(q) =>
                    /\ f[n] \in Seq(S) /\ ToSet(f[n]) = First(n)
                    /\ IsInjective(q) => IsInjective(f[n])}
<1>4. 0 \in T
  <2>1. f[0] = <<>>
    BY <1>2, <1>3 DEF Keeps
  <2>2. <<>> \in Seq(S) /\ ToSet(<<>>) = {} /\ IsInjective(<<>>)
    BY DEF ToSet, IsInjective
  <2>3. First(0) = {}
    OBVIOUS
  <2> QED BY <2>1, <2>2, <2>3
<1>5. ASSUME NEW n \in Nat, n \in T PROVE n + 1 \in T
  <2> SUFFICES ASSUME n + 1 <= Len(q)
               PROVE  /\ f[n + 1] \in Seq(S) /\ ToSet(f[n + 1]) = First(n + 1)
                      /\ IsInjective(q) => IsInjective(f[n + 1])
    OBVIOUS
  <2>1. /\ f[n] \in Seq(S) /\ ToSet(f[n]) = First(n)
        /\ IsInjective(q) => IsInjective(f[n])
    BY <1>3, <1>5
  <2>2. f[n + 1] = IF q[n + 1] \in gone THEN f[n] ELSE Append(f[n], q[n + 1])
    <3>1. n + 1 \in 0 .. Len(q) /\ n + 1 # 0 /\ (n + 1) - 1 = n
      BY <1>3
    <3> QED BY <1>2, <3>1 DEF Keeps
  <2>3. First(n + 1) = First(n) \cup ({q[n + 1]} \ gone)
    <3>1. 1 .. n + 1 = (1 .. n) \cup {n + 1}
      OBVIOUS
    <3> QED BY <3>1
  <2>4. q[n + 1] \in S
    BY <1>3
  <2>5. IsInjective(q) => q[n + 1] \notin First(n)
    BY <1>3 DEF IsInjective
  <2> HIDE DEF First
  <2>6. CASE q[n + 1] \in gone
    BY <2>1, <2>2, <2>3, <2>6
  <2>7. CASE q[n + 1] \notin gone
    <3> DEFINE r == Append(f[n], q[n + 1])
    <3>1. /\ r \in Seq(S) /\ ToSet(r) = ToSet(f[n]) \cup {q[n + 1]}
          /\ IsInjective(f[n]) /\ q[n + 1] \notin ToSet(f[n]) => IsInjective(r)
      BY <2>1, <2>4, AppendFacts
    <3>2. f[n + 1] = r
      BY <2>2, <2>7
    <3> HIDE DEF r
    <3>3. {q[n + 1]} \ gone = {q[n + 1]}
      BY <2>7
    <3> QED BY <2>1, <2>3, <2>5, <3>1, <3>2, <3>3
  <2> QED BY <2>6, <2>7
<1>6. First(Len(q)) = ToSet(q) \ gone
  BY <1>3 DEF ToSet
<1> HIDE DEF T
<1>7. Nat \subseteq T
  BY <1>4, <1>5, SetInduction
<1>8. Len(q) \in T /\ Len(q) <= Len(q)
  BY <1>3, <1>7
<1> HIDE DEF First
<1>9. /\ f[Len(q)] \in Seq(S) /\ ToSet(f[Len(q)]) = First(Len(q))
      /\ IsInjective(q) => IsInjective(f[Len(q)])
  BY <1>8 DEF T
<1> QED BY <1>1, <1>6, <1>9

-----------------------------------------------------------------------------
(* Sets of blocks: A are their first pages, o gives their orders.          *)

\* No two of them share a page.
Clear(o, A) == \A p, q \in A : p < q => p + Size(o[p]) <= q

Heads(o, A) ==
    /\ A \subseteq Pages
    /\ \A p \in A : o[p] \in Orders /\ Aligned(p, o[p])
    /\ Clear(o, A)

\* Page x lies in one of them.
Covered(o, A, x) == \E p \in A : In(x, p, o[p])

\* Blocks in numbers
LEMMA HeadFacts ==
    ASSUME NEW o, NEW A, Heads(o, A), NEW p \in A
    PROVE  /\ p \in Nat /\ p \in Pages /\ o[p] \in Orders /\ o[p] \in Nat
           /\ Size(o[p]) \in Nat \ {0} /\ Aligned(p, o[p]) /\ p + Size(o[p]) <= PAGE_NUM
           /\ In(p, p, o[p])
<1>1. p \in Pages /\ o[p] \in Orders /\ Aligned(p, o[p])
  BY DEF Heads
<1>2. p \in Nat /\ o[p] \in Nat /\ p < PAGE_NUM
  <2>1. p \in Nat /\ o[p] \in Nat /\ PAGE_NUM \in Nat
    BY <1>1, MemoryFacts
  <2> QED BY <1>1, <2>1 DEF Pages
<1>3. Size(o[p]) \in Nat \ {0}
  BY <1>2, SizeFacts
<1>4. p + Size(o[p]) <= PAGE_NUM
  BY <1>1, <1>2, BlockInMemory
<1>5. In(p, p, o[p])
  BY <1>2, <1>3 DEF In
<1> QED BY <1>1, <1>2, <1>3, <1>4, <1>5

\* A page lies in one block at most.
LEMMA OneBlock ==
    ASSUME NEW o, NEW A, Heads(o, A), NEW p \in A, NEW q \in A, NEW x \in Int,
           In(x, p, o[p]), In(x, q, o[q])
    PROVE  p = q
<1>1. p \in Nat /\ q \in Nat /\ Size(o[p]) \in Nat /\ Size(o[q]) \in Nat
  BY HeadFacts
<1>2. ~(p < q)
  BY <1>1 DEF Heads, Clear, In
<1>3. ~(q < p)
  BY <1>1 DEF Heads, Clear, In
<1> QED BY <1>1, <1>2, <1>3

\* Block b of order i keeps its first 2^k pages and gives one half of each of
\* the orders k .. i - 1 (_alloc, and split with k = i - 1).
Halving(o, r, b, i, k) ==
    /\ r[b] = k /\ \A j \in k .. i - 1 : r[b + Size(j)] = j
    /\ \A p \in Pages : p # b /\ (\A j \in k .. i - 1 : p # b + Size(j)) => r[p] = o[p]

UpperHalves(b, i, k) == {b + Size(j) : j \in k .. i - 1}

\* Where the halves are
LEMMA HalfFacts ==
    ASSUME NEW i \in Orders, NEW k \in Nat, k <= i, NEW b \in Pages, Aligned(b, i)
    PROVE  /\ b \in Nat /\ b + Size(i) <= PAGE_NUM
           /\ Size(i) \in Nat /\ Size(k) \in Nat \ {0} /\ b + Size(k) <= b + Size(i)
           /\ \A j \in k .. i - 1 :
                 /\ j \in Orders /\ Size(j) \in Nat \ {0} /\ b + Size(j) \in Pages
                 /\ Aligned(b + Size(j), j) /\ b + Size(k) <= b + Size(j)
                 /\ (b + Size(j)) + Size(j) <= b + Size(i)
           /\ \A j, l \in k .. i - 1 : j < l => (b + Size(j)) + Size(j) <= b + Size(l)
<1>1. b \in Nat /\ i \in Nat /\ PAGE_NUM \in Nat
  BY MemoryFacts
<1>2. b + Size(i) <= PAGE_NUM
  <2>1. b < PAGE_NUM
    BY <1>1 DEF Pages
  <2> QED BY <2>1, BlockInMemory
<1>3. Size(i) \in Nat /\ Size(k) \in Nat \ {0} /\ Size(k) <= Size(i)
  BY <1>1, SizeFacts, SizeMono
<1>4. ASSUME NEW j \in k .. i - 1
      PROVE  /\ j \in Orders /\ Size(j) \in Nat \ {0} /\ b + Size(j) \in Pages
             /\ Aligned(b + Size(j), j) /\ b + Size(k) <= b + Size(j)
             /\ (b + Size(j)) + Size(j) <= b + Size(i)
  <2>1. j \in Nat /\ k <= j /\ j < i /\ j <= i
    BY <1>1
  <2>2. j \in Orders
    BY <2>1, MemoryFacts DEF Orders
  <2>3. Size(j) \in Nat \ {0} /\ Size(k) <= Size(j) /\ Size(j) + Size(j) <= Size(i)
    BY <1>1, <2>1, SizeFacts, SizeMono
  <2>4. Aligned(b, j) /\ Aligned(Size(j), j)
    BY <1>1, <2>1, AlignedDown, AlignedSize
  <2>5. Aligned(b + Size(j), j)
    BY <2>1, <2>4, AlignedSum
  <2>6. b + Size(j) < PAGE_NUM
    BY <1>1, <1>2, <1>3, <2>3
  <2> QED BY <1>1, <1>3, <2>2, <2>3, <2>5, <2>6 DEF Pages
<1>5. ASSUME NEW j \in k .. i - 1, NEW l \in k .. i - 1, j < l
      PROVE  (b + Size(j)) + Size(j) <= b + Size(l)
  <2>1. j \in Nat /\ l \in Nat
    BY <1>1
  <2>2. Size(j) + Size(j) <= Size(l) /\ Size(j) \in Nat /\ Size(l) \in Nat
    BY <1>5, <2>1, SizeFacts, SizeMono
  <2> QED BY <1>1, <2>2
<1> QED BY <1>1, <1>2, <1>3, <1>4, <1>5

\* The block is the first of its parts and the halves.
LEMMA PartsCover ==
    ASSUME NEW i \in Orders, NEW k \in Nat, k <= i, NEW b \in Pages, Aligned(b, i),
           NEW x \in Int, In(x, b, i)
    PROVE  In(x, b, k) \/ \E j \in k .. i - 1 : In(x, b + Size(j), j)
<1> SUFFICES ASSUME ~In(x, b, k) PROVE \E j \in k .. i - 1 : In(x, b + Size(j), j)
  OBVIOUS
<1> DEFINE T == {j \in k .. i : x < b + Size(j)}
<1>1. i \in Nat /\ b \in Nat
  BY MemoryFacts
<1>2. i \in T
  BY <1>1 DEF In
<1>3. T \subseteq Nat
  BY <1>1
<1> DEFINE l == Min(T)
<1>4. l \in T /\ \A j \in T : l <= j
  BY <1>2, <1>3, MinFacts
<1> HIDE DEF l
<1>5. l # k
  BY <1>4 DEF In
<1>6. l - 1 \in k .. i - 1 /\ l - 1 \in Nat /\ l - 1 \in k .. i /\ l \in Nat
  BY <1>1, <1>3, <1>4, <1>5
<1>7. ~(x < b + Size(l - 1)) /\ x < b + Size(l)
  <2>1. l - 1 \notin T
    BY <1>4, <1>6
  <2> QED BY <1>4, <1>6, <2>1
<1>8. Size(l) = 2 * Size(l - 1) /\ Size(l - 1) \in Nat
  <2>1. (l - 1) + 1 = l
    BY <1>6
  <2> QED BY <1>6, <2>1, SizeFacts
<1>9. In(x, b + Size(l - 1), l - 1)
  BY <1>1, <1>7, <1>8 DEF In
<1> QED BY <1>6, <1>9

Halved(o, A, r, b, D) ==
    /\ Heads(r, A \cup D) /\ D \cap A = {}
    /\ \A q \in A : q # b => r[q] = o[q]
    /\ \A x \in Int : Covered(r, A \cup D, x) <=> Covered(o, A, x)

\* Halving a block keeps the blocks apart and covers the same pages.
LEMMA HalvingFacts ==
    ASSUME NEW o, NEW A, Heads(o, A), NEW b \in A, NEW i \in Orders, o[b] = i,
           NEW k \in Nat, k <= i, NEW r, Halving(o, r, b, i, k)
    PROVE  Halved(o, A, r, b, UpperHalves(b, i, k))
<1> DEFINE D == UpperHalves(b, i, k)
           e == b + Size(i)
<1>1. b \in Pages /\ Aligned(b, i) /\ b \in Nat /\ i \in Nat
  BY HeadFacts
<1>2. /\ b + Size(i) <= PAGE_NUM
      /\ Size(i) \in Nat /\ Size(k) \in Nat \ {0} /\ b + Size(k) <= b + Size(i)
      /\ \A j \in k .. i - 1 :
            /\ j \in Orders /\ Size(j) \in Nat \ {0} /\ b + Size(j) \in Pages
            /\ Aligned(b + Size(j), j) /\ b + Size(k) <= b + Size(j)
            /\ (b + Size(j)) + Size(j) <= b + Size(i)
      /\ \A j, l \in k .. i - 1 : j < l => (b + Size(j)) + Size(j) <= b + Size(l)
  BY <1>1, HalfFacts
<1>e. e \in Nat
  BY <1>1, <1>2
<1>3. ASSUME NEW q \in A, q # b
      PROVE  /\ q \in Nat /\ q \in Pages /\ Size(o[q]) \in Nat \ {0}
             /\ (q + Size(o[q]) <= b \/ e <= q)
             /\ q \notin D /\ r[q] = o[q]
  <2>1. q \in Nat /\ q \in Pages /\ Size(o[q]) \in Nat \ {0}
    BY HeadFacts
  <2>2. q + Size(o[q]) <= b \/ e <= q
    BY <1>1, <1>3, <2>1 DEF Heads, Clear
  <2>3. \A j \in k .. i - 1 : q # b + Size(j)
    BY <1>1, <1>2, <2>1, <2>2
  <2>4. q \notin D
    BY <2>3 DEF UpperHalves
  <2>5. r[q] = o[q]
    BY <1>3, <2>1, <2>3 DEF Halving
  <2> QED BY <2>1, <2>2, <2>4, <2>5
<1>4. b \notin D
  BY <1>1, <1>2 DEF UpperHalves
<1>5. ASSUME NEW p \in D \cup {b}
      PROVE  /\ p \in Nat /\ p \in Pages /\ r[p] \in Orders /\ Size(r[p]) \in Nat \ {0}
             /\ Aligned(p, r[p]) /\ b <= p /\ p + Size(r[p]) <= e
  <2>1. CASE p = b
    <3>1. r[p] = k /\ Aligned(p, k) /\ k \in Orders
      BY <1>1, <2>1, AlignedDown, MemoryFacts DEF Halving, Orders
    <3> QED BY <1>1, <1>2, <2>1, <3>1
  <2>2. CASE p \in D
    <3>1. PICK j \in k .. i - 1 : p = b + Size(j)
      BY <2>2 DEF UpperHalves
    <3>2. r[p] = j
      BY <3>1 DEF Halving
    <3>3. p \in Pages /\ p \in Nat /\ Size(j) \in Nat \ {0}
      BY <1>1, <1>2, <3>1
    <3>4. b <= p
      BY <1>1, <3>1, <3>3
    <3> QED BY <1>2, <3>1, <3>2, <3>3, <3>4
  <2> QED BY <2>1, <2>2
<1>6. ASSUME NEW p \in D \cup {b}, NEW q \in D \cup {b}, p < q
      PROVE  p + Size(r[p]) <= q
  <2>1. q \in D
    BY <1>1, <1>5, <1>6
  <2>2. PICK l \in k .. i - 1 : q = b + Size(l)
    BY <2>1 DEF UpperHalves
  <2>3. CASE p = b
    BY <1>2, <2>2, <2>3 DEF Halving
  <2>4. CASE p \in D
    <3>1. PICK j \in k .. i - 1 : p = b + Size(j)
      BY <2>4 DEF UpperHalves
    <3>2. r[p] = j
      BY <3>1 DEF Halving
    <3>3. j < l
      <4>1. j \in Int /\ l \in Int
        OBVIOUS
      <4>2. j # l
        BY <1>5, <1>6, <2>2, <3>1
      <4>3. ~(l < j)
        <5>1. ASSUME l < j PROVE FALSE
          <6>1. (b + Size(l)) + Size(l) <= b + Size(j)
            BY <1>2, <5>1
          <6>2. q + Size(l) <= p /\ Size(l) \in Nat
            BY <1>2, <2>2, <3>1, <6>1
          <6> QED BY <1>5, <1>6, <6>2
        <5> QED BY <5>1
      <4> QED BY <4>1, <4>2, <4>3
    <3>4. (b + Size(j)) + Size(j) <= b + Size(l)
      BY <1>2, <3>3
    <3> QED BY <2>2, <3>1, <3>2, <3>4
  <2> QED BY <2>3, <2>4
<1> DEFINE B == A \cup D
<1>7. \A p \in B : p \in D \cup {b} \/ (p \in A /\ p # b)
  OBVIOUS
<1>8. Heads(r, B)
  <2>1. B \subseteq Pages
    BY <1>3, <1>5, <1>7
  <2>2. ASSUME NEW p \in B PROVE r[p] \in Orders /\ Aligned(p, r[p])
    <3>1. CASE p \in D \cup {b}
      BY <1>5, <3>1
    <3>2. CASE p \in A /\ p # b
      BY <1>3, <3>2 DEF Heads
    <3> QED BY <1>7, <3>1, <3>2
  <2>3. ASSUME NEW p \in B, NEW q \in B, p < q PROVE p + Size(r[p]) <= q
    <3>1. CASE p \in D \cup {b} /\ q \in D \cup {b}
      BY <1>6, <2>3, <3>1
    <3>2. CASE p \in D \cup {b} /\ (q \in A /\ q # b)
      <4>1. /\ p \in Nat /\ Size(r[p]) \in Nat /\ b <= p /\ p + Size(r[p]) <= e
        BY <1>5, <3>2
      <4>2. q \in Nat /\ Size(o[q]) \in Nat \ {0} /\ (q + Size(o[q]) <= b \/ e <= q)
        BY <1>3, <3>2
      <4> HIDE DEF e
      <4> QED BY <1>1, <1>e, <2>3, <4>1, <4>2
    <3>3. CASE (p \in A /\ p # b) /\ q \in D \cup {b}
      <4>1. /\ q \in Nat /\ Size(r[q]) \in Nat \ {0} /\ b <= q /\ q + Size(r[q]) <= e
        BY <1>5, <3>3
      <4>2. /\ p \in Nat /\ Size(o[p]) \in Nat \ {0} /\ (p + Size(o[p]) <= b \/ e <= p)
            /\ r[p] = o[p]
        BY <1>3, <3>3
      <4> HIDE DEF e
      <4> QED BY <1>1, <1>e, <2>3, <4>1, <4>2
    <3>4. CASE (p \in A /\ p # b) /\ (q \in A /\ q # b)
      <4>1. p + Size(o[p]) <= q /\ r[p] = o[p]
        BY <1>3, <2>3, <3>4 DEF Heads, Clear
      <4> QED BY <4>1
    <3> QED BY <1>7, <3>1, <3>2, <3>3, <3>4
  <2> HIDE DEF B
  <2> QED BY <2>1, <2>2, <2>3 DEF Heads, Clear
<1>9. D \cap A = {}
  BY <1>3, <1>4
<1>10. ASSUME NEW x \in Int PROVE Covered(r, B, x) <=> Covered(o, A, x)
  <2>1. ASSUME Covered(r, B, x) PROVE Covered(o, A, x)
    <3>1. PICK p \in B : In(x, p, r[p])
      BY <2>1 DEF Covered
    <3>2. CASE p \in D \cup {b}
      <4>1. /\ p \in Nat /\ Size(r[p]) \in Nat /\ b <= p /\ p + Size(r[p]) <= e
        BY <1>5, <3>2
      <4>2. b <= x /\ x < e
        <5> HIDE DEF e
        <5> QED BY <1>1, <1>e, <3>1, <4>1 DEF In
      <4>3. In(x, b, o[b])
        BY <4>2 DEF In
      <4> QED BY <4>3 DEF Covered
    <3>3. CASE p \in A /\ p # b
      <4>1. In(x, p, o[p])
        BY <1>3, <3>1, <3>3
      <4> QED BY <3>3, <4>1 DEF Covered
    <3> QED BY <1>7, <3>2, <3>3
  <2>2. ASSUME Covered(o, A, x) PROVE Covered(r, B, x)
    <3>1. PICK p \in A : In(x, p, o[p])
      BY <2>2 DEF Covered
    <3>2. CASE p # b
      <4>1. In(x, p, r[p]) /\ p \in B
        BY <1>3, <3>1, <3>2
      <4> QED BY <4>1 DEF Covered
    <3>3. CASE p = b
      <4>1. In(x, b, i)
        BY <3>1, <3>3
      <4>2. CASE In(x, b, k)
        <5>1. In(x, b, r[b])
          BY <4>2 DEF Halving
        <5> QED BY <5>1 DEF Covered
      <4>3. CASE \E j \in k .. i - 1 : In(x, b + Size(j), j)
        <5>1. PICK j \in k .. i - 1 : In(x, b + Size(j), j)
          BY <4>3
        <5>2. r[b + Size(j)] = j /\ b + Size(j) \in B
          BY DEF Halving, UpperHalves
        <5>3. In(x, b + Size(j), r[b + Size(j)])
          BY <5>1, <5>2
        <5> QED BY <5>2, <5>3 DEF Covered
      <4> QED BY <1>1, <4>1, <4>2, <4>3, PartsCover
    <3> QED BY <3>2, <3>3
  <2> QED BY <2>1, <2>2
<1> QED BY <1>3, <1>8, <1>9, <1>10 DEF Halved

\* The buddies of page x at the orders k .. m - 1, and those of them that _free
\* merges with the block of order k at x
BuddyAt(x, j) == get_buddy(BlockOf(x, j), j)

Merged(x, k, m) == {x} \cup {BuddyAt(x, j) : j \in k .. m - 1}

\* Merging block x of order k up to order m
LEMMA MergedCover ==
    ASSUME NEW o, NEW x \in Nat, NEW k \in Nat, Aligned(x, k), o[x] = k
    PROVE  \A m \in Nat : (k <= m /\ \A j \in k .. m - 1 : o[BuddyAt(x, j)] = j) =>
             /\ BlockOf(x, m) \in Merged(x, k, m)
             /\ \A y \in Int : In(y, BlockOf(x, m), m) <=> Covered(o, Merged(x, k, m), y)
<1> DEFINE Holds(m) == (\A j \in k .. m - 1 : o[BuddyAt(x, j)] = j) =>
             /\ BlockOf(x, m) \in Merged(x, k, m)
             /\ \A y \in Int : In(y, BlockOf(x, m), m) <=> Covered(o, Merged(x, k, m), y)
           S == {d \in Nat : Holds(k + d)}
<1>1. Holds(k)
  <2>1. k .. k - 1 = {}
    OBVIOUS
  <2>2. Merged(x, k, k) = {x}
    BY <2>1 DEF Merged
  <2>3. In(x, x, k)
    BY SizeFacts DEF In
  <2>4. BlockOf(x, k) = x
    BY <2>3, BlockOfFacts
  <2>5. ASSUME NEW y \in Int
        PROVE  In(y, BlockOf(x, k), k) <=> Covered(o, Merged(x, k, k), y)
    BY <2>2, <2>4 DEF Covered
  <2> QED BY <2>2, <2>4, <2>5
<1>2. ASSUME NEW m \in Nat, k <= m, Holds(m) PROVE Holds(m + 1)
  <2> SUFFICES ASSUME \A j \in k .. (m + 1) - 1 : o[BuddyAt(x, j)] = j
               PROVE  /\ BlockOf(x, m + 1) \in Merged(x, k, m + 1)
                      /\ \A y \in Int : In(y, BlockOf(x, m + 1), m + 1)
                                          <=> Covered(o, Merged(x, k, m + 1), y)
    OBVIOUS
  <2>1. k .. (m + 1) - 1 = (k .. m - 1) \cup {m}
    BY <1>2
  <2>2. Merged(x, k, m + 1) = Merged(x, k, m) \cup {BuddyAt(x, m)} /\ o[BuddyAt(x, m)] = m
    BY <2>1 DEF Merged
  <2>3. /\ BlockOf(x, m) \in Merged(x, k, m)
        /\ \A y \in Int : In(y, BlockOf(x, m), m) <=> Covered(o, Merged(x, k, m), y)
    BY <1>2, <2>1
  <2>4. Halves(BlockOf(x, m), BuddyAt(x, m), BlockOf(x, m + 1), m)
    BY MergeFacts DEF BuddyAt
  <2>5. BlockOf(x, m + 1) \in Merged(x, k, m + 1)
    BY <2>2, <2>3, <2>4 DEF Halves
  <2>6. ASSUME NEW y \in Int
        PROVE  In(y, BlockOf(x, m + 1), m + 1) <=> Covered(o, Merged(x, k, m + 1), y)
    <3>1. BlockOf(x, m) \in Nat
      BY BlockOfFacts
    <3>2. In(y, BlockOf(x, m + 1), m + 1) <=>
            In(y, BlockOf(x, m), m) \/ In(y, BuddyAt(x, m), m)
      BY <2>4, <3>1, HalvesCover
    <3>3. Covered(o, Merged(x, k, m + 1), y) <=>
            Covered(o, Merged(x, k, m), y) \/ In(y, BuddyAt(x, m), m)
      BY <2>2 DEF Covered
    <3> QED BY <2>3, <3>2, <3>3
  <2> QED BY <2>5, <2>6
<1> HIDE DEF Holds
<1>3. 0 \in S
  <2>1. k + 0 = k
    OBVIOUS
  <2> QED BY <1>1, <2>1
<1>4. ASSUME NEW d \in Nat, d \in S PROVE d + 1 \in S
  <2>1. k + d \in Nat /\ k <= k + d /\ (k + d) + 1 = k + (d + 1)
    OBVIOUS
  <2>2. Holds((k + d) + 1)
    BY <1>2, <1>4, <2>1
  <2> QED BY <2>1, <2>2
<1> HIDE DEF S
<1>5. Nat \subseteq S
  BY <1>3, <1>4, SetInduction
<1>6. ASSUME NEW m \in Nat, k <= m PROVE Holds(m)
  <2>1. m - k \in S /\ k + (m - k) = m
    BY <1>5, <1>6
  <2>2. Holds(k + (m - k))
    BY <2>1 DEF S
  <2> QED BY <2>1, <2>2
<1> QED BY <1>6 DEF Holds

Joined(o, A, r, G, h, m) ==
    /\ G \subseteq A /\ h \in G
    /\ Heads(r, (A \ G) \cup {h}) /\ Heads(r, A \ G)
    /\ \A y \in Int : In(y, h, m) <=> Covered(o, G, y)

\* Merging buddies keeps the blocks apart and covers the pages they had.
LEMMA MergingFacts ==
    ASSUME NEW o, NEW A, Heads(o, A), NEW x \in A, NEW k, o[x] = k,
           NEW m \in Orders, k <= m,
           \A j \in k .. m - 1 : BuddyAt(x, j) \in A /\ o[BuddyAt(x, j)] = j,
           NEW r, r[BlockOf(x, m)] = m, \A q \in A \ Merged(x, k, m) : r[q] = o[q]
    PROVE  Joined(o, A, r, Merged(x, k, m), BlockOf(x, m), m)
<1> DEFINE h == BlockOf(x, m)
           G == Merged(x, k, m)
<1>1. x \in Nat /\ x \in Pages /\ k \in Nat /\ k \in Orders /\ Aligned(x, k) /\ m \in Nat
  BY HeadFacts, MemoryFacts
<1>2. h \in G /\ \A y \in Int : In(y, h, m) <=> Covered(o, G, y)
  BY <1>1, MergedCover
<1>3. G \subseteq A
  BY DEF Merged
<1>4. h \in Pages /\ Aligned(h, m) /\ h \in Nat /\ Size(m) \in Nat \ {0}
  BY <1>1, BlockOfPage, MemoryFacts, SizeFacts
<1> HIDE DEF h, G
<1>5. ASSUME NEW q \in A \ G, NEW y \in Int, In(y, q, o[q]) PROVE ~In(y, h, m)
  <2> SUFFICES ASSUME In(y, h, m) PROVE FALSE
    OBVIOUS
  <2>1. PICK p \in G : In(y, p, o[p])
    BY <1>2 DEF Covered
  <2>2. p = q
    BY <1>3, <1>5, <2>1, OneBlock
  <2> QED BY <1>5, <2>2
<1>6. ASSUME NEW q \in A \ G
      PROVE  /\ q \in Pages /\ r[q] \in Orders /\ Aligned(q, r[q])
             /\ q < h => q + Size(r[q]) <= h
             /\ h < q => h + Size(m) <= q
  <2>1. /\ q \in Nat /\ q \in Pages /\ o[q] \in Orders /\ Size(o[q]) \in Nat \ {0}
        /\ Aligned(q, o[q]) /\ In(q, q, o[q])
    BY HeadFacts
  <2>2. r[q] = o[q]
    BY DEF G
  <2>3. ~In(q, h, m)
    BY <1>5, <2>1
  <2>4. In(h, q, o[q]) => ~In(h, h, m)
    BY <1>4, <1>5
  <2>5. q < h => q + Size(o[q]) <= h
    BY <1>4, <2>1, <2>4 DEF In
  <2>6. h < q => h + Size(m) <= q
    BY <1>4, <2>1, <2>3 DEF In
  <2> QED BY <2>1, <2>2, <2>5, <2>6
<1>7. ASSUME NEW p \in A \ G, NEW q \in A \ G, p < q PROVE p + Size(r[p]) <= q
  <2>1. p + Size(o[p]) <= q
    BY <1>7 DEF Heads, Clear
  <2>2. r[p] = o[p]
    BY DEF G
  <2> QED BY <2>1, <2>2
<1>8. Heads(r, A \ G)
  BY <1>6, <1>7 DEF Heads, Clear
<1>9. r[h] = m
  BY DEF h
<1>10. Heads(r, (A \ G) \cup {h})
  <2>1. ASSUME NEW p \in (A \ G) \cup {h}, NEW q \in (A \ G) \cup {h}, p < q
        PROVE  p + Size(r[p]) <= q
    <3>1. CASE p = h /\ q = h
      BY <1>4, <2>1, <3>1
    <3>2. CASE p = h /\ q # h
      BY <1>6, <1>9, <2>1, <3>2
    <3>3. CASE p # h /\ q = h
      BY <1>6, <2>1, <3>3
    <3>4. CASE p # h /\ q # h
      BY <1>7, <2>1, <3>4
    <3> QED BY <3>1, <3>2, <3>3, <3>4
  <2> QED BY <1>4, <1>6, <1>9, <2>1 DEF Heads, Clear
<1> QED BY <1>2, <1>3, <1>8, <1>10 DEF h, G, Joined

-----------------------------------------------------------------------------
(* The allocator's tables: the free lists L, the orders o, the entries e,  *)
(* and the blocks H that clients hold.                                     *)

Listed(L) == UNION {ToSet(L[k]) : k \in Orders}

Lists(L, o, e) ==
    /\ L \in [Orders -> Seq(Pages)] /\ o \in [Pages -> -1 .. MAX_ORDER - 1]
    /\ e \in [Pages -> BOOLEAN]
    /\ \A k \in Orders : /\ IsInjective(L[k])
                         /\ \A p \in ToSet(L[k]) : e[p] /\ o[p] = k

Core(L, o, e, H) == Lists(L, o, e) /\ Listed(L) \cap H = {} /\ Heads(o, Listed(L) \cup H)

\* A page that has an entry and an order below the highest is on the list of its order.
Entries(L, o, e) ==
    \A p \in Pages : e[p] /\ o[p] \in 0 .. MAX_ORDER - 2 => p \in ToSet(L[o[p]])

\* A listed page is on the list of its order.
LEMMA ListedFacts ==
    ASSUME NEW L, NEW o, NEW e, Lists(L, o, e), NEW p
    PROVE  /\ p \in Listed(L) <=> \E k \in Orders : p \in ToSet(L[k])
           /\ p \in Listed(L) => o[p] \in Orders /\ e[p] /\ p \in ToSet(L[o[p]])
           /\ \A k \in Orders : p \in ToSet(L[k]) <=> p \in Listed(L) /\ o[p] = k
<1>1. p \in Listed(L) <=> \E k \in Orders : p \in ToSet(L[k])
  BY DEF Listed
<1>2. \A k \in Orders : p \in ToSet(L[k]) => o[p] = k /\ e[p]
  BY DEF Lists
<1> QED BY <1>1, <1>2

\* What taking block b from list i for a request of order k does
Took(H, i, k, b) ==
    /\ Core(free_list', order', entry', H \cup {b})
    /\ Entries(free_list', order', entry')
    /\ b \in Listed(free_list) /\ b \notin H /\ order[b] = i /\ order'[b] = k
    /\ Listed(free_list') = (Listed(free_list) \ {b}) \cup UpperHalves(b, i, k)
    /\ \A q \in Listed(free_list) \cup H : q # b => order'[q] = order[q]
    /\ \A x \in Int : Covered(order', Listed(free_list') \cup (H \cup {b}), x)
                        <=> Covered(order, Listed(free_list) \cup H, x)

\* Take does it.
LEMMA TakeStep ==
    ASSUME NEW H, Core(free_list, order, entry, H), Entries(free_list, order, entry),
           NEW i \in Orders, NEW k \in Orders, k <= i, free_list[i] # <<>>, Take(i, k),
           NEW b, b = Head(free_list[i])
    PROVE  Took(H, i, k, b)
<1> DEFINE A == Listed(free_list) \cup H
           D == UpperHalves(b, i, k)
<1>1. /\ free_list \in [Orders -> Seq(Pages)] /\ order \in [Pages -> -1 .. MAX_ORDER - 1]
      /\ entry \in [Pages -> BOOLEAN]
      /\ \A j \in Orders : /\ IsInjective(free_list[j])
                           /\ \A p \in ToSet(free_list[j]) : entry[p] /\ order[p] = j
      /\ Lists(free_list, order, entry)
      /\ Listed(free_list) \cap H = {} /\ Heads(order, A)
  BY DEF Core, Lists
<1>2. /\ b \in ToSet(free_list[i]) /\ Tail(free_list[i]) \in Seq(Pages)
      /\ IsInjective(Tail(free_list[i]))
      /\ ToSet(Tail(free_list[i])) = ToSet(free_list[i]) \ {b}
  BY <1>1, PopFacts
<1>3. b \in Listed(free_list) /\ b \notin H /\ b \in A /\ order[b] = i
  BY <1>1, <1>2, ListedFacts
<1>4. b \in Pages /\ Aligned(b, i) /\ k \in Nat /\ i \in Nat
  BY <1>1, <1>3, MemoryFacts DEF Heads
<1>5. /\ b \in Nat /\ Size(i) \in Nat /\ Size(k) \in Nat \ {0}
      /\ \A j \in k .. i - 1 :
            /\ j \in Orders /\ Size(j) \in Nat \ {0} /\ b + Size(j) \in Pages
            /\ Aligned(b + Size(j), j) /\ b + Size(k) <= b + Size(j)
            /\ (b + Size(j)) + Size(j) <= b + Size(i)
      /\ \A j, l \in k .. i - 1 : j < l => (b + Size(j)) + Size(j) <= b + Size(l)
  BY <1>4, HalfFacts
<1>6. \A j, l \in k .. i - 1 : b + Size(j) = b + Size(l) => j = l
  <2>1. ASSUME NEW j \in k .. i - 1, NEW l \in k .. i - 1, j < l
        PROVE  b + Size(j) # b + Size(l)
    <3>1. (b + Size(j)) + Size(j) <= b + Size(l) /\ Size(j) \in Nat \ {0} /\ Size(l) \in Nat
      BY <1>5, <2>1
    <3>2. b \in Nat
      BY <1>5
    <3> QED BY <3>1, <3>2
  <2>2. \A j, l \in k .. i - 1 : j < l \/ l < j \/ j = l
    BY <1>4
  <2> QED BY <2>1, <2>2
<1>7. D = {b + 2 ^ j : j \in k .. i - 1} /\ b \notin D
  <2>1. D = {b + 2 ^ j : j \in k .. i - 1}
    BY DEF UpperHalves, Size
  <2>2. ASSUME NEW j \in k .. i - 1 PROVE b # b + Size(j)
    <3>1. b \in Nat /\ Size(j) \in Nat \ {0}
      BY <1>5
    <3> QED BY <3>1
  <2>3. b \notin D
    BY <2>2 DEF UpperHalves
  <2> QED BY <2>1, <2>3
<1>8. order' = [p \in Pages |->
              CASE p = b -> k
                [] p \in D -> CHOOSE j \in k .. i - 1 : p = b + 2 ^ j
                [] OTHER -> order[p]]
  BY <1>7 DEF Take
<1>9. entry' = [p \in Pages |-> p \in D \/ (entry[p] /\ p # b)]
  BY <1>7 DEF Take
<1>10. free_list' = [j \in Orders |->
              CASE j = i -> Tail(free_list[j])
                [] k <= j /\ j < i -> <<b + Size(j)>> \o free_list[j]
                [] OTHER -> free_list[j]]
  BY DEF Take, Size
<1>11. /\ order'[b] = k
       /\ \A j \in k .. i - 1 : order'[b + Size(j)] = j
       /\ \A p \in Pages : p # b /\ p \notin D => order'[p] = order[p]
  <2>1. order'[b] = k
    <3> HIDE DEF D
    <3> QED BY <1>4, <1>7, <1>8
  <2>2. ASSUME NEW j \in k .. i - 1 PROVE order'[b + Size(j)] = j
    <3>1. b + Size(j) \in D /\ b + Size(j) \in Pages /\ b + Size(j) # b
      BY <1>5, <1>7 DEF UpperHalves
    <3>2. order'[b + Size(j)] = CHOOSE l \in k .. i - 1 : b + Size(j) = b + 2 ^ l
      BY <1>8, <3>1
    <3>3. \A l \in k .. i - 1 : b + Size(j) = b + 2 ^ l <=> l = j
      BY <1>6 DEF Size
    <3>4. (CHOOSE l \in k .. i - 1 : b + Size(j) = b + 2 ^ l) = j
      BY <3>3
    <3> QED BY <3>2, <3>4
  <2>3. \A p \in Pages : p # b /\ p \notin D => order'[p] = order[p]
    BY <1>8
  <2> QED BY <2>1, <2>2, <2>3
<1>12. Halving(order, order', b, i, k)
  BY <1>11 DEF Halving, UpperHalves
<1>13. /\ Heads(order', A \cup D) /\ D \cap A = {}
       /\ \A q \in A : q # b => order'[q] = order[q]
       /\ \A x \in Int : Covered(order', A \cup D, x) <=> Covered(order, A, x)
  <2>1. Heads(order, A) /\ b \in A /\ order[b] = i
    BY <1>1, <1>3
  <2>2. Halved(order, A, order', b, UpperHalves(b, i, k))
    <3> HIDE DEF A
    <3> QED BY <1>4, <1>12, <2>1, HalvingFacts
  <2> QED BY <2>2 DEF Halved
<1>14. ASSUME NEW j \in Orders
       PROVE  /\ free_list'[j] \in Seq(Pages) /\ IsInjective(free_list'[j])
              /\ ToSet(free_list'[j]) =
                   (ToSet(free_list[j]) \ {b}) \cup {p \in D : j \in k .. i - 1 /\ p = b + Size(j)}
  <2>0. j \in Int /\ i \in Int /\ k \in Int
    BY MemoryFacts
  <2>1. CASE j = i
    <3>1. free_list'[j] = Tail(free_list[i])
      BY <1>10, <2>0, <2>1
    <3>2. j \notin k .. i - 1
      BY <2>0, <2>1
    <3> QED BY <1>2, <2>1, <3>1, <3>2
  <2>2. CASE j # i /\ k <= j /\ j < i
    <3>1. free_list'[j] = <<b + Size(j)>> \o free_list[j]
      BY <1>10, <2>2
    <3>2. j \in k .. i - 1 /\ b + Size(j) \in D /\ b + Size(j) \in Pages
      BY <1>5, <2>0, <2>2 DEF UpperHalves
    <3>3. ToSet(free_list[j]) \subseteq A /\ b \notin ToSet(free_list[j])
      BY <1>1, <1>3, <2>2, ListedFacts
    <3>4. b + Size(j) \notin ToSet(free_list[j])
      BY <1>13, <3>2, <3>3
    <3>5. /\ free_list'[j] \in Seq(Pages) /\ IsInjective(free_list'[j])
          /\ ToSet(free_list'[j]) = ToSet(free_list[j]) \cup {b + Size(j)}
      BY <1>1, <3>1, <3>2, <3>4, PushFacts
    <3> QED BY <3>2, <3>3, <3>5
  <2>3. CASE j # i /\ ~(k <= j /\ j < i)
    <3>1. free_list'[j] = free_list[j]
      BY <1>10, <2>3
    <3>2. j \notin k .. i - 1
      BY <2>0, <2>3
    <3>3. b \notin ToSet(free_list[j])
      BY <1>1, <1>3, <2>3
    <3> QED BY <1>1, <3>1, <3>2, <3>3
  <2> QED BY <2>1, <2>2, <2>3
<1>15. Listed(free_list') = (Listed(free_list) \ {b}) \cup D
  <2>1. ASSUME NEW p \in Listed(free_list') PROVE p \in (Listed(free_list) \ {b}) \cup D
    <3>1. PICK j \in Orders : p \in ToSet(free_list'[j])
      BY <2>1 DEF Listed
    <3> QED BY <1>14, <3>1 DEF Listed
  <2>2. ASSUME NEW p \in Listed(free_list), p # b PROVE p \in Listed(free_list')
    <3>1. PICK j \in Orders : p \in ToSet(free_list[j])
      BY <2>2 DEF Listed
    <3> QED BY <1>14, <2>2, <3>1 DEF Listed
  <2>3. ASSUME NEW p \in D PROVE p \in Listed(free_list')
    <3>1. PICK j \in k .. i - 1 : p = b + Size(j)
      BY DEF UpperHalves
    <3>2. j \in Orders
      BY <1>5
    <3> QED BY <1>14, <3>1, <3>2 DEF Listed
  <2> QED BY <2>1, <2>2, <2>3
<1>16. Lists(free_list', order', entry')
  <2>1. free_list' \in [Orders -> Seq(Pages)]
    <3>1. free_list' = [j \in Orders |-> free_list'[j]]
      BY <1>10
    <3> QED BY <1>14, <3>1
  <2>2. order' \in [Pages -> -1 .. MAX_ORDER - 1]
    <3>1. ASSUME NEW p \in Pages PROVE order'[p] \in -1 .. MAX_ORDER - 1
      <4>1. CASE p \in D \cup {b}
        <5>1. order'[p] \in Orders
          BY <1>3, <1>13, <4>1 DEF Heads
        <5> QED BY <5>1, MemoryFacts DEF Orders
      <4>2. CASE p \notin D \cup {b}
        BY <1>1, <1>11, <4>2
      <4> QED BY <4>1, <4>2
    <3>2. order' = [p \in Pages |-> order'[p]]
      BY <1>8
    <3> QED BY <3>1, <3>2
  <2>3. entry' \in [Pages -> BOOLEAN]
    BY <1>9
  <2>4. ASSUME NEW j \in Orders, NEW p \in ToSet(free_list'[j])
        PROVE  entry'[p] /\ order'[p] = j
    <3>1. CASE p \in D /\ j \in k .. i - 1 /\ p = b + Size(j)
      BY <1>5, <1>9, <1>11, <3>1
    <3>2. CASE p \in ToSet(free_list[j]) /\ p # b
      <4>1. p \in A /\ entry[p] /\ order[p] = j /\ p \in Pages
        BY <1>1, <3>2, ListedFacts DEF Heads
      <4> QED BY <1>9, <1>13, <3>2, <4>1
    <3> QED BY <1>14, <2>4, <3>1, <3>2
  <2> QED BY <1>14, <2>1, <2>2, <2>3, <2>4 DEF Lists
<1>17. A \cup D = Listed(free_list') \cup (H \cup {b})
  BY <1>3, <1>15
<1>18. Core(free_list', order', entry', H \cup {b})
  <2>1. Listed(free_list') \cap (H \cup {b}) = {}
    BY <1>1, <1>3, <1>7, <1>13, <1>15
  <2> QED BY <1>13, <1>16, <1>17, <2>1 DEF Core
<1>19. Entries(free_list', order', entry')
  <2> SUFFICES ASSUME NEW p \in Pages, entry'[p], order'[p] \in 0 .. MAX_ORDER - 2
               PROVE  p \in ToSet(free_list'[order'[p]])
    BY DEF Entries
  <2>1. CASE p \in D
    <3>1. PICK j \in k .. i - 1 : p = b + Size(j)
      BY <2>1 DEF UpperHalves
    <3>2. order'[p] = j /\ j \in Orders
      BY <1>5, <1>11, <3>1
    <3> QED BY <1>14, <2>1, <3>1, <3>2
  <2>2. CASE p \notin D
    <3>1. entry[p] /\ p # b /\ order'[p] = order[p]
      BY <1>9, <1>11, <2>2
    <3>2. p \in ToSet(free_list[order[p]])
      BY <3>1 DEF Entries
    <3>3. order[p] \in Orders
      BY <3>1, MemoryFacts DEF Orders
    <3> QED BY <1>14, <3>1, <3>2, <3>3
  <2> QED BY <2>1, <2>2
<1> HIDE DEF D
<1> QED BY <1>3, <1>11, <1>13, <1>15, <1>17, <1>18, <1>19 DEF D, Took

\* Where _free stops merging the block of order k at idx
LEMMA StopFacts ==
    ASSUME NEW idx, NEW k \in Orders
    PROVE  /\ StopOrder(idx, k) \in Orders /\ k <= StopOrder(idx, k)
           /\ \A j \in k .. StopOrder(idx, k) - 1 :
                 /\ j \in Orders /\ j < MAX_ORDER - 1
                 /\ entry[BuddyAt(idx, j)] /\ order[BuddyAt(idx, j)] = j
           /\ StopOrder(idx, k) < MAX_ORDER - 1 =>
                 LET b == BuddyAt(idx, StopOrder(idx, k))
                 IN  ~(entry[b] /\ order[b] = StopOrder(idx, k))
<1> DEFINE T == {j \in k .. MAX_ORDER - 1 :
                    \/ j = MAX_ORDER - 1
                    \/ ~(entry[BuddyAt(idx, j)] /\ order[BuddyAt(idx, j)] = j)}
           m == Min(T)
<1>1. StopOrder(idx, k) = m
  BY DEF StopOrder, BuddyAt
<1>2. MAX_ORDER \in Nat \ {0} /\ k \in Nat /\ k <= MAX_ORDER - 1
  BY MemoryFacts
<1>3. MAX_ORDER - 1 \in T /\ T \subseteq Nat
  BY <1>2
<1>4. m \in T /\ \A j \in T : m <= j
  BY <1>3, MinFacts
<1> HIDE DEF m
<1>5. m \in Nat /\ k <= m /\ m <= MAX_ORDER - 1 /\ m \in Orders
  BY <1>2, <1>4 DEF Orders
<1>6. ASSUME NEW j \in k .. m - 1
      PROVE  /\ j \in Orders /\ j < MAX_ORDER - 1
             /\ entry[BuddyAt(idx, j)] /\ order[BuddyAt(idx, j)] = j
  <2>1. j \in k .. MAX_ORDER - 1 /\ j # MAX_ORDER - 1 /\ j \in Orders /\ j < MAX_ORDER - 1
    BY <1>2, <1>5 DEF Orders
  <2>2. j \notin T
    <3>1. ~(m <= j) /\ j \in Int
      BY <1>2, <1>5
    <3> QED BY <1>4, <3>1
  <2> QED BY <2>1, <2>2
<1>7. m < MAX_ORDER - 1 => ~(entry[BuddyAt(idx, m)] /\ order[BuddyAt(idx, m)] = m)
  BY <1>2, <1>4
<1> QED BY <1>1, <1>5, <1>6, <1>7

\* What a call of _free does, when it merges up to order m
Freed(H, idx, m) ==
    LET h == BlockOf(idx, m)
        G == Merged(idx, order[idx], m)
    IN  /\ Core(free_list', order', entry', H \ {idx})
        /\ Entries(free_list', order', entry')
        /\ m \in Orders /\ h \in Pages /\ G \subseteq Listed(free_list) \cup H
        /\ Listed(free_list') = (Listed(free_list) \ G) \cup {p \in {h} : m < MAX_ORDER - 1}
        /\ \A q \in (Listed(free_list) \cup H) \ G : order'[q] = order[q]
        /\ order'[h] = m /\ h \in G
        /\ \A y \in Int : In(y, h, m) <=> Covered(order, G, y)
        /\ m < MAX_ORDER - 1 => BuddyAt(idx, m) \notin ToSet(free_list[m])
        /\ G \cap H = {idx}

\* _free does it: the buddies it merges are listed, and every list loses the one it held.
LEMMA FreeStep ==
    ASSUME NEW H, Core(free_list, order, entry, H), Entries(free_list, order, entry),
           NEW idx \in H, _free(idx)
    PROVE  Freed(H, idx, StopOrder(idx, order[idx]))
<1> DEFINE A == Listed(free_list) \cup H
           k == order[idx]
           m == StopOrder(idx, k)
           h == BlockOf(idx, m)
           B == {BuddyAt(idx, j) : j \in k .. m - 1}
           G == Merged(idx, k, m)
           listed == m < MAX_ORDER - 1
<1>1. /\ free_list \in [Orders -> Seq(Pages)] /\ order \in [Pages -> -1 .. MAX_ORDER - 1]
      /\ entry \in [Pages -> BOOLEAN]
      /\ \A j \in Orders : /\ IsInjective(free_list[j])
                           /\ \A p \in ToSet(free_list[j]) : entry[p] /\ order[p] = j
      /\ Lists(free_list, order, entry)
      /\ Listed(free_list) \cap H = {} /\ Heads(order, A)
  BY DEF Core, Lists
<1>2. idx \in A /\ idx \in Pages /\ k \in Orders /\ idx \in Nat
  <2>1. idx \in A
    OBVIOUS
  <2> HIDE DEF A
  <2> QED BY <1>1, <2>1, HeadFacts
<1>3. /\ m \in Orders /\ k <= m
      /\ \A j \in k .. m - 1 :
            /\ j \in Orders /\ j < MAX_ORDER - 1
            /\ entry[BuddyAt(idx, j)] /\ order[BuddyAt(idx, j)] = j
      /\ listed => ~(entry[BuddyAt(idx, m)] /\ order[BuddyAt(idx, m)] = m)
  <2> HIDE DEF k
  <2> QED BY <1>2, StopFacts
<1>4. ASSUME NEW j \in Orders, j < MAX_ORDER - 1
      PROVE  BuddyAt(idx, j) \in Pages
  <2>1. BlockOf(idx, j) \in Pages /\ Aligned(BlockOf(idx, j), j)
    BY <1>2, BlockOfPage
  <2> QED BY <1>4, <2>1, BuddyInMemory DEF BuddyAt
<1>5. ASSUME NEW j \in k .. m - 1
      PROVE  /\ BuddyAt(idx, j) \in Pages /\ BuddyAt(idx, j) \in ToSet(free_list[j])
             /\ BuddyAt(idx, j) \in Listed(free_list) /\ order[BuddyAt(idx, j)] = j
             /\ j \in Orders
  <2>1. /\ j \in Orders /\ j < MAX_ORDER - 1
        /\ entry[BuddyAt(idx, j)] /\ order[BuddyAt(idx, j)] = j
    BY <1>3
  <2>2. BuddyAt(idx, j) \in Pages
    BY <1>4, <2>1
  <2>3. j \in 0 .. MAX_ORDER - 2
    BY <2>1, MemoryFacts DEF Orders
  <2>4. BuddyAt(idx, j) \in ToSet(free_list[j])
    BY <2>1, <2>2, <2>3 DEF Entries
  <2> QED BY <2>1, <2>2, <2>4 DEF Listed
<1>6. G = B \cup {idx} /\ B \subseteq Listed(free_list) /\ idx \notin B
  BY <1>1, <1>5 DEF Merged
<1> HIDE DEF k, m
<1>7. order' = [p \in Pages |->
              IF p = h THEN m ELSE IF p \in G \ {h} THEN -1 ELSE order[p]]
  BY <1>6 DEF _free, BuddyAt, k, m
<1>8. entry' = [p \in Pages |->
              IF p = h THEN entry[p] \/ listed ELSE entry[p] /\ p \notin G \ {h}]
  BY <1>6 DEF _free, BuddyAt, k, m
<1>9. free_list' = [j \in Orders |->
              CASE k <= j /\ j < m -> Without(free_list[j], {BuddyAt(idx, j)})
                [] j = m /\ listed -> <<h>> \o free_list[j]
                [] OTHER -> free_list[j]]
  BY DEF _free, BuddyAt, k, m
<1>10. h \in Pages
  BY <1>2, <1>3, BlockOfPage
<1>11. order'[h] = m /\ \A q \in Pages \ G : q # h => order'[q] = order[q]
  BY <1>7, <1>10
<1>12. /\ G \subseteq A /\ h \in G /\ Heads(order', (A \ G) \cup {h}) /\ Heads(order', A \ G)
       /\ \A y \in Int : In(y, h, m) <=> Covered(order, G, y)
  <2>1. \A j \in k .. m - 1 : BuddyAt(idx, j) \in A /\ order[BuddyAt(idx, j)] = j
    BY <1>5
  <2>2. /\ BlockOf(idx, m) \in Merged(idx, k, m)
        /\ \A y \in Int : In(y, BlockOf(idx, m), m) <=> Covered(order, Merged(idx, k, m), y)
    <3>1. k \in Nat /\ Aligned(idx, k) /\ m \in Nat /\ order[idx] = k
      BY <1>1, <1>2, <1>3, MemoryFacts DEF Heads, k
    <3> QED BY <1>2, <1>3, <2>1, <3>1, MergedCover
  <2>3. \A q \in A \ G : order'[q] = order[q]
    BY <1>1, <1>11, <2>2 DEF Heads
  <2>4. Heads(order, A) /\ idx \in A /\ order[idx] = k /\ order'[BlockOf(idx, m)] = m
    BY <1>1, <1>2, <1>11 DEF k
  <2> HIDE DEF A
  <2>5. Joined(order, A, order', Merged(idx, k, m), BlockOf(idx, m), m)
    BY <1>3, <2>1, <2>3, <2>4, MergingFacts
  <2> QED BY <2>5 DEF Joined
<1> HIDE DEF h, G, B, listed
<1>13. \A j \in Orders : j \in Int /\ k \in Int /\ m \in Int
  BY <1>2, <1>3, MemoryFacts
<1>14. ASSUME NEW j \in Orders
       PROVE  /\ free_list'[j] \in Seq(Pages) /\ IsInjective(free_list'[j])
              /\ ToSet(free_list'[j]) =
                    (ToSet(free_list[j]) \ G) \cup {p \in {h} : j = m /\ listed}
  <2>1. ToSet(free_list[j]) \cap G = {p \in B : order[p] = j}
    <3>1. ASSUME NEW p \in ToSet(free_list[j]), p \in G PROVE p \in B /\ order[p] = j
      BY <1>1, <1>6, <3>1, ListedFacts
    <3>2. ASSUME NEW p \in B, order[p] = j PROVE p \in ToSet(free_list[j]) /\ p \in G
      <4>1. PICK l \in k .. m - 1 : p = BuddyAt(idx, l)
        BY DEF B
      <4>2. l = j
        BY <1>5, <3>2, <4>1
      <4> QED BY <1>5, <1>6, <4>1, <4>2
    <3> QED BY <3>1, <3>2
  <2>2. CASE k <= j /\ j < m
    <3>1. free_list'[j] = Without(free_list[j], {BuddyAt(idx, j)})
      BY <1>9, <1>13, <2>2
    <3>2. j \in k .. m - 1
      BY <1>13, <2>2
    <3>3. {p \in B : order[p] = j} = {BuddyAt(idx, j)}
      BY <1>5, <3>2 DEF B
    <3>4. /\ free_list'[j] \in Seq(Pages) /\ IsInjective(free_list'[j])
          /\ ToSet(free_list'[j]) = ToSet(free_list[j]) \ {BuddyAt(idx, j)}
      BY <1>1, <3>1, WithoutFacts
    <3>5. j # m
      BY <1>13, <2>2
    <3> QED BY <2>1, <3>3, <3>4, <3>5
  <2>3. CASE ~(k <= j /\ j < m)
    <3>1. {p \in B : order[p] = j} = {}
      <4>1. ASSUME NEW l \in k .. m - 1 PROVE l # j
        BY <1>13, <2>3
      <4> QED BY <1>5, <4>1 DEF B
    <3>2. CASE j = m /\ listed
      <4>1. free_list'[j] = <<h>> \o free_list[j]
        BY <1>9, <2>3, <3>2
      <4>2. h \notin ToSet(free_list[j])
        BY <1>12, <2>1, <3>1
      <4>3. /\ free_list'[j] \in Seq(Pages) /\ IsInjective(free_list'[j])
            /\ ToSet(free_list'[j]) = ToSet(free_list[j]) \cup {h}
        BY <1>1, <1>10, <4>1, <4>2, PushFacts
      <4> QED BY <2>1, <3>1, <3>2, <4>3
    <3>3. CASE ~(j = m /\ listed)
      <4>1. free_list'[j] = free_list[j]
        BY <1>9, <2>3, <3>3
      <4> QED BY <1>1, <2>1, <3>1, <3>3, <4>1
    <3> QED BY <3>2, <3>3
  <2> QED BY <2>2, <2>3
<1>15. Listed(free_list') = (Listed(free_list) \ G) \cup {p \in {h} : listed}
  <2>1. ASSUME NEW p
        PROVE  p \in Listed(free_list') <=> \E j \in Orders : p \in ToSet(free_list'[j])
    BY DEF Listed
  <2>2. ASSUME NEW p
        PROVE  p \in Listed(free_list) <=> \E j \in Orders : p \in ToSet(free_list[j])
    BY DEF Listed
  <2>3. ASSUME NEW p \in Listed(free_list')
        PROVE  p \in (Listed(free_list) \ G) \cup {q \in {h} : listed}
    <3>1. PICK j \in Orders : p \in ToSet(free_list'[j])
      BY <2>1
    <3> QED BY <1>14, <2>2, <3>1
  <2>4. ASSUME NEW p \in (Listed(free_list) \ G) \cup {q \in {h} : listed}
        PROVE  p \in Listed(free_list')
    <3>1. CASE p \in Listed(free_list) \ G
      <4>1. PICK j \in Orders : p \in ToSet(free_list[j])
        BY <2>2, <3>1
      <4> QED BY <1>14, <2>1, <3>1, <4>1
    <3>2. CASE p = h /\ listed
      BY <1>3, <1>14, <2>1, <3>2
    <3> QED BY <2>4, <3>1, <3>2
  <2> QED BY <2>3, <2>4
<1>16. Lists(free_list', order', entry')
  <2>1. free_list' \in [Orders -> Seq(Pages)]
    <3>1. free_list' = [j \in Orders |-> free_list'[j]]
      BY <1>9
    <3> QED BY <1>14, <3>1
  <2>2. order' \in [Pages -> -1 .. MAX_ORDER - 1]
    <3>1. -1 \in -1 .. MAX_ORDER - 1 /\ m \in -1 .. MAX_ORDER - 1
      BY <1>3, MemoryFacts DEF Orders
    <3> QED BY <1>1, <1>7, <3>1
  <2>3. entry' \in [Pages -> BOOLEAN]
    <3>1. \A p \in Pages : entry[p] \in BOOLEAN
      BY <1>1
    <3> QED BY <1>8, <3>1 DEF listed
  <2>4. ASSUME NEW j \in Orders, NEW p \in ToSet(free_list'[j])
        PROVE  entry'[p] /\ order'[p] = j
    <3>1. CASE p = h /\ j = m /\ listed
      BY <1>8, <1>10, <1>11, <3>1
    <3>2. CASE p \in ToSet(free_list[j]) /\ p \notin G
      <4>1. p \in A /\ entry[p] /\ order[p] = j /\ p \in Pages /\ p # h
        BY <1>1, <1>12, <3>2, ListedFacts DEF Heads
      <4> QED BY <1>8, <1>11, <3>2, <4>1
    <3> QED BY <1>14, <2>4, <3>1, <3>2
  <2> QED BY <1>14, <2>1, <2>2, <2>3, <2>4 DEF Lists
<1>17. Core(free_list', order', entry', H \ {idx})
  <2>1. H \cap G = {idx}
    BY <1>1, <1>6
  <2>2. Listed(free_list') \cap (H \ {idx}) = {}
    BY <1>1, <1>12, <1>15, <2>1
  <2>3. Heads(order', Listed(free_list') \cup (H \ {idx}))
    <3>1. CASE listed
      <4>1. Listed(free_list') \cup (H \ {idx}) = (A \ G) \cup {h}
        BY <1>15, <2>1, <3>1
      <4> QED BY <1>12, <4>1
    <3>2. CASE ~listed
      <4>1. Listed(free_list') \cup (H \ {idx}) = A \ G
        BY <1>15, <2>1, <3>2
      <4> QED BY <1>12, <4>1
    <3> QED BY <3>1, <3>2
  <2> QED BY <1>16, <2>2, <2>3 DEF Core
<1>18. Entries(free_list', order', entry')
  <2> SUFFICES ASSUME NEW p \in Pages, entry'[p], order'[p] \in 0 .. MAX_ORDER - 2
               PROVE  p \in ToSet(free_list'[order'[p]])
    BY DEF Entries
  <2>1. CASE p = h
    <3>1. listed /\ order'[p] = m
      BY <1>11, <2>1, MemoryFacts DEF listed
    <3> QED BY <1>3, <1>14, <2>1, <3>1
  <2>2. CASE p # h
    <3>1. entry[p] /\ p \notin G
      BY <1>8, <2>2
    <3>2. order'[p] = order[p]
      BY <1>11, <2>2, <3>1
    <3>3. p \in ToSet(free_list[order[p]]) /\ order[p] \in Orders
      BY <3>1, <3>2, MemoryFacts DEF Entries, Orders
    <3> QED BY <1>14, <3>1, <3>2, <3>3
  <2> QED BY <2>1, <2>2
<1>19. listed => BuddyAt(idx, m) \notin ToSet(free_list[m])
  BY <1>1, <1>3 DEF listed
<1>20. \A q \in A \ G : order'[q] = order[q]
  BY <1>1, <1>11, <1>12 DEF Heads
<1>21. G \cap H = {idx}
  BY <1>1, <1>6
<1> QED BY <1>3, <1>10, <1>11, <1>12, <1>15, <1>17, <1>18, <1>19, <1>20, <1>21
        DEF Freed, h, G, k, m, listed

-----------------------------------------------------------------------------
(* Booting: reserve, before anything is allocated, with m for the tables   *)
(* and R for the regions reserved so far.                                  *)

AllTables == [free_list : [Orders -> Seq(Pages)], order : [Pages -> -1 .. MAX_ORDER - 1],
              entry : [Pages -> BOOLEAN]]

InRegion(R, x) == \E q \in R : q[1] <= x /\ x <= q[2]

\* Page x is not strictly inside a region.
AtEdge(R, x) == \A q \in R : ~(q[1] < x /\ x < q[2])

\* Every page is in a free block or a region; orders make sense everywhere; an
\* order above 0 is that of a free block or of a former one inside a region.
Booting(m, R) ==
    /\ m \in AllTables /\ Core(m.free_list, m.order, m.entry, {})
    /\ \A p \in Pages : /\ m.order[p] \in Orders /\ Aligned(p, m.order[p])
                        /\ m.entry[p] => p \in Listed(m.free_list)
    /\ \A p \in Pages : m.order[p] # 0 /\ p \notin Listed(m.free_list) =>
           \E q \in R : q[1] < p /\ p + Size(m.order[p]) <= q[2]
    /\ \A x \in Pages : Covered(m.order, Listed(m.free_list), x) <=> ~InRegion(R, x)
    /\ \A q \in R : /\ q[1] \in Pages /\ q[2] \in Pages /\ q[1] <= q[2]
                    /\ m.order[q[1]] = 0 /\ m.order[q[2]] = 0

\* The tables after a split, field by field
SplitInto(m, n, s, b, k) ==
    /\ b = s + Size(k - 1) /\ b \in Pages /\ k - 1 \in Orders /\ n \in AllTables
    /\ n.order = [p \in Pages |-> IF p \in {s, b} THEN k - 1 ELSE m.order[p]]
    /\ n.entry = [p \in Pages |-> p \in {s, b} \/ m.entry[p]]
    /\ \A j \in Orders : n.free_list[j] =
          IF j = k THEN Without(m.free_list[k], {s})
          ELSE IF j = k - 1 THEN <<b>> \o (<<s>> \o m.free_list[k - 1])
          ELSE m.free_list[j]

\* split is what that says.
LEMMA SplitFields ==
    ASSUME NEW m \in AllTables, NEW k \in Orders, k # 0, NEW s \in Pages, Aligned(s, k),
           NEW b, b = get_buddy(s, k - 1), NEW n, n = split(m, s, k)
    PROVE  SplitInto(m, n, s, b, k)
<1>1. k \in Nat /\ k - 1 \in Nat /\ k - 1 \in Orders /\ k - 1 # k /\ k - 1 < MAX_ORDER - 1
  BY MemoryFacts DEF Orders
<1>2. Aligned(s, k - 1) /\ s \in Nat
  BY <1>1, AlignedDown, MemoryFacts
<1>3. b \in Pages
  BY <1>1, <1>2, BuddyInMemory
<1>4. b = s + Size(k - 1)
  <2>1. PICK q : Halves(s, b, q, k - 1)
    BY <1>1, <1>2, BuddyFacts
  <2>2. Size(k) = 2 * Size(k - 1) /\ Size(k - 1) \in Nat \ {0} /\ (k - 1) + 1 = k
    <3>1. (k - 1) + 1 = k
      BY <1>1
    <3> QED BY <1>1, <3>1, SizeFacts
  <2>3. q \in Nat /\ Aligned(q, k)
    BY <2>1, <2>2 DEF Halves
  <2>4. ~(q < s)
    <3>1. q < s => q + Size(k) <= s
      BY <1>1, <2>3, AlignedApart
    <3> QED BY <1>2, <2>1, <2>2, <2>3, <3>1 DEF Halves
  <2> QED BY <1>2, <2>1, <2>2, <2>3, <2>4 DEF Halves
<1> DEFINE L1 == [m.free_list EXCEPT ![k] = Without(@, {s})]
           L2 == [L1 EXCEPT ![k - 1] = <<s>> \o @]
           L3 == [L2 EXCEPT ![k - 1] = <<b>> \o @]
<1>5. /\ m.free_list \in [Orders -> Seq(Pages)] /\ m.order \in [Pages -> -1 .. MAX_ORDER - 1]
      /\ m.entry \in [Pages -> BOOLEAN]
      /\ m = [free_list |-> m.free_list, order |-> m.order, entry |-> m.entry]
  BY DEF AllTables
<1>6. n = [free_list |-> L3,
           order |-> [[m.order EXCEPT ![s] = k - 1] EXCEPT ![b] = k - 1],
           entry |-> [[m.entry EXCEPT ![s] = TRUE] EXCEPT ![b] = TRUE]]
  BY <1>5 DEF split, Insert, add_to_free_list, rm_from_free_list
<1>7. Without(m.free_list[k], {s}) \in Seq(Pages)
  BY <1>5, WithoutFacts
<1>8. <<s>> \o m.free_list[k - 1] \in Seq(Pages)
  BY <1>1, <1>5, PushFacts
<1>9. <<b>> \o (<<s>> \o m.free_list[k - 1]) \in Seq(Pages)
  BY <1>3, <1>8, PushFacts
<1>10. \A j \in Orders : L3[j] =
                 IF j = k THEN Without(m.free_list[k], {s})
                 ELSE IF j = k - 1 THEN <<b>> \o (<<s>> \o m.free_list[k - 1])
                 ELSE m.free_list[j]
  BY <1>1, <1>5
<1>11. L3 \in [Orders -> Seq(Pages)]
  <2>1. \A j \in Orders : L3[j] \in Seq(Pages)
    <3> HIDE DEF L3
    <3> QED BY <1>5, <1>7, <1>9, <1>10
  <2>2. DOMAIN L3 = Orders /\ L3 = [j \in DOMAIN L3 |-> L3[j]]
    BY <1>5
  <2> HIDE DEF L3
  <2> QED BY <2>1, <2>2
<1> HIDE DEF L3
<1>12. n.free_list = L3
  BY <1>6
<1>13. n.order = [p \in Pages |-> IF p \in {s, b} THEN k - 1 ELSE m.order[p]]
  <2> DEFINE g == [m.order EXCEPT ![s] = k - 1]
             h == [g EXCEPT ![b] = k - 1]
  <2>1. n.order = h
    BY <1>6
  <2>2. h = [p \in Pages |-> IF p = b THEN k - 1 ELSE g[p]]
    BY <1>5, Zenon
  <2>3. \A p \in Pages : g[p] = IF p = s THEN k - 1 ELSE m.order[p]
    BY <1>5
  <2> HIDE DEF g, h
  <2>4. \A p \in Pages : h[p] = IF p \in {s, b} THEN k - 1 ELSE m.order[p]
    BY <1>5, <2>2, <2>3
  <2>5. h = [p \in Pages |-> h[p]]
    BY <2>2
  <2> QED BY <2>1, <2>4, <2>5
<1>14. n.entry = [p \in Pages |-> p \in {s, b} \/ m.entry[p]]
  <2> DEFINE g == [m.entry EXCEPT ![s] = TRUE]
             h == [g EXCEPT ![b] = TRUE]
  <2>1. n.entry = h
    BY <1>6
  <2>2. h = [p \in Pages |-> IF p = b THEN TRUE ELSE g[p]]
    BY <1>5, Zenon
  <2>3. \A p \in Pages : g[p] = IF p = s THEN TRUE ELSE m.entry[p]
    BY <1>5
  <2> HIDE DEF g, h
  <2>4. \A p \in Pages : h[p] = (p \in {s, b} \/ m.entry[p])
    BY <1>5, <2>2, <2>3
  <2>5. h = [p \in Pages |-> h[p]]
    BY <2>2
  <2> QED BY <2>1, <2>4, <2>5
<1>15. n \in AllTables
  <2>1. n.order \in [Pages -> -1 .. MAX_ORDER - 1]
    BY <1>1, <1>5, <1>13, MemoryFacts
  <2>2. n.entry \in [Pages -> BOOLEAN]
    BY <1>14
  <2>3. n = [free_list |-> n.free_list, order |-> n.order, entry |-> n.entry]
    BY <1>6
  <2> QED BY <1>11, <1>12, <2>1, <2>2, <2>3 DEF AllTables
<1> QED BY <1>1, <1>3, <1>4, <1>10, <1>12, <1>13, <1>14, <1>15 DEF SplitInto

\* The listed blocks that hold page x have order n at most.
AtMost(m, x, n) ==
    \A p \in Listed(m.free_list) : In(x, p, m.order[p]) => m.order[p] <= n

\* A listed block is on the list it was on in L, or its sibling and it are
\* what was once one block that held a page of X.
Derived(m, L, X) ==
    \A p \in Listed(m.free_list) :
        \/ p \in ToSet(L[m.order[p]])
        \/ \E x \in X : In(x, BlockOf(p, m.order[p] + 1), m.order[p] + 1)

\* reserve, first loop, at one order k and one end x
SplitAt(m, x, k) == IF m.order[BlockOf(x, k)] = k THEN split(m, BlockOf(x, k), k) ELSE m

Split(m, n, R, L, X, x, k) ==
    /\ Booting(n, R) /\ Derived(n, L, X) /\ AtMost(n, x, k - 1)
    /\ \A y \in Int : \A c \in Nat : k - 1 <= c /\ AtMost(m, y, c) => AtMost(n, y, c)

\* Only a listed block is ever split.
LEMMA SplitListed ==
    ASSUME NEW R, NEW m, Booting(m, R), NEW x \in Pages, AtEdge(R, x),
           NEW k \in Orders, k # 0, m.order[BlockOf(x, k)] = k
    PROVE  BlockOf(x, k) \in Listed(m.free_list)
<1> DEFINE s == BlockOf(x, k)
<1>1. x \in Nat /\ k \in Nat /\ x < PAGE_NUM /\ PAGE_NUM \in Nat /\ Size(k) \in Nat
  BY MemoryFacts, SizeFacts DEF Pages
<1>2. s \in Nat /\ In(x, s, k)
  BY <1>1, BlockOfFacts
<1> HIDE DEF s
<1>3. s \in Pages
  BY <1>1, <1>2 DEF In, Pages
<1> SUFFICES ASSUME s \notin Listed(m.free_list) PROVE FALSE
  BY DEF s
<1>4. m.order[s] = k
  BY DEF s
<1>5. PICK q \in R : q[1] < s /\ s + Size(m.order[s]) <= q[2]
  BY <1>3, <1>4, Zenon DEF Booting
<1>6. q[1] \in Nat /\ q[2] \in Nat
  BY <1>5, MemoryFacts DEF Booting
<1>7. q[1] < x /\ x < q[2]
  BY <1>1, <1>2, <1>4, <1>5, <1>6 DEF In
<1> QED BY <1>5, <1>7 DEF AtEdge

\* What one split does.
LEMMA SplitStep ==
    ASSUME NEW R, NEW m, Booting(m, R), NEW L, NEW X, Derived(m, L, X), NEW x \in X, x \in Pages,
           NEW k \in Orders, k # 0, NEW s, s = BlockOf(x, k), s \in Listed(m.free_list),
           m.order[s] = k
    PROVE  Split(m, split(m, s, k), R, L, X, x, k)
<1> DEFINE A == Listed(m.free_list)
<1>n. PICK n : n = split(m, s, k)
  OBVIOUS
<1>b. PICK b : b = get_buddy(s, k - 1)
  OBVIOUS
<1>1. m \in AllTables /\ Heads(m.order, A) /\ Lists(m.free_list, m.order, m.entry)
  <2>1. Listed(m.free_list) \cup {} = Listed(m.free_list)
    OBVIOUS
  <2> QED BY <2>1 DEF Booting, Core
<1>2. s \in Pages /\ Aligned(s, k) /\ s \in Nat /\ k \in Nat /\ k - 1 \in Nat /\ k - 1 <= k
  BY <1>1, HeadFacts
<1> HIDE DEF A
<1>3. /\ b = s + Size(k - 1) /\ b \in Pages /\ k - 1 \in Orders /\ n \in AllTables
      /\ n.order = [p \in Pages |-> IF p \in {s, b} THEN k - 1 ELSE m.order[p]]
      /\ n.entry = [p \in Pages |-> p \in {s, b} \/ m.entry[p]]
      /\ \A j \in Orders : n.free_list[j] =
             IF j = k THEN Without(m.free_list[k], {s})
             ELSE IF j = k - 1 THEN <<b>> \o (<<s>> \o m.free_list[k - 1])
             ELSE m.free_list[j]
  <2>1. SplitInto(m, n, s, b, k)
    BY <1>1, <1>2, <1>n, <1>b, SplitFields
  <2> QED BY <2>1 DEF SplitInto
<1>4. Halving(m.order, n.order, s, k, k - 1)
  <2>1. n.order[s] = k - 1 /\ n.order[b] = k - 1
    BY <1>2, <1>3
  <2>2. \A j \in k - 1 .. k - 1 : j = k - 1
    BY <1>2
  <2>3. \A j \in k - 1 .. k - 1 : n.order[s + Size(j)] = j
    BY <1>3, <2>1, <2>2
  <2>4. k - 1 \in k - 1 .. k - 1
    BY <1>2
  <2>5. ASSUME NEW p \in Pages, p # s, \A j \in k - 1 .. k - 1 : p # s + Size(j)
        PROVE  n.order[p] = m.order[p]
    <3>1. p # b
      BY <1>3, <2>4, <2>5
    <3> QED BY <1>3, <2>5, <3>1
  <2> QED BY <2>1, <2>3, <2>5 DEF Halving
<1>5. UpperHalves(s, k, k - 1) = {b}
  <2>1. \A j : j \in k - 1 .. k - 1 <=> j = k - 1
    BY <1>2
  <2>2. UpperHalves(s, k, k - 1) = {s + Size(j) : j \in k - 1 .. k - 1}
    BY DEF UpperHalves
  <2> QED BY <1>3, <2>1, <2>2
<1>6. s \in A /\ m.order[s] = k
  BY DEF A
<1>7. /\ Heads(n.order, A \cup {b}) /\ b \notin A
      /\ \A q \in A : q # s => n.order[q] = m.order[q]
      /\ \A y \in Int : Covered(n.order, A \cup {b}, y) <=> Covered(m.order, A, y)
  <2>1. Halved(m.order, A, n.order, s, {b})
    BY <1>1, <1>2, <1>4, <1>5, <1>6, HalvingFacts
  <2> QED BY <2>1 DEF Halved
<1>8. s # b
  BY <1>6, <1>7
<1>9. n.order[s] = k - 1 /\ n.order[b] = k - 1
  BY <1>2, <1>3
<1>10. ASSUME NEW j \in Orders
       PROVE  /\ n.free_list[j] \in Seq(Pages) /\ IsInjective(n.free_list[j])
              /\ ToSet(n.free_list[j]) =
                   (ToSet(m.free_list[j]) \ {s}) \cup {p \in {s, b} : j = k - 1}
  <2>1. m.free_list[j] \in Seq(Pages) /\ IsInjective(m.free_list[j])
    BY <1>1 DEF Lists
  <2>2. \A p \in ToSet(m.free_list[j]) : p \in A /\ m.order[p] = j
    BY <1>1, ListedFacts DEF A
  <2>3. s \in ToSet(m.free_list[j]) => j = k
    BY <1>6, <2>2
  <2>4. CASE j = k
    BY <1>2, <1>3, <2>1, <2>4, WithoutFacts
  <2>5. CASE j = k - 1
    <3>1. j # k
      BY <1>2, <2>5
    <3>2. s \notin ToSet(m.free_list[j]) /\ b \notin ToSet(m.free_list[j])
      BY <1>7, <2>2, <2>3, <3>1
    <3> DEFINE q == <<s>> \o m.free_list[j]
    <3>3. q \in Seq(Pages) /\ ToSet(q) = ToSet(m.free_list[j]) \cup {s} /\ IsInjective(q)
      BY <1>2, <2>1, <3>2, PushFacts
    <3>4. b \notin ToSet(q)
      BY <1>8, <3>2, <3>3
    <3>5. n.free_list[j] = <<b>> \o q
      BY <1>3, <2>5, <3>1
    <3> HIDE DEF q
    <3>6. /\ <<b>> \o q \in Seq(Pages) /\ ToSet(<<b>> \o q) = ToSet(q) \cup {b}
          /\ IsInjective(<<b>> \o q)
      BY <1>3, <3>3, <3>4, PushFacts
    <3> QED BY <2>5, <3>2, <3>3, <3>5, <3>6
  <2>6. CASE j # k /\ j # k - 1
    <3>1. n.free_list[j] = m.free_list[j]
      BY <1>3, <2>6
    <3> QED BY <2>1, <2>3, <2>6, <3>1
  <2> QED BY <2>4, <2>5, <2>6
<1>11. Listed(n.free_list) = A \cup {b}
  <2>1. ASSUME NEW p PROVE p \in Listed(n.free_list) <=> p \in A \cup {b}
    <3>1. p \in Listed(n.free_list) <=> \E j \in Orders : p \in ToSet(n.free_list[j])
      BY DEF Listed
    <3>2. p \in A <=> \E j \in Orders : p \in ToSet(m.free_list[j])
      BY DEF Listed, A
    <3>3. \A j \in Orders : p \in ToSet(n.free_list[j]) <=>
              (p \in ToSet(m.free_list[j]) /\ p # s) \/ (p \in {s, b} /\ j = k - 1)
      BY <1>10
    <3> QED BY <1>3, <1>6, <3>1, <3>2, <3>3
  <2> QED BY <2>1
<1>12. Lists(n.free_list, n.order, n.entry)
  <2>1. ASSUME NEW j \in Orders, NEW p \in ToSet(n.free_list[j])
        PROVE  n.entry[p] /\ n.order[p] = j
    <3>1. CASE p \in {s, b} /\ j = k - 1
      BY <1>2, <1>3, <3>1
    <3>2. CASE p \in ToSet(m.free_list[j]) /\ p # s
      <4>1. p \in A /\ m.order[p] = j /\ m.entry[p]
        BY <1>1, <3>2, ListedFacts DEF A
      <4>2. p \in Pages
        BY <1>1, <4>1 DEF Heads
      <4> QED BY <1>3, <1>7, <3>2, <4>1, <4>2
    <3> QED BY <1>10, <3>1, <3>2
  <2>2. /\ n.free_list \in [Orders -> Seq(Pages)] /\ n.order \in [Pages -> -1 .. MAX_ORDER - 1]
        /\ n.entry \in [Pages -> BOOLEAN]
    BY <1>3 DEF AllTables
  <2> QED BY <1>10, <2>1, <2>2 DEF Lists
<1>13. Core(n.free_list, n.order, n.entry, {})
  <2>1. (A \cup {b}) \cup {} = A \cup {b}
    OBVIOUS
  <2> QED BY <1>7, <1>11, <1>12, <2>1 DEF Core
<1>14. Covered(m.order, A, s) /\ Covered(m.order, A, b)
  <2>1. Covered(n.order, A \cup {b}, s) /\ Covered(n.order, A \cup {b}, b)
    BY <1>6, <1>7, HeadFacts DEF Covered
  <2>2. s \in Int /\ b \in Int
    BY <1>2, <1>3, MemoryFacts
  <2> QED BY <1>7, <2>1, <2>2
<1>15. Booting(n, R)
  <2>1. ASSUME NEW p \in Pages
        PROVE  /\ n.order[p] \in Orders /\ Aligned(p, n.order[p])
               /\ n.entry[p] => p \in A \cup {b}
    <3>1. CASE p \in {s, b}
      BY <1>6, <1>7, <3>1 DEF Heads
    <3>2. CASE p \notin {s, b}
      <4>1. n.order[p] = m.order[p] /\ (n.entry[p] <=> m.entry[p])
        BY <1>3, <3>2
      <4> QED BY <4>1 DEF Booting, A
    <3> QED BY <3>1, <3>2
  <2>2. ASSUME NEW p \in Pages, n.order[p] # 0, p \notin A \cup {b}
        PROVE  \E q \in R : q[1] < p /\ p + Size(n.order[p]) <= q[2]
    <3>1. n.order[p] = m.order[p]
      BY <1>3, <1>6, <2>2
    <3> QED BY <2>2, <3>1 DEF Booting, A
  <2>3. \A y \in Pages : Covered(n.order, A \cup {b}, y) <=> ~InRegion(R, y)
    <3>1. \A y \in Pages : y \in Int
      BY MemoryFacts
    <3> QED BY <1>7, <3>1 DEF Booting, A
  <2>4. ASSUME NEW q \in R
        PROVE  /\ q[1] \in Pages /\ q[2] \in Pages /\ q[1] <= q[2]
               /\ n.order[q[1]] = 0 /\ n.order[q[2]] = 0
    <3>1. /\ q[1] \in Pages /\ q[2] \in Pages /\ q[1] <= q[2]
          /\ m.order[q[1]] = 0 /\ m.order[q[2]] = 0
      BY DEF Booting
    <3>m. q[1] \in Nat /\ q[2] \in Nat
      BY <3>1, MemoryFacts
    <3>2. q[1] <= q[1] /\ q[2] <= q[2]
      BY <3>m
    <3>3. InRegion(R, q[1]) /\ InRegion(R, q[2])
      BY <3>1, <3>2 DEF InRegion
    <3>4. ~Covered(m.order, A, q[1]) /\ ~Covered(m.order, A, q[2])
      BY <3>1, <3>3 DEF Booting, A
    <3>5. q[1] \notin {s, b} /\ q[2] \notin {s, b}
      BY <1>14, <3>4
    <3> QED BY <1>3, <3>1, <3>5
  <2> DEFINE B == Listed(n.free_list)
  <2>5. B = A \cup {b}
    BY <1>11
  <2> HIDE DEF B
  <2>6. \A p \in Pages : /\ n.order[p] \in Orders /\ Aligned(p, n.order[p])
                         /\ n.entry[p] => p \in B
    BY <2>1, <2>5
  <2>7. \A p \in Pages : n.order[p] # 0 /\ p \notin B =>
           \E q \in R : q[1] < p /\ p + Size(n.order[p]) <= q[2]
    BY <2>2, <2>5
  <2>8. \A y \in Pages : Covered(n.order, B, y) <=> ~InRegion(R, y)
    BY <2>3, <2>5
  <2>9. n \in AllTables
    BY <1>3
  <2> QED BY <1>13, <2>4, <2>6, <2>7, <2>8, <2>9, Zenon DEF Booting, B
<1>16. Derived(n, L, X)
  <2>1. ASSUME NEW p \in A \cup {b}
        PROVE  \/ p \in ToSet(L[n.order[p]])
               \/ \E y \in X : In(y, BlockOf(p, n.order[p] + 1), n.order[p] + 1)
    <3>1. CASE p \in {s, b}
      <4>1. n.order[p] = k - 1 /\ (k - 1) + 1 = k
        BY <1>2, <1>9, <3>1
      <4>2. Size(k) = 2 * Size(k - 1) /\ Size(k - 1) \in Nat \ {0}
        BY <1>2, <4>1, SizeFacts
      <4>3. In(p, s, k) /\ p \in Nat
        BY <1>2, <1>3, <3>1, <4>2 DEF In
      <4>4. BlockOf(p, k) = s
        BY <1>2, <4>3, BlockOfFacts
      <4>5. In(x, s, k)
        BY <1>2, BlockOfFacts, MemoryFacts
      <4> QED BY <4>1, <4>4, <4>5
    <3>2. CASE p \in A /\ p # s
      BY <1>7, <3>2 DEF Derived, A
    <3> QED BY <3>1, <3>2
  <2> QED BY <1>11, <2>1 DEF Derived
<1>17. ASSUME NEW y \in Int, NEW c \in Nat, k - 1 <= c, AtMost(m, y, c)
       PROVE  AtMost(n, y, c)
  <2>1. ASSUME NEW p \in A \cup {b}, In(y, p, n.order[p]) PROVE n.order[p] <= c
    <3>1. CASE p \in {s, b}
      BY <1>9, <1>17, <3>1
    <3>2. CASE p \in A /\ p # s
      BY <1>7, <1>17, <2>1, <3>2 DEF AtMost, A
    <3> QED BY <3>1, <3>2
  <2> QED BY <1>11, <2>1 DEF AtMost
<1>18. AtMost(n, x, k - 1)
  <2>1. ASSUME NEW p \in A \cup {b}, In(x, p, n.order[p]) PROVE n.order[p] <= k - 1
    <3>1. x \in Int
      BY MemoryFacts
    <3>2. Covered(m.order, A, x) /\ In(x, s, k)
      <4>1. In(x, s, k)
        BY <1>2, BlockOfFacts, MemoryFacts
      <4> QED BY <1>6, <4>1 DEF Covered
    <3>3. CASE p \in {s, b}
      BY <1>2, <1>9, <3>3
    <3>4. CASE p \in A /\ p # s
      <4>1. In(x, p, m.order[p]) /\ In(x, s, m.order[s])
        BY <1>6, <1>7, <2>1, <3>2, <3>4
      <4>2. p = s
        BY <1>1, <1>6, <3>1, <3>4, <4>1, OneBlock
      <4> QED BY <3>4, <4>2
    <3> QED BY <3>3, <3>4
  <2> QED BY <1>11, <2>1 DEF AtMost
<1> QED BY <1>n, <1>15, <1>16, <1>17, <1>18 DEF Split

\* ... whether there is a block of order k to split at x or not.
LEMMA SplitAtStep ==
    ASSUME NEW R, NEW m, Booting(m, R), NEW L, NEW X, Derived(m, L, X), NEW x \in X, x \in Pages,
           AtEdge(R, x), NEW k \in Orders, k # 0, AtMost(m, x, k)
    PROVE  Split(m, SplitAt(m, x, k), R, L, X, x, k)
<1> DEFINE s == BlockOf(x, k)
<1>1. CASE m.order[s] = k
  <2>1. s \in Listed(m.free_list)
    BY <1>1, SplitListed
  <2>2. Split(m, split(m, s, k), R, L, X, x, k)
    <3> HIDE DEF s
    <3>1. s = BlockOf(x, k)
      BY DEF s
    <3> QED BY <1>1, <2>1, <3>1, SplitStep
  <2> QED BY <1>1, <2>2 DEF SplitAt
<1>2. CASE m.order[s] # k
  <2>1. SplitAt(m, x, k) = m
    BY <1>2 DEF SplitAt
  <2>2. ASSUME NEW p \in Listed(m.free_list), In(x, p, m.order[p]) PROVE m.order[p] <= k - 1
    <3>1. m.order[p] <= k /\ k \in Nat
      BY <2>2, MemoryFacts DEF AtMost
    <3>2. Heads(m.order, Listed(m.free_list))
      <4>1. Listed(m.free_list) \cup {} = Listed(m.free_list)
        OBVIOUS
      <4> QED BY <4>1 DEF Booting, Core
    <3>3. m.order[p] \in Nat /\ Aligned(p, m.order[p])
      BY <3>2, HeadFacts
    <3>4. m.order[p] # k
      <4>1. SUFFICES ASSUME m.order[p] = k PROVE FALSE
        OBVIOUS
      <4>2. p = s
        BY <2>2, <3>1, <3>3, <4>1, BlockOfFacts, MemoryFacts
      <4> QED BY <1>2, <4>1, <4>2
    <3> QED BY <3>1, <3>3, <3>4
  <2>3. AtMost(m, x, k - 1)
    BY <2>2 DEF AtMost
  <2> QED BY <2>1, <2>3 DEF Split
<1> QED BY <1>1, <1>2

\* The tables are tables whatever is split.
LEMMA SplitAtTables ==
    ASSUME NEW m \in AllTables, NEW x \in Pages, NEW k \in Orders, k # 0
    PROVE  /\ SplitAt(m, x, k) \in AllTables
           /\ SplitAt(m, x, k).order[BlockOf(x, k)] # k
<1> DEFINE s == BlockOf(x, k)
<1>1. x \in Nat /\ k \in Nat /\ x < PAGE_NUM /\ PAGE_NUM \in Nat
  BY MemoryFacts DEF Pages
<1>2. s \in Pages /\ Aligned(s, k)
  BY BlockOfPage
<1>3. CASE m.order[s] = k
  <2> HIDE DEF s
  <2>1. SplitInto(m, split(m, s, k), s, get_buddy(s, k - 1), k)
    BY <1>2, SplitFields
  <2>2. split(m, s, k) \in AllTables /\ split(m, s, k).order[s] = k - 1
    BY <1>2, <2>1 DEF SplitInto
  <2> QED BY <1>1, <1>3, <2>2 DEF SplitAt, s
<1>4. CASE m.order[s] # k
  BY <1>4 DEF SplitAt
<1> QED BY <1>3, <1>4

\* Both ends: when they lie in one block, it is split once.
LEMMA SplitEndsIs ==
    ASSUME NEW m \in AllTables, NEW first \in Pages, NEW last \in Pages,
           NEW k \in Orders, k # 0
    PROVE  /\ SplitEnds(m, first, last, k) = SplitAt(SplitAt(m, first, k), last, k)
           /\ SplitEnds(m, first, last, k) \in AllTables
<1> DEFINE m1 == SplitAt(m, first, k)
<1>1. m1 \in AllTables /\ m1.order[BlockOf(first, k)] # k
  BY SplitAtTables
<1>2. m1 = IF m.order[BlockOf(first, k)] = k THEN split(m, BlockOf(first, k), k) ELSE m
  BY DEF SplitAt
<1> HIDE DEF m1
<1>3. SplitEnds(m, first, last, k) =
          IF BlockOf(last, k) # BlockOf(first, k) /\ m1.order[BlockOf(last, k)] = k
          THEN split(m1, BlockOf(last, k), k) ELSE m1
  BY <1>2, Zenon DEF SplitEnds
<1>4. SplitEnds(m, first, last, k) = SplitAt(m1, last, k)
  BY <1>1, <1>3 DEF SplitAt
<1>5. SplitAt(m1, last, k) \in AllTables
  BY <1>1, SplitAtTables
<1> QED BY <1>4, <1>5 DEF m1

\* The first loop of reserve as far as order n: the listed blocks that hold an
\* end have order n at most.
Splitting(m, first, last, n) ==
    /\ Booting(m, reserved) /\ Derived(m, free_list, {first, last})
    /\ AtMost(m, first, n) /\ AtMost(m, last, n)

\* One round of it
LEMMA SplitEndsStep ==
    ASSUME NEW first \in Pages, NEW last \in Pages, AtEdge(reserved, first),
           AtEdge(reserved, last), NEW k \in Orders, k # 0, NEW m, Splitting(m, first, last, k)
    PROVE  Splitting(SplitEnds(m, first, last, k), first, last, k - 1)
<1> DEFINE X == {first, last}
           m1 == SplitAt(m, first, k)
           m2 == SplitAt(m1, last, k)
<1>1. k \in Nat /\ k - 1 \in Nat /\ k - 1 <= k /\ k - 1 <= k - 1
  <2>1. k \in Nat
    BY MemoryFacts
  <2> QED BY <2>1
<1>2. first \in X /\ last \in X /\ first \in Int /\ last \in Int
  BY MemoryFacts
<1>3. Split(m, m1, reserved, free_list, X, first, k)
  BY <1>2, SplitAtStep DEF Splitting
<1>4. m \in AllTables
  BY DEF Splitting, Booting
<1>5. SplitEnds(m, first, last, k) = m2
  BY <1>4, SplitEndsIs
<1> HIDE DEF m1, X
<1>6. Booting(m1, reserved) /\ Derived(m1, free_list, X) /\ AtMost(m1, first, k - 1)
  BY <1>3 DEF Split
<1>7. AtMost(m1, last, k)
  BY <1>1, <1>2, <1>3 DEF Split, Splitting
<1>8. Split(m1, m2, reserved, free_list, X, last, k)
  BY <1>2, <1>6, <1>7, SplitAtStep
<1> HIDE DEF m2
<1>9. AtMost(m2, first, k - 1)
  BY <1>1, <1>2, <1>6, <1>8 DEF Split
<1> QED BY <1>5, <1>8, <1>9 DEF Split, Splitting, X

\* The rounds of the first loop, from the highest order down
Rounds(f, first, last) ==
    f = [k \in Orders |-> IF k = MAX_ORDER - 1 THEN Tables
                          ELSE SplitEnds(f[k + 1], first, last, k + 1)]

\* They exist.
LEMMA RoundsExist ==
    ASSUME NEW first \in Pages, NEW last \in Pages, Tables \in AllTables
    PROVE  \E f : Rounds(f, first, last)
<1> DEFINE N == MAX_ORDER - 1
           F == [x \in Nat \X AllTables |->
                    IF x[1] \in 1 .. N THEN SplitEnds(x[2], first, last, MAX_ORDER - x[1])
                    ELSE x[2]]
<1>1. N \in Nat /\ MAX_ORDER \in Nat /\ (\A k : k \in Orders <=> k \in 0 .. N)
  BY MemoryFacts DEF Orders
<1>2. \A n \in 1 .. N : MAX_ORDER - n \in Orders /\ MAX_ORDER - n # 0
  BY <1>1 DEF Orders
<1>3. F \in [Nat \X AllTables -> AllTables]
  <2>1. ASSUME NEW x \in Nat \X AllTables
        PROVE  (IF x[1] \in 1 .. N THEN SplitEnds(x[2], first, last, MAX_ORDER - x[1])
                ELSE x[2]) \in AllTables
    <3>1. x[2] \in AllTables
      OBVIOUS
    <3> HIDE DEF N
    <3>2. CASE x[1] \in 1 .. N
      <4>1. SplitEnds(x[2], first, last, MAX_ORDER - x[1]) \in AllTables
        BY <1>2, <3>1, <3>2, SplitEndsIs
      <4> QED BY <3>2, <4>1
    <3>3. CASE x[1] \notin 1 .. N
      BY <3>1, <3>3
    <3> QED BY <3>2, <3>3
  <2> QED BY <2>1
<1>4. \A n \in 1 .. N : \A m \in AllTables :
         F[<<n, m>>] = SplitEnds(m, first, last, MAX_ORDER - n)
  <2>1. \A n \in 1 .. N : \A m \in AllTables : <<n, m>> \in Nat \X AllTables
    BY <1>1
  <2> HIDE DEF N
  <2> QED BY <2>1
<1> HIDE DEF F
<1>5. PICK g \in [0 .. N -> AllTables] : Iterates(g, F, Tables, N)
  <2> HIDE DEF N
  <2> QED BY <1>1, <1>3, IterationExists
<1> DEFINE f == [k \in Orders |-> g[N - k]]
<1>6. ASSUME NEW k \in Orders
      PROVE  f[k] = IF k = MAX_ORDER - 1 THEN Tables
                    ELSE SplitEnds(f[k + 1], first, last, k + 1)
  <2>1. CASE k = N
    <3>1. f[k] = g[0]
      BY <1>1, <2>1
    <3> QED BY <1>5, <2>1, <3>1 DEF Iterates
  <2>2. CASE k # N
    <3>1. /\ N - k \in 1 .. N /\ (N - k) - 1 \in 0 .. N /\ (N - k) - 1 = N - (k + 1)
          /\ k + 1 \in Orders /\ MAX_ORDER - (N - k) = k + 1
      BY <1>1, <2>2
    <3> DEFINE i == N - k
    <3>2. g[i] = F[<<i, g[i - 1]>>] /\ g[i - 1] \in AllTables
      BY <1>5, <3>1 DEF Iterates
    <3>3. f[k] = g[i] /\ f[k + 1] = g[i - 1]
      BY <3>1
    <3>4. i \in 1 .. N /\ MAX_ORDER - i = k + 1
      BY <3>1
    <3> HIDE DEF i, f
    <3>5. g[i] = SplitEnds(g[i - 1], first, last, k + 1)
      BY <1>4, <3>2, <3>4
    <3> QED BY <2>2, <3>3, <3>5
  <2> QED BY <2>1, <2>2
<1>7. f = [k \in Orders |-> f[k]]
  OBVIOUS
<1> HIDE DEF f
<1>8. Rounds(f, first, last)
  BY <1>6, <1>7 DEF Rounds
<1> QED BY <1>8

\* The first loop leaves the ends of the region in blocks of one page.
LEMMA SplitAllFacts ==
    ASSUME NEW first \in Pages, NEW last \in Pages, AtEdge(reserved, first),
           AtEdge(reserved, last), Booting(Tables, reserved)
    PROVE  Splitting(SplitAll(first, last), first, last, 0)
<1>1. Tables \in AllTables
  BY DEF Booting
<1> DEFINE f == CHOOSE m : m = [k \in Orders |-> IF k = MAX_ORDER - 1 THEN Tables
                                 ELSE SplitEnds(m[k + 1], first, last, k + 1)]
<1>2. SplitAll(first, last) = f[0]
  BY Zenon DEF SplitAll
<1>3. \E m : m = [k \in Orders |-> IF k = MAX_ORDER - 1 THEN Tables
                                 ELSE SplitEnds(m[k + 1], first, last, k + 1)]
  BY <1>1, RoundsExist, Zenon DEF Rounds
<1>4. f = [k \in Orders |-> IF k = MAX_ORDER - 1 THEN Tables
                            ELSE SplitEnds(f[k + 1], first, last, k + 1)]
  BY <1>3, Zenon
<1> HIDE DEF f
<1> DEFINE N == MAX_ORDER - 1
           S == {d \in Nat : d <= N => Splitting(f[N - d], first, last, N - d)}
<1>5. N \in Nat /\ (\A k : k \in Orders <=> k \in 0 .. N)
  BY MemoryFacts DEF Orders
<1>6. 0 \in S
  <2>1. N \in Orders /\ N - 0 = N
    BY <1>5
  <2>2. f[N] = Tables
    BY <1>4, <2>1
  <2>3. Heads(order, Listed(free_list)) /\ Lists(free_list, order, entry)
    <3>1. Listed(free_list) \cup {} = Listed(free_list)
      OBVIOUS
    <3>2. Core(free_list, order, entry, {})
      BY DEF Booting, Tables
    <3> QED BY <3>1, <3>2 DEF Core
  <2>4. Derived(Tables, free_list, {first, last})
    <3>1. \A p \in Listed(free_list) : p \in ToSet(free_list[order[p]])
      BY <2>3, ListedFacts
    <3> QED BY <3>1 DEF Derived, Tables
  <2>5. \A x : AtMost(Tables, x, N)
    <3>1. \A p \in Listed(free_list) : order[p] <= N
      BY <1>5, <2>3 DEF Heads
    <3> HIDE DEF N
    <3> QED BY <3>1 DEF AtMost, Tables
  <2> HIDE DEF N
  <2>6. Splitting(f[N], first, last, N)
    BY <2>2, <2>4, <2>5 DEF Splitting
  <2> QED BY <2>1, <2>6
<1>7. ASSUME NEW d \in Nat, d \in S PROVE d + 1 \in S
  <2>1. SUFFICES ASSUME d + 1 <= N PROVE Splitting(f[N - (d + 1)], first, last, N - (d + 1))
    OBVIOUS
  <2> DEFINE k == N - d
  <2>2. /\ k \in Orders /\ k # 0 /\ k - 1 \in Orders /\ N - (d + 1) = k - 1
        /\ d <= N /\ k - 1 # N /\ (k - 1) + 1 = k
    BY <1>5, <2>1
  <2>3. Splitting(f[k], first, last, k)
    BY <1>7, <2>2
  <2> HIDE DEF k
  <2>4. f[k - 1] = SplitEnds(f[k], first, last, k)
    BY <1>4, <2>2
  <2>5. Splitting(f[k - 1], first, last, k - 1)
    BY <2>2, <2>3, <2>4, SplitEndsStep
  <2> QED BY <2>2, <2>5
<1> HIDE DEF S
<1>8. N \in S
  BY <1>5, <1>6, <1>7, SetInduction
<1>9. N - N = 0 /\ N <= N
  BY <1>5
<1> QED BY <1>2, <1>8, <1>9 DEF S

\* The second loop of reserve, from page i on
Walk(g, o, last) ==
    g = [i \in 0 .. PAGE_NUM |-> IF i > last THEN {} ELSE {i} \cup g[i + 2 ^ o[i]]]

\* The pages up to last that it reaches: those that every set contains that
\* contains i and the successor of each of its elements.
Reach(o, last, i) ==
    {x \in 0 .. last : \A S \in SUBSET (0 .. PAGE_NUM) :
         i \in S /\ (\A y \in S : y <= last => y + Size(o[y]) \in S) => x \in S}

\* The walk exists.
LEMMA WalkExists ==
    ASSUME NEW o, NEW last \in Pages, \A p \in Pages : o[p] \in Orders /\ Aligned(p, o[p])
    PROVE  \E g : Walk(g, o, last)
<1> DEFINE Closed(S) == \A y \in S : y <= last => y + Size(o[y]) \in S
           P == 0 .. PAGE_NUM
           g == [i \in P |-> Reach(o, last, i)]
<1>1. PAGE_NUM \in Nat /\ last \in Nat /\ last < PAGE_NUM
  BY MemoryFacts DEF Pages
<1>2. ASSUME NEW y \in P, y <= last
      PROVE  y + Size(o[y]) \in P /\ y < y + Size(o[y])
  <2>1. y \in Pages /\ y \in Nat
    BY <1>1, <1>2 DEF Pages
  <2>2. o[y] \in Orders /\ Aligned(y, o[y]) /\ o[y] \in Nat
    BY <2>1, MemoryFacts
  <2>3. Size(o[y]) \in Nat \ {0}
    BY <2>2, SizeFacts
  <2>4. y + Size(o[y]) <= PAGE_NUM
    BY <1>1, <1>2, <2>1, <2>2, BlockInMemory
  <2> QED BY <1>1, <2>1, <2>3, <2>4
<1>3. ASSUME NEW i \in P
      PROVE  Reach(o, last, i) = IF i > last THEN {} ELSE {i} \cup Reach(o, last, i + Size(o[i]))
  <2>r. \A j : \A x : x \in Reach(o, last, j) <=>
             /\ x \in 0 .. last
             /\ \A S \in SUBSET P : j \in S /\ Closed(S) => x \in S
    BY DEF Reach
  <2> HIDE DEF Closed
  <2>1. CASE i > last
    <3> DEFINE S == i .. PAGE_NUM
    <3>1. S \in SUBSET P /\ i \in S
      BY <1>1
    <3>2. Closed(S)
      BY <1>1, <2>1 DEF Closed
    <3>3. ASSUME NEW x \in Reach(o, last, i) PROVE FALSE
      <4>1. x \in 0 .. last /\ x \in S
        BY <2>r, <3>1, <3>2
      <4> QED BY <1>1, <2>1, <4>1
    <3>4. Reach(o, last, i) = {}
      BY <3>3
    <3> QED BY <2>1, <3>4
  <2>2. CASE i <= last
    <3> DEFINE j == i + Size(o[i])
    <3>1. j \in P
      BY <1>2, <2>2
    <3> HIDE DEF j
    <3>2. i \in Reach(o, last, i)
      <4>1. i \in 0 .. last
        BY <1>1, <2>2
      <4> QED BY <2>r, <4>1
    <3>3. ASSUME NEW x \in Reach(o, last, j) PROVE x \in Reach(o, last, i)
      <4>1. ASSUME NEW S \in SUBSET P, i \in S, Closed(S) PROVE x \in S
        <5>1. j \in S
          BY <2>2, <4>1 DEF Closed, j
        <5> QED BY <2>r, <4>1, <5>1
      <4>2. x \in 0 .. last
        BY <2>r
      <4> QED BY <2>r, <4>1, <4>2
    <3>4. ASSUME NEW x \in Reach(o, last, i), x # i PROVE x \in Reach(o, last, j)
      <4>1. ASSUME NEW S \in SUBSET P, j \in S, Closed(S) PROVE x \in S
        <5> DEFINE Q == S \cup {i}
        <5>1. Q \in SUBSET P /\ i \in Q
          OBVIOUS
        <5>2. ASSUME NEW y \in Q, y <= last PROVE y + Size(o[y]) \in Q
          <6>1. CASE y = i
            BY <4>1, <6>1 DEF j
          <6>2. CASE y \in S
            BY <4>1, <5>2, <6>2 DEF Closed
          <6> QED BY <6>1, <6>2
        <5>3. Closed(Q)
          BY <5>2 DEF Closed
        <5> HIDE DEF Q
        <5>4. x \in Q
          BY <2>r, <5>1, <5>3
        <5> QED BY <3>4, <5>4 DEF Q
      <4>2. x \in 0 .. last
        BY <2>r
      <4> QED BY <2>r, <4>1, <4>2
    <3>5. Reach(o, last, i) = {i} \cup Reach(o, last, j)
      BY <3>2, <3>3, <3>4
    <3>6. ~(i > last)
      BY <1>1, <2>2
    <3> QED BY <3>5, <3>6 DEF j
  <2> QED BY <1>1, <2>1, <2>2
<1>4. \A i \in P : g[i] = Reach(o, last, i)
  OBVIOUS
<1>5. g = [i \in P |-> g[i]]
  OBVIOUS
<1> HIDE DEF g
<1>6. ASSUME NEW i \in P
      PROVE  g[i] = IF i > last THEN {} ELSE {i} \cup g[i + 2 ^ o[i]]
  <2>1. CASE i > last
    BY <1>3, <1>4, <2>1
  <2>2. CASE ~(i > last)
    <3>1. i + Size(o[i]) \in P
      BY <1>1, <1>2, <2>2
    <3>2. g[i] = {i} \cup Reach(o, last, i + Size(o[i]))
      BY <1>3, <1>4, <2>2
    <3>3. g[i] = {i} \cup g[i + Size(o[i])]
      BY <1>4, <3>1, <3>2
    <3> QED BY <2>2, <3>3 DEF Size
  <2> QED BY <2>1, <2>2
<1>7. Walk(g, o, last)
  BY <1>5, <1>6, Zenon DEF Walk
<1> QED BY <1>7

\* No listed block has page i inside it.
Between(m, i) ==
    \A p \in Listed(m.free_list) : ~(p < i /\ i < p + Size(m.order[p]))

\* From a page between blocks that is in memory, the next step of the second
\* loop is to another one, and it passes no listed block.
LEMMA WalkStep ==
    ASSUME NEW m, Booting(m, reserved), NEW first \in Pages, NEW last \in Pages, first <= last,
           \A q \in reserved : Apart(<<first, last>>, q),
           NEW i \in Pages, first <= i, i <= last, Between(m, i)
    PROVE  LET j == i + Size(m.order[i])
           IN  /\ j \in 0 .. PAGE_NUM /\ i < j /\ Between(m, j)
               /\ \A p \in Listed(m.free_list) : p <= i \/ j <= p
<1> DEFINE A == Listed(m.free_list)
           j == i + Size(m.order[i])
<1>1. Heads(m.order, A)
  <2>1. A \cup {} = A
    OBVIOUS
  <2> QED BY <2>1 DEF Booting, Core
<1>2. /\ i \in Nat /\ first \in Nat /\ last \in Nat /\ PAGE_NUM \in Nat /\ i < PAGE_NUM
      /\ m.order[i] \in Orders /\ Aligned(i, m.order[i]) /\ m.order[i] \in Nat
  <2>1. m.order[i] \in Orders /\ Aligned(i, m.order[i])
    BY DEF Booting
  <2>2. i \in Nat /\ first \in Nat /\ last \in Nat /\ PAGE_NUM \in Nat /\ i < PAGE_NUM
    BY MemoryFacts DEF Pages
  <2>3. m.order[i] \in Nat
    BY <2>1, MemoryFacts
  <2> QED BY <2>1, <2>2, <2>3
<1>3. Size(m.order[i]) \in Nat \ {0} /\ i + Size(m.order[i]) <= PAGE_NUM
  BY <1>2, SizeFacts, BlockInMemory
<1>4. j \in Nat /\ j \in 0 .. PAGE_NUM /\ i < j
  BY <1>2, <1>3
<1>5. ASSUME NEW p \in A PROVE p <= i \/ j <= p
  <2>1. p \in Nat /\ Size(m.order[p]) \in Nat \ {0} /\ In(p, p, m.order[p]) /\ p \in Pages
    BY <1>1, HeadFacts
  <2>2. CASE i \in A
    BY <1>1, <1>2, <2>1, <2>2 DEF Heads, Clear
  <2>3. CASE i \notin A
    <3>1. ~Covered(m.order, A, i)
      <4>1. ASSUME NEW q \in A, In(i, q, m.order[q]) PROVE FALSE
        <5>1. q \in Nat
          BY <1>1, HeadFacts
        <5>2. q # i
          BY <2>3
        <5> QED BY <1>2, <4>1, <5>1, <5>2 DEF In, Between
      <4> QED BY <4>1 DEF Covered
    <3>2. PICK q \in reserved : q[1] <= i /\ i <= q[2]
      BY <3>1 DEF Booting, InRegion
    <3>3. q[1] \in Nat /\ q[2] \in Nat /\ m.order[q[1]] = 0 /\ m.order[q[2]] = 0
      BY MemoryFacts DEF Booting
    <3>4. last < q[1] \/ q[2] < first \/ last = q[1] \/ q[2] = first
      BY DEF Apart
    <3>5. i = q[1] \/ i = q[2]
      BY <1>2, <3>2, <3>3, <3>4
    <3>6. Size(m.order[i]) = 1
      <4>1. m.order[i] = 0
        BY <3>3, <3>5
      <4> QED BY <4>1, SizeFacts
    <3> QED BY <1>2, <2>1, <3>6
  <2> QED BY <2>2, <2>3
<1>6. ASSUME NEW p \in A, p < j, j < p + Size(m.order[p]) PROVE FALSE
  <2>1. p \in Nat /\ Size(m.order[p]) \in Nat \ {0}
    BY <1>1, HeadFacts
  <2>2. p <= i
    BY <1>4, <1>5, <1>6, <2>1
  <2>3. p # i
    BY <1>4, <1>6
  <2>4. p < i /\ i < p + Size(m.order[p])
    <3> HIDE DEF j
    <3> QED BY <1>2, <1>4, <1>6, <2>1, <2>2, <2>3
  <2> QED BY <2>4 DEF Between
<1>7. Between(m, j)
  BY <1>6 DEF Between
<1> QED BY <1>4, <1>5, <1>7

\* The blocks that the second loop unlinks are those that start in the region.
LEMMA VisitedFacts ==
    ASSUME NEW m, Booting(m, reserved), NEW first \in Pages, NEW last \in Pages, first <= last,
           \A q \in reserved : Apart(<<first, last>>, q), Between(m, first)
    PROVE  \A p : p \in Visited(m, first, last) /\ m.entry[p] <=>
                      p \in Listed(m.free_list) /\ first <= p /\ p <= last
<1> DEFINE A == Listed(m.free_list)
           o == m.order
           P == 0 .. PAGE_NUM
           g == CHOOSE from : from = [i \in 0 .. PAGE_NUM |->
                    IF i > last THEN {} ELSE {i} \cup from[i + 2 ^ m.order[i]]]
<1>1. Visited(m, first, last) = g[first]
  BY Zenon DEF Visited
<1>2. \E from : from = [i \in 0 .. PAGE_NUM |->
                    IF i > last THEN {} ELSE {i} \cup from[i + 2 ^ m.order[i]]]
  <2>1. \A p \in Pages : m.order[p] \in Orders /\ Aligned(p, m.order[p])
    BY DEF Booting
  <2>2. \E h : Walk(h, m.order, last)
    BY <2>1, WalkExists
  <2> QED BY <2>2, Zenon DEF Walk
<1>3. g = [i \in 0 .. PAGE_NUM |-> IF i > last THEN {} ELSE {i} \cup g[i + 2 ^ m.order[i]]]
  BY <1>2, Zenon
<1> HIDE DEF g
<1>4. \A i \in P : g[i] = IF i > last THEN {} ELSE {i} \cup g[i + Size(o[i])]
  BY <1>3 DEF Size
<1>5. /\ PAGE_NUM \in Nat /\ first \in Nat /\ last \in Nat /\ first < PAGE_NUM
      /\ last < PAGE_NUM
  BY MemoryFacts DEF Pages
<1>6. Heads(o, A) /\ Lists(m.free_list, o, m.entry)
  <2>1. A \cup {} = A
    OBVIOUS
  <2> QED BY <2>1 DEF Booting, Core
<1>7. A \subseteq Pages /\ Pages \subseteq Nat
  BY <1>6, MemoryFacts DEF Heads
<1> HIDE DEF A
<1> DEFINE Good(i) == /\ g[i] \subseteq {x \in Pages : i <= x /\ x <= last}
                      /\ \A p \in A : i <= p /\ p <= last => p \in g[i]
           T == {d \in Nat :
                    \A i \in P : PAGE_NUM - i <= d /\ first <= i /\ Between(m, i) => Good(i)}
<1>8. ASSUME NEW i \in P, i > last PROVE Good(i)
  <2>1. g[i] = {}
    BY <1>4, <1>8
  <2>2. \A p \in A : ~(i <= p /\ p <= last)
    BY <1>5, <1>7, <1>8
  <2> QED BY <2>1, <2>2
<1>9. ASSUME NEW i \in P, i <= last, first <= i, Between(m, i), Good(i + Size(o[i]))
      PROVE  Good(i)
  <2> DEFINE j == i + Size(o[i])
  <2>1. i \in Pages /\ i \in Nat
    BY <1>5, <1>9 DEF Pages
  <2>2. j \in P /\ i < j /\ \A p \in A : p <= i \/ j <= p
    BY <1>9, <2>1, WalkStep DEF A
  <2>3. g[i] = {i} \cup g[j]
    <3>1. ~(i > last)
      BY <1>5, <1>9, <2>1
    <3>2. g[i] = IF i > last THEN {} ELSE {i} \cup g[i + Size(o[i])]
      BY <1>4
    <3> QED BY <3>1, <3>2
  <2>4. j \in Nat
    BY <1>5, <2>2
  <2>5. Good(j)
    BY <1>9
  <2> HIDE DEF j
  <2>6. g[i] \subseteq {x \in Pages : i <= x /\ x <= last}
    <3>1. ASSUME NEW x \in g[i] PROVE x \in Pages /\ i <= x /\ x <= last
      <4>1. CASE x = i
        BY <1>9, <2>1, <4>1
      <4>2. CASE x \in g[j]
        <5>1. x \in Pages /\ j <= x /\ x <= last
          BY <2>5, <4>2
        <5>2. x \in Nat
          BY <1>7, <5>1
        <5> QED BY <2>1, <2>2, <2>4, <5>1, <5>2
      <4> QED BY <2>3, <4>1, <4>2
    <3> QED BY <3>1
  <2>7. ASSUME NEW p \in A, i <= p, p <= last PROVE p \in g[i]
    <3>1. p \in Nat
      BY <1>7
    <3>2. p = i \/ j <= p
      BY <2>1, <2>2, <2>7, <3>1
    <3> QED BY <2>3, <2>5, <2>7, <3>2
  <2> QED BY <2>6, <2>7
<1> HIDE DEF Good
<1>10. 0 \in T
  <2>1. ASSUME NEW i \in P, PAGE_NUM - i <= 0 PROVE Good(i)
    <3>1. i > last
      BY <1>5, <2>1
    <3> QED BY <1>8, <3>1
  <2> QED BY <2>1
<1>11. ASSUME NEW d \in Nat, d \in T PROVE d + 1 \in T
  <2>1. ASSUME NEW i \in P, PAGE_NUM - i <= d + 1, first <= i, Between(m, i) PROVE Good(i)
    <3>1. CASE i > last
      BY <1>8, <3>1
    <3>2. CASE i <= last
      <4> DEFINE j == i + Size(o[i])
      <4>1. i \in Pages /\ i \in Nat
        BY <1>5, <3>2 DEF Pages
      <4>2. j \in P /\ i < j /\ Between(m, j)
        BY <2>1, <3>2, <4>1, WalkStep
      <4> HIDE DEF j
      <4>3. PAGE_NUM - j <= d /\ first <= j
        BY <1>5, <2>1, <4>1, <4>2
      <4>4. Good(j)
        BY <1>11, <4>2, <4>3
      <4> QED BY <1>9, <2>1, <3>2, <4>4 DEF j
    <3> QED BY <1>5, <3>1, <3>2
  <2> QED BY <2>1
<1> HIDE DEF T
<1>12. PAGE_NUM \in T
  BY <1>5, <1>10, <1>11, SetInduction
<1>13. Good(first)
  <2>1. first \in P /\ PAGE_NUM - first <= PAGE_NUM /\ first <= first
    BY <1>5
  <2> QED BY <1>12, <2>1 DEF T
<1>14. ASSUME NEW p \in Pages PROVE m.entry[p] <=> p \in A
  <2>1. m.entry[p] => p \in A
    BY DEF Booting, A
  <2>2. p \in A => m.entry[p]
    BY <1>6, ListedFacts DEF A
  <2> QED BY <2>1, <2>2
<1>15. ASSUME NEW p
       PROVE  p \in g[first] /\ m.entry[p] <=> p \in A /\ first <= p /\ p <= last
  <2>1. ASSUME p \in g[first], m.entry[p] PROVE p \in A /\ first <= p /\ p <= last
    BY <1>13, <1>14, <2>1 DEF Good
  <2>2. ASSUME p \in A, first <= p, p <= last PROVE p \in g[first] /\ m.entry[p]
    BY <1>7, <1>13, <1>14, <2>2 DEF Good
  <2> QED BY <2>1, <2>2
<1> QED BY <1>1, <1>15 DEF A

\* No two buddies below the highest order are on one list.
NoPairs(L) ==
    \A k \in Orders : k < MAX_ORDER - 1 =>
        \A p \in ToSet(L[k]) : get_buddy(p, k) \notin ToSet(L[k])

\* The ends of a new region are not inside an old one.
LEMMA ApartEdges ==
    ASSUME NEW first \in Pages, NEW last \in Pages, first <= last,
           NEW m, NEW R, Booting(m, R), \A q \in R : Apart(<<first, last>>, q)
    PROVE  /\ AtEdge(R, first) /\ AtEdge(R, last)
           /\ InRegion(R, first) => m.order[first] = 0
           /\ InRegion(R, last) => m.order[last] = 0
<1>1. first \in Nat /\ last \in Nat
  BY MemoryFacts
<1>2. ASSUME NEW q \in R
      PROVE  /\ ~(q[1] < first /\ first < q[2]) /\ ~(q[1] < last /\ last < q[2])
             /\ q[1] <= first /\ first <= q[2] => m.order[first] = 0
             /\ q[1] <= last /\ last <= q[2] => m.order[last] = 0
  <2>1. /\ q[1] \in Nat /\ q[2] \in Nat /\ q[1] <= q[2]
        /\ m.order[q[1]] = 0 /\ m.order[q[2]] = 0
    BY MemoryFacts DEF Booting
  <2>2. last < q[1] \/ q[2] < first \/ last = q[1] \/ q[2] = first
    BY DEF Apart
  <2>3. ~(q[1] < first /\ first < q[2]) /\ ~(q[1] < last /\ last < q[2])
    BY <1>1, <2>1, <2>2
  <2>4. q[1] <= first /\ first <= q[2] => first = q[1] \/ first = q[2]
    BY <1>1, <2>1, <2>2
  <2>5. q[1] <= last /\ last <= q[2] => last = q[1] \/ last = q[2]
    BY <1>1, <2>1, <2>2
  <2> QED BY <2>1, <2>3, <2>4, <2>5
<1> QED BY <1>2 DEF AtEdge, InRegion

\* The listed blocks that start in the region
Taken(m, first, last) == {p \in Listed(m.free_list) : first <= p /\ p <= last}

\* After the first loop, the listed blocks that start in the region lie in it,
\* and it meets no other.
LEMMA TakenFacts ==
    ASSUME NEW first \in Pages, NEW last \in Pages, first <= last,
           NEW m, Splitting(m, first, last, 0), NEW p \in Listed(m.free_list)
    PROVE  /\ p = first \/ p = last => m.order[p] = 0
           /\ p \in Taken(m, first, last) => p + Size(m.order[p]) <= last + 1
           /\ p \in Taken(m, first, last) /\ m.order[p] # 0 =>
                  first < p /\ p + Size(m.order[p]) <= last
           /\ In(first, p, m.order[p]) => p = first
           /\ In(last, p, m.order[p]) => p = last
           /\ p \notin Taken(m, first, last) =>
                  \A x \in Int : In(x, p, m.order[p]) => ~(first <= x /\ x <= last)
<1> DEFINE o == m.order
<1>1. first \in Nat /\ last \in Nat
  BY MemoryFacts
<1>2. p \in Nat /\ o[p] \in Nat /\ Size(o[p]) \in Nat \ {0} /\ In(p, p, o[p])
  <2>1. Heads(o, Listed(m.free_list))
    <3>1. Listed(m.free_list) \cup {} = Listed(m.free_list)
      OBVIOUS
    <3> QED BY <3>1 DEF Splitting, Booting, Core
  <2> QED BY <2>1, HeadFacts
<1>3. \A x : (x = first \/ x = last) /\ In(x, p, o[p]) => o[p] = 0
  BY <1>2 DEF Splitting, AtMost
<1> HIDE DEF o
<1>4. o[p] = 0 => Size(o[p]) = 1
  BY SizeFacts
<1>5. p = first \/ p = last => o[p] = 0
  BY <1>2, <1>3
<1>6. In(first, p, o[p]) => p = first
  BY <1>1, <1>2, <1>3, <1>4 DEF In
<1>7. In(last, p, o[p]) => p = last
  BY <1>1, <1>2, <1>3, <1>4 DEF In
<1>8. p \in Taken(m, first, last) <=> first <= p /\ p <= last
  BY DEF Taken
<1>9. ASSUME first <= p, p <= last PROVE p + Size(o[p]) <= last + 1
  <2>1. CASE In(last, p, o[p])
    BY <1>1, <1>3, <1>4, <1>7, <2>1
  <2>2. CASE ~In(last, p, o[p])
    BY <1>1, <1>2, <1>9, <2>2 DEF In
  <2> QED BY <2>1, <2>2
<1>10. ASSUME first <= p, p <= last, o[p] # 0 PROVE first < p /\ p + Size(o[p]) <= last
  <2>1. ~In(last, p, o[p]) /\ p # first
    BY <1>3, <1>5, <1>10
  <2> QED BY <1>1, <1>2, <1>10, <2>1 DEF In
<1>11. ASSUME ~(first <= p /\ p <= last), NEW x \in Int, In(x, p, o[p]), first <= x, x <= last
       PROVE  FALSE
  <2>1. p <= x /\ x < p + Size(o[p])
    BY <1>11 DEF In
  <2>2. p < first
    BY <1>1, <1>2, <1>11, <2>1
  <2>3. In(first, p, o[p])
    BY <1>1, <1>2, <1>11, <2>1, <2>2 DEF In
  <2> QED BY <1>1, <1>2, <1>6, <2>2, <2>3
<1> QED BY <1>5, <1>6, <1>7, <1>8, <1>9, <1>10, <1>11 DEF o

\* Both loops of reserve
LEMMA ReserveStep ==
    ASSUME NEW first \in Pages, NEW last \in Pages, first <= last,
           Booting(Tables, reserved), \A q \in reserved : Apart(<<first, last>>, q),
           NoPairs(free_list), reserve(first, last)
    PROVE  Booting(Tables', reserved \cup {<<first, last>>}) /\ NoPairs(free_list')
<1>m. PICK m : m = SplitAll(first, last)
  OBVIOUS
<1> DEFINE A == Listed(m.free_list)
           o == m.order
           taken == Taken(m, first, last)
           R == reserved \cup {<<first, last>>}
<1>0. first \in Nat /\ last \in Nat
  BY MemoryFacts
<1>1. Splitting(m, first, last, 0) /\ Booting(m, reserved)
  <2>1. AtEdge(reserved, first) /\ AtEdge(reserved, last)
    BY ApartEdges
  <2> QED BY <1>m, <2>1, SplitAllFacts DEF Splitting
<1>2. /\ m \in AllTables /\ Heads(o, A) /\ Lists(m.free_list, o, m.entry)
  <2>1. A \cup {} = A
    OBVIOUS
  <2> QED BY <1>1, <2>1 DEF Booting, Core
<1>3. {i \in Visited(m, first, last) : m.entry[i]} = taken
  <2>1. Between(m, first)
    <3>1. ASSUME NEW p \in A, p < first, first < p + Size(o[p]) PROVE FALSE
      <4>1. p \in Nat
        BY <1>2, HeadFacts
      <4>2. In(first, p, o[p])
        BY <1>0, <3>1, <4>1 DEF In
      <4> QED BY <1>0, <1>1, <3>1, <4>1, <4>2, TakenFacts
    <3> QED BY <3>1 DEF Between
  <2>2. \A p : p \in Visited(m, first, last) /\ m.entry[p] <=>
                      p \in A /\ first <= p /\ p <= last
    BY <1>1, <2>1, VisitedFacts
  <2> QED BY <2>2 DEF Taken
<1> HIDE DEF taken, A, o
<1>4. /\ m.free_list \in [Orders -> Seq(Pages)] /\ o \in [Pages -> -1 .. MAX_ORDER - 1]
      /\ m.entry \in [Pages -> BOOLEAN]
  BY <1>2 DEF AllTables, o
<1>5. /\ free_list' = [k \in Orders |-> Without(m.free_list[k], {i \in taken : o[i] = k})]
      /\ order' = o
      /\ entry' = [p \in Pages |-> m.entry[p] /\ p \notin taken]
  <2> DEFINE n == [m EXCEPT
            !.free_list = [k \in Orders |-> Without(@[k], {i \in taken : m.order[i] = k})],
            !.entry = [p \in Pages |-> @[p] /\ p \notin taken]]
  <2>1. SetTables(n)
    BY <1>m, <1>3, Zenon DEF reserve
  <2>2. /\ n.free_list = [k \in Orders |-> Without(m.free_list[k], {i \in taken : m.order[i] = k})]
        /\ n.order = m.order
        /\ n.entry = [p \in Pages |-> m.entry[p] /\ p \notin taken]
    BY <1>2 DEF AllTables
  <2> HIDE DEF n
  <2> QED BY <2>1, <2>2 DEF SetTables, o
<1>6. taken \subseteq A /\ A \subseteq Pages
  BY <1>2 DEF taken, Taken, A, Heads
<1>7. ASSUME NEW k \in Orders
      PROVE  /\ free_list'[k] \in Seq(Pages) /\ IsInjective(free_list'[k])
             /\ ToSet(free_list'[k]) = ToSet(m.free_list[k]) \ taken
  <2>1. m.free_list[k] \in Seq(Pages) /\ IsInjective(m.free_list[k])
    BY <1>2 DEF Lists
  <2>2. \A p \in ToSet(m.free_list[k]) : o[p] = k
    BY <1>2 DEF Lists
  <2> DEFINE gone == {i \in taken : o[i] = k}
  <2>3. free_list'[k] = Without(m.free_list[k], gone)
    BY <1>5
  <2>4. ToSet(m.free_list[k]) \ gone = ToSet(m.free_list[k]) \ taken
    BY <2>2
  <2> HIDE DEF gone
  <2> QED BY <2>1, <2>3, <2>4, WithoutFacts
<1>8. Listed(free_list') = A \ taken
  <2>1. ASSUME NEW p PROVE p \in Listed(free_list') <=> p \in A \ taken
    <3>1. p \in Listed(free_list') <=> \E k \in Orders : p \in ToSet(free_list'[k])
      BY DEF Listed
    <3>2. p \in A <=> \E k \in Orders : p \in ToSet(m.free_list[k])
      BY DEF Listed, A
    <3> QED BY <1>7, <3>1, <3>2
  <2> QED BY <2>1
<1>9. Heads(o, A \ taken)
  BY <1>2 DEF Heads, Clear
<1>10. Core(free_list', order', entry', {})
  <2>1. free_list' \in [Orders -> Seq(Pages)]
    BY <1>5, <1>7
  <2>2. entry' \in [Pages -> BOOLEAN]
    BY <1>5
  <2>3. ASSUME NEW k \in Orders, NEW p \in ToSet(free_list'[k]) PROVE entry'[p] /\ order'[p] = k
    <3>1. p \in ToSet(m.free_list[k]) /\ p \notin taken
      BY <1>7
    <3>2. m.entry[p] /\ o[p] = k /\ p \in A
      BY <1>2, <3>1, ListedFacts DEF A
    <3> QED BY <1>5, <1>6, <3>1, <3>2
  <2>4. Lists(free_list', order', entry')
    BY <1>4, <1>5, <1>7, <2>1, <2>2, <2>3 DEF Lists
  <2>5. (A \ taken) \cup {} = A \ taken
    OBVIOUS
  <2> QED BY <1>5, <1>8, <1>9, <2>4, <2>5 DEF Core
<1>11. o[first] = 0 /\ o[last] = 0
  <2>1. /\ InRegion(reserved, first) => o[first] = 0
        /\ InRegion(reserved, last) => o[last] = 0
    BY <1>1, ApartEdges DEF o
  <2>2. ASSUME NEW x \in {first, last}, ~InRegion(reserved, x) PROVE o[x] = 0
    <3>1. PICK p \in A : In(x, p, o[p])
      BY <1>1, <2>2 DEF Booting, Covered, A, o
    <3>2. p = x
      BY <1>1, <2>2, <3>1, TakenFacts DEF A, o
    <3> QED BY <1>1, <3>1, <3>2, TakenFacts DEF A, o
  <2> QED BY <2>1, <2>2
<1>12. ASSUME NEW p \in Pages
       PROVE  /\ o[p] \in Orders /\ Aligned(p, o[p])
              /\ entry'[p] => p \in A \ taken
  BY <1>1, <1>5 DEF Booting, A, o
<1>13. ASSUME NEW p \in Pages, o[p] # 0, p \notin A \ taken
       PROVE  \E q \in R : q[1] < p /\ p + Size(o[p]) <= q[2]
  <2>1. CASE p \notin A
    BY <1>1, <1>13, <2>1 DEF Booting, A, o
  <2>2. CASE p \in taken
    <3>1. first < p /\ p + Size(o[p]) <= last
      BY <1>1, <1>6, <1>13, <2>2, TakenFacts DEF taken, A, o
    <3>2. <<first, last>> \in R /\ <<first, last>>[1] = first /\ <<first, last>>[2] = last
      OBVIOUS
    <3> QED BY <3>1, <3>2
  <2> QED BY <1>13, <2>1, <2>2
<1>r. \A x : InRegion(R, x) <=> InRegion(reserved, x) \/ (first <= x /\ x <= last)
  <2>1. <<first, last>>[1] = first /\ <<first, last>>[2] = last
    OBVIOUS
  <2> QED BY <2>1 DEF InRegion
<1>14. ASSUME NEW x \in Pages
       PROVE  Covered(o, A \ taken, x) <=> ~InRegion(R, x)
  <2>0. x \in Int
    BY MemoryFacts
  <2>1. Covered(o, A, x) <=> ~InRegion(reserved, x)
    BY <1>1 DEF Booting, A, o
  <2>2. ASSUME Covered(o, A \ taken, x) PROVE ~InRegion(R, x)
    <3>1. PICK p \in A \ taken : In(x, p, o[p])
      BY <2>2 DEF Covered
    <3>2. Covered(o, A, x)
      BY <3>1 DEF Covered
    <3>3. ~(first <= x /\ x <= last)
      BY <1>1, <2>0, <3>1, TakenFacts DEF taken, A, o
    <3> QED BY <1>r, <2>1, <3>2, <3>3
  <2>3. ASSUME ~InRegion(R, x) PROVE Covered(o, A \ taken, x)
    <3>1. PICK p \in A : In(x, p, o[p])
      BY <1>r, <2>1, <2>3 DEF Covered
    <3>2. p \notin taken
      <4>1. SUFFICES ASSUME p \in taken PROVE FALSE
        OBVIOUS
      <4>2. first <= p /\ p <= last /\ p + Size(o[p]) <= last + 1
        BY <1>1, <4>1, TakenFacts DEF taken, Taken, A, o
      <4>3. p \in Nat /\ Size(o[p]) \in Nat
        BY <1>2, HeadFacts
      <4>4. first <= x /\ x <= last
        BY <1>0, <2>0, <3>1, <4>2, <4>3 DEF In
      <4> QED BY <1>r, <2>3, <4>4
    <3> QED BY <3>1, <3>2 DEF Covered
  <2> QED BY <2>2, <2>3
<1>15. ASSUME NEW q \in R
       PROVE  /\ q[1] \in Pages /\ q[2] \in Pages /\ q[1] <= q[2]
              /\ o[q[1]] = 0 /\ o[q[2]] = 0
  <2>1. CASE q \in reserved
    BY <1>1, <2>1 DEF Booting, o
  <2>2. CASE q = <<first, last>>
    BY <1>11, <2>2
  <2> QED BY <2>1, <2>2
<1> DEFINE t == [free_list |-> free_list', order |-> order', entry |-> entry']
<1>16. /\ t.free_list = free_list' /\ t.order = o /\ t.entry = entry' /\ t \in AllTables
  <2>1. /\ free_list' \in [Orders -> Seq(Pages)] /\ entry' \in [Pages -> BOOLEAN]
    BY <1>10 DEF Core, Lists
  <2> QED BY <1>4, <1>5, <2>1 DEF AllTables
<1>17. Tables' = t
  BY DEF Tables
<1> HIDE DEF t
<1> DEFINE B == Listed(t.free_list)
<1>18. B = A \ taken
  BY <1>8, <1>16
<1>19. Core(t.free_list, t.order, t.entry, {})
  BY <1>5, <1>10, <1>16
<1> HIDE DEF B, R
<1>20. Booting(t, R)
  <2>1. \A p \in Pages : /\ t.order[p] \in Orders /\ Aligned(p, t.order[p])
                         /\ t.entry[p] => p \in B
    BY <1>12, <1>16, <1>18
  <2>2. \A p \in Pages : t.order[p] # 0 /\ p \notin B =>
           \E q \in R : q[1] < p /\ p + Size(t.order[p]) <= q[2]
    BY <1>13, <1>16, <1>18
  <2>3. \A x \in Pages : Covered(t.order, B, x) <=> ~InRegion(R, x)
    BY <1>14, <1>16, <1>18
  <2>4. \A q \in R : /\ q[1] \in Pages /\ q[2] \in Pages /\ q[1] <= q[2]
                     /\ t.order[q[1]] = 0 /\ t.order[q[2]] = 0
    BY <1>15, <1>16
  <2> QED BY <1>16, <1>19, <2>1, <2>2, <2>3, <2>4, Zenon DEF Booting, B
<1>21. NoPairs(free_list')
  <2>1. SUFFICES ASSUME NEW k \in Orders, k < MAX_ORDER - 1, NEW p \in ToSet(free_list'[k]),
                        get_buddy(p, k) \in ToSet(free_list'[k])
                 PROVE  FALSE
    BY DEF NoPairs
  <2> DEFINE b == get_buddy(p, k)
  <2>2. /\ p \in ToSet(m.free_list[k]) /\ p \notin taken
        /\ b \in ToSet(m.free_list[k]) /\ b \notin taken
    BY <1>7, <2>1
  <2>3. p \in A /\ o[p] = k /\ b \in A /\ o[b] = k
    BY <1>2, <2>2, ListedFacts DEF A
  <2>4. p \in Nat /\ Aligned(p, k) /\ k \in Nat /\ b \in Nat /\ k + 1 \in Nat
    BY <1>2, <2>3, HeadFacts
  <2>5. PICK q : Halves(p, b, q, k) /\ get_buddy(b, k) = p
    BY <2>4, BuddyFacts
  <2>6. q \in Nat /\ Aligned(q, k + 1)
    BY <2>5 DEF Halves
  <2>7. Size(k + 1) = 2 * Size(k) /\ Size(k) \in Nat \ {0}
    BY <2>4, SizeFacts
  <2>8. In(p, q, k + 1) /\ In(b, q, k + 1)
    BY <2>4, <2>5, <2>6, <2>7 DEF Halves, In
  <2>9. BlockOf(p, k + 1) = q /\ BlockOf(b, k + 1) = q
    BY <2>4, <2>6, <2>8, BlockOfFacts
  <2>10. ASSUME NEW x \in {first, last}, In(x, q, k + 1) PROVE FALSE
    <3>1. x \in Int /\ first <= x /\ x <= last
      BY <1>0
    <3>2. In(x, p, k) \/ In(x, b, k)
      <4> HIDE DEF b
      <4> QED BY <2>4, <2>5, <2>10, <3>1, HalvesCover
    <3>3. PICK y \in {p, b} : In(x, y, k)
      BY <3>2
    <3>4. y \in A /\ y \notin taken /\ o[y] = k
      BY <2>2, <2>3
    <3>5. ~(first <= x /\ x <= last)
      BY <1>1, <3>1, <3>3, <3>4, TakenFacts DEF taken, A, o
    <3> QED BY <3>1, <3>5
  <2>11. p \in ToSet(free_list[k]) /\ b \in ToSet(free_list[k])
    <3>1. Derived(m, free_list, {first, last})
      BY <1>1 DEF Splitting
    <3> HIDE DEF b
    <3>2. ASSUME NEW y \in {p, b} PROVE y \in ToSet(free_list[k])
      <4>1. y \in A /\ o[y] = k /\ BlockOf(y, k + 1) = q
        BY <2>3, <2>9
      <4> QED BY <2>10, <3>1, <4>1 DEF Derived, A, o
    <3> QED BY <3>2
  <2> QED BY <2>1, <2>11 DEF NoPairs
<1> QED BY <1>17, <1>20, <1>21 DEF R

-----------------------------------------------------------------------------
(* The order of a request *)

\* get_order(round(size)) is the smallest order with room for size.
LEMMA GetOrderFacts ==
    ASSUME NEW size \in Nat, size # 0, size <= MAX_ALLOC_SIZE
    PROVE  LET k == get_order(round(size))
           IN  /\ k \in Orders /\ size <= PAGE_SIZE * Size(k)
               /\ k > 0 => PAGE_SIZE * Size(k - 1) < size
<1> DEFINE U == PAGE_SIZE
           q == round(size) \div U
           N == MAX_ORDER - 1
<1>1. U \in Nat \ {0} /\ N \in Nat /\ Size(N) \in Nat \ {0}
  <2>1. N \in Nat
    BY MemoryFacts
  <2> QED BY <2>1, BuddyAssumption, SizeFacts
<1>2. MAX_ALLOC_SIZE = U * Size(N)
  BY DEF MAX_ALLOC_SIZE, MAX_BLOCK_SIZE, Size
<1> HIDE DEF U, N
<1>3. \A a, b \in Nat : a * b = b * a /\ a * b \in Nat
  OBVIOUS
<1>4. \A a, b \in Nat : a <= b => a * U <= b * U
  <2>1. \A a, b \in Nat : a < b => a * U + U <= b * U
    BY <1>1, Multiples
  <2>2. \A a, b \in Nat : a * U \in Nat
    BY <1>1
  <2>3. ASSUME NEW a \in Nat, NEW b \in Nat, a <= b PROVE a * U <= b * U
    <3>1. CASE a < b
      <4>1. a * U + U <= b * U /\ a * U \in Nat /\ b * U \in Nat
        BY <2>1, <2>2, <3>1
      <4> QED BY <1>1, <4>1
    <3>2. CASE a = b
      BY <2>2, <3>2
    <3> QED BY <2>3, <3>1, <3>2
  <2> QED BY <2>3
<1>5. q \in Nat \ {0} /\ q - 1 \in Nat /\ (q - 1) * U < size /\ size <= q * U
  <2> DEFINE a == size \div U
  <2>1. a \in Nat /\ a * U <= size /\ size < a * U + U /\ size - (size % U) = a * U
    BY <1>1, Multiples
  <2>2. \A c \in Nat : (c * U) \div U = c
    BY <1>1, Multiples
  <2>3. \A c \in Nat : (c + 1) * U = c * U + U /\ c * U \in Nat
    BY <1>1
  <2>4. CASE size % U = 0
    <3>1. round(size) = size /\ size = a * U
      <4> HIDE DEF a
      <4> QED BY <2>1, <2>3, <2>4 DEF round, U
    <3>2. q = a
      BY <3>1
    <3> HIDE DEF q, a
    <3>3. a # 0
      <4>1. 0 * U = 0
        BY <1>1
      <4> QED BY <3>1, <4>1
    <3>4. a - 1 \in Nat /\ (a - 1) + 1 = a
      BY <2>1, <3>3
    <3>5. a * U = (a - 1) * U + U /\ (a - 1) * U \in Nat
      BY <2>3, <3>4
    <3> QED BY <1>1, <2>1, <3>1, <3>2, <3>3, <3>4, <3>5
  <2>5. CASE size % U # 0
    <3>1. round(size) = (a + 1) * U
      BY <2>5 DEF round, U
    <3> HIDE DEF a
    <3>2. q = a + 1
      BY <2>1, <2>2, <3>1
    <3>3. size % U \in Nat
      BY <1>1
    <3> HIDE DEF q
    <3>4. (a + 1) * U = a * U + U /\ (a + 1) - 1 = a /\ a + 1 \in Nat \ {0} /\ a * U \in Nat
      BY <2>1, <2>3
    <3> QED BY <1>1, <2>1, <2>5, <3>2, <3>3, <3>4
  <2> QED BY <2>4, <2>5
<1> DEFINE Least(k) == q <= 2 ^ k /\ \A j \in 0 .. k - 1 : 2 ^ j < q
<1>6. get_order(round(size)) = CHOOSE k \in Orders : Least(k)
  BY DEF get_order, U
<1> HIDE DEF q
<1>7. q <= Size(N)
  <2>1. (q - 1) * U < Size(N) * U
    <3>1. Size(N) * U = MAX_ALLOC_SIZE /\ (q - 1) * U \in Nat /\ Size(N) * U \in Nat
      BY <1>1, <1>2, <1>3, <1>5
    <3> QED BY <1>5, <3>1
  <2>2. q - 1 < Size(N)
    BY <1>1, <1>5, <2>1, Multiples
  <2> QED BY <1>1, <1>5, <2>2
<1> DEFINE T == {k \in Orders : q <= Size(k)}
<1>8. T \subseteq Nat /\ N \in T
  BY <1>7, MemoryFacts DEF N
<1>9. Min(T) \in T /\ \A j \in T : Min(T) <= j
  BY <1>8, MinFacts
<1>10. \E k \in Orders : Least(k)
  <2> DEFINE l == Min(T)
  <2>1. l \in Orders /\ q <= Size(l) /\ l \in Nat
    BY <1>8, <1>9
  <2>2. ASSUME NEW j \in 0 .. l - 1 PROVE Size(j) < q
    <3>1. j \in Orders /\ j \in Nat /\ j < l
      <4> HIDE DEF l
      <4> QED BY <2>1, MemoryFacts DEF Orders
    <3>2. j \notin T
      <4> HIDE DEF T
      <4> QED BY <1>9, <2>1, <3>1
    <3>3. Size(j) \in Nat
      BY <3>1, SizeFacts
    <3> QED BY <1>5, <3>1, <3>2, <3>3
  <2> HIDE DEF l
  <2> QED BY <2>1, <2>2 DEF Size
<1> DEFINE k == get_order(round(size))
<1>11. k \in Orders /\ Least(k)
  <2> HIDE DEF Least
  <2> QED BY <1>6, <1>10
<1> HIDE DEF k
<1>12. k \in Nat /\ Size(k) \in Nat /\ q <= Size(k)
  BY <1>11, MemoryFacts, SizeFacts DEF Size
<1>13. size <= PAGE_SIZE * Size(k)
  <2>1. q * U <= Size(k) * U
    BY <1>4, <1>5, <1>12
  <2>2. q * U \in Nat /\ Size(k) * U \in Nat /\ Size(k) * U = U * Size(k)
    BY <1>1, <1>3, <1>5, <1>12
  <2> QED BY <1>5, <2>1, <2>2 DEF U
<1>14. ASSUME k > 0 PROVE PAGE_SIZE * Size(k - 1) < size
  <2>1. k - 1 \in 0 .. k - 1 /\ k - 1 \in Nat
    BY <1>12, <1>14
  <2>2. Size(k - 1) < q /\ Size(k - 1) \in Nat
    BY <1>11, <2>1, SizeFacts DEF Size
  <2>3. Size(k - 1) <= q - 1
    BY <1>5, <2>2
  <2>4. Size(k - 1) * U <= (q - 1) * U
    BY <1>4, <1>5, <2>2, <2>3
  <2>5. Size(k - 1) * U \in Nat /\ (q - 1) * U \in Nat /\ Size(k - 1) * U = U * Size(k - 1)
    BY <1>1, <1>3, <1>5, <2>2
  <2> QED BY <1>5, <2>4, <2>5 DEF U
<1> QED BY <1>11, <1>13, <1>14 DEF k

-----------------------------------------------------------------------------
(* The inductive invariant *)

\* Page x is in no block and in no region.
Lost(o, A, R, x) == ~Covered(o, A, x) /\ ~InRegion(R, x)

\* With a lost page, the whole maximal block it lies in is lost.
LostWhole(o, A, R) ==
    \A x, y \in Pages : Lost(o, A, R, x) /\ In(y, BlockOf(x, MAX_ORDER - 1), MAX_ORDER - 1)
                            => Lost(o, A, R, y)

\* The tables L, o, e, the regions R and the clients' blocks H fit together.
Sound(L, o, e, R, H) ==
    /\ Core(L, o, e, H) /\ Entries(L, o, e) /\ NoPairs(L)
    /\ \A x \in Pages : InRegion(R, x) => ~Covered(o, Listed(L) \cup H, x)
    /\ LostWhole(o, Listed(L) \cup H, R)

BuddyInv ==
    /\ reserved \subseteq Regions \cup {<<0, 0>>} /\ booted \in BOOLEAN
    /\ Sound(free_list, order, entry, reserved, DOMAIN held)
    /\ GrantFits
    /\ ~booted => DOMAIN held = {} /\ Booting(Tables, reserved)

\* Until something is allocated, nothing is lost.
LEMMA BootingSound ==
    ASSUME NEW m, NEW R, Booting(m, R), NoPairs(m.free_list)
    PROVE  Sound(m.free_list, m.order, m.entry, R, {})
<1> DEFINE A == Listed(m.free_list) \cup {}
<1>1. A = Listed(m.free_list)
  OBVIOUS
<1>2. Core(m.free_list, m.order, m.entry, {})
  BY DEF Booting
<1> HIDE DEF A
<1>3. Entries(m.free_list, m.order, m.entry)
  <2>1. ASSUME NEW p \in Pages, m.entry[p] PROVE p \in ToSet(m.free_list[m.order[p]])
    <3>1. p \in Listed(m.free_list)
      BY <2>1 DEF Booting
    <3> QED BY <1>2, <3>1, ListedFacts DEF Core
  <2> QED BY <2>1 DEF Entries
<1>4. \A x \in Pages : Covered(m.order, A, x) <=> ~InRegion(R, x)
  BY <1>1 DEF Booting
<1>5. LostWhole(m.order, A, R)
  BY <1>4 DEF LostWhole, Lost
<1> QED BY <1>2, <1>3, <1>4, <1>5 DEF Sound, A

\* mm_init lists the maximal blocks.
LEMMA InitBooting ==
    ASSUME mm_init
    PROVE  Booting(Tables, {}) /\ NoPairs(free_list)
<1> DEFINE N == MAX_ORDER - 1
           A == {p \in Pages : Aligned(p, N)}
<1>1. N \in Nat /\ N \in Orders /\ MAX_BLOCK_SIZE = Size(N) /\ Size(N) \in Nat \ {0}
  <2>1. N \in Nat /\ N \in Orders
    BY MemoryFacts
  <2> HIDE DEF N
  <2>2. Size(N) \in Nat \ {0}
    BY <2>1, SizeFacts
  <2>3. MAX_BLOCK_SIZE = Size(N)
    BY DEF MAX_BLOCK_SIZE, Size, N
  <2> QED BY <2>1, <2>2, <2>3
<1>2. MaxBlocks \in Nat /\ PAGE_NUM = MaxBlocks * Size(N) /\ PAGE_NUM \in Nat
  BY <1>1, BuddyAssumption, MemoryFacts DEF PAGE_NUM
<1>3. /\ free_list = [k \in Orders |-> IF k # N THEN <<>>
                         ELSE [i \in 1 .. MaxBlocks |-> (MaxBlocks - i) * Size(N)]]
      /\ order = [p \in Pages |-> IF p % Size(N) = 0 THEN N ELSE 0]
      /\ entry = [p \in Pages |-> p % Size(N) = 0]
  BY <1>1 DEF mm_init
<1> HIDE DEF N
<1>4. ASSUME NEW p \in Pages PROVE p % Size(N) = 0 <=> p \in A
  <2>1. p \in Nat
    BY MemoryFacts
  <2>2. p % Size(N) = 0 <=> p = (p \div Size(N)) * Size(N)
    <3>1. p - (p % Size(N)) = (p \div Size(N)) * Size(N) /\ p \div Size(N) \in Nat
      BY <1>1, <2>1, Multiples
    <3>2. p % Size(N) \in Nat /\ (p \div Size(N)) * Size(N) \in Nat
      BY <1>1, <2>1, <3>1
    <3> QED BY <2>1, <3>1, <3>2
  <2>3. ASSUME p % Size(N) = 0 PROVE p \in A
    <3>1. p \div Size(N) \in Nat
      BY <1>1, <2>1, Multiples
    <3> QED BY <2>2, <2>3, <3>1, Zenon DEF Aligned
  <2>4. ASSUME p \in A PROVE p % Size(N) = 0
    <3>1. PICK a \in Nat : p = a * Size(N)
      BY <2>4 DEF Aligned
    <3>2. p \div Size(N) = a
      BY <1>1, <3>1, Multiples
    <3> QED BY <2>2, <3>1, <3>2
  <2> QED BY <2>3, <2>4
<1> DEFINE q == [i \in 1 .. MaxBlocks |-> (MaxBlocks - i) * Size(N)]
<1>m. \A a, b \in Nat : a < b => a * Size(N) + Size(N) <= b * Size(N)
  BY <1>1, Multiples
<1>5. ASSUME NEW i \in 1 .. MaxBlocks PROVE q[i] \in A
  <2>1. MaxBlocks - i \in Nat /\ MaxBlocks - i < MaxBlocks
    BY <1>2
  <2>2. q[i] = (MaxBlocks - i) * Size(N)
    OBVIOUS
  <2> HIDE DEF q
  <2>3. q[i] + Size(N) <= PAGE_NUM
    BY <1>2, <1>m, <2>1, <2>2
  <2>4. Aligned(q[i], N)
    BY <2>1, <2>2, Zenon DEF Aligned
  <2>5. q[i] \in Nat
    BY <1>1, <2>4, AlignedNat
  <2>6. q[i] \in Pages
    BY <1>1, <1>2, <2>3, <2>5 DEF Pages
  <2> QED BY <2>4, <2>6
<1>6. ASSUME NEW p \in A PROVE \E i \in 1 .. MaxBlocks : q[i] = p
  <2>1. PICK a \in Nat : p = a * Size(N)
    BY DEF Aligned
  <2>2. a < MaxBlocks
    <3>1. p < PAGE_NUM
      BY <1>2, MemoryFacts DEF Pages
    <3>2. \A c, d \in Nat : c * Size(N) < d * Size(N) => c < d
      BY <1>1, Multiples
    <3> QED BY <1>2, <2>1, <3>1, <3>2
  <2>3. MaxBlocks - a \in 1 .. MaxBlocks /\ MaxBlocks - (MaxBlocks - a) = a
    BY <1>2, <2>1, <2>2
  <2> QED BY <2>1, <2>3
<1>7. q \in Seq(Pages) /\ DOMAIN q = 1 .. MaxBlocks
  <2>1. q \in [1 .. MaxBlocks -> Pages]
    BY <1>5
  <2> HIDE DEF q
  <2> QED BY <1>2, <2>1
<1>8. IsInjective(q)
  <2>1. ASSUME NEW i \in 1 .. MaxBlocks, NEW j \in 1 .. MaxBlocks, i < j PROVE q[i] # q[j]
    <3> DEFINE a == MaxBlocks - j
               b == MaxBlocks - i
    <3>1. a \in Nat /\ b \in Nat /\ a < b
      BY <1>2, <2>1
    <3>2. q[j] = a * Size(N) /\ q[i] = b * Size(N)
      OBVIOUS
    <3> HIDE DEF a, b, q
    <3>3. a * Size(N) + Size(N) <= b * Size(N) /\ a * Size(N) \in Nat
      BY <1>1, <1>m, <3>1
    <3> QED BY <1>1, <3>2, <3>3
  <2> HIDE DEF q
  <2>2. \A i, j \in 1 .. MaxBlocks : i # j => i < j \/ j < i
    BY <1>2
  <2> QED BY <1>7, <2>1, <2>2 DEF IsInjective
<1>9. ToSet(q) = A
  <2> HIDE DEF q, A
  <2> QED BY <1>5, <1>6, <1>7 DEF ToSet
<1>10. free_list = [k \in Orders |-> IF k # N THEN <<>> ELSE q]
  BY <1>3
<1> HIDE DEF q
<1>11. /\ \A p \in Pages : order[p] = IF p \in A THEN N ELSE 0
       /\ \A p \in Pages : entry[p] <=> p \in A
       /\ entry \in [Pages -> BOOLEAN]
  BY <1>3, <1>4
<1>12. ASSUME NEW k \in Orders
       PROVE  /\ free_list[k] \in Seq(Pages) /\ IsInjective(free_list[k])
              /\ ToSet(free_list[k]) = IF k = N THEN A ELSE {}
  <2>1. CASE k = N
    BY <1>7, <1>8, <1>9, <1>10, <2>1
  <2>2. CASE k # N
    <3>1. free_list[k] = <<>>
      BY <1>10, <2>2
    <3> QED BY <2>2, <3>1 DEF ToSet, IsInjective
  <2> QED BY <2>1, <2>2
<1>13. Listed(free_list) = A
  BY <1>1, <1>12 DEF Listed
<1>14. A \subseteq Pages /\ \A p \in A : Aligned(p, N) /\ order[p] = N
  BY <1>11
<1> HIDE DEF A
<1>15. Lists(free_list, order, entry)
  <2>1. free_list \in [Orders -> Seq(Pages)]
    BY <1>10, <1>12
  <2>2. order \in [Pages -> -1 .. MAX_ORDER - 1]
    <3>1. N \in -1 .. MAX_ORDER - 1 /\ 0 \in -1 .. MAX_ORDER - 1
      BY <1>1, MemoryFacts DEF N
    <3> QED BY <1>3, <3>1
  <2> QED BY <1>11, <1>12, <1>14, <2>1, <2>2 DEF Lists
<1>16. Heads(order, A)
  BY <1>1, <1>14, AlignedApart DEF Heads, Clear
<1>17. Core(free_list, order, entry, {})
  <2>1. A \cup {} = A
    OBVIOUS
  <2> QED BY <1>13, <1>15, <1>16, <2>1 DEF Core
<1>18. ASSUME NEW p \in Pages PROVE order[p] \in Orders /\ Aligned(p, order[p])
  <2>1. CASE p \in A
    BY <1>1, <1>14, <2>1
  <2>2. CASE p \notin A
    <3>1. order[p] = 0
      BY <1>11, <2>2
    <3>2. p \in Nat
      BY MemoryFacts
    <3> QED BY <3>1, <3>2, AlignedZero, MemoryFacts
  <2> QED BY <2>1, <2>2
<1>19. ASSUME NEW x \in Pages PROVE Covered(order, A, x)
  <2>1. /\ BlockOf(x, N) \in Pages /\ Aligned(BlockOf(x, N), N) /\ In(x, BlockOf(x, N), N)
    BY <1>1, BlockOfPage
  <2>2. BlockOf(x, N) \in A
    BY <2>1 DEF A
  <2> QED BY <1>14, <2>1, <2>2 DEF Covered
<1>20. \A x : ~InRegion({}, x)
  BY DEF InRegion
<1> DEFINE t == Tables
<1>21. /\ t.free_list = free_list /\ t.order = order /\ t.entry = entry /\ t \in AllTables
  BY <1>15 DEF Tables, AllTables, Lists
<1> HIDE DEF t
<1>22. Booting(t, {})
  <2>1. \A p \in Pages : t.order[p] # 0 => p \in A
    BY <1>11, <1>21
  <2>2. \A p \in Pages : t.entry[p] => p \in A
    BY <1>11, <1>21
  <2>3. Listed(t.free_list) = A
    BY <1>13, <1>21
  <2>4. \A p \in Pages : t.order[p] \in Orders /\ Aligned(p, t.order[p])
    BY <1>18, <1>21
  <2>5. \A x \in Pages : Covered(t.order, A, x) <=> ~InRegion({}, x)
    BY <1>19, <1>20, <1>21
  <2>6. Core(t.free_list, t.order, t.entry, {})
    BY <1>17, <1>21
  <2> QED BY <1>21, <2>1, <2>2, <2>3, <2>4, <2>5, <2>6, Zenon DEF Booting
<1>23. NoPairs(free_list)
  <2>1. ASSUME NEW k \in Orders, k < MAX_ORDER - 1 PROVE ToSet(free_list[k]) = {}
    <3>1. k # N
      BY <2>1, MemoryFacts DEF N
    <3> QED BY <1>12, <3>1
  <2> QED BY <2>1 DEF NoPairs
<1> QED BY <1>22, <1>23 DEF t

\* _alloc takes a block of the lowest order it can, so no halves it puts back
\* meet their buddies on the lists.
LEMMA AllocSound ==
    ASSUME BuddyInv, NEW size \in Nat, _alloc(size)
    PROVE  Sound(free_list', order', entry', reserved', DOMAIN held') /\ GrantFits'
<1>h. PICK H : H = DOMAIN held
  OBVIOUS
<1>k. PICK k : k = get_order(round(size))
  OBVIOUS
<1> DEFINE fits == {j \in k .. MAX_ORDER - 1 : free_list[j] # <<>>}
<1>i. PICK i : i = Min(fits)
  OBVIOUS
<1>b. PICK b : b = Head(free_list[i])
  OBVIOUS
<1> DEFINE A == Listed(free_list) \cup H
<1>1. size # 0 /\ size <= MAX_ALLOC_SIZE /\ fits # {} /\ Take(i, k) /\ reserved' = reserved
  BY <1>k, <1>i DEF _alloc
<1>2. held' = [p \in H \cup {b} |-> IF p \in H THEN held[p] ELSE size]
  BY <1>h, <1>k, <1>i, <1>b DEF _alloc
<1>3. /\ k \in Orders /\ size <= PAGE_SIZE * Size(k)
      /\ k > 0 => PAGE_SIZE * Size(k - 1) < size
  BY <1>1, <1>k, GetOrderFacts
<1>4. i \in Orders /\ k <= i /\ free_list[i] # <<>> /\ \A j \in k .. i - 1 : free_list[j] = <<>>
  <2>1. k \in Nat /\ MAX_ORDER - 1 \in Nat
    BY <1>3, MemoryFacts
  <2>2. fits \subseteq Nat
    BY <2>1
  <2>3. i \in fits /\ \A j \in fits : i <= j
    BY <1>1, <1>i, <2>2, MinFacts
  <2>4. i \in Nat /\ k <= i /\ i <= MAX_ORDER - 1 /\ free_list[i] # <<>>
    BY <2>1, <2>3
  <2>5. \A j \in k .. i - 1 : j \in k .. MAX_ORDER - 1 /\ ~(i <= j)
    BY <2>1, <2>4
  <2>6. \A j \in k .. i - 1 : j \notin fits
    BY <2>3, <2>5
  <2> QED BY <2>1, <2>4, <2>5, <2>6 DEF Orders
<1>5. /\ Core(free_list, order, entry, H) /\ Entries(free_list, order, entry)
      /\ NoPairs(free_list) /\ LostWhole(order, A, reserved)
      /\ \A x \in Pages : InRegion(reserved, x) => ~Covered(order, A, x)
  BY <1>h DEF BuddyInv, Sound
<1>6. /\ Core(free_list', order', entry', H \cup {b})
      /\ Entries(free_list', order', entry')
      /\ b \notin H /\ order'[b] = k
      /\ \A q \in Listed(free_list) \cup H : q # b => order'[q] = order[q]
      /\ \A x \in Int : Covered(order', Listed(free_list') \cup (H \cup {b}), x)
                            <=> Covered(order, Listed(free_list) \cup H, x)
  <2>1. Took(H, i, k, b)
    BY <1>1, <1>3, <1>4, <1>5, <1>b, TakeStep
  <2> QED BY <2>1 DEF Took
<1> DEFINE B == Listed(free_list') \cup (H \cup {b})
<1>7. \A x \in Pages : Covered(order', B, x) <=> Covered(order, A, x)
  <2>1. \A x \in Pages : x \in Int
    BY MemoryFacts
  <2> QED BY <1>6, <2>1
<1> HIDE DEF A, B
<1>8. LostWhole(order', B, reserved)
  BY <1>5, <1>7 DEF LostWhole, Lost
<1>9. \A x \in Pages : InRegion(reserved, x) => ~Covered(order', B, x)
  BY <1>5, <1>7
<1>10. NoPairs(free_list')
  <2>1. SUFFICES ASSUME NEW j \in Orders, j < MAX_ORDER - 1, NEW p \in ToSet(free_list'[j]),
                        get_buddy(p, j) \in ToSet(free_list'[j])
                 PROVE  FALSE
    BY DEF NoPairs
  <2>2. free_list' = [l \in Orders |->
              CASE l = i -> Tail(free_list[l])
                [] k <= l /\ l < i -> <<b + 2 ^ l>> \o free_list[l]
                [] OTHER -> free_list[l]]
    BY <1>1, <1>b DEF Take
  <2>3. i \in Int /\ k \in Int /\ j \in Int
    BY <1>3, <1>4, MemoryFacts
  <2>4. free_list[j] \in Seq(Pages) /\ IsInjective(free_list[j]) /\ free_list[i] \in Seq(Pages)
    BY <1>4, <1>5 DEF Core, Lists
  <2>5. CASE j = i
    <3>1. free_list'[j] = Tail(free_list[j])
      BY <2>2, <2>3, <2>5
    <3>2. ToSet(free_list'[j]) \subseteq ToSet(free_list[j])
      BY <1>4, <2>4, <2>5, <3>1, PopFacts
    <3> QED BY <1>5, <2>1, <3>2 DEF NoPairs
  <2>6. CASE k <= j /\ j < i
    <3>1. j # i
      BY <2>3, <2>6
    <3>2. free_list'[j] = <<b + 2 ^ j>> \o free_list[j] /\ free_list[j] = <<>>
      BY <1>4, <2>2, <2>3, <2>6, <3>1
    <3>3. <<b + 2 ^ j>> \o <<>> = <<b + 2 ^ j>>
      OBVIOUS
    <3>4. ToSet(<<b + 2 ^ j>>) = {b + 2 ^ j}
      BY DEF ToSet
    <3>5. get_buddy(p, j) = p
      BY <2>1, <3>2, <3>3, <3>4
    <3>6. p \in Listed(free_list') /\ j \in Nat /\ Aligned(p, j)
      <4>1. p \in Listed(free_list')
        BY DEF Listed
      <4>2. order'[p] = j
        BY <1>6 DEF Core, Lists
      <4>3. Heads(order', Listed(free_list') \cup (H \cup {b}))
        BY <1>6 DEF Core
      <4>4. p \in Listed(free_list') \cup (H \cup {b})
        BY <4>1
      <4> QED BY <4>1, <4>2, <4>3, <4>4, HeadFacts
    <3> QED BY <3>5, <3>6, BuddyFacts DEF Halves
  <2>7. CASE ~(j = i) /\ ~(k <= j /\ j < i)
    <3>1. free_list'[j] = free_list[j]
      BY <2>2, <2>7
    <3> QED BY <1>5, <2>1, <3>1 DEF NoPairs
  <2> QED BY <2>5, <2>6, <2>7
<1>11. DOMAIN held' = H \cup {b}
  BY <1>2
<1>12. Sound(free_list', order', entry', reserved', DOMAIN held')
  BY <1>1, <1>6, <1>8, <1>9, <1>10, <1>11 DEF Sound, B
<1>13. GrantFits'
  <2>1. ASSUME NEW p \in H \cup {b}
        PROVE  /\ held'[p] <= PAGE_SIZE * 2 ^ order'[p]
               /\ order'[p] > 0 => PAGE_SIZE * 2 ^ (order'[p] - 1) < held'[p]
    <3>1. CASE p = b
      <4>1. held'[p] = size /\ order'[p] = k
        BY <1>2, <1>6, <3>1
      <4> QED BY <1>3, <4>1 DEF Size
    <3>2. CASE p \in H
      <4>1. held'[p] = held[p] /\ order'[p] = order[p]
        BY <1>2, <1>6, <3>2
      <4>2. GrantFits
        BY DEF BuddyInv
      <4> QED BY <1>h, <3>2, <4>1, <4>2 DEF GrantFits
    <3> QED BY <3>1, <3>2
  <2> QED BY <1>11, <2>1 DEF GrantFits
<1> QED BY <1>12, <1>13

\* _free stops at a buddy that is not free; what it does not list is a whole
\* maximal block.
LEMMA FreeSound ==
    ASSUME BuddyInv, NEW idx, idx \in DOMAIN held, _free(idx)
    PROVE  Sound(free_list', order', entry', reserved', DOMAIN held') /\ GrantFits'
<1>H. PICK H : H = DOMAIN held
  OBVIOUS
<1>m. PICK m : m = StopOrder(idx, order[idx])
  OBVIOUS
<1>h. PICK h : h = BlockOf(idx, m)
  OBVIOUS
<1>g. PICK G : G = Merged(idx, order[idx], m)
  OBVIOUS
<1>a. PICK A : A = Listed(free_list) \cup H
  OBVIOUS
<1> DEFINE N == MAX_ORDER - 1
<1>1. reserved' = reserved /\ held' = [p \in H \ {idx} |-> held[p]]
  BY <1>H DEF _free
<1>2. DOMAIN held' = H \ {idx}
  BY <1>1
<1>3. /\ Core(free_list, order, entry, H) /\ Entries(free_list, order, entry)
      /\ NoPairs(free_list) /\ LostWhole(order, A, reserved)
      /\ \A x \in Pages : InRegion(reserved, x) => ~Covered(order, A, x)
  BY <1>H, <1>a DEF BuddyInv, Sound
<1>4. Freed(H, idx, m)
  BY <1>H, <1>m, <1>3, FreeStep
<1>5. /\ Core(free_list', order', entry', H \ {idx}) /\ Entries(free_list', order', entry')
      /\ m \in Orders /\ h \in Pages /\ G \subseteq A /\ h \in G
      /\ Listed(free_list') = (Listed(free_list) \ G) \cup {p \in {h} : m < N}
      /\ \A q \in A \ G : order'[q] = order[q]
      /\ order'[h] = m /\ G \cap H = {idx}
      /\ \A y \in Int : In(y, h, m) <=> Covered(order, G, y)
      /\ m < N => BuddyAt(idx, m) \notin ToSet(free_list[m])
  BY <1>4, <1>h, <1>g, <1>a DEF Freed
<1>6. Heads(order, A) /\ Lists(free_list, order, entry)
  BY <1>3, <1>a DEF Core
<1>7. idx \in Pages /\ idx \in Nat /\ idx \in H
  <2>1. idx \in A
    BY <1>H, <1>a
  <2> QED BY <1>H, <1>6, <2>1, HeadFacts
<1>8. Aligned(h, m) /\ m \in Nat /\ h \in Nat
  BY <1>h, <1>5, <1>7, BlockOfPage, MemoryFacts
<1> DEFINE B == Listed(free_list') \cup (H \ {idx})
<1>9. B = (A \ G) \cup {p \in {h} : m < N}
  BY <1>a, <1>5
<1>10. \A x : Covered(order', A \ G, x) <=> Covered(order, A \ G, x)
  BY <1>5 DEF Covered
<1>11. \A x : Covered(order, A, x) <=> Covered(order, A \ G, x) \/ Covered(order, G, x)
  BY <1>5 DEF Covered
<1>12. ASSUME NEW x \in Int, Covered(order, A \ G, x), Covered(order, G, x) PROVE FALSE
  <2>1. PICK p \in A \ G : In(x, p, order[p])
    BY <1>12 DEF Covered
  <2>2. PICK q \in G : In(x, q, order[q])
    BY <1>12 DEF Covered
  <2> QED BY <1>5, <1>6, <2>1, <2>2, OneBlock
<1>13. \A x \in Pages : x \in Int
  BY MemoryFacts
<1> HIDE DEF B, N
<1>14. /\ LostWhole(order', B, reserved)
       /\ \A x \in Pages : InRegion(reserved, x) => ~Covered(order', B, x)
  <2>1. CASE m < N
    <3>1. B = (A \ G) \cup {h}
      BY <1>9, <2>1
    <3>2. ASSUME NEW x \in Pages PROVE Covered(order', B, x) <=> Covered(order, A, x)
      <4>1. Covered(order', B, x) <=> Covered(order', A \ G, x) \/ In(x, h, order'[h])
        BY <3>1 DEF Covered
      <4> QED BY <1>5, <1>10, <1>11, <1>13, <4>1
    <3> QED BY <1>3, <3>2 DEF LostWhole, Lost
  <2>2. CASE ~(m < N)
    <3>1. B = A \ G /\ m = N
      BY <1>5, <1>8, <1>9, <2>2, MemoryFacts DEF N
    <3>2. \A x : Covered(order', B, x) <=> Covered(order, A \ G, x)
      BY <1>10, <3>1
    <3>3. \A x \in Pages : InRegion(reserved, x) => ~Covered(order', B, x)
      BY <1>3, <1>11, <3>2
    <3>4. ASSUME NEW x \in Pages, NEW y \in Pages, Lost(order', B, reserved, x),
                 In(y, BlockOf(x, N), N)
          PROVE  Lost(order', B, reserved, y)
      <4>1. CASE Covered(order, G, x)
        <5>1. In(x, h, N)
          BY <1>5, <1>13, <3>1, <4>1
        <5>2. BlockOf(x, N) = h
          BY <1>8, <3>1, <5>1, BlockOfFacts, MemoryFacts
        <5>3. Covered(order, G, y)
          BY <1>5, <1>13, <3>1, <3>4, <5>2
        <5>4. ~Covered(order', B, y)
          BY <1>12, <1>13, <3>2, <5>3
        <5>5. ~InRegion(reserved, y)
          BY <1>3, <1>11, <5>3
        <5> QED BY <5>4, <5>5 DEF Lost
      <4>2. CASE ~Covered(order, G, x)
        <5>1. Lost(order, A, reserved, x)
          BY <1>11, <3>2, <3>4, <4>2 DEF Lost
        <5>2. Lost(order, A, reserved, y)
          BY <1>3, <3>4, <5>1 DEF LostWhole, N
        <5> QED BY <1>11, <3>2, <5>2 DEF Lost
      <4> QED BY <4>1, <4>2
    <3> QED BY <3>3, <3>4 DEF LostWhole, N
  <2> QED BY <2>1, <2>2
<1>15. NoPairs(free_list')
  <2>1. SUFFICES ASSUME NEW j \in Orders, j < MAX_ORDER - 1, NEW p \in ToSet(free_list'[j]),
                        get_buddy(p, j) \in ToSet(free_list'[j])
                 PROVE  FALSE
    BY DEF NoPairs
  <2>b. PICK b : b = get_buddy(p, j)
    OBVIOUS
  <2>2. Lists(free_list', order', entry')
    BY <1>5 DEF Core
  <2>3. /\ p \in Listed(free_list') /\ order'[p] = j
        /\ b \in Listed(free_list') /\ order'[b] = j
    BY <2>1, <2>b, <2>2, ListedFacts
  <2>4. Heads(order', B) /\ p \in B
    BY <1>5, <2>3 DEF Core, B
  <2>5. j \in Nat /\ Aligned(p, j)
    BY <2>3, <2>4, HeadFacts
  <2>6. b # p /\ get_buddy(b, j) = p
    BY <2>5, <2>b, BuddyFacts DEF Halves
  <2>7. ASSUME NEW q \in Listed(free_list'), q # h, order'[q] = j
        PROVE  q \in ToSet(free_list[j])
    <3>1. q \in Listed(free_list) \ G
      BY <1>5, <2>7
    <3>2. order[q] = j
      BY <1>5, <1>a, <2>7, <3>1
    <3> QED BY <1>6, <3>1, <3>2, ListedFacts
  <2>8. CASE p = h
    <3>1. j = m /\ b = BuddyAt(idx, m)
      BY <1>5, <1>h, <2>3, <2>8, <2>b DEF BuddyAt
    <3>2. b \in ToSet(free_list[m])
      BY <2>3, <2>6, <2>7, <2>8, <3>1
    <3> QED BY <1>5, <2>1, <3>1, <3>2 DEF N
  <2>9. CASE b = h
    <3>1. j = m /\ p = BuddyAt(idx, m)
      BY <1>5, <1>h, <2>3, <2>6, <2>9 DEF BuddyAt
    <3>2. p \in ToSet(free_list[m])
      BY <2>3, <2>6, <2>7, <2>9, <3>1
    <3> QED BY <1>5, <2>1, <3>1, <3>2 DEF N
  <2>10. CASE p # h /\ b # h
    <3>1. p \in ToSet(free_list[j]) /\ b \in ToSet(free_list[j])
      BY <2>3, <2>7, <2>10
    <3> QED BY <1>3, <2>1, <2>b, <3>1 DEF NoPairs
  <2> QED BY <2>8, <2>9, <2>10
<1>16. Sound(free_list', order', entry', reserved', DOMAIN held')
  BY <1>1, <1>2, <1>5, <1>14, <1>15 DEF Sound, B
<1>17. GrantFits'
  <2>1. ASSUME NEW p \in H \ {idx}
        PROVE  /\ held'[p] <= PAGE_SIZE * 2 ^ order'[p]
               /\ order'[p] > 0 => PAGE_SIZE * 2 ^ (order'[p] - 1) < held'[p]
    <3>1. p \in A \ G
      BY <1>a, <1>5
    <3>2. held'[p] = held[p] /\ order'[p] = order[p]
      BY <1>1, <1>5, <3>1
    <3>3. GrantFits
      BY DEF BuddyInv
    <3> QED BY <1>H, <3>2, <3>3 DEF GrantFits
  <2> QED BY <1>2, <2>1 DEF GrantFits
<1> QED BY <1>16, <1>17

\* reserve, called by main before anything is allocated
LEMMA ReserveSound ==
    ASSUME BuddyInv, Reserve
    PROVE  BuddyInv'
<1>1. PICK r \in IF reserved = {} THEN {<<0, 0>>} ELSE Regions :
        /\ ~booted /\ \A q \in reserved : Apart(r, q)
        /\ reserve(r[1], r[2]) /\ reserved' = reserved \cup {r}
        /\ booted' \in BOOLEAN /\ held' = held
  BY DEF Reserve
<1>2. r \in Regions \cup {<<0, 0>>}
  BY <1>1
<1>3. r[1] \in Pages /\ r[2] \in Pages /\ r[1] <= r[2] /\ r = <<r[1], r[2]>>
  <2>1. CASE r \in Regions
    BY <2>1, BuddyAssumption
  <2>2. CASE r = <<0, 0>>
    BY <2>2, MemoryFacts
  <2> QED BY <1>2, <2>1, <2>2
<1>4. PICK first, last : first = r[1] /\ last = r[2]
  OBVIOUS
<1>5. /\ DOMAIN held = {} /\ Booting(Tables, reserved) /\ NoPairs(free_list)
      /\ reserved \subseteq Regions \cup {<<0, 0>>}
  BY <1>1 DEF BuddyInv, Sound
<1>6. /\ first \in Pages /\ last \in Pages /\ first <= last /\ r = <<first, last>>
      /\ \A q \in reserved : Apart(<<first, last>>, q)
      /\ reserve(first, last)
  BY <1>1, <1>3, <1>4
<1>7. Booting(Tables', reserved') /\ NoPairs(free_list')
  <2>1. Booting(Tables', reserved \cup {<<first, last>>}) /\ NoPairs(free_list')
    BY <1>5, <1>6, ReserveStep
  <2> QED BY <1>1, <1>6, <2>1
<1>8. Sound(free_list', order', entry', reserved', {})
  <2>1. PICK t : t = Tables'
    OBVIOUS
  <2>2. t.free_list = free_list' /\ t.order = order' /\ t.entry = entry'
    BY <2>1 DEF Tables
  <2>3. PICK R : R = reserved'
    OBVIOUS
  <2>4. Sound(t.free_list, t.order, t.entry, R, {})
    BY <1>7, <2>1, <2>2, <2>3, BootingSound
  <2> QED BY <2>2, <2>3, <2>4
<1>9. DOMAIN held' = {}
  BY <1>1, <1>5
<1>10. GrantFits'
  BY <1>9 DEF GrantFits
<1>11. reserved' \subseteq Regions \cup {<<0, 0>>}
  BY <1>1, <1>2, <1>5
<1> QED BY <1>1, <1>7, <1>8, <1>9, <1>10, <1>11 DEF BuddyInv

\* The inductive invariant holds throughout.
THEOREM BuddyInvariant == Spec => []BuddyInv
<1>1. mm_init => BuddyInv
  <2> SUFFICES ASSUME mm_init PROVE BuddyInv
    OBVIOUS
  <2>1. Booting(Tables, {}) /\ NoPairs(free_list)
    BY InitBooting
  <2>2. reserved = {} /\ booted = FALSE /\ DOMAIN held = {}
    BY DEF mm_init
  <2>3. PICK t : t = Tables
    OBVIOUS
  <2>4. t.free_list = free_list /\ t.order = order /\ t.entry = entry
    BY <2>3 DEF Tables
  <2>5. Sound(t.free_list, t.order, t.entry, {}, {})
    BY <2>1, <2>3, <2>4, BootingSound
  <2>6. GrantFits
    BY <2>2 DEF GrantFits
  <2> QED BY <2>1, <2>2, <2>4, <2>5, <2>6 DEF BuddyInv
<1>2. BuddyInv /\ [Next]_vars => BuddyInv'
  <2> SUFFICES ASSUME BuddyInv, [Next]_vars PROVE BuddyInv'
    OBVIOUS
  <2>1. CASE Reserve
    BY <2>1, ReserveSound
  <2>2. CASE Alloc
    <3>1. PICK size \in 0 .. MAX_ALLOC_SIZE + 1 : booted /\ _alloc(size)
      BY <2>2 DEF Alloc
    <3>2. reserved' = reserved /\ booted' = booted /\ booted
      BY <3>1 DEF _alloc
    <3>m. MAX_ALLOC_SIZE \in Nat
      <4>1. MAX_ORDER - 1 \in Nat /\ PAGE_SIZE \in Nat
        BY BuddyAssumption
      <4>2. MAX_BLOCK_SIZE \in Nat
        BY <4>1, SizeFacts DEF MAX_BLOCK_SIZE, Size
      <4>3. \A a, b \in Nat : a * b \in Nat
        OBVIOUS
      <4> QED BY <4>1, <4>2, <4>3 DEF MAX_ALLOC_SIZE
    <3>3. size \in Nat
      BY <3>1, <3>m
    <3>4. Sound(free_list', order', entry', reserved', DOMAIN held') /\ GrantFits'
      BY <3>1, <3>3, AllocSound
    <3> QED BY <3>2, <3>4 DEF BuddyInv
  <2>3. CASE Free
    <3>1. PICK idx \in DOMAIN held : _free(idx)
      BY <2>3 DEF Free
    <3>2. reserved' = reserved /\ booted' = booted
      BY <3>1 DEF _free
    <3>3. booted
      BY <3>1 DEF BuddyInv
    <3>4. Sound(free_list', order', entry', reserved', DOMAIN held') /\ GrantFits'
      BY <3>1, FreeSound
    <3> QED BY <3>2, <3>3, <3>4 DEF BuddyInv
  <2>4. CASE UNCHANGED vars
    <3>1. /\ free_list' = free_list /\ order' = order /\ entry' = entry
          /\ reserved' = reserved /\ booted' = booted /\ held' = held
      BY <2>4 DEF vars
    <3>2. GrantFits' <=> GrantFits
      BY <3>1 DEF GrantFits
    <3>3. Tables' = Tables
      BY <3>1 DEF Tables
    <3> QED BY <3>1, <3>2, <3>3 DEF BuddyInv
  <2> QED BY <2>1, <2>2, <2>3, <2>4 DEF Next
<1> QED BY <1>1, <1>2, PTL DEF Spec

\* A free block is listed once, on the list of its order, aligned to it, and
\* says so itself: _free may trust order and entry_in_list.
THEOREM BuddyListsAgree == Spec => []ListsAgree
<1>1. BuddyInv => ListsAgree
  <2> SUFFICES ASSUME BuddyInv PROVE ListsAgree
    OBVIOUS
  <2>1. /\ Lists(free_list, order, entry)
        /\ Heads(order, Listed(free_list) \cup DOMAIN held)
        /\ reserved \subseteq Regions \cup {<<0, 0>>} /\ booted \in BOOLEAN
    BY DEF BuddyInv, Sound, Core
  <2>2. TypeOK
    BY <2>1 DEF TypeOK, Lists, Heads
  <2>3. ASSUME NEW k \in Orders, NEW p \in ToSet(free_list[k])
        PROVE  entry[p] /\ order[p] = k /\ p = BlockOf(p, k)
    <3>1. p \in Listed(free_list) /\ entry[p] /\ order[p] = k
      BY <2>1, ListedFacts
    <3>2. p \in Listed(free_list) \cup DOMAIN held
      BY <3>1
    <3>3. p \in Nat /\ k \in Nat /\ Aligned(p, k) /\ In(p, p, k)
      BY <2>1, <3>1, <3>2, HeadFacts
    <3> QED BY <3>1, <3>3, BlockOfFacts
  <2> QED BY <2>1, <2>2, <2>3 DEF ListsAgree, Lists
<1> QED BY <1>1, BuddyInvariant, PTL

\* The pages of the free blocks, of the clients' blocks and of the regions
LEMMA PagesOf ==
    ASSUME BuddyInv, NEW x
    PROVE  /\ x \in FreePages <=> x \in Int /\ Covered(order, Listed(free_list), x)
           /\ x \in HeldPages <=> x \in Int /\ Covered(order, DOMAIN held, x)
           /\ x \in ReservedPages <=> x \in Int /\ InRegion(reserved, x)
           /\ x \in ReservedPages => x \in Pages
           /\ \A b \in FreeBlocks : b[1] \in Listed(free_list) /\ order[b[1]] = b[2]
           /\ \A p \in Listed(free_list) : <<p, order[p]>> \in FreeBlocks
<1>1. /\ Lists(free_list, order, entry)
      /\ Heads(order, Listed(free_list) \cup DOMAIN held)
      /\ reserved \subseteq Regions \cup {<<0, 0>>}
  BY DEF BuddyInv, Sound, Core
<1>2. \A b \in FreeBlocks : b[1] \in Listed(free_list) /\ order[b[1]] = b[2] /\ b[2] \in Orders
  BY <1>1, ListedFacts DEF FreeBlocks
<1>3. ASSUME NEW p \in Listed(free_list) PROVE <<p, order[p]>> \in FreeBlocks
  <2>1. order[p] \in Orders /\ p \in ToSet(free_list[order[p]]) /\ p \in Pages
    BY <1>1, ListedFacts DEF Heads
  <2> QED BY <2>1 DEF FreeBlocks
<1>4. ASSUME NEW p \in Listed(free_list) \cup DOMAIN held
      PROVE  x \in Extent(p, order[p]) <=> x \in Int /\ In(x, p, order[p])
  <2>1. p \in Nat /\ order[p] \in Nat
    BY <1>1, HeadFacts
  <2> QED BY <2>1, ExtentIs
<1>5. x \in FreePages <=> x \in Int /\ Covered(order, Listed(free_list), x)
  <2>1. x \in FreePages <=> \E b \in FreeBlocks : x \in Extent(b[1], b[2])
    BY DEF FreePages
  <2>2. ASSUME NEW b \in FreeBlocks, x \in Extent(b[1], b[2])
        PROVE  x \in Int /\ Covered(order, Listed(free_list), x)
    BY <1>2, <1>4, <2>2 DEF Covered
  <2>3. ASSUME x \in Int, NEW p \in Listed(free_list), In(x, p, order[p])
        PROVE  \E b \in FreeBlocks : x \in Extent(b[1], b[2])
    <3>1. <<p, order[p]>> \in FreeBlocks /\ x \in Extent(p, order[p])
      BY <1>3, <1>4, <2>3
    <3>2. <<p, order[p]>>[1] = p /\ <<p, order[p]>>[2] = order[p]
      OBVIOUS
    <3> QED BY <3>1, <3>2
  <2> QED BY <2>1, <2>2, <2>3 DEF Covered
<1>6. x \in HeldPages <=> x \in Int /\ Covered(order, DOMAIN held, x)
  BY <1>4 DEF HeldPages, Covered
<1>7. /\ x \in ReservedPages <=> x \in Int /\ InRegion(reserved, x)
      /\ x \in ReservedPages => x \in Pages
  <2>1. ASSUME NEW r \in reserved PROVE r[1] \in Pages /\ r[2] \in Pages
    <3>1. CASE r \in Regions
      BY <3>1, BuddyAssumption
    <3>2. CASE r = <<0, 0>>
      BY <3>2, MemoryFacts
    <3> QED BY <1>1, <3>1, <3>2
  <2>2. PAGE_NUM \in Nat
    BY MemoryFacts
  <2>3. ASSUME NEW r \in reserved
        PROVE  /\ x \in r[1] .. r[2] <=> x \in Int /\ r[1] <= x /\ x <= r[2]
               /\ x \in r[1] .. r[2] => x \in Pages
    BY <2>1, <2>2 DEF Pages
  <2>4. x \in ReservedPages <=> \E r \in reserved : x \in r[1] .. r[2]
    BY DEF ReservedPages
  <2> QED BY <2>3, <2>4 DEF InRegion
<1> QED BY <1>2, <1>3, <1>5, <1>6, <1>7

\* No page is given out twice, or to a client and a list, or out of a region.
THEOREM BuddyNoOverlap == Spec => []NoOverlap
<1>1. BuddyInv => NoOverlap
  <2> SUFFICES ASSUME BuddyInv PROVE NoOverlap
    OBVIOUS
  <2> DEFINE A == Listed(free_list) \cup DOMAIN held
  <2>1. /\ Heads(order, A) /\ Listed(free_list) \cap DOMAIN held = {}
        /\ \A x \in Pages : InRegion(reserved, x) => ~Covered(order, A, x)
    BY DEF BuddyInv, Sound, Core
  <2>2. ASSUME NEW p \in A, NEW q \in A, p # q
        PROVE  Extent(p, order[p]) \cap Extent(q, order[q]) = {}
    <3>1. ASSUME NEW x \in Extent(p, order[p]), x \in Extent(q, order[q]) PROVE FALSE
      <4>1. p \in Nat /\ q \in Nat /\ order[p] \in Nat /\ order[q] \in Nat
        BY <2>1, HeadFacts
      <4>2. x \in Int /\ In(x, p, order[p]) /\ In(x, q, order[q])
        BY <3>1, <4>1, ExtentIs
      <4> QED BY <2>1, <2>2, <4>2, OneBlock
    <3> QED BY <3>1
  <2>3. ASSUME NEW b \in FreeBlocks, NEW c \in FreeBlocks, b # c
        PROVE  Extent(b[1], b[2]) \cap Extent(c[1], c[2]) = {}
    <3>1. /\ b[1] \in A /\ order[b[1]] = b[2] /\ c[1] \in A /\ order[c[1]] = c[2]
      BY PagesOf
    <3>2. b = <<b[1], b[2]>> /\ c = <<c[1], c[2]>>
      BY DEF FreeBlocks
    <3>3. b[1] # c[1]
      BY <2>3, <3>1, <3>2
    <3> HIDE DEF A
    <3>4. Extent(b[1], order[b[1]]) \cap Extent(c[1], order[c[1]]) = {}
      BY <2>2, <3>1, <3>3
    <3> QED BY <3>1, <3>4
  <2>4. ASSUME NEW x \in FreePages, x \in HeldPages PROVE FALSE
    <3>1. x \in Int /\ Covered(order, Listed(free_list), x) /\ Covered(order, DOMAIN held, x)
      BY <2>4, PagesOf
    <3>2. PICK p \in Listed(free_list) : In(x, p, order[p])
      BY <3>1 DEF Covered
    <3>3. PICK q \in DOMAIN held : In(x, q, order[q])
      BY <3>1 DEF Covered
    <3>4. p \in A /\ q \in A /\ p # q
      BY <2>1
    <3> HIDE DEF A
    <3> QED BY <2>1, <3>1, <3>2, <3>3, <3>4, OneBlock
  <2>5. ASSUME NEW x \in ReservedPages, x \in FreePages \cup HeldPages PROVE FALSE
    <3>1. x \in Pages /\ InRegion(reserved, x)
      BY PagesOf
    <3>2. Covered(order, A, x)
      BY <2>5, PagesOf DEF Covered
    <3> HIDE DEF A
    <3> QED BY <2>1, <3>1, <3>2
  <2>6. \A p, q \in DOMAIN held :
          p # q => Extent(p, order[p]) \cap Extent(q, order[q]) = {}
    BY <2>2
  <2> QED BY <2>3, <2>4, <2>5, <2>6 DEF NoOverlap
<1> QED BY <1>1, BuddyInvariant, PTL

\* A client's block has room for what it asked for, and not twice that.
THEOREM BuddyGrantFits == Spec => []GrantFits
<1>1. BuddyInv => GrantFits
  BY DEF BuddyInv
<1> QED BY <1>1, BuddyInvariant, PTL

\* Free buddies are always merged, and what is lost is whole maximal blocks.
THEOREM BuddyCoalesced == Spec => []Coalesced
<1>1. BuddyInv => Coalesced
  <2> SUFFICES ASSUME BuddyInv PROVE Coalesced
    OBVIOUS
  <2> DEFINE A == Listed(free_list) \cup DOMAIN held
             N == MAX_ORDER - 1
  <2>1. NoPairs(free_list) /\ LostWhole(order, A, reserved)
    BY DEF BuddyInv, Sound
  <2>2. ASSUME NEW b \in FreeBlocks, b[2] < N, <<get_buddy(b[1], b[2]), b[2]>> \in FreeBlocks
        PROVE  FALSE
    <3>1. b[2] \in Orders /\ b[1] \in ToSet(free_list[b[2]])
      BY DEF FreeBlocks
    <3>2. get_buddy(b[1], b[2]) \in ToSet(free_list[b[2]])
      BY <2>2 DEF FreeBlocks
    <3> QED BY <2>1, <2>2, <3>1, <3>2 DEF NoPairs
  <2>3. ASSUME NEW x PROVE x \in LostPages <=> x \in Pages /\ Lost(order, A, reserved, x)
    <3>1. x \in Pages => x \in Int
      BY MemoryFacts
    <3>2. Covered(order, A, x) <=>
              Covered(order, Listed(free_list), x) \/ Covered(order, DOMAIN held, x)
      BY DEF Covered
    <3> HIDE DEF A
    <3> QED BY <3>1, <3>2, PagesOf DEF LostPages, Lost
  <2> HIDE DEF A
  <2>4. ASSUME NEW p \in LostPages, NEW y \in Extent(BlockOf(p, N), N) PROVE y \in LostPages
    <3>1. p \in Pages /\ Lost(order, A, reserved, p) /\ N \in Orders
      BY <2>3, MemoryFacts
    <3>2. N \in Nat /\ PAGE_NUM \in Nat /\ Pages \subseteq Nat
      BY MemoryFacts
    <3> HIDE DEF N
    <3>3. BlockOf(p, N) \in Pages /\ BlockOf(p, N) + Size(N) <= PAGE_NUM
      BY <3>1, BlockOfPage
    <3>b. BlockOf(p, N) \in Int
      <4>1. BlockOf(p, N) \in Nat
        BY <3>2, <3>3, Zenon
      <4>2. \A n \in Nat : n \in Int
        OBVIOUS
      <4> QED BY <4>1, <4>2, Zenon
    <3>4. y \in Int /\ In(y, BlockOf(p, N), N)
      <4>1. PICK c : c = BlockOf(p, N)
        OBVIOUS
      <4>2. y \in Extent(c, N) /\ c \in Int
        BY <3>b, <4>1
      <4> QED BY <3>2, <4>1, <4>2, ExtentIs
    <3>5. y \in Pages
      <4>1. BlockOf(p, N) \in Nat /\ Size(N) \in Nat
        BY <3>2, <3>3, SizeFacts
      <4> QED BY <3>2, <3>3, <3>4, <4>1 DEF In, Pages
    <3>6. Lost(order, A, reserved, y)
      BY <2>1, <3>1, <3>4, <3>5 DEF LostWhole, N
    <3> QED BY <2>3, <3>5, <3>6
  <2> QED BY <2>2, <2>4 DEF Coalesced
<1> QED BY <1>1, BuddyInvariant, PTL

=============================================================================
