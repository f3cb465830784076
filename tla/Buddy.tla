------------------------------- MODULE Buddy -------------------------------
(***************************************************************************)
(* The page allocator of mm.c: a binary buddy system over page_list, with  *)
(* one free list per order.                                                *)
(*                                                                         *)
(* A free list is the sequence of page indices that its prev/next links    *)
(* thread (an entry that is in no list has both links NULL, so unlinking   *)
(* it changes nothing).  entry_in_list, which is NULL or the page's own    *)
(* entry, is a Boolean.  memory_start is 0, so page 0 has address NULL.    *)
(* main() first reserves the boot regions, then clients allocate and free. *)
(* MAX_ORDER, PAGE_SIZE and the number of maximal blocks are parameters.   *)
(***************************************************************************)
EXTENDS Integers, SequencesExt

CONSTANTS
    MAX_ORDER,    \* 14 in mm.h
    PAGE_SIZE,    \* 4096 in mm.h
    MaxBlocks,    \* PAGE_NUM / MAX_BLOCK_SIZE, 30 in mm.h
    Regions,      \* page ranges <<first, last>> main() may reserve
    MaxRegions    \* how many it reserves at most, after page 0

MAX_BLOCK_SIZE == 2 ^ (MAX_ORDER - 1)
MAX_ALLOC_SIZE == PAGE_SIZE * MAX_BLOCK_SIZE
PAGE_NUM == MaxBlocks * MAX_BLOCK_SIZE

Orders == 0 .. MAX_ORDER - 1
Pages  == 0 .. PAGE_NUM - 1

ASSUME BuddyAssumption ==
    /\ MAX_ORDER \in Nat \ {0} /\ PAGE_SIZE \in Nat \ {0}
    /\ MaxBlocks \in Nat \ {0} /\ MaxRegions \in Nat
    /\ \A r \in Regions : r \in Pages \X Pages /\ r[1] <= r[2]

VARIABLES
    free_list,   \* [Orders -> Seq(Pages)]
    order,       \* PageInfo.order
    entry,       \* PageInfo.entry_in_list # NULL
    reserved,    \* the page ranges reserve() was called for
    booted,      \* main() has made its reserve() calls
    held         \* the blocks clients hold: page |-> the size they asked for

vars == <<free_list, order, entry, reserved, booted, held>>

-----------------------------------------------------------------------------
\* Helpers of mm.c
round(size) ==
    IF size % PAGE_SIZE = 0 THEN size ELSE (size \div PAGE_SIZE + 1) * PAGE_SIZE

\* (mutant: rounds down to a power of two)
Bug_get_order(size) ==
    CHOOSE k \in Orders : 2 ^ k <= size \div PAGE_SIZE /\ size \div PAGE_SIZE < 2 ^ (k + 1)

get_order(size) ==
    CHOOSE k \in Orders : /\ size \div PAGE_SIZE <= 2 ^ k
                       /\ \A j \in 0 .. k - 1 : 2 ^ j < size \div PAGE_SIZE

\* idx ^ (1 << k)
get_buddy(idx, k) == IF (idx \div 2 ^ k) % 2 = 0 THEN idx + 2 ^ k ELSE idx - 2 ^ k

\* The first page of the order-k block that holds page idx
BlockOf(idx, k) == idx - (idx % (2 ^ k))

Extent(idx, k) == idx .. idx + 2 ^ k - 1

(***************************************************************************)
(* The allocator's tables as one record, so that the loops of reserve()    *)
(* are functions from tables to tables.                                    *)
(***************************************************************************)
Tables == [free_list |-> free_list, order |-> order, entry |-> entry]

add_to_free_list(m, idx, k) == [m EXCEPT !.free_list[k] = <<idx>> \o @]

\* The free list q once the pages in gone are unlinked
Without(q, gone) ==
    LET kept[i \in 0 .. Len(q)] ==
            IF i = 0 THEN <<>>
            ELSE IF q[i] \in gone THEN kept[i - 1] ELSE Append(kept[i - 1], q[i])
    IN  kept[Len(q)]

rm_from_free_list(m, idx, k) == [m EXCEPT !.free_list[k] = Without(@, {idx})]

\* Page idx heads a free block of order k
Insert(m, idx, k) ==
    [add_to_free_list(m, idx, k) EXCEPT !.order[idx] = k, !.entry[idx] = TRUE]

SetTables(m) ==
    /\ free_list' = m.free_list
    /\ order' = m.order
    /\ entry' = m.entry

-----------------------------------------------------------------------------
\* mm_init: every maximal block on the last list, pushed in ascending order
mm_init ==
    /\ free_list = [k \in Orders |->
            IF k # MAX_ORDER - 1 THEN <<>>
            ELSE [i \in 1 .. MaxBlocks |-> (MaxBlocks - i) * MAX_BLOCK_SIZE]]
    /\ order = [p \in Pages |-> IF p % MAX_BLOCK_SIZE = 0 THEN MAX_ORDER - 1 ELSE 0]
    /\ entry = [p \in Pages |-> p % MAX_BLOCK_SIZE = 0]
    /\ reserved = {}
    /\ booted = FALSE
    /\ held = [p \in {} |-> 0]

\* split: the block leaves its list, its halves enter the next lower one
split(m, idx, k) ==
    Insert(Insert(rm_from_free_list(m, idx, k), idx, k - 1),
           get_buddy(idx, k - 1), k - 1)

\* reserve, first loop at one order: split the blocks that hold the two ends
SplitEnds(m, first, last, k) ==
    LET s == BlockOf(first, k)
        e == BlockOf(last, k)
        m1 == IF m.order[s] = k THEN split(m, s, k) ELSE m
    IN  IF e # s /\ m1.order[e] = k THEN split(m1, e, k) ELSE m1

\* ... from the highest order down to 1
SplitAll(first, last) ==
    LET m[k \in Orders] == IF k = MAX_ORDER - 1 THEN Tables
                           ELSE SplitEnds(m[k + 1], first, last, k + 1)
    IN  m[0]

\* reserve, second loop: the pages visited, each step the size of a block
Visited(m, first, last) ==
    LET from[i \in 0 .. PAGE_NUM] ==
            IF i > last THEN {} ELSE {i} \cup from[i + 2 ^ m.order[i]]
    IN  from[first]

\* (mutant: the split blocks stay on the free lists)
Bug_reserve(first, last) == SetTables(SplitAll(first, last))

reserve(first, last) ==
    LET m == SplitAll(first, last)
        taken == {i \in Visited(m, first, last) : m.entry[i]}
    IN  SetTables([m EXCEPT
            !.free_list = [k \in Orders |->
                Without(@[k], {i \in taken : m.order[i] = k})],
            !.entry = [p \in Pages |-> @[p] /\ p \notin taken]])

\* main: page 0 first, then the kernel image, the initramfs, the device tree.
\* Regions may share a page at their ends, and overlap nowhere else.
Apart(r, q) == r[2] < q[1] \/ q[2] < r[1] \/ r[2] = q[1] \/ q[2] = r[1]

Reserve ==
    \E r \in IF reserved = {} THEN {<<0, 0>>} ELSE Regions :
        /\ ~booted
        /\ r \notin reserved /\ \A q \in reserved : Apart(r, q)
        /\ reserve(r[1], r[2])
        /\ reserved' = reserved \cup {r}
        /\ booted' \in {b \in BOOLEAN : b \/ Cardinality(reserved) < MaxRegions}
        /\ UNCHANGED held

-----------------------------------------------------------------------------
\* (mutant: the block is not unlinked from the list it is found on)
Bug_Take(i, k) ==
    LET b == Head(free_list[i])
    IN  /\ order' = [order EXCEPT ![b] = k]
        /\ entry' = [entry EXCEPT ![b] = FALSE]
        /\ free_list' = free_list

\* _alloc with the first block of list i for a request of order k: the upper
\* halves are put back, one on each list from i - 1 down to k
Take(i, k) ==
    LET b == Head(free_list[i])
        halves == {b + 2 ^ j : j \in k .. i - 1}
    IN  /\ free_list' = [j \in Orders |->
              CASE j = i -> Tail(free_list[j])
                [] k <= j /\ j < i -> <<b + 2 ^ j>> \o free_list[j]
                [] OTHER -> free_list[j]]
        /\ order' = [p \in Pages |->
              CASE p = b -> k
                [] p \in halves -> CHOOSE j \in k .. i - 1 : p = b + 2 ^ j
                [] OTHER -> order[p]]
        /\ entry' = [p \in Pages |-> p \in halves \/ (entry[p] /\ p # b)]

\* _alloc: the smallest non-empty list of at least the order asked for.  A
\* size of 0, one above MAX_ALLOC_SIZE, or no such list gives NULL.
_alloc(size) ==
    LET k == get_order(round(size))
        fits == {i \in k .. MAX_ORDER - 1 : free_list[i] # <<>>}
    IN  /\ size # 0 /\ size <= MAX_ALLOC_SIZE
        /\ fits # {}
        /\ Take(Min(fits), k)
        /\ held' = [p \in DOMAIN held \cup {Head(free_list[Min(fits)])} |->
                       IF p \in DOMAIN held THEN held[p] ELSE size]
        /\ UNCHANGED <<reserved, booted>>

\* (mutant: a buddy of any order is merged)
Bug_StopOrder(idx, k) ==
    Min({j \in k .. MAX_ORDER - 1 :
            j = MAX_ORDER - 1 \/ ~entry[get_buddy(BlockOf(idx, j), j)]})

\* The order at which _free stops merging the block of order k that holds idx
StopOrder(idx, k) ==
    Min({j \in k .. MAX_ORDER - 1 :
            \/ j = MAX_ORDER - 1
            \/ LET buddy == get_buddy(BlockOf(idx, j), j)
               IN  ~(entry[buddy] /\ order[buddy] = j)})

\* _free: the block merges with its free buddies up to order m; the merged
\* block enters list m, unless m is the highest order, where the loop ends
\* before anything is put on a list.
_free(idx) ==
    LET k == order[idx]
        m == StopOrder(idx, k)
        head == BlockOf(idx, m)
        buddies == {get_buddy(BlockOf(idx, j), j) : j \in k .. m - 1}
        merged == (buddies \cup {idx}) \ {head}
        listed == m < MAX_ORDER - 1
    IN  /\ ~entry[idx]
        /\ free_list' = [j \in Orders |->
              CASE k <= j /\ j < m -> Without(free_list[j], {get_buddy(BlockOf(idx, j), j)})
                [] j = m /\ listed -> <<head>> \o free_list[j]
                [] OTHER -> free_list[j]]
        /\ order' = [p \in Pages |->
              IF p = head THEN m ELSE IF p \in merged THEN -1 ELSE order[p]]
        /\ entry' = [p \in Pages |->
              IF p = head THEN entry[p] \/ listed ELSE entry[p] /\ p \notin merged]
        /\ held' = [p \in DOMAIN held \ {idx} |-> held[p]]
        /\ UNCHANGED <<reserved, booted>>

Alloc == \E size \in 0 .. MAX_ALLOC_SIZE + 1 : booted /\ _alloc(size)

\* Clients free what they hold.  free() drops a NULL pointer: page 0.
Free == \E idx \in DOMAIN held : idx # 0 /\ _free(idx)

Next == Reserve \/ Alloc \/ Free

Spec == mm_init /\ [][Next]_vars

-----------------------------------------------------------------------------
FreeBlocks == {b \in Pages \X Orders : b[1] \in ToSet(free_list[b[2]])}

FreePages == UNION {Extent(b[1], b[2]) : b \in FreeBlocks}

HeldPages == UNION {Extent(p, order[p]) : p \in DOMAIN held}

ReservedPages == UNION {r[1] .. r[2] : r \in reserved}

\* Pages the allocator can never hand out again
LostPages == Pages \ (FreePages \cup HeldPages \cup ReservedPages)

\* Type correctness of page_list, the free lists and the clients' blocks.
TypeOK ==
    /\ free_list \in [Orders -> Seq(Pages)]
    /\ order \in [Pages -> -1 .. MAX_ORDER - 1]
    /\ entry \in [Pages -> BOOLEAN]
    /\ reserved \subseteq Regions \cup {<<0, 0>>}
    /\ booted \in BOOLEAN
    /\ DOMAIN held \subseteq Pages

\* What the free lists and page_list say agree: the state is well typed, a
\* listed block is listed once, on the list of its order, aligned to it, and its
\* entry_in_list is set.  _free trusts order and entry_in_list to decide which
\* buddy it may unlink.
ListsAgree ==
    /\ TypeOK
    /\ \A k \in Orders :
          /\ IsInjective(free_list[k])
          /\ \A p \in ToSet(free_list[k]) :
                entry[p] /\ order[p] = k /\ p = BlockOf(p, k)

\* No page belongs to two free blocks, to a free block and a client's block or
\* a reserved region, or to two clients: splitting, merging and reserving
\* never give out a page twice.  Page 0, whose address is NULL, is reserved.
NoOverlap ==
    /\ \A b, c \in FreeBlocks : b # c => Extent(b[1], b[2]) \cap Extent(c[1], c[2]) = {}
    /\ \A p, q \in DOMAIN held :
          p # q => Extent(p, order[p]) \cap Extent(q, order[q]) = {}
    /\ FreePages \cap HeldPages = {}
    /\ ReservedPages \cap (FreePages \cup HeldPages) = {}

\* A block is large enough for the size it was asked for, and not twice that.
GrantFits ==
    \A p \in DOMAIN held :
        /\ held[p] <= PAGE_SIZE * 2 ^ order[p]
        /\ order[p] > 0 => PAGE_SIZE * 2 ^ (order[p] - 1) < held[p]

\* _free merges all it can and loses as little as its loop's end does: two free
\* buddies of one order, below the highest, never stay apart, and what leaks from
\* the lists is always a whole block of the highest order, whatever the order of
\* allocations and frees.
Coalesced ==
    /\ \A b \in FreeBlocks :
          b[2] < MAX_ORDER - 1 => <<get_buddy(b[1], b[2]), b[2]>> \notin FreeBlocks
    /\ \A p \in LostPages :
          Extent(BlockOf(p, MAX_ORDER - 1), MAX_ORDER - 1) \subseteq LostPages
=============================================================================
