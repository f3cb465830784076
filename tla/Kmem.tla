-------------------------------- MODULE Kmem --------------------------------
(***************************************************************************)
(* The dynamic allocator of alloc.c: alloc and free, and the chunk caches  *)
(* (kmalloc, kfree) that cut whole pages into chunks of a power of two,    *)
(* each behind a header that links it into its cache's free list.          *)
(*                                                                         *)
(* Addresses are bytes.  A cache's free_list is the sequence of headers    *)
(* its prev/next links thread.  The page allocator (Buddy) is reduced to   *)
(* what it promises for one page: some page that nobody holds, or NULL.    *)
(*                                                                         *)
(* Clients (threads, and the timer interrupt, whose handler allocates too) *)
(* may run between any two accesses to a free_list.  A push reads its head *)
(* and links the entry before it; kmalloc reads it four times before the   *)
(* head is unlinked.  An access is stale if it rests on an earlier one     *)
(* that does not hold any more: raced says so, and what becomes of the     *)
(* lists after that is not followed.  prev, which nothing reads, is left   *)
(* out.                                                                    *)
(***************************************************************************)
EXTENDS Integers, SequencesExt

CONSTANTS
    Clients,          \* who calls alloc and free
    CACHE_NUM,        \* 4 in alloc.c
    MIN_CACHE_ORDER,  \* 4 in alloc.c
    HEADER,           \* sizeof(struct kmem_cache_entry), 16
    PAGE_SIZE,        \* 4096 in mm.h
    PageNum,          \* pages of memory, beside the reserved page 0
    MaxHeld           \* how many blocks one client holds at most

Caches == 0 .. CACHE_NUM - 1
Pages  == 1 .. PageNum
NULL   == 0

CacheSize(c) == 2 ^ (c + MIN_CACHE_ORDER)
MAX_CHUNK_SIZE == CacheSize(CACHE_NUM - 1)

ASSUME KmemAssumption ==
    /\ CACHE_NUM \in Nat \ {0} /\ MIN_CACHE_ORDER \in Nat /\ HEADER \in Nat \ {0}
    /\ PAGE_SIZE \in Nat /\ 2 * (MAX_CHUNK_SIZE + HEADER) <= PAGE_SIZE
    /\ PageNum \in Nat /\ PageNum >= CACHE_NUM
    /\ MaxHeld \in Nat

VARIABLES
    free_list,     \* kmem_caches[c].free_list
    cache_order,   \* PageInfo.cache_order
    free_pages,    \* the pages _alloc can give out
    pc,            \* per client: what it does next,
    class,         \* the cache it works on,
    pending,       \* kmalloc's entry,
    todo,          \* the entries it has to push, the first one last,
    next,          \* the next it has read, or written in the entry it pushes,
    held,          \* and the blocks <<ptr, size>> it holds
    raced          \* (history) an access was stale

vars == <<free_list, cache_order, free_pages, pc, class, pending, todo, next, held, raced>>

-----------------------------------------------------------------------------
\* Chunks per page, and the header of the j-th one.
ChunkNum(c) == PAGE_SIZE \div (CacheSize(c) + HEADER)

Entry(page, c, j) == page * PAGE_SIZE + j * (CacheSize(c) + HEADER)

\* A page's first n chunks, pushed one by one: the last one heads the list
Chunks(page, c, n) == [i \in 1 .. n |-> Entry(page, c, n - i)]

\* kmem_cache_init: the i-th cache gets a page, all of it
kmem_cache_init ==
    /\ free_list = [c \in Caches |-> Chunks(c + 1, c, ChunkNum(c))]
    /\ cache_order = [p \in Pages |->
                         IF p - 1 \in Caches THEN p - 1 + MIN_CACHE_ORDER ELSE -1]
    /\ free_pages = {p \in Pages : p - 1 \notin Caches}
    /\ pc = [t \in Clients |-> "idle"]
    /\ class = [t \in Clients |-> 0]
    /\ pending = [t \in Clients |-> NULL]
    /\ todo = [t \in Clients |-> <<>>]
    /\ next = [t \in Clients |-> NULL]
    /\ held = [t \in Clients |-> {}]
    /\ raced = FALSE

get_chunk_order(size) ==
    CHOOSE k \in MIN_CACHE_ORDER .. CACHE_NUM + MIN_CACHE_ORDER - 1 :
        size <= 2 ^ k /\ \A j \in MIN_CACHE_ORDER .. k - 1 : 2 ^ j < size

First(list) == IF list = <<>> THEN NULL ELSE Head(list)

Rest(list) == SubSeq(list, 2, Len(list))

\* t's cache's free_list
List(t) == free_list[class[t]]

\* kmalloc or kfree returns
Return(t) ==
    /\ pc' = [pc EXCEPT ![t] = "idle"]
    /\ class' = [class EXCEPT ![t] = 0]
    /\ pending' = [pending EXCEPT ![t] = NULL]
    /\ next' = [next EXCEPT ![t] = NULL]

-----------------------------------------------------------------------------
\* (mutant: cache_order is set to the cache's index)
Bug_request_page(t, c, page) ==
    /\ cache_order' = [cache_order EXCEPT ![page] = c]
    /\ free_pages' = free_pages \ {page}
    /\ todo' = [todo EXCEPT ![t] = Chunks(page, c, ChunkNum(c) - 1)]
    /\ pc' = [pc EXCEPT ![t] = "fill"]

\* (mutant: two chunks are left out)
BugWaste_request_page(t, c, page) ==
    /\ cache_order' = [cache_order EXCEPT ![page] = c + MIN_CACHE_ORDER]
    /\ free_pages' = free_pages \ {page}
    /\ todo' = [todo EXCEPT ![t] = Chunks(page, c, ChunkNum(c) - 2)]
    /\ pc' = [pc EXCEPT ![t] = "fill"]

\* request_page up to its loop, which starts at 1: one chunk less than
\* kmem_cache_init cuts from a page
request_page(t, c, page) ==
    /\ cache_order' = [cache_order EXCEPT ![page] = c + MIN_CACHE_ORDER]
    /\ free_pages' = free_pages \ {page}
    /\ todo' = [todo EXCEPT ![t] = Chunks(page, c, ChunkNum(c) - 1)]
    /\ pc' = [pc EXCEPT ![t] = "fill"]

\* kmalloc finds an entry on the free list or requests a page
kmalloc(t, size) ==
    LET c == get_chunk_order(size) - MIN_CACHE_ORDER
    IN  /\ class' = [class EXCEPT ![t] = c]
        /\ \/ /\ free_list[c] # <<>> \/ free_pages = {}
              /\ pc' = [pc EXCEPT ![t] = "entry"]
              /\ UNCHANGED <<cache_order, free_pages, todo>>
           \/ /\ free_list[c] = <<>>
              /\ \E page \in free_pages : request_page(t, c, page)
        /\ UNCHANGED <<free_list, pending, next, held, raced>>

\* It reads entry, and returns NULL if that is NULL.
KmallocEntry(t) ==
    /\ pc[t] = "entry"
    /\ IF List(t) = <<>> THEN Return(t) ELSE
          /\ pc' = [pc EXCEPT ![t] = "tmp"]
          /\ pending' = [pending EXCEPT ![t] = Head(List(t))]
          /\ UNCHANGED <<class, next>>
    /\ UNCHANGED <<free_list, cache_order, free_pages, todo, held, raced>>

\* kmem_freelist_pop reads free_list for tmp, and again
PopRead(t) ==
    /\ \/ pc[t] = "tmp" /\ pc' = [pc EXCEPT ![t] = "list"]
       \/ pc[t] = "list" /\ pc' = [pc EXCEPT ![t] = "next"]
    /\ UNCHANGED <<free_list, cache_order, free_pages, class, pending, todo, next, held,
                   raced>>

\* for its next,
PopNext(t) ==
    /\ pc[t] = "next" /\ pc' = [pc EXCEPT ![t] = "unlink"]
    /\ next' = [next EXCEPT ![t] = First(Rest(List(t)))]
    /\ UNCHANGED <<free_list, cache_order, free_pages, class, pending, todo, held, raced>>

\* (mutant: the head stays on the free list)
Bug_kmem_freelist_pop(list) == list

\* to which it sets free_list;
kmem_freelist_pop(list) == Rest(list)

\* kmalloc returns what is behind the entry.
PopUnlink(t) ==
    /\ pc[t] = "unlink" /\ Return(t)
    /\ free_list' = [free_list EXCEPT ![class[t]] = kmem_freelist_pop(@)]
    /\ held' = [held EXCEPT ![t] =
                   @ \cup {<<pending[t] + HEADER, CacheSize(class[t])>>}]
    /\ UNCHANGED <<cache_order, free_pages, todo, raced>>

\* kmem_freelist_push, in request_page's loop ("fill") and in kfree ("push"): what
\* free_list is becomes the next of the entry,
PushNext(t) ==
    /\ \/ pc[t] = "fill" /\ pc' = [pc EXCEPT ![t] = "filllink"]
       \/ pc[t] = "push" /\ pc' = [pc EXCEPT ![t] = "link"]
    /\ todo[t] # <<>>
    /\ next' = [next EXCEPT ![t] = First(List(t))]
    /\ UNCHANGED <<free_list, cache_order, free_pages, class, pending, todo, held, raced>>

\* then free_list the entry
PushLink(t) ==
    /\ \/ /\ pc[t] = "filllink"
          /\ pc' = [pc EXCEPT ![t] = IF Len(todo[t]) = 1 THEN "entry" ELSE "fill"]
          /\ next' = [next EXCEPT ![t] = NULL]
          /\ UNCHANGED <<class, pending>>
       \/ pc[t] = "link" /\ Return(t)
    /\ free_list' = [free_list EXCEPT ![class[t]] = <<Last(todo[t])>> \o @]
    /\ todo' = [todo EXCEPT ![t] = Front(@)]
    /\ UNCHANGED <<cache_order, free_pages, held, raced>>

\* _alloc for one page, from alloc (external: Buddy)
AllocPage(t) ==
    \E page \in free_pages :
        /\ free_pages' = free_pages \ {page}
        /\ held' = [held EXCEPT ![t] = @ \cup {<<page * PAGE_SIZE, PAGE_SIZE>>}]
        /\ UNCHANGED <<free_list, cache_order, pc, class, pending, todo, next, raced>>

\* alloc: a size of 0 gives NULL, a small one a chunk, any other one pages
alloc(t) ==
    \E size \in 1 .. MAX_CHUNK_SIZE + 1 :
        /\ pc[t] = "idle"
        /\ Cardinality(held[t]) < MaxHeld
        /\ IF size > MAX_CHUNK_SIZE THEN AllocPage(t) ELSE kmalloc(t, size)

\* kfree up to its push: the entry is before the block, and its cache the one of
\* the page's cache_order, if there is such a cache
kfree(t, blk) ==
    LET c == cache_order[blk[1] \div PAGE_SIZE] - MIN_CACHE_ORDER
    IN  /\ IF c \notin Caches THEN UNCHANGED <<pc, class, todo>> ELSE
              /\ pc' = [pc EXCEPT ![t] = "push"]
              /\ class' = [class EXCEPT ![t] = c]
              /\ todo' = [todo EXCEPT ![t] = <<blk[1] - HEADER>>]
        /\ free_pages' = free_pages

\* _free of one page (external: Buddy)
FreePage(t, blk) ==
    /\ free_pages' = free_pages \cup {blk[1] \div PAGE_SIZE}
    /\ UNCHANGED <<pc, class, todo>>

\* free: the page's cache_order says which allocator the block is from
free(t) ==
    \E blk \in held[t] :
        /\ pc[t] = "idle"
        /\ IF cache_order[blk[1] \div PAGE_SIZE] # -1 THEN kfree(t, blk) ELSE FreePage(t, blk)
        /\ held' = [held EXCEPT ![t] = @ \ {blk}]
        /\ UNCHANGED <<free_list, cache_order, pending, next, raced>>

-----------------------------------------------------------------------------
\* t goes on with what free_list, or the next of its head, is no more
Stale(t) ==
    \/ pc[t] \in {"tmp", "list", "next", "unlink"} /\ First(List(t)) # pending[t]
    \/ pc[t] = "unlink" /\ First(Rest(List(t))) # next[t]
    \/ pc[t] \in {"link", "filllink"} /\ First(List(t)) # next[t]

Race(t) ==
    /\ Stale(t) /\ raced' = TRUE
    /\ UNCHANGED <<free_list, cache_order, free_pages, pc, class, pending, todo, next, held>>

Step(t) ==
    \/ alloc(t) \/ free(t) \/ KmallocEntry(t) \/ PopRead(t) \/ PopNext(t)
    \/ PopUnlink(t) \/ PushNext(t) \/ PushLink(t)

Next == ~raced /\ \E t \in Clients : Race(t) \/ (~Stale(t) /\ Step(t))

Spec == kmem_cache_init /\ [][Next]_vars

-----------------------------------------------------------------------------
\* The bytes of a block a client holds, with its header if it has one, and
\* those of a chunk with its header
HeldBytes(blk) == (IF blk[2] < PAGE_SIZE THEN blk[1] - HEADER ELSE blk[1])
                      .. blk[1] + blk[2] - 1

FreeBytes(c, e) == e .. e + HEADER + CacheSize(c) - 1

\* Blocks held, chunks on the free lists and chunks that a client is to push
AllHeld == UNION {{<<t, blk>> : blk \in held[t]} : t \in Clients}

AllFree == UNION {{<<c, e>> : e \in ToSet(free_list[c])} : c \in Caches}

AllTodo == UNION {{<<t, e>> : e \in ToSet(todo[t])} : t \in Clients}

\* Type correctness of the caches, page_list and the clients' blocks.
TypeOK ==
    /\ free_list \in [Caches -> Seq(Nat)]
    /\ cache_order \in [Pages -> {-1} \cup
                          (MIN_CACHE_ORDER .. CACHE_NUM + MIN_CACHE_ORDER - 1)]
    /\ free_pages \subseteq Pages
    /\ pc \in [Clients -> {"idle", "entry", "tmp", "list", "next", "unlink",
                            "fill", "filllink", "push", "link"}]
    /\ class \in [Clients -> Caches]
    /\ pending \in [Clients -> Nat] /\ next \in [Clients -> Nat]
    /\ todo \in [Clients -> Seq(Nat)]
    /\ held \in [Clients -> SUBSET (Nat \X Nat)]
    /\ raced \in BOOLEAN

\* No byte belongs to two blocks, wherever the clients preempt each other inside
\* kmalloc, request_page and kfree, as long as no access to a free list is stale:
\* the blocks they hold (with their headers), the chunks on the free lists, those
\* on their way there and the free pages are disjoint, and a block stays inside
\* its page.
NoOverlap ==
    ~raced =>
    LET Bytes(x) == FreeBytes(x[1], x[2])
        TodoBytes(x) == FreeBytes(class[x[1]], x[2])
    IN  /\ \A x, y \in AllHeld : x # y => HeldBytes(x[2]) \cap HeldBytes(y[2]) = {}
        /\ \A x, y \in AllFree : x # y => Bytes(x) \cap Bytes(y) = {}
        /\ \A x, y \in AllTodo : x # y => TodoBytes(x) \cap TodoBytes(y) = {}
        /\ \A x \in AllHeld, y \in AllFree : HeldBytes(x[2]) \cap Bytes(y) = {}
        /\ \A x \in AllHeld, y \in AllTodo : HeldBytes(x[2]) \cap TodoBytes(y) = {}
        /\ \A x \in AllTodo, y \in AllFree : TodoBytes(x) \cap Bytes(y) = {}
        /\ \A x \in AllHeld : \A b \in HeldBytes(x[2]) : b \div PAGE_SIZE \notin free_pages
        /\ \A x \in AllHeld : Cardinality({b \div PAGE_SIZE : b \in HeldBytes(x[2])}) = 1

\* A freed chunk goes back to the cache it came from: every free chunk lies in
\* a page of its cache and at a chunk boundary of that page, and every chunk a
\* client holds in a page of a cache of its size.  free() trusts cache_order.
\* The state is well typed.
RightCache ==
    /\ TypeOK
    /\ \A x \in AllFree :
          /\ cache_order[x[2] \div PAGE_SIZE] = x[1] + MIN_CACHE_ORDER
          /\ (x[2] % PAGE_SIZE) % (CacheSize(x[1]) + HEADER) = 0
    /\ \A x \in AllHeld :
          LET k == cache_order[x[2][1] \div PAGE_SIZE]
          IN  IF k = -1 THEN x[2][2] = PAGE_SIZE ELSE x[2][2] = 2 ^ k

\* No chunk leaks, as long as no access to a free list is stale: of a page's chunks
\* at most one, the one request_page leaves out, is neither free nor held nor on
\* its way to the free list.
ChunksKept ==
    ~raced => \A p \in Pages : cache_order[p] # -1 =>
        LET c == cache_order[p] - MIN_CACHE_ORDER
            inPage(e) == e \div PAGE_SIZE = p
        IN  Cardinality({x \in AllFree : inPage(x[2])})
              + Cardinality({x \in AllTodo : inPage(x[2])})
              + Cardinality({x \in AllHeld : inPage(x[2][1])}) >= ChunkNum(c) - 1
=============================================================================
