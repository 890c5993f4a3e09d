-------------------------------- MODULE Heap --------------------------------
(***************************************************************************)
(* The heap as start-up leaves it (mm/mem.c): how many pages there are and *)
(* in which blocks (init_page_map), and which slabs kmalloc_init cuts out  *)
(* of them for its caches (find_right_order).  Buddy and KmemCache show    *)
(* what happens to pages and objects; here the numbers are the real ones,  *)
(* and a free list is the number of its blocks.                            *)
(***************************************************************************)
EXTENDS Integers, FiniteSets

PageSize == 4096
StructPage == 24          \* sizeof(struct page)
BuddyMaxOrder == 8
Orders == 0..BuddyMaxOrder
MB == 1024 * 1024

\* KERNEL_PAGE_NUM of a heap of mb megabytes: pages and their structures fit in it.
PageNum(mb) == (mb * MB) \div (PageSize + StructPage)

\* init_page_map: blocks of the largest order, and the remainder in single pages.
InitialBlocks(mb) ==
  [o \in Orders |-> CASE o = BuddyMaxOrder -> PageNum(mb) \div 2^BuddyMaxOrder
                      [] o = 0 -> PageNum(mb) % 2^BuddyMaxOrder
                      [] OTHER -> 0]

PagesIn(blocks) ==
  LET sum[o \in Orders] == blocks[o] * 2^o + (IF o = 0 THEN 0 ELSE sum[o - 1])
  IN  sum[BuddyMaxOrder]

\* get_pages_from_list: the first order that has a block; what is split off goes to
\* the orders below.
Serving(blocks, order) == {o \in order..BuddyMaxOrder : blocks[o] > 0}
GetPages(blocks, order) ==
  LET from == CHOOSE o \in Serving(blocks, order) : \A p \in Serving(blocks, order) : o <= p
  IN  [o \in Orders |-> IF o = from THEN blocks[o] - 1
                        ELSE IF o \in order..(from - 1) THEN blocks[o] + 1
                        ELSE blocks[o]]

KmemCacheMaxOrder == 5
KmemCacheMaxWast == PageSize - (90 * PageSize) \div 100
NoOrder == -1

\* Mutant: the loop ends one order early.
FindRightOrderShort(size) ==
  LET fits == {o \in 0..(KmemCacheMaxOrder - 1) : size <= KmemCacheMaxWast * 2^o}
  IN  IF fits # {} THEN CHOOSE o \in fits : \A p \in fits : o <= p
      ELSE IF size > 2^KmemCacheMaxOrder THEN NoOrder ELSE KmemCacheMaxOrder

\* find_right_order: the smallest slab an object is no more than a tenth of; the
\* test behind the loop compares the size with a number of pages.
FindRightOrder(size) ==
  LET fits == {o \in 0..KmemCacheMaxOrder : size <= KmemCacheMaxWast * 2^o}
  IN  IF fits # {} THEN CHOOSE o \in fits : \A p \in fits : o <= p
      ELSE IF size > 2^(KmemCacheMaxOrder + 1) THEN NoOrder ELSE KmemCacheMaxOrder + 1

KmallocMaxSize == 8192
KmallocBias == 32
KmallocCacheSize == KmallocMaxSize \div KmallocBias
SlabOrder(i) == FindRightOrder(i * KmallocBias)

\* Whether kmem_cache_create succeeds for the i-th of kmalloc's caches.
CanCreate(blocks, i) == SlabOrder(i) # NoOrder /\ Serving(blocks, SlabOrder(i)) # {}

\* The pages of the slabs that the first n caches are created with.
SlabPages(n) == PagesIn([o \in Orders |-> Cardinality({i \in 1..n : SlabOrder(i) = o})])
=============================================================================
