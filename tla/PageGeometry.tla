---------------------------- MODULE PageGeometry ----------------------------
(***************************************************************************)
(* The kernel heap as mm/mem.c cuts it up: NPages page frames, numbered    *)
(* from 0, handed out in blocks of 2^o contiguous pages, 0 <= o <=         *)
(* MaxOrder.  Shared by the abstract allocator and by the buddy system.    *)
(***************************************************************************)
EXTENDS Integers

CONSTANTS
  NPages,     \* KERNEL_PAGE_NUM: page frames in the heap
  MaxOrder,   \* BUDDY_MAX_ORDER: the largest order of a block
  Size,       \* Size[o] is 1 << o, the number of pages in a block of order o
  NULL        \* what a failed allocation returns, neither a page nor an answer

ASSUME GeometryAssumption ==
  /\ NPages \in Nat \ {0}
  /\ MaxOrder \in Nat
  /\ Size \in [0..MaxOrder -> Nat \ {0}]
  /\ Size[0] = 1
  /\ \A o \in 0..(MaxOrder - 1) : Size[o + 1] = 2 * Size[o]
  /\ \A o \in 0..MaxOrder : Size[o] <= Size[MaxOrder]
  /\ NULL \notin Int \cup [asked : 0..MaxOrder, page : 0..(NPages - 1)]

Pages  == 0..(NPages - 1)
Orders == 0..MaxOrder

\* The pages of the block of order o whose first page is p
\* (BUDDY_END, the last of them, is p + Size[o] - 1).
Block(p, o) == p..(p + Size[o] - 1)

\* What a call of alloc_pages gives its caller: a first page or NULL, together
\* with the order asked for.  NULL by itself: no call since the last free.
Answers == [asked : Orders, page : Pages \cup {NULL}] \cup {NULL}

NotHeld == -1

\* The pages inside the blocks that callers hold: held[p] is the order of the
\* block that starts at p, NotHeld when no caller holds such a block.
HeldPages(held) ==
  {i \in Pages : \E p \in Pages : held[p] # NotHeld /\ i \in Block(p, held[p])}
=============================================================================
