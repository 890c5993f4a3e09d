------------------------------- MODULE Buddy -------------------------------
(***************************************************************************)
(* The buddy system of mm/mem.c at the level of struct page: the flags and *)
(* the order field of every page structure and, per order, the list of     *)
(* free blocks.  One action is one iteration of the loops of               *)
(* get_pages_from_list and put_pages_to_list, so that what a merge sees    *)
(* halfway through a call is part of the model.  One call runs at a time.  *)
(*                                                                         *)
(* A list is a sequence of first pages; the chain of page structures that  *)
(* spells a block out in the list is BuddyLinks' business.                 *)
(*                                                                         *)
(* put_pages_to_list looks at the neighbours pg + 2^o and pg - 2^o without *)
(* asking whether the array of page structures reaches that far.  Descs    *)
(* therefore extends the array on both sides, and OutsideDescs is what the *)
(* memory there may read as.                                               *)
(***************************************************************************)
EXTENDS PageGeometry, Sequences

CONSTANT OutsideDescs   \* the [busy, order] a non-existent page may show

ASSUME OutsideAssumption == OutsideDescs \subseteq [busy : BOOLEAN, order : Int]

\* Nothing outside the array passes for a free block.
QuietOutside == \A d \in OutsideDescs : d.busy \/ d.order \notin Orders

VARIABLES
  free,    \* page_buddy[o]: first pages of the free blocks of order o
  order,   \* order field of each page structure, -1 inside a block
  busy,    \* PAGE_BUDDY_BUSY flag of each page structure
  dirty,   \* the pages whose PAGE_DIRTY flag is set
  held,    \* the blocks callers hold, as PageAllocator has it
  ret,     \* the answer of the last alloc_pages call
  pc,      \* "idle", or the loop the running call is in
  cur,     \* pg: first page of the block in hand
  ord,     \* neworder / order: its order
  want     \* the order get_pages_from_list was asked for

vars == <<free, order, busy, dirty, held, ret, pc, cur, ord, want>>

\* The page structures the loops can address, the outside ones included.
Descs  == (-Size[MaxOrder])..(NPages + Size[MaxOrder])
Beyond == Descs \ Pages

\* init_page_map makes WholeBlocks blocks of the largest order and leaves the
\* remaining pages as blocks of one page.
WholeBlocks == NPages \div Size[MaxOrder]
InMaxBlocks == 0..(WholeBlocks * Size[MaxOrder] - 1)

InitOrder(p) ==
  IF p \notin InMaxBlocks THEN 0
  ELSE IF p % Size[MaxOrder] = 0 THEN MaxOrder ELSE -1

\* The blocks init_page_map queues in page_buddy[o], in address order.
InitFree(o) ==
  IF o = MaxOrder THEN [i \in 1..WholeBlocks |-> (i - 1) * Size[MaxOrder]]
  ELSE IF o = 0
  THEN [i \in 1..(NPages % Size[MaxOrder]) |-> WholeBlocks * Size[MaxOrder] + i - 1]
  ELSE <<>>

Init ==
  /\ free = [o \in Orders |-> InitFree(o)]
  /\ \E out \in [Beyond -> OutsideDescs] :
       /\ order = [d \in Descs |-> IF d \in Pages THEN InitOrder(d) ELSE out[d].order]
       /\ busy = [d \in Descs |-> IF d \in Pages THEN FALSE ELSE out[d].busy]
  /\ dirty = {}
  /\ held = [p \in Pages |-> NotHeld]
  /\ ret = NULL
  /\ pc = "idle"
  /\ cur = 0
  /\ ord = 0
  /\ want = 0

-----------------------------------------------------------------------------
\* list_remove_chain of the block that starts at p: the list without it.
Without(s, p) ==
  IF \E j \in 1..Len(s) : s[j] = p
  THEN LET k == CHOOSE j \in 1..Len(s) : s[j] = p
       IN  [j \in 1..(Len(s) - 1) |-> IF j < k THEN s[j] ELSE s[j + 1]]
  ELSE s

\* get_pages_from_list: the first block of the first non-empty list at or
\* above order o leaves its list and is in hand.
GetStart(o) ==
  /\ pc = "idle"
  /\ \E n \in o..MaxOrder :
       /\ free[n] # <<>>
       /\ \A m \in o..(n - 1) : free[m] = <<>>
       /\ cur' = Head(free[n])
       /\ free' = [free EXCEPT ![n] = Tail(@)]
       /\ ord' = n
  /\ want' = o
  /\ pc' = "split"
  /\ UNCHANGED <<order, busy, dirty, held, ret>>

\* Mutant: the scan stops at the last order but one.
GetFailEarly(o) ==
  /\ pc = "idle"
  /\ \A n \in o..(MaxOrder - 1) : free[n] = <<>>
  /\ ret' = [asked |-> o, page |-> NULL]
  /\ UNCHANGED <<free, order, busy, dirty, held, pc, cur, ord, want>>

\* No list has a block of order o or more: NULL.
GetFail(o) ==
  /\ pc = "idle"
  /\ \A n \in o..MaxOrder : free[n] = <<>>
  /\ ret' = [asked |-> o, page |-> NULL]
  /\ UNCHANGED <<free, order, busy, dirty, held, pc, cur, ord, want>>

\* Mutant: the next half is looked for one block further on.
SplitTooFar ==
  /\ pc = "split"
  /\ ord > want
  /\ order' = [order EXCEPT ![cur] = ord - 1]
  /\ free' = [free EXCEPT ![ord - 1] = Append(@, cur)]
  /\ cur' = cur + Size[ord]
  /\ ord' = ord - 1
  /\ UNCHANGED <<busy, dirty, held, ret, pc, want>>

\* Mutant: the half that is not kept is not queued.
SplitDropsHalf ==
  /\ pc = "split"
  /\ ord > want
  /\ order' = [order EXCEPT ![cur] = ord - 1]
  /\ cur' = cur + Size[ord - 1]
  /\ ord' = ord - 1
  /\ UNCHANGED <<free, busy, dirty, held, ret, pc, want>>

\* Mutant: the lower half is as small as the block asked for.
SplitAtWanted ==
  /\ pc = "split"
  /\ ord > want
  /\ order' = [order EXCEPT ![cur] = ord - 1]
  /\ free' = [free EXCEPT ![ord - 1] = Append(@, cur)]
  /\ cur' = cur + Size[want]
  /\ ord' = ord - 1
  /\ UNCHANGED <<busy, dirty, held, ret, pc, want>>

\* The OUT_OK loop: the lower half is queued at the tail, the upper half kept.
Split ==
  /\ pc = "split"
  /\ ord > want
  /\ order' = [order EXCEPT ![cur] = ord - 1]
  /\ free' = [free EXCEPT ![ord - 1] = Append(@, cur)]
  /\ cur' = cur + Size[ord - 1]
  /\ ord' = ord - 1
  /\ UNCHANGED <<busy, dirty, held, ret, pc, want>>

\* The block in hand has the order asked for: it is marked and returned, and
\* alloc_pages flags its pages.
GetDone ==
  /\ pc = "split"
  /\ ord = want
  /\ busy' = [busy EXCEPT ![cur] = TRUE]
  /\ order' = [order EXCEPT ![cur] = want]
  /\ dirty' = dirty \cup Block(cur, want)
  /\ held' = [held EXCEPT ![cur] = want]
  /\ ret' = [asked |-> want, page |-> cur]
  /\ pc' = "idle"
  /\ UNCHANGED <<free, cur, ord, want>>

-----------------------------------------------------------------------------
\* Mutant: only the first page loses its PAGE_DIRTY flag.
PutStartOnePage(p) ==
  /\ pc = "idle"
  /\ held[p] # NotHeld
  /\ busy[p]
  /\ dirty' = dirty \ {p}
  /\ busy' = [busy EXCEPT ![p] = FALSE]
  /\ held' = [held EXCEPT ![p] = NotHeld]
  /\ cur' = p
  /\ ord' = held[p]
  /\ pc' = "merge"
  /\ ret' = NULL
  /\ UNCHANGED <<free, order, want>>

\* free_pages of a block its caller holds, with the order it was asked for:
\* the PAGE_DIRTY flags go, then PAGE_BUDDY_BUSY.
PutStart(p) ==
  /\ pc = "idle"
  /\ held[p] # NotHeld
  /\ busy[p]
  /\ dirty' = dirty \ Block(p, held[p])
  /\ busy' = [busy EXCEPT ![p] = FALSE]
  /\ held' = [held EXCEPT ![p] = NotHeld]
  /\ cur' = p
  /\ ord' = held[p]
  /\ pc' = "merge"
  /\ ret' = NULL
  /\ UNCHANGED <<free, order, want>>

\* Mutant: the early return is missing, the page is freed all the same.
PutUnchecked(p, o) ==
  /\ pc = "idle"
  /\ ~busy[p]
  /\ order[p] = o
  /\ Block(p, o) \subseteq Pages
  /\ dirty' = dirty \ Block(p, o)
  /\ cur' = p
  /\ ord' = o
  /\ pc' = "merge"
  /\ UNCHANGED <<free, order, busy, held, ret, want>>

\* free_pages of a page that is not the first page of a held block (a second
\* free, or an address inside a block): put_pages_to_list prints its message
\* and returns, after free_pages has cleared the PAGE_DIRTY flags.
PutRefused(p, o) ==
  /\ pc = "idle"
  /\ ~busy[p]
  /\ Block(p, o) \subseteq Pages
  /\ dirty' = dirty \ Block(p, o)
  /\ UNCHANGED <<free, order, busy, held, ret, pc, cur, ord, want>>

\* What the merge loop takes for a free block of order o starting at d.
LooksFree(d, o) == ~busy[d] /\ order[d] = o

NextBuddy == cur + Size[ord]
PrevBuddy == cur - Size[ord]

CanMergeNext == ord < MaxOrder /\ LooksFree(NextBuddy, ord)
CanMergePrev == ord < MaxOrder /\ ~CanMergeNext /\ LooksFree(PrevBuddy, ord)

\* Mutant: the absorbed block stays in its list.
MergeNextStillQueued ==
  /\ pc = "merge"
  /\ CanMergeNext
  /\ order' = [order EXCEPT ![cur] = @ + 1, ![NextBuddy] = -1]
  /\ ord' = ord + 1
  /\ UNCHANGED <<free, busy, dirty, held, ret, pc, cur, want>>

MergeNext ==
  /\ pc = "merge"
  /\ CanMergeNext
  /\ order' = [order EXCEPT ![cur] = @ + 1, ![NextBuddy] = -1]
  /\ free' = [free EXCEPT ![ord] = Without(@, NextBuddy)]
  /\ ord' = ord + 1
  /\ UNCHANGED <<busy, dirty, held, ret, pc, cur, want>>

\* Mutant: the first page of the upper half keeps its order.
MergePrevKeepsOrder ==
  /\ pc = "merge"
  /\ CanMergePrev
  /\ order' = [order EXCEPT ![PrevBuddy] = @ + 1]
  /\ free' = [free EXCEPT ![ord] = Without(@, PrevBuddy)]
  /\ cur' = PrevBuddy
  /\ ord' = ord + 1
  /\ UNCHANGED <<busy, dirty, held, ret, pc, want>>

MergePrev ==
  /\ pc = "merge"
  /\ CanMergePrev
  /\ order' = [order EXCEPT ![cur] = -1, ![PrevBuddy] = @ + 1]
  /\ free' = [free EXCEPT ![ord] = Without(@, PrevBuddy)]
  /\ cur' = PrevBuddy
  /\ ord' = ord + 1
  /\ UNCHANGED <<busy, dirty, held, ret, pc, want>>

\* Neither neighbour combines: the block goes to the head of its list.
PutDone ==
  /\ pc = "merge"
  /\ ~CanMergeNext
  /\ ~CanMergePrev
  /\ free' = [free EXCEPT ![order[cur]] = <<cur>> \o @]
  /\ pc' = "idle"
  /\ UNCHANGED <<order, busy, dirty, held, ret, cur, ord, want>>

Next ==
  \/ \E o \in Orders : GetStart(o)
  \/ \E o \in Orders : GetFail(o)
  \/ \E p \in Pages : PutStart(p)
  \/ \E p \in Pages, o \in Orders : PutRefused(p, o)
  \/ Split
  \/ GetDone
  \/ MergeNext
  \/ MergePrev
  \/ PutDone

Spec == Init /\ [][Next]_vars

-----------------------------------------------------------------------------
\* The type invariant.
TypeOK ==
  /\ free \in [Orders -> Seq(Pages)]
  /\ order \in [Descs -> Int]
  /\ busy \in [Descs -> BOOLEAN]
  /\ dirty \subseteq Pages
  /\ held \in [Pages -> Orders \cup {NotHeld}]
  /\ ret \in Answers
  /\ pc \in {"idle", "split", "merge"}
  /\ cur \in Pages
  /\ ord \in Orders
  /\ want \in Orders

\* The blocks there are: queued ones, held ones and the one in hand.
InList(p, o) == \E j \in 1..Len(free[o]) : free[o][j] = p
IsBlock(p, o) ==
  \/ InList(p, o)
  \/ held[p] = o
  \/ pc # "idle" /\ p = cur /\ o = ord

\* Every page is in a block: no call loses one, halfway through included
\* (get_pages_from_list, put_pages_to_list).
EveryPageInABlock ==
  \A i \in Pages : \E p \in Pages, o \in Orders : IsBlock(p, o) /\ i \in Block(p, o)

\* No page is in two blocks, so that none is handed out twice, and no block
\* leaves the heap, although merging pairs a block with either neighbour.
BlocksDisjoint ==
  \A p \in Pages, o \in Orders : IsBlock(p, o) =>
    /\ Block(p, o) \subseteq Pages
    /\ \A q \in Pages, n \in Orders :
         IsBlock(q, n) /\ <<q, n>> # <<p, o>> => Block(p, o) \cap Block(q, n) = {}

\* The field the merge loop trusts agrees with the lists: a page looks free
\* with order o exactly when a block of order o starting there is queued, and
\* is flagged busy with order o exactly when a caller holds such a block.
MetadataAgrees ==
  \A p \in Pages, o \in Orders :
    /\ InList(p, o) <=> LooksFree(p, o) /\ ~(pc # "idle" /\ p = cur)
    /\ held[p] = o <=> busy[p] /\ order[p] = o

\* No list holds a block twice.
NoDuplicates ==
  \A o \in Orders : \A i, j \in 1..Len(free[o]) : free[o][i] = free[o][j] => i = j

\* A page flagged PAGE_DIRTY is in a held block.
DirtyIsHeld == dirty \subseteq HeldPages(held)

\* Every block starts at a multiple of its size.
Aligned ==
  \A p \in Pages, o \in Orders : IsBlock(p, o) => \E k \in 0..NPages : p = k * Size[o]

\* Blocks are aligned at first and stay so until two are merged: splitting, handing
\* out and taking back do no harm.  proc.c:9 rounds the stack pointer down to find the
\* task, so task stacks rest on this, and on nothing calling free_pages.
AlignedUntilMerged ==
  Aligned /\ [][Aligned /\ ~(MergeNext \/ MergePrev) => Aligned']_vars

\* The buddy system gives what its callers are promised.
Promise == INSTANCE PageAllocator
ImplementsPageAllocator == Promise!Spec

\* mem.c:141 says that a caller can have 1M (a block of the largest order) at
\* most; so one is to be had when no caller holds anything.
MaxBlockAvailable ==
  pc = "idle" /\ HeldPages(held) = {} => free[MaxOrder] # <<>>

\* mem.c:204 justifies the neighbour arithmetic by the page structures being
\* contiguous: the block in hand is one of pages that exist.
BlockInHandExists == pc # "idle" => Block(cur, ord) \subseteq Pages
=============================================================================
