----------------------------- MODULE BuddyLinks -----------------------------
(***************************************************************************)
(* The buddy system of mm/mem.c at the level of its pointers.  A free list *)
(* is a circular chain through the list fields of all the pages of all its *)
(* blocks, and the code cuts blocks out of it and hangs them in by their   *)
(* first and last page alone (list_add_chain, list_remove_chain), whatever *)
(* the links of a block that is not in a list have become: the object      *)
(* caches use list.next of the last page of the blocks they hold.          *)
(*                                                                         *)
(* It implements Buddy, whose lists are sequences of blocks.  Memory       *)
(* beyond the array never passes for a free block (QuietOutside there).    *)
(***************************************************************************)
EXTENDS PageGeometry, FiniteSets

VARIABLES
  links,   \* the list fields: links.next and links.prev of pages and heads
  order, busy, dirty, held, ret, pc, cur, ord, want   \* as in Buddy

vars == <<links, order, busy, dirty, held, ret, pc, cur, ord, want>>

\* page_buddy[o] and the pages are the nodes of the lists.
HeadOf(o) == NPages + o
Nodes == 0..(NPages + MaxOrder)

BlockEnd(p, o) == p + Size[o] - 1

\* init_page_map queues the pages of the whole blocks in the list of the largest
\* order and the others in that of single pages, in address order.
FirstSingle == NPages - (NPages % Size[MaxOrder])
InitLists(o) ==
  IF o = MaxOrder THEN 0..(FirstSingle - 1)
  ELSE IF o = 0 THEN FirstSingle..(NPages - 1)
  ELSE {}

\* The ring that goes from head h through the pages of S, upwards.
Up(S, h, n) ==
  LET above == IF n = h THEN S ELSE {m \in S : m > n}
  IN  IF above = {} THEN h ELSE CHOOSE m \in above : \A k \in above : m <= k
Down(S, h, n) ==
  LET below == IF n = h THEN S ELSE {m \in S : m < n}
  IN  IF below = {} THEN h ELSE CHOOSE m \in below : \A k \in below : m >= k
InitList(n) == CHOOSE o \in Orders : n \in InitLists(o) \cup {HeadOf(o)}

Init ==
  /\ links = [next |-> [n \in Nodes |-> Up(InitLists(InitList(n)), HeadOf(InitList(n)), n)],
              prev |-> [n \in Nodes |-> Down(InitLists(InitList(n)), HeadOf(InitList(n)), n)]]
  /\ order = [p \in Pages |->
                IF p >= FirstSingle THEN 0
                ELSE IF p % Size[MaxOrder] = 0 THEN MaxOrder ELSE -1]
  /\ busy = [p \in Pages |-> FALSE]
  /\ dirty = {}
  /\ held = [p \in Pages |-> NotHeld]
  /\ ret = NULL
  /\ pc = "idle"
  /\ cur = 0
  /\ ord = 0
  /\ want = 0

-----------------------------------------------------------------------------
(* The list operations.  l is the links before, the value the links after.  *)

Empty(o) == links.next[HeadOf(o)] = HeadOf(o)

\* The statements of get_pages_from_list that take the chain ch..ct off the front.
RemoveFirst(l, ct, h) ==
  [next |-> [l.next EXCEPT ![h] = l.next[ct]],
   prev |-> [l.prev EXCEPT ![l.next[ct]] = h]]

\* Mutant: the node after the chain keeps its link into it.
RemoveChainHalf(l, ch, ct) ==
  [next |-> [l.next EXCEPT ![l.prev[ch]] = l.next[ct]],
   prev |-> l.prev]

RemoveChain(l, ch, ct) ==
  [next |-> [l.next EXCEPT ![l.prev[ch]] = l.next[ct]],
   prev |-> [l.prev EXCEPT ![l.next[ct]] = l.prev[ch]]]

\* Mutant: the last page of the chain keeps the link it had.
AddChainLoose(l, ch, ct, h) ==
  [next |-> [l.next EXCEPT ![h] = ch],
   prev |-> [l.prev EXCEPT ![ch] = h, ![l.next[h]] = ct]]

AddChain(l, ch, ct, h) ==
  [next |-> [l.next EXCEPT ![ct] = l.next[h], ![h] = ch],
   prev |-> [l.prev EXCEPT ![ch] = h, ![l.next[h]] = ct]]

AddChainTail(l, ch, ct, h) ==
  [next |-> [l.next EXCEPT ![l.prev[h]] = ch, ![ct] = h],
   prev |-> [l.prev EXCEPT ![ch] = l.prev[h], ![h] = ct]]

\* Two chains become one: a is the last page of the first, b the first of the other.
Join(l, a, b) ==
  [next |-> [l.next EXCEPT ![a] = b], prev |-> [l.prev EXCEPT ![b] = a]]

-----------------------------------------------------------------------------
(* The two loops, as in Buddy.  *)

GetStart(o) ==
  /\ pc = "idle"
  /\ \E n \in o..MaxOrder :
       /\ ~Empty(n)
       /\ \A m \in o..(n - 1) : Empty(m)
       /\ cur' = links.next[HeadOf(n)]
       /\ links' = RemoveFirst(links, BlockEnd(cur', n), HeadOf(n))
       /\ ord' = n
  /\ want' = o
  /\ pc' = "split"
  /\ UNCHANGED <<order, busy, dirty, held, ret>>

GetFail(o) ==
  /\ pc = "idle"
  /\ \A n \in o..MaxOrder : Empty(n)
  /\ ret' = [asked |-> o, page |-> NULL]
  /\ UNCHANGED <<links, order, busy, dirty, held, pc, cur, ord, want>>

\* Mutant: the half that is kept is looked for one half too far.
SplitTooFar ==
  /\ pc = "split"
  /\ ord > want
  /\ order' = [order EXCEPT ![cur] = ord - 1]
  /\ links' = AddChainTail(links, cur, BlockEnd(cur, ord - 1), HeadOf(ord - 1))
  /\ cur' = cur + Size[ord]
  /\ ord' = ord - 1
  /\ UNCHANGED <<busy, dirty, held, ret, pc, want>>

Split ==
  /\ pc = "split"
  /\ ord > want
  /\ order' = [order EXCEPT ![cur] = ord - 1]
  /\ links' = AddChainTail(links, cur, BlockEnd(cur, ord - 1), HeadOf(ord - 1))
  /\ cur' = cur + Size[ord - 1]
  /\ ord' = ord - 1
  /\ UNCHANGED <<busy, dirty, held, ret, pc, want>>

GetDone ==
  /\ pc = "split"
  /\ ord = want
  /\ busy' = [busy EXCEPT ![cur] = TRUE]
  /\ order' = [order EXCEPT ![cur] = want]
  /\ dirty' = dirty \cup Block(cur, want)
  /\ held' = [held EXCEPT ![cur] = want]
  /\ ret' = [asked |-> want, page |-> cur]
  /\ pc' = "idle"
  /\ UNCHANGED <<links, cur, ord, want>>

\* kmem_cache_create and kmem_cache_alloc chain the slabs of a cache through the last
\* page of each: the block just allocated ends the chain, and the block q that was
\* the last one leads to it.  For the first slab of a cache q is that block itself.
Chain(q) ==
  /\ pc = "idle"
  /\ ret \in [asked : Orders, page : Pages]
  /\ held[q] # NotHeld
  /\ links' = [links EXCEPT !.next[BlockEnd(q, held[q])] = ret.page,
                            !.next[BlockEnd(ret.page, ret.asked)] = NULL]
  /\ UNCHANGED <<order, busy, dirty, held, ret, pc, cur, ord, want>>

PutStart(p) ==
  /\ pc = "idle"
  /\ held[p] # NotHeld
  /\ busy[p]
  /\ dirty' = dirty \ Block(p, held[p])
  /\ busy' = [busy EXCEPT ![p] = FALSE]
  /\ held' = [held EXCEPT ![p] = NotHeld]
  /\ cur' = p
  /\ ord' = held[p]
  /\ pc' = "merge"
  /\ ret' = NULL
  /\ UNCHANGED <<links, order, want>>

PutRefused(p, o) ==
  /\ pc = "idle"
  /\ ~busy[p]
  /\ Block(p, o) \subseteq Pages
  /\ dirty' = dirty \ Block(p, o)
  /\ UNCHANGED <<links, order, busy, held, ret, pc, cur, ord, want>>

LooksFree(d, o) == d \in Pages /\ ~busy[d] /\ order[d] = o
NextBuddy == cur + Size[ord]
PrevBuddy == cur - Size[ord]
CanMergeNext == ord < MaxOrder /\ LooksFree(NextBuddy, ord)
CanMergePrev == ord < MaxOrder /\ ~CanMergeNext /\ LooksFree(PrevBuddy, ord)

\* Mutant: the chains are not joined.
MergeNextApart ==
  /\ pc = "merge"
  /\ CanMergeNext
  /\ order' = [order EXCEPT ![cur] = @ + 1, ![NextBuddy] = -1]
  /\ links' = RemoveChain(links, NextBuddy, BlockEnd(NextBuddy, ord))
  /\ ord' = ord + 1
  /\ UNCHANGED <<busy, dirty, held, ret, pc, cur, want>>

MergeNext ==
  /\ pc = "merge"
  /\ CanMergeNext
  /\ order' = [order EXCEPT ![cur] = @ + 1, ![NextBuddy] = -1]
  /\ links' = Join(RemoveChain(links, NextBuddy, BlockEnd(NextBuddy, ord)),
                   BlockEnd(cur, ord), NextBuddy)
  /\ ord' = ord + 1
  /\ UNCHANGED <<busy, dirty, held, ret, pc, cur, want>>

MergePrev ==
  /\ pc = "merge"
  /\ CanMergePrev
  /\ order' = [order EXCEPT ![cur] = -1, ![PrevBuddy] = @ + 1]
  /\ links' = Join(RemoveChain(links, PrevBuddy, BlockEnd(PrevBuddy, ord)),
                   BlockEnd(PrevBuddy, ord), cur)
  /\ cur' = PrevBuddy
  /\ ord' = ord + 1
  /\ UNCHANGED <<busy, dirty, held, ret, pc, want>>

PutDone ==
  /\ pc = "merge"
  /\ ~CanMergeNext
  /\ ~CanMergePrev
  /\ links' = AddChain(links, cur, BlockEnd(cur, order[cur]), HeadOf(order[cur]))
  /\ pc' = "idle"
  /\ UNCHANGED <<order, busy, dirty, held, ret, cur, ord, want>>

Next ==
  \/ \E o \in Orders : GetStart(o)
  \/ \E o \in Orders : GetFail(o)
  \/ \E p \in Pages : PutStart(p)
  \/ \E p \in Pages, o \in Orders : PutRefused(p, o)
  \/ \E q \in Pages : Chain(q)
  \/ Split
  \/ GetDone
  \/ MergeNext
  \/ MergePrev
  \/ PutDone

Spec == Init /\ [][Next]_vars

-----------------------------------------------------------------------------
\* The first pages of the blocks in list o: what the code finds when it goes
\* from the head to the first page, and from the last page of each block on.
FirstPages(o) ==
  LET hop[k \in 1..(NPages + 1)] ==
        IF k = 1 THEN links.next[HeadOf(o)]
        ELSE IF hop[k - 1] \in Pages /\ BlockEnd(hop[k - 1], o) \in Pages
        THEN links.next[BlockEnd(hop[k - 1], o)]
        ELSE HeadOf(o)
      n == Cardinality({k \in 1..(NPages + 1) : hop[k] \in Pages})
  IN  [k \in 1..n |-> hop[k]]

\* Seen through FirstPages, the pointers are the lists of Buddy: no block gets lost
\* behind a wrong link, whatever the object caches left in the links of the
\* blocks they give back.
Quiet == [busy |-> FALSE, order |-> Size[MaxOrder] + MaxOrder + 1]
Descs == (-Size[MaxOrder])..(NPages + Size[MaxOrder])
xFree  == [o \in Orders |-> FirstPages(o)]
xOrder == [d \in Descs |-> IF d \in Pages THEN order[d] ELSE Quiet.order]
xBusy  == [d \in Descs |-> IF d \in Pages THEN busy[d] ELSE Quiet.busy]
Lists == INSTANCE Buddy WITH
  OutsideDescs <- {Quiet}, free <- xFree, order <- xOrder, busy <- xBusy
ImplementsBuddy == Lists!Spec

\* The type invariant.
TypeOK ==
  /\ links.next \in [Nodes -> Nodes \cup {NULL}]
  /\ links.prev \in [Nodes -> Nodes]
  /\ order \in [Pages -> Orders \cup {-1}]
  /\ busy \in [Pages -> BOOLEAN]
  /\ dirty \subseteq Pages
  /\ held \in [Pages -> Orders \cup {NotHeld}]
  /\ ret \in Answers
  /\ pc \in {"idle", "split", "merge"}
  /\ cur \in Pages
  /\ ord \in Orders
  /\ want \in Orders

\* Every list is one ring: page by page through each of its blocks, upwards, and
\* on to the next, and prev always leads back (list_add_chain and its kin).
RingsWhole ==
  \A o \in Orders :
    LET first == FirstPages(o)
        inside == UNION {Block(first[k], o) : k \in DOMAIN first}
    IN  /\ \A n \in inside \cup {HeadOf(o)} :
             /\ links.next[n] \in inside \cup {HeadOf(o)}
             /\ links.prev[links.next[n]] = n
        /\ \A k \in DOMAIN first : \A i \in Block(first[k], o) \ {first[k]} :
             links.next[i - 1] = i
=============================================================================
