----------------------------- MODULE KmemCache -----------------------------
(***************************************************************************)
(* The object caches of mm/mem.c and kmalloc/kfree on top of them.  A      *)
(* cache owns slabs (blocks that alloc_pages handed out), cuts each into   *)
(* objects of its size and threads the free ones on a list through their   *)
(* first word; obj_nr says how many of that list are whole objects.        *)
(*                                                                         *)
(* One action is one access to the shared fields of the cache.  A task     *)
(* that allocates inside the kernel does so with interrupts on: a timer    *)
(* interrupt and schedule() let another task run between any two accesses. *)
(* A user task comes in through SWI with interrupts off and runs its call  *)
(* to the end.  A preempted call whose pointer no longer points where it   *)
(* may is not followed further.                                            *)
(***************************************************************************)
EXTENDS Integers, FiniteSets, Sequences

CONSTANTS
  Caches,       \* kmalloc_cache[] is 1..Caches; cache k serves k * Unit bytes
  Unit,         \* KMALLOC_MINIMAL_SIZE_BIAS
  SlabBytes,    \* PAGE_SIZE * (1 << page_order)
  PageBytes,    \* PAGE_SIZE
  Slabs,        \* the blocks alloc_pages can hand out
  Sizes,        \* the sizes callers ask kmalloc for
  Callers,      \* the tasks that call kmalloc and kfree
  InSwi,        \* those who call through SWI, interrupts off
  NULL, Junk    \* the null pointer; a word that is no link

ASSUME KmemAssumption ==
  /\ {Caches, Unit, SlabBytes, PageBytes} \subseteq Nat \ {0}
  /\ SlabBytes % PageBytes = 0
  /\ Caches * Unit <= SlabBytes
  /\ Sizes \subseteq Nat
  /\ InSwi \subseteq Callers
  /\ IsFiniteSet(Slabs)
  /\ NULL \notin Slabs
  /\ {NULL, Junk} \cap (Slabs \X Nat) = {}
  /\ NULL # Junk

VARIABLES
  cache,   \* kmalloc_cache: nf_block, obj_nr, head_page and end_page (as slabs)
  next,    \* list.next of the last page of each slab: the next slab, or NULL
  link,    \* the first word of each place an object can be
  cachep,  \* the cachep field of each page of a slab
  pool,    \* the slabs alloc_pages has left
  given,   \* given[a]: the sizes kmalloc returned a for, kfree not yet called
  call     \* the call each caller is in: where it is, and its locals

vars == <<cache, next, link, cachep, pool, given, call>>

CacheIds   == 1..Caches
ObjSize(k) == k * Unit

\* An address is a slab and an offset into it.
Addresses == Slabs \X (0..(SlabBytes - 1))
PageOf(a) == <<a[1], a[2] \div PageBytes>>
SlabPages == {PageOf(a) : a \in Addresses}

NoCall == [at |-> "idle", k |-> 1, slab |-> NULL, obj |-> NULL, size |-> 0]

Init ==
  /\ cache = [k \in CacheIds |-> [nf |-> NULL, nr |-> 0, head |-> NULL, end |-> NULL]]
  /\ next = [s \in Slabs |-> NULL]
  /\ link = [a \in Addresses |-> Junk]
  /\ cachep = [g \in SlabPages |-> NULL]
  /\ pool = Slabs
  /\ given = [a \in Addresses |-> <<>>]
  /\ call = [c \in Callers |-> NoCall]

AllIdle == \A c \in Callers : call[c].at = "idle"

\* Caller c is at l, and no call that runs with interrupts off keeps the
\* processor from it.
At(c, l) ==
  /\ call[c].at = l
  /\ \A d \in InSwi \ {c} : call[d].at = "idle"
Goto(c, l) == call' = [call EXCEPT ![c].at = l]
Return(c) == call' = [call EXCEPT ![c] = NoCall]

\* The cache that caller c works on.
Mine(c) == call[c].k

-----------------------------------------------------------------------------
\* kmem_cache_line_object: the number of whole objects of size z in a slab, and
\* the words it writes.  The last whole object links to the remainder, if there
\* is one: the list goes on, the count does not.
LineCount(z) == SlabBytes \div z
LineLinks(s, z) ==
  [a \in {<<s, i * z>> : i \in 0..((SlabBytes - 1) \div z)} |->
     IF a[2] + z < SlabBytes THEN <<s, a[2] + z>> ELSE NULL]
Overwrite(f, g) == [x \in DOMAIN f |-> IF x \in DOMAIN g THEN g[x] ELSE f[x]]

\* kmem_cache_create, which kmalloc_init calls for every size before any task
\* runs.  When alloc_pages fails nothing happens and the cache stays zeroed.
Create(k) ==
  /\ AllIdle
  /\ cache[k].head = NULL
  /\ \E s \in pool :
       /\ pool' = pool \ {s}
       /\ cache' = [cache EXCEPT ![k] =
            [nf |-> <<s, 0>>, nr |-> LineCount(ObjSize(k)), head |-> s, end |-> s]]
       /\ next' = [next EXCEPT ![s] = NULL]
       /\ link' = Overwrite(link, LineLinks(s, ObjSize(k)))
  /\ UNCHANGED <<cachep, given, call>>

\* kmalloc_cache_size_to_index.  The subtraction is unsigned: a size of 0 is
\* taken for one that is too large.
Index(size) == IF size = 0 THEN Caches ELSE (size - 1) \div Unit

\* kmalloc finds the cache (NULL when there is none).  Only caches kmalloc_init
\* could create are used.
Kmalloc(c, size) ==
  /\ At(c, "idle")
  /\ Index(size) < Caches
  /\ cache[Index(size) + 1].head # NULL
  /\ call' = [call EXCEPT ![c].at = "check", ![c].k = Index(size) + 1, ![c].size = size]
  /\ UNCHANGED <<cache, next, link, cachep, pool, given>>

\* Mutant: a cache with nothing free is not refilled.
CheckNothing(c) ==
  /\ At(c, "check")
  /\ Goto(c, "take")
  /\ UNCHANGED <<cache, next, link, cachep, pool, given>>

\* kmem_cache_alloc: is there a free object?
Check(c) ==
  /\ At(c, "check")
  /\ Goto(c, IF cache[Mine(c)].nr = 0 THEN "refill" ELSE "take")
  /\ UNCHANGED <<cache, next, link, cachep, pool, given>>

\* There is none: alloc_pages gives a slab, and nf_block points to it.
Refill(c) ==
  /\ At(c, "refill")
  /\ \E s \in pool :
       /\ pool' = pool \ {s}
       /\ cache' = [cache EXCEPT ![Mine(c)].nf = <<s, 0>>]
       /\ call' = [call EXCEPT ![c].at = "append", ![c].slab = s]
  /\ UNCHANGED <<next, link, cachep, given>>

\* alloc_pages fails, as it may at any time (Buddy); kmalloc returns NULL.
RefillFails(c) ==
  /\ At(c, "refill")
  /\ Return(c)
  /\ UNCHANGED <<cache, next, link, cachep, pool, given>>

\* Mutant: the slab before the new one is not linked to it.
AppendUnlinked(c) ==
  LET k == Mine(c)
      s == call[c].slab
  IN  /\ At(c, "append")
      /\ next' = [next EXCEPT ![s] = NULL]
      /\ cache' = [cache EXCEPT ![k].end = s]
      /\ Goto(c, "line")
      /\ UNCHANGED <<link, cachep, pool, given>>

\* The slab becomes the last of the cache.
AppendSlab(c) ==
  LET k == Mine(c)
      s == call[c].slab
  IN  /\ At(c, "append")
      /\ next' = [next EXCEPT ![cache[k].end] = s, ![s] = NULL]
      /\ cache' = [cache EXCEPT ![k].end = s]
      /\ Goto(c, "line")
      /\ UNCHANGED <<link, cachep, pool, given>>

\* Mutant: the remainder of the slab is counted as an object.
LineRoundedUp(c) ==
  LET k == Mine(c)
      z == ObjSize(k)
      s == call[c].slab
  IN  /\ At(c, "line")
      /\ cache[k].nf = <<s, 0>>
      /\ link' = Overwrite(link, LineLinks(s, z))
      /\ cache' = [cache EXCEPT ![k].nr = @ + LineCount(z) + 1]
      /\ Goto(c, "take")
      /\ UNCHANGED <<next, cachep, pool, given>>

\* Its objects are linked and counted (*nr += kmem_cache_line_object(...)).
Line(c) ==
  LET k == Mine(c)
      z == ObjSize(k)
      s == call[c].slab
  IN  /\ At(c, "line")
      /\ cache[k].nf = <<s, 0>>
      /\ link' = Overwrite(link, LineLinks(s, z))
      /\ cache' = [cache EXCEPT ![k].nr = @ + LineCount(z)]
      /\ Goto(c, "take")
      /\ UNCHANGED <<next, cachep, pool, given>>

\* (*nr)--
Take(c) ==
  /\ At(c, "take")
  /\ cache' = [cache EXCEPT ![Mine(c)].nr = @ - 1]
  /\ Goto(c, "first")
  /\ UNCHANGED <<next, link, cachep, pool, given>>

\* p = *nf_block
First(c) ==
  /\ At(c, "first")
  /\ call' = [call EXCEPT ![c].at = "unlink", ![c].obj = cache[Mine(c)].nf]
  /\ UNCHANGED <<cache, next, link, cachep, pool, given>>

\* *nf_block = *(void **)p
Unlink(c) ==
  /\ At(c, "unlink")
  /\ call[c].obj \in Addresses
  /\ cache' = [cache EXCEPT ![Mine(c)].nf = link[call[c].obj]]
  /\ Goto(c, "tag")
  /\ UNCHANGED <<next, link, cachep, pool, given>>

\* Mutant: the page is not told which cache it serves.
TagForgotten(c) ==
  LET p == call[c].obj
  IN  /\ At(c, "tag")
      /\ given' = [given EXCEPT ![p] = Append(@, call[c].size)]
      /\ link' = [link EXCEPT ![p] = Junk]
      /\ Return(c)
      /\ UNCHANGED <<cache, next, cachep, pool>>

\* pg->cachep = cache, and p is returned.  From now on its words are the
\* caller's, and whatever it writes there is no link.
Tag(c) ==
  LET p == call[c].obj
  IN  /\ At(c, "tag")
      /\ cachep' = [cachep EXCEPT ![PageOf(p)] = Mine(c)]
      /\ given' = [given EXCEPT ![p] = Append(@, call[c].size)]
      /\ link' = [link EXCEPT ![p] = Junk]
      /\ Return(c)
      /\ UNCHANGED <<cache, next, pool>>

-----------------------------------------------------------------------------
\* kfree: the page of the object names the cache it goes back to.
Kfree(c, a) ==
  /\ At(c, "idle")
  /\ given[a] # <<>>
  /\ given' = [given EXCEPT ![a] = Tail(@)]
  /\ call' = [call EXCEPT ![c].at = "push", ![c].obj = a, ![c].k = cachep[PageOf(a)]]
  /\ UNCHANGED <<cache, next, link, cachep, pool>>

\* kmem_cache_free: *(void **)objp = cache->nf_block
Push(c) ==
  /\ At(c, "push")
  /\ link' = [link EXCEPT ![call[c].obj] = cache[Mine(c)].nf]
  /\ Goto(c, "top")
  /\ UNCHANGED <<cache, next, cachep, pool, given>>

\* cache->nf_block = objp
Top(c) ==
  /\ At(c, "top")
  /\ cache' = [cache EXCEPT ![Mine(c)].nf = call[c].obj]
  /\ Goto(c, "count")
  /\ UNCHANGED <<next, link, cachep, pool, given>>

\* Mutant: the object that came back is not counted.
CountForgotten(c) ==
  /\ At(c, "count")
  /\ Return(c)
  /\ UNCHANGED <<cache, next, link, cachep, pool, given>>

\* cache->obj_nr++
Count(c) ==
  /\ At(c, "count")
  /\ cache' = [cache EXCEPT ![Mine(c)].nr = @ + 1]
  /\ Return(c)
  /\ UNCHANGED <<next, link, cachep, pool, given>>

-----------------------------------------------------------------------------
\* The slabs of cache k, from head_page on through the links between slabs.
SlabsOf(k) ==
  LET walk[n \in 1..Cardinality(Slabs)] ==
        IF n = 1 THEN cache[k].head
        ELSE IF walk[n - 1] = NULL THEN NULL ELSE next[walk[n - 1]]
  IN  {walk[n] : n \in DOMAIN walk} \ {NULL}

\* The objects of cache k that somebody was given.
InUse(k) == {a \in Addresses : given[a] # <<>> /\ a[1] \in SlabsOf(k)}

\* kmem_cache_destroy, when no object is in use: each slab goes back through
\* free_pages, after the way to the next was read from it.  The fields of the
\* cache stay as they are; that nobody uses it again until the next
\* kmem_cache_create is up to the callers, and head = NULL says so here.
DestroyStart(c, k) ==
  /\ At(c, "idle")
  /\ AllIdle
  /\ cache[k].head # NULL
  /\ InUse(k) = {}
  /\ cache' = [cache EXCEPT ![k].head = NULL]
  /\ call' = [call EXCEPT ![c].at = "destroy", ![c].slab = cache[k].head]
  /\ UNCHANGED <<next, link, cachep, pool, given>>

\* Mutant: the way on is read after the slab was given back.
DestroyStepLate(c) ==
  LET s == call[c].slab
  IN  /\ At(c, "destroy")
      /\ pool' = pool \cup {s}
      /\ next' = [next EXCEPT ![s] = NULL]
      /\ link' = [a \in Addresses |-> IF a[1] = s THEN Junk ELSE link[a]]
      /\ IF next'[s] = NULL THEN Return(c) ELSE call' = [call EXCEPT ![c].slab = next'[s]]
      /\ UNCHANGED <<cache, cachep, given>>

\* The memory and the page structures are the buddy system's again: neither the
\* links in the slab nor the one to the next slab survive free_pages.
DestroyStep(c) ==
  LET s == call[c].slab
  IN  /\ At(c, "destroy")
      /\ pool' = pool \cup {s}
      /\ next' = [next EXCEPT ![s] = NULL]
      /\ link' = [a \in Addresses |-> IF a[1] = s THEN Junk ELSE link[a]]
      /\ IF next[s] = NULL THEN Return(c) ELSE call' = [call EXCEPT ![c].slab = next[s]]
      /\ UNCHANGED <<cache, cachep, given>>

Next ==
  \/ \E k \in CacheIds : Create(k)
  \/ \E c \in Callers :
       \/ \E size \in Sizes : Kmalloc(c, size)
       \/ Check(c) \/ Refill(c) \/ RefillFails(c) \/ AppendSlab(c) \/ Line(c)
       \/ Take(c) \/ First(c) \/ Unlink(c) \/ Tag(c)
       \/ \E a \in Addresses : Kfree(c, a)
       \/ Push(c) \/ Top(c) \/ Count(c)
       \/ \E k \in CacheIds : DestroyStart(c, k)
       \/ DestroyStep(c)

Spec == Init /\ [][Next]_vars

-----------------------------------------------------------------------------
\* The type invariant.
TypeOK ==
  /\ \A k \in CacheIds :
       /\ cache[k].nf \in Addresses \cup {NULL}
       /\ cache[k].nr \in Nat
       /\ cache[k].head \in Slabs \cup {NULL}
       /\ cache[k].end \in Slabs \cup {NULL}
  /\ next \in [Slabs -> Slabs \cup {NULL}]
  /\ link \in [Addresses -> Addresses \cup {NULL, Junk}]
  /\ cachep \in [SlabPages -> CacheIds \cup {NULL}]
  /\ pool \subseteq Slabs
  /\ \A c \in Callers : call[c].k \in CacheIds /\ call[c].slab \in Slabs \cup {NULL}

\* Whole objects of cache k.
Objects(k) == {<<s, i * ObjSize(k)>> : s \in SlabsOf(k), i \in 0..(LineCount(ObjSize(k)) - 1)}

\* The first obj_nr addresses on the free list of cache k.
FreeList(k) ==
  LET walk[n \in 1..cache[k].nr] ==
        IF n = 1 THEN cache[k].nf
        ELSE IF walk[n - 1] \in Addresses THEN link[walk[n - 1]] ELSE NULL
  IN  walk

\* Between calls the counted part of the free list is exactly the whole objects
\* nobody has: none is lost, none is listed twice, none that is in use is on
\* it, and what a caller wrote into its object is never taken for a link
\* (kmem_cache_alloc, kmem_cache_free, kmem_cache_line_object).
FreeListExact ==
  AllIdle => \A k \in CacheIds : cache[k].head # NULL =>
    /\ {FreeList(k)[n] : n \in 1..cache[k].nr} = Objects(k) \ InUse(k)
    /\ cache[k].nr = Cardinality(Objects(k) \ InUse(k))

\* kmalloc gives no object to two callers.  exception.S:44 asks whether a single
\* core can do without considering that SWI is entered again ("单核不考虑swi重入?").
GivenOnce == \A a \in Addresses : Len(given[a]) <= 1

\* What kmalloc returned to two callers never overlaps, fits the size asked for
\* and does not run over the end of the slab.
NoOverlap ==
  /\ GivenOnce
  /\ \A a \in Addresses : given[a] # <<>> =>
    /\ a[2] + given[a][1] <= SlabBytes
    /\ \A b \in Addresses :
         given[b] # <<>> /\ b[1] = a[1] /\ b[2] > a[2] => a[2] + given[a][1] <= b[2]

\* kfree, which only has the page of the object to go by, gives it back to the
\* cache it came from, whatever its page was used for before.
FreeGoesHome ==
  AllIdle => \A k \in CacheIds : \A a \in InUse(k) : cachep[PageOf(a)] = k

\* Between calls a slab is in the pool or hangs from one cache, behind its
\* head_page, so that kmem_cache_destroy gives every one back.
SlabsAccounted ==
  AllIdle =>
    /\ \A s \in Slabs \ pool : \E k \in CacheIds : s \in SlabsOf(k)
    /\ \A k \in CacheIds : SlabsOf(k) \cap pool = {}
    /\ \A k, j \in CacheIds : k # j => SlabsOf(k) \cap SlabsOf(j) = {}
=============================================================================
