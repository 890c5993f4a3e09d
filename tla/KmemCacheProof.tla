--------------------------- MODULE KmemCacheProof ---------------------------
(***************************************************************************)
(* Proofs about KmemCache, for every size of slab, page and object, every  *)
(* number of caches and every set of slabs and callers.                    *)
(*                                                                         *)
(* They assume that every caller comes in through SWI (AllInSwi), so that  *)
(* one call runs to its end before the next; the run kmem_preempt shows    *)
(* what happens otherwise.                                                 *)
(*                                                                         *)
(* The inductive invariant knows what every slab is used for (own), that   *)
(* the slabs of a cache and its free objects are lists (Chains), and, for  *)
(* every place a call can be at, what that list lacks or has too many.     *)
(***************************************************************************)
EXTENDS KmemCache, Chains

AllInSwi == InSwi = Callers

\* What a slab is used for: by a cache, or it is in the pool, in the hand of
\* kmem_cache_alloc, or in those of kmem_cache_destroy.
Pool  == 0
Hand  == -1
Dying == -2
Owners == CacheIds \cup {Pool, Hand, Dying}
SlabsBy(own, o) == {s \in Slabs : own[s] = o}

\* Where whole objects of cache k start in a slab; those of its slabs, and those
\* of them that nobody has.
Offsets(k) == {i * ObjSize(k) : i \in 0..(LineCount(ObjSize(k)) - 1)}
ObjectsIn(s, k) == {a \in Addresses : a[1] = s /\ a[2] \in Offsets(k)}
ObjectsBy(own, k) == {a \in Addresses : own[a[1]] = k /\ a[2] \in Offsets(k)}
Spare(own, k) == {a \in ObjectsBy(own, k) : given[a] = <<>>}

Live(k) == cache[k].head # NULL

\* The first nr + extra of the free list of cache k are the spare objects but out.
CacheOK(own, k, out, extra) ==
  /\ IsList(Spare(own, k) \ out, cache[k].nf, cache[k].nr + extra, link)
  /\ \A a \in Spare(own, k) \ out : link[a] # Junk

Places == {"idle", "check", "refill", "append", "line", "take", "first", "unlink", "tag",
           "push", "top", "count", "destroy"}

CallType == [at : Places, k : CacheIds, slab : Slabs \cup {NULL},
             obj : Addresses \cup {NULL}, size : Nat]

CacheType == [nf : Addresses \cup {NULL}, nr : Nat,
              head : Slabs \cup {NULL}, end : Slabs \cup {NULL}]

Types ==
  /\ cache \in [CacheIds -> CacheType]
  /\ next \in [Slabs -> Slabs \cup {NULL}]
  /\ link \in [Addresses -> Addresses \cup {NULL, Junk}]
  /\ cachep \in [SlabPages -> CacheIds \cup {NULL}]
  /\ pool \subseteq Slabs
  /\ given \in [Addresses -> {<<>>} \cup {<<z>> : z \in Nat}]
  /\ call \in [Callers -> CallType]

OneCall ==
  \A c, d \in Callers : call[c].at # "idle" /\ call[d].at # "idle" => c = d

OwnInv(own) ==
  /\ own \in [Slabs -> Owners]
  /\ pool = SlabsBy(own, Pool)
  /\ \A s \in SlabsBy(own, Hand) :
       \E c \in Callers : call[c].at = "append" /\ call[c].slab = s
  /\ \A s \in SlabsBy(own, Dying) : \E c \in Callers : call[c].at = "destroy"

\* The slabs of cache k hang from head_page to end_page.
ChainInv(own, k) ==
  IF Live(k)
  THEN /\ \E n \in Nat : IsList(SlabsBy(own, k), cache[k].head, n, next)
       /\ cache[k].end \in SlabsBy(own, k)
       /\ next[cache[k].end] = NULL
  ELSE SlabsBy(own, k) = {}

\* What callers have are objects of caches, as large as they asked for, in pages
\* that name the cache.
GivenInv(own) ==
  \A a \in Addresses : given[a] # <<>> =>
    /\ own[a[1]] \in CacheIds
    /\ a[2] \in Offsets(own[a[1]])
    /\ given[a][1] \in 1..ObjSize(own[a[1]])
    /\ cachep[PageOf(a)] = own[a[1]]

\* A call other than kmem_cache_destroy works on cache k.
On(k) == \E c \in Callers : call[c].at \notin {"idle", "destroy"} /\ call[c].k = k

\* What a call has done so far to the cache it works on.
CallInv(own, c) ==
  LET k == call[c].k
      l == call[c].at
      s == call[c].slab
      p == call[c].obj
  IN  /\ l \notin {"idle", "destroy"} => Live(k)
      /\ l \in {"check", "refill", "append", "line", "take", "first", "unlink", "tag"} =>
           call[c].size \in 1..ObjSize(k)
      /\ l \in {"check", "refill", "append", "take"} => CacheOK(own, k, {}, 0)
      /\ l \in {"refill", "append", "line"} => cache[k].nr = 0
      /\ l \in {"append", "line"} => s \in Slabs /\ cache[k].nf = <<s, 0>>
      /\ l = "append" => own[s] = Hand
      /\ l = "line" => Spare(own, k) = ObjectsIn(s, k)
      /\ l = "take" => cache[k].nr > 0
      /\ l \in {"first", "unlink", "count"} => CacheOK(own, k, {}, 1)
      /\ l = "unlink" => p = cache[k].nf
      /\ l \in {"tag", "push", "top"} => p \in Spare(own, k) /\ CacheOK(own, k, {p}, 0)
      /\ l = "top" => link[p] = cache[k].nf
      /\ l = "destroy" =>
           /\ s \in Slabs
           /\ \E n \in Nat : IsList(SlabsBy(own, Dying), s, n, next)
           /\ \E e \in SlabsBy(own, Dying) : next[e] = NULL

Inv(own) ==
  /\ Types
  /\ OneCall
  /\ OwnInv(own)
  /\ \A k \in CacheIds : ChainInv(own, k)
  /\ GivenInv(own)
  /\ \A k \in CacheIds : Live(k) => On(k) \/ CacheOK(own, k, {}, 0)
  /\ \A c \in Callers : CallInv(own, c)

IInv == \E own : Inv(own)

-----------------------------------------------------------------------------
(* Objects in a slab. *)

LEMMA OwnerFacts ==
  /\ Pool \notin CacheIds /\ Hand \notin CacheIds /\ Dying \notin CacheIds
  /\ Pool # Hand /\ Pool # Dying /\ Hand # Dying
BY DEF Pool, Hand, Dying, CacheIds

LEMMA DivFacts ==
  ASSUME NEW a \in Nat, NEW b \in Nat, b > 0
  PROVE  /\ a \div b \in Nat /\ a % b \in 0..(b - 1)
         /\ a = (a \div b) * b + (a % b)
OBVIOUS

LEMMA SizeFacts ==
  /\ Caches \in Nat /\ Unit \in Nat /\ SlabBytes \in Nat /\ PageBytes \in Nat
  /\ Unit > 0 /\ SlabBytes > 0 /\ PageBytes > 0
  /\ NULL \notin Slabs /\ NULL # Junk /\ NULL \notin Addresses /\ Junk \notin Addresses
  /\ \A k \in CacheIds : ObjSize(k) \in Nat /\ ObjSize(k) > 0 /\ ObjSize(k) <= SlabBytes
<1>1. /\ Caches \in Nat /\ Unit \in Nat /\ SlabBytes \in Nat /\ PageBytes \in Nat
      /\ Unit > 0 /\ SlabBytes > 0 /\ PageBytes > 0 /\ Caches * Unit <= SlabBytes
      /\ NULL \notin Slabs /\ NULL # Junk
      /\ NULL \notin Slabs \X Nat /\ Junk \notin Slabs \X Nat
  BY KmemAssumption
<1>2. Addresses \subseteq Slabs \X Nat
  BY <1>1 DEF Addresses
<1>3. ASSUME NEW k \in CacheIds
      PROVE  ObjSize(k) \in Nat /\ ObjSize(k) > 0 /\ ObjSize(k) <= SlabBytes
  <2>1. k \in Nat /\ k >= 1 /\ k <= Caches
    BY <1>1, <1>3 DEF CacheIds
  <2>2. PICK d \in Nat : Caches = k + d
    <3>1. Caches - k \in Nat /\ Caches = k + (Caches - k)
      BY <2>1, <1>1
    <3> QED
      BY <3>1
  <2>3. PICK e \in Nat : k = e + 1
    <3>1. k - 1 \in Nat /\ k = (k - 1) + 1
      BY <2>1
    <3> QED
      BY <3>1
  <2>4. Caches * Unit = k * Unit + d * Unit /\ d * Unit \in Nat
    BY <2>1, <2>2, <1>1
  <2>5. k * Unit = e * Unit + Unit /\ e * Unit \in Nat
    BY <2>3, <1>1
  <2> QED
    BY <2>4, <2>5, <1>1 DEF ObjSize
<1> QED
  BY <1>1, <1>2, <1>3

\* Offsets of whole objects: they fit, and two of them do not overlap.
LEMMA OffsetFacts ==
  ASSUME NEW k \in CacheIds
  PROVE  /\ LineCount(ObjSize(k)) \in Nat /\ LineCount(ObjSize(k)) > 0
         /\ 0 \in Offsets(k)
         /\ \A x \in Offsets(k) : x \in Nat /\ x + ObjSize(k) <= SlabBytes
         /\ \A x, y \in Offsets(k) : x < y => x + ObjSize(k) <= y
<1> DEFINE z == ObjSize(k)
           n == LineCount(z)
<1>1. z \in Nat /\ z > 0 /\ z <= SlabBytes /\ SlabBytes \in Nat
  BY SizeFacts
<1>2. n \in Nat /\ SlabBytes = n * z + (SlabBytes % z) /\ SlabBytes % z \in 0..(z - 1)
  <2> HIDE DEF z
  <2> QED
    BY <1>1 DEF LineCount
<1> HIDE DEF z, n
<1>3. n > 0
  <2>1. ASSUME n = 0 PROVE FALSE
    <3>1. n * z = 0
      BY <2>1, <1>1
    <3> QED
      BY <3>1, <1>1, <1>2
  <2> QED
    BY <2>1, <1>2
<1>4. ASSUME NEW i \in Nat, NEW j \in Nat, i < j
      PROVE  i * z \in Nat /\ j * z \in Nat /\ i * z + z <= j * z
  <2>1. PICK d \in Nat : j = i + 1 + d
    <3>1. j - i - 1 \in Nat /\ j = i + 1 + (j - i - 1)
      BY <1>4
    <3> QED
      BY <3>1
  <2>2. j * z = i * z + z + d * z
    BY <2>1, <1>1
  <2>3. d * z \in Nat /\ i * z \in Nat /\ j * z \in Nat
    BY <1>1
  <2> QED
    BY <2>2, <2>3, <1>1
<1>5. \A x \in Offsets(k) : x \in Nat /\ x + z <= SlabBytes
  <2> SUFFICES ASSUME NEW i \in 0..(n - 1) PROVE i * z \in Nat /\ i * z + z <= SlabBytes
    BY DEF Offsets, z, n
  <2>1. i \in Nat /\ i < n
    BY <1>2
  <2>2. i * z \in Nat /\ n * z \in Nat /\ i * z + z <= n * z
    BY <2>1, <1>2, <1>4
  <2> QED
    BY <2>2, <1>1, <1>2
<1>6. ASSUME NEW x \in Offsets(k), NEW y \in Offsets(k), x < y
      PROVE  x + z <= y
  <2>1. PICK i \in 0..(n - 1) : x = i * z
    BY DEF Offsets, z, n
  <2>2. PICK j \in 0..(n - 1) : y = j * z
    BY DEF Offsets, z, n
  <2>3. i \in Nat /\ j \in Nat
    OBVIOUS
  <2>4. CASE i < j
    BY <2>1, <2>2, <2>3, <2>4, <1>4
  <2>5. CASE j < i
    BY <2>1, <2>2, <2>3, <2>5, <1>1, <1>4, <1>6
  <2>6. CASE i = j
    BY <2>1, <2>2, <2>3, <2>6, <1>1, <1>4, <1>6
  <2> QED
    BY <2>3, <2>4, <2>5, <2>6
<1>7. 0 \in Offsets(k)
  <2>1. 0 \in 0..(n - 1) /\ 0 * z = 0
    BY <1>1, <1>2, <1>3
  <2> QED
    BY <2>1 DEF Offsets, z, n
<1> QED
  BY <1>2, <1>3, <1>5, <1>6, <1>7 DEF z, n

\* kmem_cache_line_object makes one list of the whole objects of a slab, and
\* leaves all other words alone.
LEMMA LineFacts ==
  ASSUME link \in [Addresses -> Addresses \cup {NULL, Junk}],
         NEW k \in CacheIds, NEW s \in Slabs, NEW new,
         new = Overwrite(link, LineLinks(s, ObjSize(k)))
  PROVE  /\ new \in [Addresses -> Addresses \cup {NULL, Junk}]
         /\ \A a \in Addresses : a[1] # s => new[a] = link[a]
         /\ \A a \in ObjectsIn(s, k) : new[a] # Junk
         /\ <<s, 0>> \in ObjectsIn(s, k)
         /\ IsList(ObjectsIn(s, k), <<s, 0>>, LineCount(ObjSize(k)), new)
<1> DEFINE z == ObjSize(k)
           n == LineCount(z)
           last == (SlabBytes - 1) \div z
           D == {<<s, i * z>> : i \in 0..last}
           line == LineLinks(s, z)
<1>1. z \in Nat /\ z > 0 /\ z <= SlabBytes /\ SlabBytes \in Nat
  BY SizeFacts
<1>2. n \in Nat /\ n > 0 /\ last \in Nat
  <2> HIDE DEF z
  <2>1. last \in Nat
    BY <1>1
  <2> QED
    BY <2>1, OffsetFacts DEF z
<1>3. DOMAIN line = D /\ \A a \in D : line[a] = IF a[2] + z < SlabBytes THEN <<s, a[2] + z>> ELSE NULL
  BY DEF LineLinks
<1>4. new = [x \in Addresses |-> IF x \in D THEN line[x] ELSE link[x]]
  BY <1>3 DEF Overwrite
<1>5. \A a \in D : a[1] = s /\ a[2] \in Nat
  <2>1. \A i \in 0..last : i \in Nat /\ i * z \in Nat
    BY <1>1
  <2> HIDE DEF z, last
  <2> QED
    BY <2>1
<1> HIDE DEF line, D, z, n, last
<1>6. \A x \in Addresses : x[1] \in Slabs /\ x[2] \in 0..(SlabBytes - 1) /\ x = <<x[1], x[2]>>
  BY DEF Addresses
<1>7. \A x \in 0..(SlabBytes - 1) : <<s, x>> \in Addresses
  BY DEF Addresses
<1>8. \A a \in D : line[a] \in Addresses \cup {NULL}
  <2> SUFFICES ASSUME NEW a \in D, a[2] + z < SlabBytes
               PROVE  <<s, a[2] + z>> \in Addresses
    BY <1>3
  <2>1. a[2] + z \in 0..(SlabBytes - 1)
    BY <1>1, <1>5
  <2> QED
    BY <2>1, <1>7
<1>9. \A a \in ObjectsIn(s, k) : a \in D /\ a \in Addresses
  <2> SUFFICES ASSUME NEW a \in ObjectsIn(s, k) PROVE a \in D
    BY DEF ObjectsIn
  <2>1. PICK i \in 0..(n - 1) : a[2] = i * z
    BY DEF ObjectsIn, Offsets, n, z
  <2>2. i \in Nat /\ i * z \in Nat /\ i * z + z <= SlabBytes /\ i * z <= SlabBytes - 1
    BY <2>1, <1>1, <1>2, OffsetFacts DEF ObjectsIn, z
  <2>3. i <= last
    <3>1. PICK d \in Nat : SlabBytes - 1 = i * z + d
      <4>1. SlabBytes - 1 - i * z \in Nat /\ SlabBytes - 1 = i * z + (SlabBytes - 1 - i * z)
        BY <2>2, <1>1
      <4> QED
        BY <4>1
    <3>2. SlabBytes - 1 = last * z + ((SlabBytes - 1) % z) /\ (SlabBytes - 1) % z \in 0..(z - 1)
      BY <1>1 DEF last
    <3>3. ASSUME last < i PROVE FALSE
      <4>1. PICK e \in Nat : i = last + 1 + e
        <5>1. i - last - 1 \in Nat /\ i = last + 1 + (i - last - 1)
          BY <3>3, <1>2, <2>2
        <5> QED
          BY <5>1
      <4>2. i * z = last * z + z + e * z /\ e * z \in Nat /\ last * z \in Nat
        BY <4>1, <1>1, <1>2
      <4> QED
        BY <4>2, <3>2, <2>2, <1>1
    <3> QED
      BY <3>3, <2>2, <1>2
  <2>4. a = <<s, i * z>> /\ i \in 0..last
    BY <2>1, <2>2, <2>3, <1>6 DEF ObjectsIn
  <2> QED
    BY <2>4 DEF D
<1>10. new \in [Addresses -> Addresses \cup {NULL, Junk}]
  BY <1>4, <1>8
<1>11. \A a \in Addresses : a[1] # s => new[a] = link[a]
  BY <1>4, <1>5
<1>12. \A a \in ObjectsIn(s, k) : new[a] # Junk
  BY <1>4, <1>8, <1>9, SizeFacts
<1>13. <<s, 0>> \in ObjectsIn(s, k)
  BY <1>1, <1>7, OffsetFacts DEF ObjectsIn
<1> DEFINE f == [i \in Int |-> <<s, i * z>>]
<1>14. ASSUME NEW i \in 0..(n - 1) PROVE f[i] \in ObjectsIn(s, k)
  <2>1. i * z \in Offsets(k) /\ f[i] = <<s, i * z>>
    BY DEF Offsets, n, z
  <2>2. i * z \in 0..(SlabBytes - 1)
    BY <2>1, <1>1, OffsetFacts DEF z
  <2> QED
    BY <2>1, <2>2, <1>7 DEF ObjectsIn
<1>15. ASSUME NEW a \in ObjectsIn(s, k) PROVE \E i \in 0..(n - 1) : f[i] = a
  <2>1. PICK i \in 0..(n - 1) : a[2] = i * z
    BY DEF ObjectsIn, Offsets, n, z
  <2>2. a = <<s, i * z>>
    BY <2>1, <1>6 DEF ObjectsIn
  <2> QED
    BY <2>2
<1>16. ASSUME NEW i \in Nat, NEW j \in Nat, i < j
       PROVE  i * z \in Nat /\ j * z \in Nat /\ i * z < j * z
  <2>1. PICK d \in Nat : j = i + 1 + d
    <3>1. j - i - 1 \in Nat /\ j = i + 1 + (j - i - 1)
      BY <1>16
    <3> QED
      BY <3>1
  <2>2. j * z = i * z + z + d * z /\ d * z \in Nat /\ i * z \in Nat /\ j * z \in Nat
    BY <2>1, <1>1
  <2> QED
    BY <2>2, <1>1
<1>17. ASSUME NEW i \in 0..(n - 1), NEW j \in 0..(n - 1), f[i] = f[j]
       PROVE  i = j
  <2>1. i \in Nat /\ j \in Nat /\ i * z = j * z
    BY <1>17
  <2> QED
    BY <2>1, <1>16
<1>18. ASSUME NEW i \in 0..(n - 2) PROVE new[f[i]] = f[i + 1]
  <2>1. i \in 0..(n - 1) /\ i + 1 \in 0..(n - 1) /\ i \in Int /\ i + 1 \in Int
    BY <1>2
  <2>2. f[i] \in D /\ f[i] \in Addresses /\ f[i] = <<s, i * z>> /\ f[i + 1] = <<s, (i + 1) * z>>
    BY <2>1, <1>9, <1>14
  <2>3. (i + 1) * z = i * z + z /\ i * z \in Nat
    BY <2>1, <1>1
  <2>4. (i + 1) * z \in Offsets(k)
    BY <2>1 DEF Offsets, n, z
  <2>5. i * z + z < SlabBytes
    BY <2>3, <2>4, <1>1, OffsetFacts DEF z
  <2>6. new[f[i]] = line[f[i]] /\ f[i][2] = i * z
    BY <2>2, <1>4
  <2> HIDE DEF f
  <2> QED
    BY <2>2, <2>3, <2>5, <2>6, <1>3
<1>19. Enumerates(f, 0, n, ObjectsIn(s, k), new)
  <2>1. 0 + n - 1 = n - 1 /\ 0 + n - 2 = n - 2
    BY <1>2
  <2> HIDE DEF f
  <2> QED
    BY <2>1, <1>14, <1>15, <1>17, <1>18 DEF Enumerates
<1>20. f[0] = <<s, 0>>
  BY <1>1
<1>21. IsList(ObjectsIn(s, k), <<s, 0>>, n, new)
  <2> HIDE DEF f
  <2> QED
    BY <1>19, <1>20 DEF IsList
<1> QED
  BY <1>10, <1>11, <1>12, <1>13, <1>21 DEF n, z
-----------------------------------------------------------------------------
(* What a step leaves alone. *)

Alone(c) == \A d \in Callers \ {c} : call[d].at = "idle"

LEMMA AtAlone ==
  ASSUME AllInSwi, NEW c \in Callers, NEW l, At(c, l)
  PROVE  Alone(c) /\ call[c].at = l
BY DEF AllInSwi, At, Alone

\* A free list depends on its objects alone.
LEMMA CacheStays ==
  ASSUME NEW own, NEW own2, NEW k \in CacheIds, NEW out, NEW extra,
         CacheOK(own, k, out, extra), cache[k].nr + extra \in Nat,
         ObjectsBy(own2, k) = ObjectsBy(own, k), cache'[k] = cache[k],
         \A a \in ObjectsBy(own, k) : given'[a] = given[a] /\ link'[a] = link[a]
  PROVE  CacheOK(own2, k, out, extra)'
<1>1. Spare(own2, k)' = Spare(own, k)
  BY DEF Spare, ObjectsBy
<1> DEFINE S == Spare(own, k) \ out
<1>2. \A a \in S : link'[a] = link[a]
  BY DEF Spare
<1>3. IsList(S, cache[k].nf, cache[k].nr + extra, link) /\ \A a \in S : link[a] # Junk
  BY DEF CacheOK
<1> HIDE DEF S
<1>4. IsList(S, cache[k].nf, cache[k].nr + extra, link')
  BY <1>2, <1>3, ListStays
<1> QED
  BY <1>1, <1>2, <1>3, <1>4 DEF CacheOK, S

\* The slabs of a cache depend on their own links alone.
LEMMA ChainStays ==
  ASSUME NEW own, NEW own2, NEW k \in CacheIds, ChainInv(own, k),
         SlabsBy(own2, k) = SlabsBy(own, k),
         cache'[k].head = cache[k].head, cache'[k].end = cache[k].end,
         \A s \in SlabsBy(own, k) : next'[s] = next[s]
  PROVE  ChainInv(own2, k)'
<1>1. SlabsBy(own2, k)' = SlabsBy(own, k) /\ (Live(k)' <=> Live(k))
  BY DEF SlabsBy, Live
<1>2. CASE ~Live(k)
  BY <1>1, <1>2 DEF ChainInv
<1>3. CASE Live(k)
  <2>1. PICK n \in Nat : IsList(SlabsBy(own, k), cache[k].head, n, next)
    BY <1>3 DEF ChainInv
  <2>2. IsList(SlabsBy(own, k), cache[k].head, n, next')
    BY <2>1, ListStays
  <2>3. cache[k].end \in SlabsBy(own, k) /\ next[cache[k].end] = NULL
    BY <1>3 DEF ChainInv
  <2>4. next'[cache'[k].end] = NULL
    BY <2>3
  <2> QED
    BY <1>1, <1>3, <2>2, <2>3, <2>4 DEF ChainInv
<1> QED
  BY <1>2, <1>3

\* Only a call that is at such a place has slabs in its hand.
LEMMA HandsEmpty ==
  ASSUME NEW own, Inv(own)
  PROVE  /\ (\A c \in Callers : call[c].at # "append") => SlabsBy(own, Hand) = {}
         /\ (\A c \in Callers : call[c].at # "destroy") => SlabsBy(own, Dying) = {}
BY DEF Inv, OwnInv

SetsNr(k, x) == cache' = [cache EXCEPT ![k].nr = x]
SetsNf(k, x) == cache' = [cache EXCEPT ![k].nf = x]
Keeps(k) == cache'[k].head = cache[k].head /\ cache'[k].end = cache[k].end

\* A step of caller c that works on cache k and on the objects in its slabs.
LEMMA WorkStep ==
  ASSUME NEW own, Inv(own), NEW c \in Callers, NEW k \in CacheIds, Alone(c), Types',
         UNCHANGED <<next, pool>>,
         \A d \in Callers \ {c} : call'[d] = call[d],
         call[c].at \notin {"append", "destroy"}, call'[c].at \notin {"append", "destroy"},
         call[c].at # "idle" => call[c].k = k,
         \A j \in CacheIds \ {k} : cache'[j] = cache[j],
         Keeps(k),
         \A a \in Addresses : own[a[1]] # k => given'[a] = given[a] /\ link'[a] = link[a],
         Live(k) => On(k)' \/ CacheOK(own, k, {}, 0)',
         CallInv(own, c)', GivenInv(own)'
  PROVE  Inv(own)'
<1>1. OneCall'
  BY DEF OneCall, Alone
<1>2. OwnInv(own)'
  <2>1. SlabsBy(own, Hand)' = SlabsBy(own, Hand) /\ SlabsBy(own, Dying)' = SlabsBy(own, Dying)
        /\ SlabsBy(own, Pool)' = SlabsBy(own, Pool)
    BY DEF SlabsBy
  <2>2. SlabsBy(own, Hand) = {} /\ SlabsBy(own, Dying) = {}
    BY HandsEmpty DEF Alone
  <2>4. own \in [Slabs -> Owners] /\ pool = SlabsBy(own, Pool)
    BY DEF Inv, OwnInv
  <2> QED
    BY <2>1, <2>2, <2>4 DEF OwnInv
<1>3. ASSUME NEW j \in CacheIds PROVE ChainInv(own, j)'
  <2>1. ChainInv(own, j)
    BY DEF Inv
  <2>2. cache'[j].head = cache[j].head /\ cache'[j].end = cache[j].end
    BY DEF Keeps
  <2> QED
    BY <2>1, <2>2, ChainStays
<1>4. ASSUME NEW j \in CacheIds, Live(j)' PROVE (On(j) \/ CacheOK(own, j, {}, 0))'
  <2>1. CASE j = k
    <3>1. Live(k)
      BY <1>4, <2>1 DEF Live, Keeps
    <3> QED
      BY <2>1, <3>1
  <2>2. CASE j # k
    <3>1. cache'[j] = cache[j]
      BY <2>2
    <3>2. Live(j)
      BY <1>4, <3>1 DEF Live
    <3>3. ~On(j)
      BY <2>2 DEF On, Alone
    <3>4. CacheOK(own, j, {}, 0)
      BY <3>2, <3>3 DEF Inv
    <3>5. cache[j].nr + 0 \in Nat
      BY DEF Inv, Types, CacheType
    <3>6. \A a \in ObjectsBy(own, j) : given'[a] = given[a] /\ link'[a] = link[a]
      BY <2>2 DEF ObjectsBy
    <3> QED
      BY <3>1, <3>4, <3>5, <3>6, CacheStays
  <2> QED
    BY <2>1, <2>2
<1>5. ASSUME NEW d \in Callers PROVE CallInv(own, d)'
  <2>1. CASE d = c
    BY <2>1
  <2>2. CASE d # c
    <3>1. call'[d].at = "idle"
      BY <2>2 DEF Alone
    <3> QED
      BY <3>1 DEF CallInv
  <2> QED
    BY <2>1, <2>2
<1> QED
  BY <1>1, <1>2, <1>3, <1>4, <1>5 DEF Inv

-----------------------------------------------------------------------------
(* The steps of kmalloc and kmem_cache_alloc. *)

LEMMA KmallocInv ==
  ASSUME AllInSwi, NEW own, Inv(own), NEW c \in Callers, NEW size \in Sizes, Kmalloc(c, size)
  PROVE  Inv(own)'
<1> DEFINE k == Index(size) + 1
<1>1. /\ Alone(c) /\ call[c].at = "idle" /\ Index(size) < Caches /\ cache[k].head # NULL
      /\ call' = [call EXCEPT ![c].at = "check", ![c].k = k, ![c].size = size]
      /\ UNCHANGED <<cache, next, link, cachep, pool, given>>
  BY AtAlone DEF Kmalloc
<1>2. size \in Nat /\ size # 0
  BY <1>1, KmemAssumption DEF Index
<1>3. k \in CacheIds /\ size \in 1..ObjSize(k)
  <2>1. Index(size) = (size - 1) \div Unit /\ size - 1 \in Nat
    BY <1>2 DEF Index
  <2> DEFINE q == (size - 1) \div Unit
  <2>2. q \in Nat /\ size - 1 = q * Unit + ((size - 1) % Unit) /\ (size - 1) % Unit \in 0..(Unit - 1)
    BY <2>1, SizeFacts, DivFacts
  <2> HIDE DEF q
  <2>3. (q + 1) * Unit = q * Unit + Unit /\ q * Unit \in Nat
    BY <2>2, SizeFacts
  <2>4. size <= (q + 1) * Unit /\ (q + 1) * Unit \in Nat
    BY <2>2, <2>3, <1>2, SizeFacts
  <2>5. k = q + 1 /\ q < Caches
    BY <2>1, <1>1 DEF q
  <2> HIDE DEF k
  <2>6. k \in CacheIds
    BY <2>2, <2>5, SizeFacts DEF CacheIds
  <2>7. ObjSize(k) = (q + 1) * Unit
    BY <2>5 DEF ObjSize
  <2> QED
    BY <1>2, <2>4, <2>6, <2>7
<1> HIDE DEF k
<1>4. Types /\ GivenInv(own)
  BY DEF Inv
<1>5. Types'
  <2>1. call \in [Callers -> CallType] /\ k \in CacheIds /\ size \in Nat /\ "check" \in Places
    BY <1>2, <1>3, <1>4 DEF Types, Places
  <2>2. call' \in [Callers -> CallType]
    BY <1>1, <2>1 DEF CallType
  <2> QED
    BY <1>1, <1>4, <2>2 DEF Types
<1>6. call'[c].at = "check" /\ call'[c].k = k /\ call'[c].size = size
      /\ \A d \in Callers \ {c} : call'[d] = call[d]
  BY <1>1, <1>4 DEF Types
<1>7. ~On(k) /\ Live(k)
  BY <1>1 DEF On, Alone, Live
<1>8. CacheOK(own, k, {}, 0)'
  <2>1. CacheOK(own, k, {}, 0)
    BY <1>3, <1>7 DEF Inv
  <2> QED
    BY <2>1, <1>1 DEF CacheOK, Spare, ObjectsBy
<1>9. CallInv(own, c)'
  BY <1>1, <1>3, <1>6, <1>7, <1>8 DEF CallInv, Live
<1>10. GivenInv(own)'
  BY <1>1, <1>4 DEF GivenInv
<1> QED
  BY <1>1, <1>3, <1>5, <1>6, <1>8, <1>9, <1>10, WorkStep DEF Keeps

LEMMA GotoFacts ==
  ASSUME NEW c \in Callers, NEW l \in Places, call \in [Callers -> CallType], Goto(c, l)
  PROVE  /\ call' \in [Callers -> CallType]
         /\ \A d \in Callers \ {c} : call'[d] = call[d]
         /\ call'[c].at = l /\ call'[c].k = call[c].k /\ call'[c].slab = call[c].slab
         /\ call'[c].obj = call[c].obj /\ call'[c].size = call[c].size
BY DEF Goto, CallType

LEMMA ReturnFacts ==
  ASSUME NEW c \in Callers, call \in [Callers -> CallType], Return(c)
  PROVE  /\ call' \in [Callers -> CallType]
         /\ \A d \in Callers \ {c} : call'[d] = call[d]
         /\ call'[c].at = "idle"
<1>1. NoCall \in CallType
  <2>1. 1 \in CacheIds
    BY KmemAssumption DEF CacheIds
  <2> QED
    BY <2>1 DEF NoCall, CallType, Places
<1> QED
  BY <1>1 DEF Return, NoCall

LEMMA NrFacts ==
  ASSUME NEW k \in CacheIds, NEW x \in Nat, cache \in [CacheIds -> CacheType], SetsNr(k, x)
  PROVE  /\ cache' \in [CacheIds -> CacheType] /\ Keeps(k)
         /\ cache'[k].nr = x /\ cache'[k].nf = cache[k].nf
         /\ \A j \in CacheIds \ {k} : cache'[j] = cache[j]
BY DEF SetsNr, CacheType, Keeps

LEMMA NfFacts ==
  ASSUME NEW k \in CacheIds, NEW x \in Addresses \cup {NULL},
         cache \in [CacheIds -> CacheType], SetsNf(k, x)
  PROVE  /\ cache' \in [CacheIds -> CacheType] /\ Keeps(k)
         /\ cache'[k].nf = x /\ cache'[k].nr = cache[k].nr
         /\ \A j \in CacheIds \ {k} : cache'[j] = cache[j]
BY DEF SetsNf, CacheType, Keeps

LEMMA CheckInv ==
  ASSUME AllInSwi, NEW own, Inv(own), NEW c \in Callers, Check(c),
         NEW k \in CacheIds, call[c].k = k
  PROVE  Inv(own)'
<1> DEFINE l == IF cache[k].nr = 0 THEN "refill" ELSE "take"
<1>1. /\ Alone(c) /\ call[c].at = "check" /\ Goto(c, l)
      /\ UNCHANGED <<cache, next, link, cachep, pool, given>>
  BY AtAlone DEF Check, Mine
<1> HIDE DEF l
<1>2. Types /\ GivenInv(own) /\ CallInv(own, c)  /\ l \in Places
  BY DEF Inv, Types, CallType, l, Places
<1>3. Types'
  BY <1>1, <1>2, GotoFacts DEF Types
<1>4. call'[c].at = l /\ call'[c].k = k /\ call'[c].size = call[c].size
      /\ \A d \in Callers \ {c} : call'[d] = call[d]
  BY <1>1, <1>2, GotoFacts DEF Types
<1>5. Live(k) /\ CacheOK(own, k, {}, 0)
  BY <1>1, <1>2 DEF CallInv
<1>6. CacheOK(own, k, {}, 0)'
  BY <1>1, <1>5 DEF CacheOK, Spare, ObjectsBy
<1>7. CallInv(own, c)'
  <2>1. cache[k].nr = 0 \/ cache[k].nr > 0
    BY <1>2 DEF Types, CacheType
  <2> QED
    BY <1>1, <1>2, <1>4, <1>5, <1>6, <2>1 DEF CallInv, Live, l
<1>8. GivenInv(own)'
  BY <1>1, <1>2 DEF GivenInv
<1> QED
  BY <1>1, <1>2, <1>3, <1>4, <1>6, <1>7, <1>8, WorkStep DEF l, Keeps

LEMMA RefillFailsInv ==
  ASSUME AllInSwi, NEW own, Inv(own), NEW c \in Callers, RefillFails(c),
         NEW k \in CacheIds, call[c].k = k
  PROVE  Inv(own)'
<1>1. /\ Alone(c) /\ call[c].at = "refill" /\ Return(c)
      /\ UNCHANGED <<cache, next, link, cachep, pool, given>>
  BY AtAlone DEF RefillFails
<1>2. Types /\ GivenInv(own) /\ CallInv(own, c) 
  BY DEF Inv, Types, CallType
<1>3. Types'
  BY <1>1, <1>2, ReturnFacts DEF Types
<1>4. call'[c].at = "idle" /\ \A d \in Callers \ {c} : call'[d] = call[d]
  BY <1>1, <1>2, ReturnFacts DEF Types
<1>5. CacheOK(own, k, {}, 0)'
  BY <1>1, <1>2 DEF CallInv, CacheOK, Spare, ObjectsBy
<1>6. CallInv(own, c)'
  BY <1>4 DEF CallInv
<1>7. GivenInv(own)'
  BY <1>1, <1>2 DEF GivenInv
<1> QED
  BY <1>1, <1>2, <1>3, <1>4, <1>5, <1>6, <1>7, WorkStep DEF Keeps

LEMMA LineInv ==
  ASSUME AllInSwi, NEW own, Inv(own), NEW c \in Callers, Line(c),
         NEW k \in CacheIds, call[c].k = k, NEW s, call[c].slab = s
  PROVE  Inv(own)'
<1> DEFINE n == LineCount(ObjSize(k))
<1>1. /\ Alone(c) /\ call[c].at = "line" /\ Goto(c, "take")
      /\ link' = Overwrite(link, LineLinks(s, ObjSize(k)))
      /\ SetsNr(k, cache[k].nr + n)
      /\ UNCHANGED <<next, cachep, pool, given>>
  BY AtAlone DEF Line, Mine, SetsNr
<1>2. Types /\ GivenInv(own) /\ CallInv(own, c)  /\ "take" \in Places
  BY DEF Inv, Types, CallType, Places
<1>3. /\ s \in Slabs /\ cache[k].nf = <<s, 0>> /\ cache[k].nr = 0 /\ Live(k)
      /\ Spare(own, k) = ObjectsIn(s, k) /\ call[c].size \in 1..ObjSize(k)
  BY <1>1, <1>2 DEF CallInv
<1>4. n \in Nat /\ n > 0
  BY <1>2, OffsetFacts
<1>5. /\ link' \in [Addresses -> Addresses \cup {NULL, Junk}]
      /\ \A a \in Addresses : a[1] # s => link'[a] = link[a]
      /\ \A a \in ObjectsIn(s, k) : link'[a] # Junk
      /\ <<s, 0>> \in ObjectsIn(s, k)
      /\ IsList(ObjectsIn(s, k), <<s, 0>>, n, link')
  BY <1>1, <1>2, <1>3, LineFacts DEF Types
<1> HIDE DEF n
<1>6. /\ cache' \in [CacheIds -> CacheType] /\ Keeps(k)
      /\ cache'[k].nr = n /\ cache'[k].nf = cache[k].nf
      /\ \A j \in CacheIds \ {k} : cache'[j] = cache[j]
  <2>1. cache[k].nr + n = n
    BY <1>3, <1>4
  <2> QED
    BY <1>1, <1>2, <1>4, <2>1, NrFacts DEF Types
<1>7. Types'
  BY <1>1, <1>2, <1>5, <1>6, GotoFacts DEF Types
<1>8. call'[c].at = "take" /\ call'[c].k = k /\ call'[c].size = call[c].size
      /\ \A d \in Callers \ {c} : call'[d] = call[d]
  BY <1>1, <1>2, GotoFacts DEF Types
<1>9. own[s] = k
  BY <1>3, <1>5 DEF Spare, ObjectsBy
<1>10. CacheOK(own, k, {}, 0)'
  <2>1. Spare(own, k)' = ObjectsIn(s, k)
    BY <1>1, <1>3 DEF Spare, ObjectsBy
  <2>2. Spare(own, k)' \ {} = ObjectsIn(s, k) /\ cache'[k].nr + 0 = n
    BY <2>1, <1>4, <1>6
  <2> QED
    BY <2>2, <1>3, <1>5, <1>6 DEF CacheOK
<1>11. CallInv(own, c)'
  BY <1>3, <1>4, <1>6, <1>8, <1>10 DEF CallInv, Live, Keeps
<1>12. GivenInv(own)'
  BY <1>1, <1>2 DEF GivenInv
<1>13. On(k)'
  BY <1>8 DEF On
<1>14. \A a \in Addresses : own[a[1]] # k => given'[a] = given[a] /\ link'[a] = link[a]
  BY <1>1, <1>5, <1>9
<1> QED
  BY <1>1, <1>2, <1>6, <1>7, <1>8, <1>11, <1>12, <1>13, <1>14, WorkStep

LEMMA TakeInv ==
  ASSUME AllInSwi, NEW own, Inv(own), NEW c \in Callers, Take(c),
         NEW k \in CacheIds, call[c].k = k
  PROVE  Inv(own)'
<1>1. /\ Alone(c) /\ call[c].at = "take" /\ Goto(c, "first")
      /\ SetsNr(k, cache[k].nr - 1)
      /\ UNCHANGED <<next, link, cachep, pool, given>>
  BY AtAlone DEF Take, Mine, SetsNr
<1>2. Types /\ GivenInv(own) /\ CallInv(own, c)  /\ "first" \in Places
  BY DEF Inv, Types, CallType, Places
<1>3. /\ cache[k].nr \in Nat /\ cache[k].nr - 1 \in Nat /\ Live(k)
      /\ CacheOK(own, k, {}, 0) /\ call[c].size \in 1..ObjSize(k)
  BY <1>1, <1>2 DEF CallInv, Types, CacheType
<1>4. /\ cache' \in [CacheIds -> CacheType] /\ Keeps(k)
      /\ cache'[k].nr = cache[k].nr - 1 /\ cache'[k].nf = cache[k].nf
      /\ \A j \in CacheIds \ {k} : cache'[j] = cache[j]
  BY <1>1, <1>2, <1>3, NrFacts DEF Types
<1>5. Types'
  BY <1>1, <1>2, <1>4, GotoFacts DEF Types
<1>6. call'[c].at = "first" /\ call'[c].k = k /\ call'[c].size = call[c].size
      /\ \A d \in Callers \ {c} : call'[d] = call[d]
  BY <1>1, <1>2, GotoFacts DEF Types
<1>7. CacheOK(own, k, {}, 1)'
  <2>1. Spare(own, k)' = Spare(own, k)
    BY <1>1 DEF Spare, ObjectsBy
  <2>2. cache'[k].nr + 1 = cache[k].nr + 0
    BY <1>3, <1>4
  <2> QED
    BY <2>1, <2>2, <1>1, <1>3, <1>4 DEF CacheOK
<1>8. CallInv(own, c)'
  BY <1>3, <1>4, <1>6, <1>7 DEF CallInv, Live, Keeps
<1>9. GivenInv(own)'
  BY <1>1, <1>2 DEF GivenInv
<1>10. On(k)'
  BY <1>6 DEF On
<1> QED
  BY <1>1, <1>2, <1>4, <1>5, <1>6, <1>8, <1>9, <1>10, WorkStep

LEMMA FirstInv ==
  ASSUME AllInSwi, NEW own, Inv(own), NEW c \in Callers, First(c),
         NEW k \in CacheIds, call[c].k = k
  PROVE  Inv(own)'
<1>1. /\ Alone(c) /\ call[c].at = "first"
      /\ call' = [call EXCEPT ![c].at = "unlink", ![c].obj = cache[k].nf]
      /\ UNCHANGED <<cache, next, link, cachep, pool, given>>
  BY AtAlone DEF First, Mine
<1>2. Types /\ GivenInv(own) /\ CallInv(own, c)
  BY DEF Inv
<1>3. /\ call' \in [Callers -> CallType]
      /\ call'[c].at = "unlink" /\ call'[c].k = k /\ call'[c].size = call[c].size
      /\ call'[c].obj = cache[k].nf /\ \A d \in Callers \ {c} : call'[d] = call[d]
  <2>1. cache[k].nf \in Addresses \cup {NULL} /\ "unlink" \in Places
        /\ call \in [Callers -> CallType]
    BY <1>2 DEF Types, CacheType, Places
  <2> QED
    BY <1>1, <2>1 DEF CallType
<1>4. Types'
  BY <1>1, <1>2, <1>3 DEF Types
<1>5. Live(k) /\ CacheOK(own, k, {}, 1) /\ call[c].size \in 1..ObjSize(k)
  BY <1>1, <1>2 DEF CallInv
<1>6. CacheOK(own, k, {}, 1)'
  BY <1>1, <1>5 DEF CacheOK, Spare, ObjectsBy
<1>7. CallInv(own, c)'
  BY <1>1, <1>3, <1>5, <1>6 DEF CallInv, Live
<1>8. GivenInv(own)'
  BY <1>1, <1>2 DEF GivenInv
<1>9. On(k)'
  BY <1>3 DEF On
<1> QED
  BY <1>1, <1>3, <1>4, <1>7, <1>8, <1>9, WorkStep DEF Keeps

LEMMA UnlinkInv ==
  ASSUME AllInSwi, NEW own, Inv(own), NEW c \in Callers, Unlink(c),
         NEW k \in CacheIds, call[c].k = k, NEW p, call[c].obj = p
  PROVE  Inv(own)'
<1>1. /\ Alone(c) /\ call[c].at = "unlink" /\ Goto(c, "tag") /\ p \in Addresses
      /\ SetsNf(k, link[p])
      /\ UNCHANGED <<next, link, cachep, pool, given>>
  BY AtAlone DEF Unlink, Mine, SetsNf
<1>2. Types /\ GivenInv(own) /\ CallInv(own, c) /\ "tag" \in Places
  BY DEF Inv, Places
<1>3. /\ Live(k) /\ CacheOK(own, k, {}, 1) /\ call[c].size \in 1..ObjSize(k)
      /\ p = cache[k].nf
  BY <1>1, <1>2 DEF CallInv
<1>4. cache[k].nr \in Nat /\ link[p] \in Addresses \cup {NULL, Junk}
  BY <1>1, <1>2 DEF Types, CacheType
<1> DEFINE S == Spare(own, k)
<1>5. IsList(S, p, cache[k].nr + 1, link) /\ \A a \in S : link[a] # Junk
  <2>1. Spare(own, k) \ {} = S
    OBVIOUS
  <2> QED
    BY <2>1, <1>3 DEF CacheOK
<1> HIDE DEF S
<1>6. p \in S /\ IsList(S \ {p}, link[p], cache[k].nr, link)
  <2>1. cache[k].nr + 1 \in Nat /\ cache[k].nr + 1 > 0 /\ (cache[k].nr + 1) - 1 = cache[k].nr
    BY <1>4
  <2>2. p \in S /\ IsList(S \ {p}, link[p], (cache[k].nr + 1) - 1, link)
    BY <2>1, <1>5, ListPop
  <2> QED
    BY <2>1, <2>2
<1>7. /\ cache' \in [CacheIds -> CacheType] /\ Keeps(k)
      /\ cache'[k].nf = link[p] /\ cache'[k].nr = cache[k].nr
      /\ \A j \in CacheIds \ {k} : cache'[j] = cache[j]
  <2>1. link[p] \in Addresses \cup {NULL}
    BY <1>4, <1>5, <1>6
  <2> QED
    BY <1>1, <1>2, <2>1, NfFacts DEF Types
<1>8. Types'
  BY <1>1, <1>2, <1>7, GotoFacts DEF Types
<1>9. call'[c].at = "tag" /\ call'[c].k = k /\ call'[c].size = call[c].size
      /\ call'[c].obj = p /\ \A d \in Callers \ {c} : call'[d] = call[d]
  BY <1>1, <1>2, GotoFacts DEF Types
<1>10. p \in Spare(own, k)' /\ CacheOK(own, k, {p}, 0)'
  <2>1. Spare(own, k)' = S
    BY <1>1 DEF Spare, ObjectsBy, S
  <2>2. cache'[k].nr + 0 = cache[k].nr /\ link' = link
    BY <1>1, <1>4, <1>7
  <2> QED
    BY <2>1, <2>2, <1>5, <1>6, <1>7 DEF CacheOK
<1>11. CallInv(own, c)'
  BY <1>3, <1>7, <1>9, <1>10 DEF CallInv, Live, Keeps
<1>12. GivenInv(own)'
  BY <1>1, <1>2 DEF GivenInv
<1>13. On(k)'
  BY <1>9 DEF On
<1> QED
  BY <1>1, <1>7, <1>8, <1>9, <1>11, <1>12, <1>13, WorkStep

LEMMA TagInv ==
  ASSUME AllInSwi, NEW own, Inv(own), NEW c \in Callers, Tag(c),
         NEW k \in CacheIds, call[c].k = k, NEW p, call[c].obj = p, NEW z, call[c].size = z
  PROVE  Inv(own)'
<1>1. /\ Alone(c) /\ call[c].at = "tag" /\ Return(c)
      /\ cachep' = [cachep EXCEPT ![PageOf(p)] = k]
      /\ given' = [given EXCEPT ![p] = Append(@, z)]
      /\ link' = [link EXCEPT ![p] = Junk]
      /\ UNCHANGED <<cache, next, pool>>
  BY AtAlone DEF Tag, Mine
<1>2. Types /\ GivenInv(own) /\ CallInv(own, c)
  BY DEF Inv
<1>3. /\ Live(k) /\ CacheOK(own, k, {p}, 0) /\ z \in 1..ObjSize(k) /\ p \in Spare(own, k)
  BY <1>1, <1>2 DEF CallInv
<1>4. p \in Addresses /\ own[p[1]] = k /\ p[2] \in Offsets(k) /\ given[p] = <<>>
  BY <1>3 DEF Spare, ObjectsBy
<1>5. ObjSize(k) \in Nat /\ z \in Nat
  BY <1>3, SizeFacts
<1>6. /\ given'[p] = <<z>>
      /\ \A a \in Addresses \ {p} : given'[a] = given[a] /\ link'[a] = link[a]
  <2>1. Append(<<>>, z) = <<z>>
    BY <1>5
  <2> QED
    BY <2>1, <1>1, <1>2, <1>4 DEF Types
<1>7. PageOf(p) \in SlabPages
  BY <1>4 DEF SlabPages
<1>8. Types'
  <2>1. given' \in [Addresses -> {<<>>} \cup {<<y>> : y \in Nat}]
    <3>1. given' = [given EXCEPT ![p] = <<z>>]
      BY <1>1, <1>2, <1>4, <1>6 DEF Types
    <3>2. <<z>> \in {<<y>> : y \in Nat}
      BY <1>5
    <3> QED
      BY <3>1, <3>2, <1>2 DEF Types
  <2>2. link' \in [Addresses -> Addresses \cup {NULL, Junk}]
    BY <1>1, <1>2 DEF Types
  <2>3. cachep' \in [SlabPages -> CacheIds \cup {NULL}]
    BY <1>1, <1>2 DEF Types
  <2> QED
    BY <1>1, <1>2, <2>1, <2>2, <2>3, ReturnFacts DEF Types
<1>9. call'[c].at = "idle" /\ \A d \in Callers \ {c} : call'[d] = call[d]
  BY <1>1, <1>2, ReturnFacts DEF Types
<1>10. CacheOK(own, k, {}, 0)'
  <2>1. Spare(own, k)' \ {} = Spare(own, k) \ {p}
    <3>1. <<z>> # <<>>
      OBVIOUS
    <3> QED
      BY <3>1, <1>6 DEF Spare, ObjectsBy
  <2>2. cache[k].nr + 0 \in Nat
    BY <1>2 DEF Types, CacheType
  <2>3. \A a \in Spare(own, k) \ {p} : link'[a] = link[a]
    BY <1>6 DEF Spare, ObjectsBy
  <2>4. IsList(Spare(own, k) \ {p}, cache[k].nf, cache[k].nr + 0, link')
    <3> DEFINE S == Spare(own, k) \ {p}
    <3>1. IsList(S, cache[k].nf, cache[k].nr + 0, link) /\ \A a \in S : link'[a] = link[a]
      BY <1>3, <2>3 DEF CacheOK
    <3> HIDE DEF S
    <3>2. IsList(S, cache[k].nf, cache[k].nr + 0, link')
      BY <3>1, <2>2, ListStays
    <3> QED
      BY <3>2 DEF S
  <2> QED
    BY <2>1, <2>3, <2>4, <1>1, <1>3 DEF CacheOK
<1>11. GivenInv(own)'
  <2> SUFFICES ASSUME NEW a \in Addresses, given'[a] # <<>>
               PROVE  /\ own[a[1]] \in CacheIds
                      /\ a[2] \in Offsets(own[a[1]])
                      /\ given'[a][1] \in 1..ObjSize(own[a[1]])
                      /\ cachep'[PageOf(a)] = own[a[1]]
    BY DEF GivenInv
  <2>1. CASE a = p
    <3>1. given'[a][1] = z
      BY <1>6, <2>1
    <3>2. cachep'[PageOf(p)] = k
      BY <1>1, <1>2, <1>7 DEF Types
    <3> QED
      BY <2>1, <3>1, <3>2, <1>3, <1>4
  <2>2. CASE a # p
    <3>1. /\ own[a[1]] \in CacheIds /\ a[2] \in Offsets(own[a[1]])
          /\ given[a][1] \in 1..ObjSize(own[a[1]]) /\ cachep[PageOf(a)] = own[a[1]]
      BY <1>2, <1>6, <2>2 DEF GivenInv
    <3>2. CASE PageOf(a) = PageOf(p)
      <4>1. a[1] = p[1]
        BY <3>2 DEF PageOf
      <4>2. cachep'[PageOf(p)] = k
        BY <1>1, <1>2, <1>7 DEF Types
      <4> QED
        BY <3>1, <3>2, <4>1, <4>2, <1>4, <1>6, <2>2
    <3>3. CASE PageOf(a) # PageOf(p)
      <4>1. PageOf(a) \in SlabPages
        BY DEF SlabPages
      <4>2. cachep'[PageOf(a)] = cachep[PageOf(a)]
        BY <3>3, <4>1, <1>1, <1>2 DEF Types
      <4> QED
        BY <3>1, <4>2, <1>6, <2>2
    <3> QED
      BY <3>2, <3>3
  <2> QED
    BY <2>1, <2>2
<1>12. CallInv(own, c)'
  BY <1>9 DEF CallInv
<1>13. \A a \in Addresses : own[a[1]] # k => given'[a] = given[a] /\ link'[a] = link[a]
  BY <1>4, <1>6
<1> QED
  BY <1>1, <1>8, <1>9, <1>10, <1>11, <1>12, <1>13, WorkStep DEF Keeps

-----------------------------------------------------------------------------
(* The steps of kfree and kmem_cache_free. *)

LEMMA KfreeInv ==
  ASSUME AllInSwi, NEW own, Inv(own), NEW c \in Callers, NEW a \in Addresses, Kfree(c, a)
  PROVE  Inv(own)'
<1>1. /\ Alone(c) /\ call[c].at = "idle" /\ given[a] # <<>>
      /\ given' = [given EXCEPT ![a] = Tail(@)]
      /\ call' = [call EXCEPT ![c].at = "push", ![c].obj = a, ![c].k = cachep[PageOf(a)]]
      /\ UNCHANGED <<cache, next, link, cachep, pool>>
  BY AtAlone DEF Kfree
<1>2. Types /\ GivenInv(own) /\ CallInv(own, c)
  BY DEF Inv
<1>3. PICK k \in CacheIds : own[a[1]] = k /\ cachep[PageOf(a)] = k /\ a[2] \in Offsets(k)
  BY <1>1, <1>2 DEF GivenInv
<1>4. /\ given'[a] = <<>>
      /\ \A b \in Addresses \ {a} : given'[b] = given[b]
      /\ given' \in [Addresses -> {<<>>} \cup {<<z>> : z \in Nat}]
  <2>1. PICK z \in Nat : given[a] = <<z>>
    BY <1>1, <1>2 DEF Types
  <2>2. Tail(<<z>>) = <<>>
    OBVIOUS
  <2>3. given' = [given EXCEPT ![a] = <<>>]
    BY <2>1, <2>2, <1>1
  <2> QED
    BY <2>3, <1>2 DEF Types
<1>5. /\ call' \in [Callers -> CallType]
      /\ call'[c].at = "push" /\ call'[c].k = k /\ call'[c].obj = a
      /\ \A d \in Callers \ {c} : call'[d] = call[d]
  <2>1. "push" \in Places /\ call \in [Callers -> CallType]
        /\ call' = [call EXCEPT ![c].at = "push", ![c].obj = a, ![c].k = k]
    BY <1>1, <1>2, <1>3 DEF Types, Places
  <2> QED
    BY <2>1 DEF CallType
<1>6. Types'
  BY <1>1, <1>2, <1>4, <1>5 DEF Types
<1>7. Live(k)
  <2>1. a[1] \in SlabsBy(own, k)
    BY <1>3 DEF SlabsBy, Addresses
  <2> QED
    BY <2>1 DEF Inv, ChainInv
<1>8. CacheOK(own, k, {}, 0)
  <2>1. ~On(k)
    BY <1>1 DEF On, Alone
  <2> QED
    BY <2>1, <1>7 DEF Inv
<1>9. a \in Spare(own, k)' /\ CacheOK(own, k, {a}, 0)'
  <2>1. Spare(own, k)' = Spare(own, k) \cup {a} /\ a \notin Spare(own, k)
    BY <1>1, <1>3, <1>4 DEF Spare, ObjectsBy
  <2>2. Spare(own, k)' \ {a} = Spare(own, k) \ {}
    BY <2>1
  <2> QED
    BY <2>1, <2>2, <1>1, <1>8 DEF CacheOK
<1>10. CallInv(own, c)'
  BY <1>1, <1>5, <1>7, <1>9 DEF CallInv, Live
<1>11. GivenInv(own)'
  BY <1>1, <1>2, <1>4 DEF GivenInv
<1>12. On(k)'
  BY <1>5 DEF On
<1>13. \A b \in Addresses : own[b[1]] # k => given'[b] = given[b] /\ link'[b] = link[b]
  BY <1>1, <1>3, <1>4
<1> QED
  BY <1>1, <1>5, <1>6, <1>10, <1>11, <1>12, <1>13, WorkStep DEF Keeps

LEMMA PushInv ==
  ASSUME AllInSwi, NEW own, Inv(own), NEW c \in Callers, Push(c),
         NEW k \in CacheIds, call[c].k = k, NEW p, call[c].obj = p
  PROVE  Inv(own)'
<1>1. /\ Alone(c) /\ call[c].at = "push" /\ Goto(c, "top")
      /\ link' = [link EXCEPT ![p] = cache[k].nf]
      /\ UNCHANGED <<cache, next, cachep, pool, given>>
  BY AtAlone DEF Push, Mine
<1>2. Types /\ GivenInv(own) /\ CallInv(own, c) /\ "top" \in Places
  BY DEF Inv, Places
<1>3. Live(k) /\ CacheOK(own, k, {p}, 0) /\ p \in Spare(own, k)
  BY <1>1, <1>2 DEF CallInv
<1>4. p \in Addresses /\ own[p[1]] = k
  BY <1>3 DEF Spare, ObjectsBy
<1>5. cache[k].nf \in Addresses \cup {NULL} /\ cache[k].nr + 0 \in Nat
  BY <1>2 DEF Types, CacheType
<1>6. /\ link'[p] = cache[k].nf
      /\ \A a \in Addresses \ {p} : link'[a] = link[a]
      /\ link' \in [Addresses -> Addresses \cup {NULL, Junk}]
  BY <1>1, <1>2, <1>4, <1>5 DEF Types
<1>7. Types'
  BY <1>1, <1>2, <1>6, GotoFacts DEF Types
<1>8. call'[c].at = "top" /\ call'[c].k = k /\ call'[c].obj = p
      /\ \A d \in Callers \ {c} : call'[d] = call[d]
  BY <1>1, <1>2, GotoFacts DEF Types
<1>9. p \in Spare(own, k)' /\ CacheOK(own, k, {p}, 0)'
  <2> DEFINE S == Spare(own, k) \ {p}
  <2>1. Spare(own, k)' = Spare(own, k) /\ Spare(own, k)' \ {p} = S
    BY <1>1 DEF Spare, ObjectsBy
  <2>2. \A a \in S : link'[a] = link[a]
    BY <1>6 DEF Spare, ObjectsBy
  <2>3. IsList(S, cache[k].nf, cache[k].nr + 0, link) /\ \A a \in S : link[a] # Junk
    BY <1>3 DEF CacheOK
  <2> HIDE DEF S
  <2>4. IsList(S, cache[k].nf, cache[k].nr + 0, link')
    BY <2>2, <2>3, <1>5, ListStays
  <2> QED
    BY <2>1, <2>2, <2>3, <2>4, <1>1, <1>3 DEF CacheOK
<1>10. CallInv(own, c)'
  BY <1>1, <1>3, <1>6, <1>8, <1>9 DEF CallInv, Live
<1>11. GivenInv(own)'
  BY <1>1, <1>2 DEF GivenInv
<1>12. On(k)'
  BY <1>8 DEF On
<1>13. \A a \in Addresses : own[a[1]] # k => given'[a] = given[a] /\ link'[a] = link[a]
  BY <1>1, <1>4, <1>6
<1> QED
  BY <1>1, <1>7, <1>8, <1>10, <1>11, <1>12, <1>13, WorkStep DEF Keeps

LEMMA TopInv ==
  ASSUME AllInSwi, NEW own, Inv(own), NEW c \in Callers, Top(c),
         NEW k \in CacheIds, call[c].k = k, NEW p, call[c].obj = p
  PROVE  Inv(own)'
<1>1. /\ Alone(c) /\ call[c].at = "top" /\ Goto(c, "count")
      /\ SetsNf(k, p)
      /\ UNCHANGED <<next, link, cachep, pool, given>>
  BY AtAlone DEF Top, Mine, SetsNf
<1>2. Types /\ GivenInv(own) /\ CallInv(own, c) /\ "count" \in Places
  BY DEF Inv, Places
<1>3. /\ Live(k) /\ CacheOK(own, k, {p}, 0) /\ p \in Spare(own, k)
      /\ link[p] = cache[k].nf
  BY <1>1, <1>2 DEF CallInv
<1>4. p \in Addresses
  BY <1>3 DEF Spare, ObjectsBy
<1>5. cache[k].nf \in Addresses \cup {NULL} /\ cache[k].nr \in Nat
  BY <1>2 DEF Types, CacheType
<1>6. /\ cache' \in [CacheIds -> CacheType] /\ Keeps(k)
      /\ cache'[k].nf = p /\ cache'[k].nr = cache[k].nr
      /\ \A j \in CacheIds \ {k} : cache'[j] = cache[j]
  BY <1>1, <1>2, <1>4, NfFacts DEF Types
<1>7. Types'
  BY <1>1, <1>2, <1>6, GotoFacts DEF Types
<1>8. call'[c].at = "count" /\ call'[c].k = k
      /\ \A d \in Callers \ {c} : call'[d] = call[d]
  BY <1>1, <1>2, GotoFacts DEF Types
<1>9. CacheOK(own, k, {}, 1)'
  <2> DEFINE S == Spare(own, k) \ {p}
  <2>1. Spare(own, k)' \ {} = S \cup {p} /\ p \notin S
    BY <1>1, <1>3 DEF Spare, ObjectsBy
  <2>2. IsList(S, cache[k].nf, cache[k].nr, link) /\ \A a \in S : link[a] # Junk
    <3>1. cache[k].nr + 0 = cache[k].nr
      BY <1>5
    <3> QED
      BY <3>1, <1>3 DEF CacheOK
  <2> HIDE DEF S
  <2>3. IsList(S \cup {p}, p, cache[k].nr + 1, link)
    BY <2>1, <2>2, <1>3, <1>5, ListPush
  <2>4. link[p] # Junk
    BY <1>3, <1>5, SizeFacts
  <2> QED
    BY <2>1, <2>2, <2>3, <2>4, <1>1, <1>6 DEF CacheOK
<1>10. CallInv(own, c)'
  BY <1>3, <1>6, <1>8, <1>9 DEF CallInv, Live, Keeps
<1>11. GivenInv(own)'
  BY <1>1, <1>2 DEF GivenInv
<1>12. On(k)'
  BY <1>8 DEF On
<1> QED
  BY <1>1, <1>6, <1>7, <1>8, <1>10, <1>11, <1>12, WorkStep

LEMMA CountInv ==
  ASSUME AllInSwi, NEW own, Inv(own), NEW c \in Callers, Count(c),
         NEW k \in CacheIds, call[c].k = k
  PROVE  Inv(own)'
<1>1. /\ Alone(c) /\ call[c].at = "count" /\ Return(c)
      /\ SetsNr(k, cache[k].nr + 1)
      /\ UNCHANGED <<next, link, cachep, pool, given>>
  BY AtAlone DEF Count, Mine, SetsNr
<1>2. Types /\ GivenInv(own) /\ CallInv(own, c)
  BY DEF Inv
<1>3. Live(k) /\ CacheOK(own, k, {}, 1) /\ cache[k].nr \in Nat /\ cache[k].nr + 1 \in Nat
  BY <1>1, <1>2 DEF CallInv, Types, CacheType
<1>4. /\ cache' \in [CacheIds -> CacheType] /\ Keeps(k)
      /\ cache'[k].nr = cache[k].nr + 1 /\ cache'[k].nf = cache[k].nf
      /\ \A j \in CacheIds \ {k} : cache'[j] = cache[j]
  BY <1>1, <1>2, <1>3, NrFacts DEF Types
<1>5. Types'
  BY <1>1, <1>2, <1>4, ReturnFacts DEF Types
<1>6. call'[c].at = "idle" /\ \A d \in Callers \ {c} : call'[d] = call[d]
  BY <1>1, <1>2, ReturnFacts DEF Types
<1>7. CacheOK(own, k, {}, 0)'
  <2>1. Spare(own, k)' = Spare(own, k)
    BY <1>1 DEF Spare, ObjectsBy
  <2>2. cache'[k].nr + 0 = cache[k].nr + 1
    BY <1>3, <1>4
  <2> QED
    BY <2>1, <2>2, <1>1, <1>3, <1>4 DEF CacheOK
<1>8. CallInv(own, c)'
  BY <1>6 DEF CallInv
<1>9. GivenInv(own)'
  BY <1>1, <1>2 DEF GivenInv
<1> QED
  BY <1>1, <1>4, <1>5, <1>6, <1>7, <1>8, <1>9, WorkStep

-----------------------------------------------------------------------------
(* The steps that move slabs. *)

\* A step that changes what slabs are used for, and the caches in K.
LEMMA MoveStep ==
  ASSUME NEW own, Inv(own), NEW own2, NEW K \in SUBSET CacheIds, Types', OneCall',
         OwnInv(own2)', UNCHANGED <<given, cachep>>,
         \A a \in Addresses : given[a] # <<>> => own2[a[1]] = own[a[1]],
         \A j \in CacheIds \ K :
           ~On(j) /\ cache'[j] = cache[j] /\ SlabsBy(own2, j) = SlabsBy(own, j),
         \A s \in Slabs : own[s] \in CacheIds \ K => next'[s] = next[s],
         \A a \in Addresses : own[a[1]] \in CacheIds \ K => link'[a] = link[a],
         \A k \in K : ChainInv(own2, k)' /\ (Live(k)' => On(k)' \/ CacheOK(own2, k, {}, 0)'),
         \A d \in Callers : CallInv(own2, d)'
  PROVE  Inv(own2)'
<1>1. ASSUME NEW j \in CacheIds PROVE ChainInv(own2, j)'
  <2>1. CASE j \in K
    BY <2>1
  <2>2. CASE j \notin K
    <3>1. ChainInv(own, j) /\ cache'[j] = cache[j] /\ SlabsBy(own2, j) = SlabsBy(own, j)
      BY <2>2 DEF Inv
    <3>2. \A s \in SlabsBy(own, j) : next'[s] = next[s]
      BY <2>2 DEF SlabsBy
    <3> QED
      BY <3>1, <3>2, ChainStays
  <2> QED
    BY <2>1, <2>2
<1>2. ASSUME NEW j \in CacheIds, Live(j)' PROVE (On(j) \/ CacheOK(own2, j, {}, 0))'
  <2>1. CASE j \in K
    BY <1>2, <2>1
  <2>2. CASE j \notin K
    <3>1. ~On(j) /\ cache'[j] = cache[j] /\ SlabsBy(own2, j) = SlabsBy(own, j)
      BY <2>2
    <3>2. CacheOK(own, j, {}, 0)
      BY <1>2, <3>1 DEF Inv, Live
    <3>3. cache[j].nr + 0 \in Nat
      BY DEF Inv, Types, CacheType
    <3>4. ObjectsBy(own2, j) = ObjectsBy(own, j)
      <4>1. \A a \in Addresses : a[1] \in Slabs
        BY DEF Addresses
      <4>2. \A s \in Slabs : own2[s] = j <=> own[s] = j
        BY <3>1 DEF SlabsBy
      <4> QED
        BY <4>1, <4>2 DEF ObjectsBy
    <3>5. \A a \in ObjectsBy(own, j) : given'[a] = given[a] /\ link'[a] = link[a]
      BY <2>2 DEF ObjectsBy
    <3>6. CacheOK(own2, j, {}, 0)'
      BY <3>1, <3>2, <3>3, <3>4, <3>5, CacheStays
    <3> QED
      BY <3>6
  <2> QED
    BY <2>1, <2>2
<1>3. GivenInv(own2)'
  BY DEF Inv, GivenInv
<1> QED
  BY <1>1, <1>2, <1>3 DEF Inv

LEMMA RefillInv ==
  ASSUME AllInSwi, NEW own, Inv(own), NEW c \in Callers, Refill(c),
         NEW k \in CacheIds, call[c].k = k
  PROVE  IInv'
<1>1. PICK s \in pool :
        /\ Alone(c) /\ call[c].at = "refill"
        /\ pool' = pool \ {s}
        /\ SetsNf(k, <<s, 0>>)
        /\ call' = [call EXCEPT ![c].at = "append", ![c].slab = s]
        /\ UNCHANGED <<next, link, cachep, given>>
  BY AtAlone DEF Refill, Mine, SetsNf
<1>2. Types /\ OwnInv(own) /\ GivenInv(own) /\ CallInv(own, c)
  BY DEF Inv
<1>3. s \in Slabs /\ own[s] = Pool /\ own \in [Slabs -> Owners] /\ pool = SlabsBy(own, Pool)
  BY <1>1, <1>2 DEF OwnInv, SlabsBy
<1>4. /\ Live(k) /\ CacheOK(own, k, {}, 0) /\ call[c].size \in 1..ObjSize(k)
      /\ cache[k].nr = 0
  BY <1>1, <1>2 DEF CallInv
<1> DEFINE own2 == [own EXCEPT ![s] = Hand]
<1>5. /\ own2 \in [Slabs -> Owners] /\ own2[s] = Hand
      /\ \A t \in Slabs \ {s} : own2[t] = own[t]
  BY <1>3 DEF Owners
<1> HIDE DEF own2
<1>6. Pool \notin CacheIds /\ Hand \notin CacheIds /\ Dying \notin CacheIds
      /\ Pool # Hand /\ Pool # Dying /\ Hand # Dying
  BY OwnerFacts
<1>7. /\ cache' \in [CacheIds -> CacheType] /\ Keeps(k)
      /\ cache'[k].nf = <<s, 0>> /\ cache'[k].nr = 0
      /\ \A j \in CacheIds \ {k} : cache'[j] = cache[j]
  <2>1. <<s, 0>> \in Addresses
    BY <1>3, SizeFacts DEF Addresses
  <2> QED
    BY <2>1, <1>1, <1>2, <1>4, NfFacts DEF Types
<1>8. /\ call' \in [Callers -> CallType]
      /\ call'[c].at = "append" /\ call'[c].k = k /\ call'[c].slab = s
      /\ call'[c].size = call[c].size /\ \A d \in Callers \ {c} : call'[d] = call[d]
  <2>1. "append" \in Places /\ call \in [Callers -> CallType]
    BY <1>2 DEF Types, Places
  <2> QED
    BY <2>1, <1>1, <1>3 DEF CallType
<1>9. Types'
  BY <1>1, <1>2, <1>7, <1>8 DEF Types
<1>10. OneCall'
  BY <1>1, <1>8 DEF OneCall, Alone
<1>11. SlabsBy(own, Hand) = {} /\ SlabsBy(own, Dying) = {}
  BY <1>1, HandsEmpty DEF Alone
<1>12. OwnInv(own2)'
  <2>1. /\ SlabsBy(own2, Pool)' = SlabsBy(own, Pool) \ {s}
        /\ SlabsBy(own2, Hand)' = {s} /\ SlabsBy(own2, Dying)' = {}
    BY <1>3, <1>5, <1>6, <1>11 DEF SlabsBy
  <2> QED
    BY <2>1, <1>1, <1>3, <1>5, <1>8 DEF OwnInv
<1>13. \A j \in CacheIds : SlabsBy(own2, j) = SlabsBy(own, j)
  BY <1>3, <1>5, <1>6 DEF SlabsBy
<1>14. \A a \in Addresses : given[a] # <<>> => own2[a[1]] = own[a[1]]
  BY <1>2, <1>3, <1>5, <1>6 DEF GivenInv, Addresses
<1>15. ChainInv(own2, k)'
  BY <1>1, <1>7, <1>13, ChainStays DEF Inv, Keeps
<1>16. CacheOK(own2, k, {}, 0)'
  <2>1. Spare(own2, k)' = Spare(own, k)
    <3>1. \A a \in Addresses : own2[a[1]] = k <=> own[a[1]] = k
      BY <1>3, <1>5, <1>6 DEF Addresses
    <3> QED
      BY <3>1, <1>1 DEF Spare, ObjectsBy
  <2>2. Spare(own, k) = {}
    <3> DEFINE S == Spare(own, k) \ {}
    <3>1. IsList(S, cache[k].nf, 0, link)
      BY <1>4 DEF CacheOK
    <3> HIDE DEF S
    <3>2. S = {}
      BY <3>1, ListEmpty
    <3> QED
      BY <3>2 DEF S
  <2>3. Spare(own2, k)' \ {} = {} /\ cache'[k].nr + 0 = 0
    BY <2>1, <2>2, <1>7
  <2> QED
    BY <2>3, NoList DEF CacheOK
<1>17. \A d \in Callers : CallInv(own2, d)'
  <2>1. CallInv(own2, c)'
    BY <1>3, <1>4, <1>5, <1>7, <1>8, <1>16 DEF CallInv, Live, Keeps
  <2>2. \A d \in Callers \ {c} : call'[d].at = "idle"
    BY <1>1, <1>8 DEF Alone
  <2>3. \A d \in Callers \ {c} : CallInv(own2, d)'
    BY <2>2 DEF CallInv
  <2> QED
    BY <2>1, <2>3
<1>18. On(k)'
  BY <1>8 DEF On
<1>19. \A j \in CacheIds \ {k} : ~On(j)
  BY <1>1 DEF On, Alone
<1>20. Inv(own2)'
  <2>1. {k} \in SUBSET CacheIds
    OBVIOUS
  <2>2. UNCHANGED <<given, cachep>>
    BY <1>1
  <2>3. \A j \in CacheIds \ {k} :
          ~On(j) /\ cache'[j] = cache[j] /\ SlabsBy(own2, j) = SlabsBy(own, j)
    BY <1>7, <1>13, <1>19
  <2>4. \A t \in Slabs : own[t] \in CacheIds \ {k} => next'[t] = next[t]
    BY <1>1
  <2>5. \A a \in Addresses : own[a[1]] \in CacheIds \ {k} => link'[a] = link[a]
    BY <1>1
  <2>6. \A j \in {k} : ChainInv(own2, j)' /\ (Live(j)' => On(j)' \/ CacheOK(own2, j, {}, 0)')
    BY <1>15, <1>18
  <2> QED
    BY <1>9, <1>10, <1>12, <1>14, <1>17, <2>1, <2>2, <2>3, <2>4, <2>5, <2>6, MoveStep
<1> QED
  BY <1>20 DEF IInv

\* The way from head_page meets every slab of the cache.
LEMMA SlabsOfFacts ==
  ASSUME Types, NEW own, NEW k \in CacheIds, Live(k), ChainInv(own, k)
  PROVE  SlabsOf(k) = SlabsBy(own, k)
<1> DEFINE S == SlabsBy(own, k)
<1>1. PICK n \in Nat : IsList(S, cache[k].head, n, next)
  BY DEF ChainInv
<1>2. cache[k].end \in S /\ next[cache[k].end] = NULL
  BY DEF ChainInv
<1>3. S \subseteq Slabs /\ NULL \notin S /\ IsFiniteSet(Slabs)
  BY SizeFacts, KmemAssumption DEF SlabsBy
<1> HIDE DEF S
<1>4. n > 0 /\ \A s \in S \ {cache[k].end} : next[s] \in S
  BY <1>1, <1>2, <1>3, ListLinks
<1>5. Cardinality(Slabs) \in Nat /\ n <= Cardinality(Slabs)
  BY <1>1, <1>3, ListCardinality, FS_Subset, FS_CardinalityType
<1>6. /\ \A s \in S : next[s] \in S \cup {NULL}
      /\ \E s \in S : next[s] = NULL
  BY <1>2, <1>4
<1> DEFINE m == Cardinality(Slabs)
<1> HIDE DEF m
<1>7. ToEnd(cache[k].head, m, next, NULL) = S
  <2>1. m \in Nat /\ n <= m /\ 0 < n
    BY <1>4, <1>5 DEF m
  <2> QED
    BY <2>1, <1>1, <1>3, <1>6, WalkToEnd
<1>8. SlabsOf(k) = ToEnd(cache[k].head, m, next, NULL)
  BY DEF SlabsOf, ToEnd, m
<1> QED
  BY <1>7, <1>8 DEF S

LEMMA AppendInv ==
  ASSUME AllInSwi, NEW own, Inv(own), NEW c \in Callers, AppendSlab(c),
         NEW k \in CacheIds, call[c].k = k, NEW s, call[c].slab = s
  PROVE  IInv'
<1> DEFINE e == cache[k].end
<1>1. /\ Alone(c) /\ call[c].at = "append" /\ Goto(c, "line")
      /\ next' = [next EXCEPT ![e] = s, ![s] = NULL]
      /\ cache' = [cache EXCEPT ![k].end = s]
      /\ UNCHANGED <<link, cachep, pool, given>>
  BY AtAlone DEF AppendSlab, Mine
<1>2. Types /\ OwnInv(own) /\ GivenInv(own) /\ CallInv(own, c) /\ "line" \in Places
  BY DEF Inv, Places
<1>3. /\ Live(k) /\ CacheOK(own, k, {}, 0) /\ call[c].size \in 1..ObjSize(k)
      /\ cache[k].nr = 0 /\ cache[k].nf = <<s, 0>> /\ s \in Slabs /\ own[s] = Hand
  BY <1>1, <1>2 DEF CallInv
<1>4. own \in [Slabs -> Owners] /\ pool = SlabsBy(own, Pool)
  BY <1>2 DEF OwnInv
<1> DEFINE own2 == [own EXCEPT ![s] = k]
<1>5. /\ own2 \in [Slabs -> Owners] /\ own2[s] = k
      /\ \A t \in Slabs \ {s} : own2[t] = own[t]
  BY <1>3, <1>4 DEF Owners
<1> HIDE DEF own2
<1>6. /\ cache' \in [CacheIds -> CacheType] /\ cache'[k].end = s
      /\ cache'[k].nf = cache[k].nf /\ cache'[k].nr = cache[k].nr
      /\ cache'[k].head = cache[k].head
      /\ \A j \in CacheIds \ {k} : cache'[j] = cache[j]
  <2>1. cache \in [CacheIds -> CacheType]
    BY <1>2 DEF Types
  <2> QED
    BY <2>1, <1>1, <1>3 DEF CacheType
<1>7. /\ call' \in [Callers -> CallType]
      /\ call'[c].at = "line" /\ call'[c].k = k /\ call'[c].slab = s
      /\ call'[c].size = call[c].size /\ \A d \in Callers \ {c} : call'[d] = call[d]
  BY <1>1, <1>2, GotoFacts DEF Types
<1>8. PICK n \in Nat : IsList(SlabsBy(own, k), cache[k].head, n, next)
  BY <1>3 DEF Inv, ChainInv
<1>9. e \in SlabsBy(own, k) /\ e \in Slabs /\ own[e] = k /\ next[e] = NULL /\ e # s
  BY <1>3, OwnerFacts DEF Inv, ChainInv, SlabsBy
<1> HIDE DEF e
<1>10. /\ next' \in [Slabs -> Slabs \cup {NULL}] /\ next'[e] = s /\ next'[s] = NULL
       /\ \A t \in Slabs \ {e, s} : next'[t] = next[t]
  BY <1>1, <1>2, <1>3, <1>9 DEF Types
<1>11. Types'
  BY <1>1, <1>2, <1>6, <1>7, <1>10 DEF Types
<1>12. OneCall'
  BY <1>1, <1>7 DEF OneCall, Alone
<1>13. SlabsBy(own, Dying) = {} /\ SlabsBy(own, Hand) = {s}
  <2>1. SlabsBy(own, Dying) = {}
    BY <1>1, HandsEmpty DEF Alone
  <2>2. \A t \in SlabsBy(own, Hand) : t = s
    BY <1>1, <1>2 DEF OwnInv, Alone
  <2>3. s \in SlabsBy(own, Hand)
    BY <1>3 DEF SlabsBy
  <2> QED
    BY <2>1, <2>2, <2>3
<1>14. OwnInv(own2)'
  <2>1. /\ SlabsBy(own2, Pool)' = SlabsBy(own, Pool)
        /\ SlabsBy(own2, Hand)' = {} /\ SlabsBy(own2, Dying)' = {}
    BY <1>3, <1>5, <1>13, OwnerFacts DEF SlabsBy
  <2> QED
    BY <2>1, <1>1, <1>4, <1>5 DEF OwnInv
<1>15. SlabsBy(own2, k) = SlabsBy(own, k) \cup {s}
       /\ \A j \in CacheIds \ {k} : SlabsBy(own2, j) = SlabsBy(own, j)
  BY <1>3, <1>5, OwnerFacts DEF SlabsBy
<1>16. \A a \in Addresses : given[a] # <<>> => own2[a[1]] = own[a[1]]
  BY <1>2, <1>3, <1>5, OwnerFacts DEF GivenInv, Addresses
<1>17. ChainInv(own2, k)'
  <2> DEFINE S == SlabsBy(own, k)
  <2>1. s \notin S /\ NULL \notin S /\ \A t \in S \ {e} : t \in Slabs \ {e, s}
    BY <1>3, SizeFacts, OwnerFacts DEF SlabsBy
  <2> HIDE DEF S
  <2>2. \A t \in S \ {e} : next'[t] = next[t]
    BY <2>1, <1>10
  <2>3. e \in S /\ IsList(S, cache[k].head, n, next) /\ next[e] \notin S
    BY <1>8, <1>9, <2>1 DEF S
  <2>4. IsList(S \cup {s}, cache[k].head, n + 1, next')
    BY <2>1, <2>2, <2>3, <1>10, ListAppend
  <2>5. n + 1 \in Nat /\ SlabsBy(own2, k)' = S \cup {s} /\ s \in S \cup {s}
    BY <1>15 DEF S, SlabsBy
  <2> QED
    BY <2>4, <2>5, <1>3, <1>6, <1>10 DEF ChainInv, Live
<1>18. Spare(own2, k)' = ObjectsIn(s, k)
  <2>1. Spare(own, k) = {}
    <3> DEFINE S == Spare(own, k) \ {}
    <3>1. IsList(S, cache[k].nf, 0, link)
      BY <1>3 DEF CacheOK
    <3> HIDE DEF S
    <3>2. S = {}
      BY <3>1, ListEmpty
    <3> QED
      BY <3>2 DEF S
  <2>2. \A a \in Addresses : a[1] = s => given[a] = <<>>
    BY <1>2, <1>3, OwnerFacts DEF GivenInv
  <2>3. \A a \in Addresses : own2[a[1]] = k <=> own[a[1]] = k \/ a[1] = s
    BY <1>5 DEF Addresses
  <2> QED
    BY <2>1, <2>2, <2>3, <1>1 DEF Spare, ObjectsBy, ObjectsIn
<1>19. \A d \in Callers : CallInv(own2, d)'
  <2>1. CallInv(own2, c)'
    BY <1>3, <1>6, <1>7, <1>18 DEF CallInv, Live
  <2>2. \A d \in Callers \ {c} : call'[d].at = "idle"
    BY <1>1, <1>7 DEF Alone
  <2>3. \A d \in Callers \ {c} : CallInv(own2, d)'
    BY <2>2 DEF CallInv
  <2> QED
    BY <2>1, <2>3
<1>20. On(k)'
  BY <1>7 DEF On
<1>21. \A j \in CacheIds \ {k} : ~On(j)
  BY <1>1 DEF On, Alone
<1>22. Inv(own2)'
  <2>1. {k} \in SUBSET CacheIds
    OBVIOUS
  <2>2. UNCHANGED <<given, cachep>>
    BY <1>1
  <2>3. \A j \in CacheIds \ {k} :
          ~On(j) /\ cache'[j] = cache[j] /\ SlabsBy(own2, j) = SlabsBy(own, j)
    BY <1>6, <1>15, <1>21
  <2>4. \A t \in Slabs : own[t] \in CacheIds \ {k} => next'[t] = next[t]
    BY <1>3, <1>9, <1>10, OwnerFacts
  <2>5. \A a \in Addresses : own[a[1]] \in CacheIds \ {k} => link'[a] = link[a]
    BY <1>1
  <2>6. \A j \in {k} : ChainInv(own2, j)' /\ (Live(j)' => On(j)' \/ CacheOK(own2, j, {}, 0)')
    BY <1>17, <1>20
  <2> QED
    BY <1>11, <1>12, <1>14, <1>16, <1>19, <2>1, <2>2, <2>3, <2>4, <2>5, <2>6, MoveStep
<1> QED
  BY <1>22 DEF IInv

LEMMA CreateInv ==
  ASSUME AllInSwi, NEW own, Inv(own), NEW k \in CacheIds, Create(k)
  PROVE  IInv'
<1> DEFINE n == LineCount(ObjSize(k))
<1>1. PICK s \in pool :
        /\ AllIdle /\ cache[k].head = NULL
        /\ pool' = pool \ {s}
        /\ cache' = [cache EXCEPT ![k] = [nf |-> <<s, 0>>, nr |-> n, head |-> s, end |-> s]]
        /\ next' = [next EXCEPT ![s] = NULL]
        /\ link' = Overwrite(link, LineLinks(s, ObjSize(k)))
        /\ UNCHANGED <<cachep, given, call>>
  BY DEF Create
<1>2. Types /\ OwnInv(own) /\ GivenInv(own)
  BY DEF Inv
<1>3. s \in Slabs /\ own[s] = Pool /\ own \in [Slabs -> Owners] /\ pool = SlabsBy(own, Pool)
  BY <1>1, <1>2 DEF OwnInv, SlabsBy
<1>4. n \in Nat /\ n > 0 /\ <<s, 0>> \in Addresses /\ s # NULL
  <2>1. n \in Nat /\ n > 0
    BY OffsetFacts
  <2>2. <<s, 0>> \in Addresses
    BY <1>3, SizeFacts DEF Addresses
  <2> QED
    BY <2>1, <2>2, <1>3, SizeFacts
<1>5. /\ link' \in [Addresses -> Addresses \cup {NULL, Junk}]
      /\ \A a \in Addresses : a[1] # s => link'[a] = link[a]
      /\ \A a \in ObjectsIn(s, k) : link'[a] # Junk
      /\ IsList(ObjectsIn(s, k), <<s, 0>>, n, link')
  BY <1>1, <1>2, <1>3, LineFacts DEF Types
<1> HIDE DEF n
<1> DEFINE own2 == [own EXCEPT ![s] = k]
<1>6. /\ own2 \in [Slabs -> Owners] /\ own2[s] = k
      /\ \A t \in Slabs \ {s} : own2[t] = own[t]
  BY <1>3 DEF Owners
<1> HIDE DEF own2
<1>7. /\ cache' \in [CacheIds -> CacheType]
      /\ cache'[k].nf = <<s, 0>> /\ cache'[k].nr = n /\ cache'[k].head = s /\ cache'[k].end = s
      /\ \A j \in CacheIds \ {k} : cache'[j] = cache[j]
  BY <1>1, <1>2, <1>3, <1>4 DEF Types, CacheType
<1>8. /\ next' \in [Slabs -> Slabs \cup {NULL}] /\ next'[s] = NULL
      /\ \A t \in Slabs \ {s} : next'[t] = next[t]
  BY <1>1, <1>2, <1>3 DEF Types
<1>9. Types'
  BY <1>1, <1>2, <1>5, <1>7, <1>8 DEF Types
<1>10. OneCall'
  BY <1>1 DEF OneCall, AllIdle
<1>11. SlabsBy(own, Hand) = {} /\ SlabsBy(own, Dying) = {}
  BY <1>1, HandsEmpty DEF AllIdle
<1>12. OwnInv(own2)'
  <2>1. /\ SlabsBy(own2, Pool)' = SlabsBy(own, Pool) \ {s}
        /\ SlabsBy(own2, Hand)' = {} /\ SlabsBy(own2, Dying)' = {}
    BY <1>3, <1>6, <1>11, OwnerFacts DEF SlabsBy
  <2> QED
    BY <2>1, <1>1, <1>3, <1>6 DEF OwnInv
<1>13. SlabsBy(own, k) = {} /\ SlabsBy(own2, k) = {s}
       /\ \A j \in CacheIds \ {k} : SlabsBy(own2, j) = SlabsBy(own, j)
  <2>1. SlabsBy(own, k) = {}
    BY <1>1 DEF Inv, ChainInv, Live
  <2> QED
    BY <2>1, <1>3, <1>6, OwnerFacts DEF SlabsBy
<1>14. \A a \in Addresses : given[a] # <<>> => own2[a[1]] = own[a[1]]
  BY <1>2, <1>3, <1>6, OwnerFacts DEF GivenInv, Addresses
<1>15. ChainInv(own2, k)'
  <2>1. IsList({} \cup {s}, s, 0 + 1, next')
    BY NoList, ListPush
  <2>2. SlabsBy(own2, k)' = {} \cup {s} /\ 0 + 1 \in Nat
    BY <1>13 DEF SlabsBy
  <2> QED
    BY <2>1, <2>2, <1>4, <1>7, <1>8 DEF ChainInv, Live
<1>16. CacheOK(own2, k, {}, 0)'
  <2>1. \A a \in Addresses : a[1] = s => given[a] = <<>>
    BY <1>2, <1>3, OwnerFacts DEF GivenInv
  <2>2. \A a \in Addresses : own2[a[1]] = k <=> a[1] = s
    BY <1>6, <1>13 DEF Addresses, SlabsBy
  <2>3. Spare(own2, k)' \ {} = ObjectsIn(s, k)
    BY <2>1, <2>2, <1>1 DEF Spare, ObjectsBy, ObjectsIn
  <2>4. cache'[k].nr + 0 = n
    BY <1>4, <1>7
  <2> QED
    BY <2>3, <2>4, <1>5, <1>7 DEF CacheOK
<1>17. \A d \in Callers : CallInv(own2, d)'
  <2>1. \A d \in Callers : call'[d].at = "idle"
    BY <1>1 DEF AllIdle
  <2> QED
    BY <2>1 DEF CallInv
<1>18. \A j \in CacheIds \ {k} : ~On(j)
  BY <1>1 DEF On, AllIdle
<1>19. Inv(own2)'
  <2>1. {k} \in SUBSET CacheIds
    OBVIOUS
  <2>2. UNCHANGED <<given, cachep>>
    BY <1>1
  <2>3. \A j \in CacheIds \ {k} :
          ~On(j) /\ cache'[j] = cache[j] /\ SlabsBy(own2, j) = SlabsBy(own, j)
    BY <1>7, <1>13, <1>18
  <2>4. \A t \in Slabs : own[t] \in CacheIds \ {k} => next'[t] = next[t]
    BY <1>3, <1>8, OwnerFacts
  <2>5. \A a \in Addresses : own[a[1]] \in CacheIds \ {k} => link'[a] = link[a]
    BY <1>3, <1>5, OwnerFacts
  <2>6. \A j \in {k} : ChainInv(own2, j)' /\ (Live(j)' => On(j)' \/ CacheOK(own2, j, {}, 0)')
    BY <1>15, <1>16
  <2> QED
    BY <1>9, <1>10, <1>12, <1>14, <1>17, <2>1, <2>2, <2>3, <2>4, <2>5, <2>6, MoveStep
<1> QED
  BY <1>19 DEF IInv

LEMMA DestroyStartInv ==
  ASSUME AllInSwi, NEW own, Inv(own), NEW c \in Callers, NEW k \in CacheIds, DestroyStart(c, k)
  PROVE  IInv'
<1> DEFINE h == cache[k].head
<1>1. /\ Alone(c) /\ AllIdle /\ Live(k) /\ InUse(k) = {}
      /\ cache' = [cache EXCEPT ![k].head = NULL]
      /\ call' = [call EXCEPT ![c].at = "destroy", ![c].slab = h]
      /\ UNCHANGED <<next, link, cachep, pool, given>>
  BY AtAlone DEF DestroyStart, Live
<1>2. Types /\ OwnInv(own) /\ GivenInv(own) /\ ChainInv(own, k)
  BY DEF Inv
<1>3. own \in [Slabs -> Owners] /\ pool = SlabsBy(own, Pool)
  BY <1>2 DEF OwnInv
<1>4. SlabsOf(k) = SlabsBy(own, k)
  BY <1>1, <1>2, SlabsOfFacts
<1>5. PICK n \in Nat : IsList(SlabsBy(own, k), h, n, next)
  BY <1>1, <1>2 DEF ChainInv
<1>6. cache[k].end \in SlabsBy(own, k) /\ next[cache[k].end] = NULL
  BY <1>1, <1>2 DEF ChainInv
<1> HIDE DEF h
<1>7. h \in SlabsBy(own, k) /\ h \in Slabs
  <2> DEFINE S == SlabsBy(own, k)
  <2>1. cache[k].end \in S /\ next[cache[k].end] \notin S /\ S \subseteq Slabs
    BY <1>6, SizeFacts DEF SlabsBy
  <2>2. IsList(S, h, n, next)
    BY <1>5
  <2> HIDE DEF S
  <2>3. h \in S
    BY <2>1, <2>2, ListLinks
  <2> QED
    BY <2>1, <2>3 DEF S
<1> DEFINE own2 == [t \in Slabs |-> IF own[t] = k THEN Dying ELSE own[t]]
<1>8. /\ own2 \in [Slabs -> Owners]
      /\ \A t \in Slabs : own2[t] = IF own[t] = k THEN Dying ELSE own[t]
  BY <1>3 DEF Owners
<1> HIDE DEF own2
<1>9. /\ cache' \in [CacheIds -> CacheType] /\ cache'[k].head = NULL
      /\ \A j \in CacheIds \ {k} : cache'[j] = cache[j]
  <2>1. cache \in [CacheIds -> CacheType]
    BY <1>2 DEF Types
  <2> QED
    BY <2>1, <1>1 DEF CacheType
<1>10. /\ call' \in [Callers -> CallType]
       /\ call'[c].at = "destroy" /\ call'[c].slab = h
       /\ \A d \in Callers \ {c} : call'[d] = call[d]
  <2>1. "destroy" \in Places /\ call \in [Callers -> CallType]
    BY <1>2 DEF Types, Places
  <2> QED
    BY <2>1, <1>1, <1>7 DEF CallType
<1>11. Types'
  BY <1>1, <1>2, <1>9, <1>10 DEF Types
<1>12. OneCall'
  BY <1>1, <1>10 DEF OneCall, Alone
<1>13. SlabsBy(own, Hand) = {} /\ SlabsBy(own, Dying) = {}
  BY <1>1, HandsEmpty DEF AllIdle
<1>14. SlabsBy(own2, Dying) = SlabsBy(own, k) /\ SlabsBy(own2, k) = {}
       /\ \A j \in CacheIds \ {k} : SlabsBy(own2, j) = SlabsBy(own, j)
  BY <1>8, <1>13, OwnerFacts DEF SlabsBy
<1>15. OwnInv(own2)'
  <2>1. SlabsBy(own2, Pool)' = SlabsBy(own, Pool) /\ SlabsBy(own2, Hand)' = {}
    BY <1>8, <1>13, OwnerFacts DEF SlabsBy
  <2> QED
    BY <2>1, <1>1, <1>3, <1>8, <1>10 DEF OwnInv
<1>16. \A a \in Addresses : given[a] # <<>> => own2[a[1]] = own[a[1]]
  <2> SUFFICES ASSUME NEW a \in Addresses, given[a] # <<>>
               PROVE  own2[a[1]] = own[a[1]]
    OBVIOUS
  <2>1. a[1] \notin SlabsBy(own, k) /\ a[1] \in Slabs
    BY <1>1, <1>4 DEF InUse, Addresses
  <2> QED
    BY <2>1, <1>8 DEF SlabsBy
<1>17. ChainInv(own2, k)' /\ ~Live(k)'
  BY <1>9, <1>14 DEF ChainInv, Live, SlabsBy
<1>18. \A d \in Callers : CallInv(own2, d)'
  <2>1. SlabsBy(own2, Dying)' = SlabsBy(own, k)
    BY <1>14 DEF SlabsBy
  <2>2. CallInv(own2, c)'
    BY <2>1, <1>1, <1>5, <1>6, <1>7, <1>10 DEF CallInv
  <2>3. \A d \in Callers \ {c} : call'[d].at = "idle"
    BY <1>1, <1>10 DEF Alone
  <2>4. \A d \in Callers \ {c} : CallInv(own2, d)'
    BY <2>3 DEF CallInv
  <2> QED
    BY <2>2, <2>4
<1>19. \A j \in CacheIds \ {k} : ~On(j)
  BY <1>1 DEF On, AllIdle
<1>20. Inv(own2)'
  <2>1. {k} \in SUBSET CacheIds
    OBVIOUS
  <2>2. UNCHANGED <<given, cachep>>
    BY <1>1
  <2>3. \A j \in CacheIds \ {k} :
          ~On(j) /\ cache'[j] = cache[j] /\ SlabsBy(own2, j) = SlabsBy(own, j)
    BY <1>9, <1>14, <1>19
  <2>4. \A t \in Slabs : own[t] \in CacheIds \ {k} => next'[t] = next[t]
    BY <1>1
  <2>5. \A a \in Addresses : own[a[1]] \in CacheIds \ {k} => link'[a] = link[a]
    BY <1>1
  <2>6. \A j \in {k} : ChainInv(own2, j)' /\ (Live(j)' => On(j)' \/ CacheOK(own2, j, {}, 0)')
    BY <1>17
  <2> QED
    BY <1>11, <1>12, <1>15, <1>16, <1>18, <2>1, <2>2, <2>3, <2>4, <2>5, <2>6, MoveStep
<1> QED
  BY <1>20 DEF IInv

LEMMA DestroyStepInv ==
  ASSUME AllInSwi, NEW own, Inv(own), NEW c \in Callers, DestroyStep(c),
         NEW s, call[c].slab = s, NEW t, next[s] = t
  PROVE  IInv'
<1>1. /\ Alone(c) /\ call[c].at = "destroy"
      /\ pool' = pool \cup {s}
      /\ next' = [next EXCEPT ![s] = NULL]
      /\ link' = [a \in Addresses |-> IF a[1] = s THEN Junk ELSE link[a]]
      /\ IF t = NULL THEN Return(c) ELSE call' = [call EXCEPT ![c].slab = t]
      /\ UNCHANGED <<cache, cachep, given>>
  BY AtAlone DEF DestroyStep
<1>2. Types /\ OwnInv(own) /\ GivenInv(own) /\ CallInv(own, c)
  BY DEF Inv
<1>3. own \in [Slabs -> Owners] /\ pool = SlabsBy(own, Pool)
  BY <1>2 DEF OwnInv
<1> DEFINE D == SlabsBy(own, Dying)
<1>4. s \in Slabs /\ D \subseteq Slabs /\ NULL \notin Slabs
  BY <1>1, <1>2, SizeFacts DEF CallInv, SlabsBy
<1>5. PICK n \in Nat : IsList(D, s, n, next)
  BY <1>1, <1>2 DEF CallInv
<1>6. PICK e \in D : next[e] = NULL
  BY <1>1, <1>2 DEF CallInv
<1>7. own[s] = Dying /\ \A x \in Slabs : own[x] = Dying <=> x \in D
  <2>1. \A x \in Slabs : own[x] = Dying <=> x \in D
    BY DEF SlabsBy
  <2> HIDE DEF D
  <2>2. s \in D
    BY <1>4, <1>5, <1>6, ListLinks
  <2> QED
    BY <2>1, <2>2, <1>4
<1> HIDE DEF D
<1>8. s \in D /\ n > 0 /\ \A x \in D \ {e} : next[x] \in D
  BY <1>4, <1>5, <1>6, ListLinks
<1>9. n - 1 \in Nat /\ IsList(D \ {s}, t, n - 1, next)
  BY <1>5, <1>8, ListPop
<1> DEFINE own2 == [own EXCEPT ![s] = Pool]
<1>10. /\ own2 \in [Slabs -> Owners] /\ own2[s] = Pool
       /\ \A x \in Slabs \ {s} : own2[x] = own[x]
  BY <1>3, <1>4 DEF Owners
<1> HIDE DEF own2
<1>11. /\ next' \in [Slabs -> Slabs \cup {NULL}]
       /\ \A x \in Slabs \ {s} : next'[x] = next[x]
       /\ t \in Slabs \cup {NULL}
  BY <1>1, <1>2, <1>4 DEF Types
<1>12. link' \in [Addresses -> Addresses \cup {NULL, Junk}]
       /\ \A a \in Addresses : a[1] # s => link'[a] = link[a]
  BY <1>1, <1>2 DEF Types
<1>13. call' \in [Callers -> CallType] /\ \A d \in Callers \ {c} : call'[d] = call[d]
  <2>1. CASE t = NULL
    BY <2>1, <1>1, <1>2, ReturnFacts DEF Types
  <2>2. CASE t # NULL
    <3>1. call \in [Callers -> CallType] /\ call' = [call EXCEPT ![c].slab = t]
      BY <2>2, <1>1, <1>2 DEF Types
    <3> QED
      BY <3>1, <2>2, <1>11 DEF CallType
  <2> QED
    BY <2>1, <2>2
<1>14. Types'
  BY <1>1, <1>2, <1>4, <1>11, <1>12, <1>13 DEF Types
<1>15. OneCall'
  BY <1>1, <1>13 DEF OneCall, Alone
<1>16. SlabsBy(own2, Dying) = D \ {s} /\ SlabsBy(own2, Pool) = pool \cup {s}
       /\ SlabsBy(own2, Hand) = SlabsBy(own, Hand)
       /\ \A j \in CacheIds : SlabsBy(own2, j) = SlabsBy(own, j)
  BY <1>3, <1>4, <1>7, <1>10, OwnerFacts DEF SlabsBy, D
<1>17. SlabsBy(own, Hand) = {}
  BY <1>1, HandsEmpty DEF Alone
<1>18. \A a \in Addresses : given[a] # <<>> => own2[a[1]] = own[a[1]]
  BY <1>2, <1>7, <1>10, OwnerFacts DEF GivenInv, Addresses
<1>19. ASSUME t = NULL PROVE OwnInv(own2)' /\ \A d \in Callers : CallInv(own2, d)'
  <2>1. D \ {s} = {}
    <3>1. s = e
      BY <1>4, <1>8, <1>19
    <3>2. ASSUME n - 1 > 0 PROVE FALSE
      <4>1. t \in D \ {s}
        BY <3>2, <1>9, ListPop
      <4> QED
        BY <4>1, <1>4, <1>19
    <3>3. n - 1 = 0
      BY <3>2, <1>9
    <3>4. IsList(D \ {s}, t, 0, next)
      BY <3>3, <1>9
    <3> DEFINE E == D \ {s}
    <3>5. IsList(E, t, 0, next)
      BY <3>4
    <3> HIDE DEF E
    <3>6. E = {}
      BY <3>5, ListEmpty
    <3> QED
      BY <3>6 DEF E
  <2>2. OwnInv(own2)'
    <3>1. SlabsBy(own2, Dying)' = {} /\ SlabsBy(own2, Hand)' = {}
          /\ SlabsBy(own2, Pool)' = pool'
      BY <2>1, <1>1, <1>16, <1>17 DEF SlabsBy
    <3> QED
      BY <3>1, <1>10 DEF OwnInv
  <2>3. call'[c].at = "idle"
    BY <1>1, <1>2, <1>19, ReturnFacts DEF Types
  <2>4. \A d \in Callers : call'[d].at = "idle"
    BY <2>3, <1>1, <1>13 DEF Alone
  <2>5. \A d \in Callers : CallInv(own2, d)'
    BY <2>4 DEF CallInv
  <2> QED
    BY <2>2, <2>5
<1>20. ASSUME t # NULL PROVE OwnInv(own2)' /\ \A d \in Callers : CallInv(own2, d)'
  <2>1. call'[c].at = "destroy" /\ call'[c].slab = t
    <3>1. call \in [Callers -> CallType] /\ call' = [call EXCEPT ![c].slab = t]
      BY <1>1, <1>2, <1>20 DEF Types
    <3> QED
      BY <3>1, <1>1 DEF CallType
  <2>2. OwnInv(own2)'
    <3>1. SlabsBy(own2, Hand)' = {} /\ SlabsBy(own2, Pool)' = pool'
      BY <1>1, <1>16, <1>17 DEF SlabsBy
    <3> QED
      BY <2>1, <3>1, <1>10 DEF OwnInv
  <2>3. IsList(D \ {s}, t, n - 1, next')
    <3> DEFINE E == D \ {s}
    <3>1. IsList(E, t, n - 1, next) /\ \A x \in E : next'[x] = next[x]
      BY <1>4, <1>9, <1>11
    <3> HIDE DEF E
    <3>2. IsList(E, t, n - 1, next')
      BY <3>1, <1>9, ListStays
    <3> QED
      BY <3>2 DEF E
  <2>4. e \in D \ {s} /\ next'[e] = NULL
    BY <1>4, <1>6, <1>11, <1>20
  <2>5. SlabsBy(own2, Dying)' = D \ {s}
    BY <1>16 DEF SlabsBy
  <2>6. t \in Slabs
    BY <1>11, <1>20
  <2>7. CallInv(own2, c)'
    BY <2>1, <2>3, <2>4, <2>5, <2>6, <1>9 DEF CallInv
  <2>8. \A d \in Callers \ {c} : call'[d].at = "idle"
    BY <1>1, <1>13 DEF Alone
  <2>9. \A d \in Callers \ {c} : CallInv(own2, d)'
    BY <2>8 DEF CallInv
  <2> QED
    BY <2>2, <2>7, <2>9
<1>21. \A j \in CacheIds : ~On(j)
  BY <1>1 DEF On, Alone
<1>22. Inv(own2)'
  <2>1. {} \in SUBSET CacheIds
    OBVIOUS
  <2>2. UNCHANGED <<given, cachep>>
    BY <1>1
  <2>3. \A j \in CacheIds \ {} :
          ~On(j) /\ cache'[j] = cache[j] /\ SlabsBy(own2, j) = SlabsBy(own, j)
    BY <1>1, <1>16, <1>21
  <2>4. \A x \in Slabs : own[x] \in CacheIds \ {} => next'[x] = next[x]
    BY <1>7, <1>11, OwnerFacts
  <2>5. \A a \in Addresses : own[a[1]] \in CacheIds \ {} => link'[a] = link[a]
    BY <1>7, <1>12, OwnerFacts
  <2>6. \A j \in {} : ChainInv(own2, j)' /\ (Live(j)' => On(j)' \/ CacheOK(own2, j, {}, 0)')
    OBVIOUS
  <2> QED
    BY <1>14, <1>15, <1>18, <1>19, <1>20, <2>1, <2>2, <2>3, <2>4, <2>5, <2>6, MoveStep
<1> QED
  BY <1>22 DEF IInv

-----------------------------------------------------------------------------
(* The invariant. *)

LEMMA InitIInv == Init => IInv
<1> SUFFICES ASSUME Init PROVE IInv
  OBVIOUS
<1> DEFINE own == [s \in Slabs |-> Pool]
<1>1. \A s \in Slabs : own[s] = Pool
  OBVIOUS
<1>2. own \in [Slabs -> Owners]
  BY DEF Owners
<1> HIDE DEF own
<1>3. Types
  <2>1. NoCall \in CallType
    <3>1. 1 \in CacheIds
      BY KmemAssumption DEF CacheIds
    <3> QED
      BY <3>1 DEF NoCall, CallType, Places
  <2> QED
    BY <2>1 DEF Init, Types, CacheType
<1>4. \A c \in Callers : call[c].at = "idle"
  BY DEF Init, NoCall
<1>5. OneCall /\ \A c \in Callers : CallInv(own, c)
  BY <1>4 DEF OneCall, CallInv
<1>6. OwnInv(own)
  BY <1>1, <1>2, OwnerFacts DEF Init, OwnInv, SlabsBy
<1>7. \A k \in CacheIds : ~Live(k) /\ ChainInv(own, k)
  BY <1>1, OwnerFacts DEF Init, Live, ChainInv, SlabsBy
<1>8. GivenInv(own)
  BY DEF Init, GivenInv
<1> QED
  BY <1>3, <1>5, <1>6, <1>7, <1>8 DEF Inv, IInv

LEMMA NextIInv ==
  ASSUME AllInSwi, IInv, [Next]_vars
  PROVE  IInv'
<1>1. PICK own : Inv(own)
  BY DEF IInv
<1>2. CASE UNCHANGED vars
  <2>1. UNCHANGED <<cache, next, link, cachep, pool, given, call>>
    BY <1>2 DEF vars
  <2>2. \A k, out, extra : CacheOK(own, k, out, extra)' = CacheOK(own, k, out, extra)
    BY <2>1 DEF CacheOK, Spare, ObjectsBy
  <2>3. \A k : Live(k)' = Live(k) /\ On(k)' = On(k) /\ Spare(own, k)' = Spare(own, k)
    BY <2>1 DEF Live, On, Spare, ObjectsBy
  <2>4. \A k : ChainInv(own, k)' = ChainInv(own, k)
    BY <2>1 DEF ChainInv, Live, SlabsBy
  <2>5. Types' /\ OneCall' /\ OwnInv(own)' /\ GivenInv(own)'
    BY <2>1, <1>1 DEF Inv, Types, OneCall, OwnInv, GivenInv, SlabsBy
  <2>6. \A c \in Callers : CallInv(own, c)'
    BY <2>1, <2>2, <2>3, <1>1 DEF Inv, CallInv, SlabsBy
  <2>7. Inv(own)'
    BY <2>2, <2>3, <2>4, <2>5, <2>6, <1>1 DEF Inv
  <2> QED
    BY <2>7 DEF IInv
<1>3. ASSUME NEW k \in CacheIds, Create(k) PROVE IInv'
  BY <1>1, <1>3, CreateInv
<1>4. ASSUME NEW c \in Callers, NEW size \in Sizes, Kmalloc(c, size) PROVE IInv'
  BY <1>1, <1>4, KmallocInv DEF IInv
<1>5. ASSUME NEW c \in Callers, NEW a \in Addresses, Kfree(c, a) PROVE IInv'
  BY <1>1, <1>5, KfreeInv DEF IInv
<1>6. ASSUME NEW c \in Callers, NEW k \in CacheIds, DestroyStart(c, k) PROVE IInv'
  BY <1>1, <1>6, DestroyStartInv
<1>7. ASSUME NEW c \in Callers, DestroyStep(c) PROVE IInv'
  BY <1>1, <1>7, DestroyStepInv
<1>8. ASSUME NEW c \in Callers,
             \/ Check(c) \/ Refill(c) \/ RefillFails(c) \/ AppendSlab(c) \/ Line(c)
             \/ Take(c) \/ First(c) \/ Unlink(c) \/ Tag(c)
             \/ Push(c) \/ Top(c) \/ Count(c)
      PROVE  IInv'
  <2>1. PICK k \in CacheIds : call[c].k = k
    BY <1>1 DEF Inv, Types, CallType
  <2>2. \E s, p, z : call[c].slab = s /\ call[c].obj = p /\ call[c].size = z
    OBVIOUS
  <2>3. CASE Check(c)
    BY <2>1, <2>3, <1>1, CheckInv DEF IInv
  <2>4. CASE Refill(c)
    BY <2>1, <2>4, <1>1, RefillInv
  <2>5. CASE RefillFails(c)
    BY <2>1, <2>5, <1>1, RefillFailsInv DEF IInv
  <2>6. CASE AppendSlab(c)
    BY <2>1, <2>2, <2>6, <1>1, AppendInv
  <2>7. CASE Line(c)
    BY <2>1, <2>2, <2>7, <1>1, LineInv DEF IInv
  <2>8. CASE Take(c)
    BY <2>1, <2>8, <1>1, TakeInv DEF IInv
  <2>9. CASE First(c)
    BY <2>1, <2>9, <1>1, FirstInv DEF IInv
  <2>10. CASE Unlink(c)
    BY <2>1, <2>2, <2>10, <1>1, UnlinkInv DEF IInv
  <2>11. CASE Tag(c)
    BY <2>1, <2>2, <2>11, <1>1, TagInv DEF IInv
  <2>12. CASE Push(c)
    BY <2>1, <2>2, <2>12, <1>1, PushInv DEF IInv
  <2>13. CASE Top(c)
    BY <2>1, <2>2, <2>13, <1>1, TopInv DEF IInv
  <2>14. CASE Count(c)
    BY <2>1, <2>14, <1>1, CountInv DEF IInv
  <2> QED
    BY <1>8, <2>3, <2>4, <2>5, <2>6, <2>7, <2>8, <2>9, <2>10, <2>11, <2>12, <2>13, <2>14
<1>9. CASE Next
  BY <1>3, <1>4, <1>5, <1>6, <1>7, <1>8, <1>9 DEF Next
<1> QED
  BY <1>2, <1>9

LEMMA IInvHolds ==
  ASSUME AllInSwi
  PROVE  Spec => []IInv
<1>1. Init => IInv
  BY InitIInv
<1>2. IInv /\ [Next]_vars => IInv'
  BY NextIInv
<1> QED
  BY <1>1, <1>2, PTL DEF Spec

LEMMA SlabsOfAll ==
  ASSUME NEW own, Inv(own), NEW k \in CacheIds
  PROVE  SlabsOf(k) = SlabsBy(own, k)
<1>1. CASE Live(k)
  BY <1>1, SlabsOfFacts DEF Inv
<1>2. CASE ~Live(k)
  <2> DEFINE m == Cardinality(Slabs)
  <2>1. m \in Nat
    BY KmemAssumption, FS_CardinalityType
  <2>2. SlabsOf(k) = ToEnd(cache[k].head, m, next, NULL)
    BY DEF SlabsOf, ToEnd
  <2> HIDE DEF m
  <2>3. cache[k].head = NULL
    BY <1>2 DEF Live
  <2>4. ToEnd(NULL, m, next, NULL) = {}
    BY <2>1, WalkNowhere
  <2>5. SlabsBy(own, k) = {}
    BY <1>2 DEF Inv, ChainInv
  <2> QED
    BY <2>2, <2>3, <2>4, <2>5
<1> QED
  BY <1>1, <1>2

LEMMA IdleFacts ==
  ASSUME NEW own, Inv(own), AllIdle
  PROVE  /\ \A k \in CacheIds : Live(k) => CacheOK(own, k, {}, 0)
         /\ SlabsBy(own, Hand) = {} /\ SlabsBy(own, Dying) = {}
<1>1. \A k \in CacheIds : ~On(k)
  BY DEF AllIdle, On
<1>2. SlabsBy(own, Hand) = {} /\ SlabsBy(own, Dying) = {}
  BY HandsEmpty DEF AllIdle
<1> QED
  BY <1>1, <1>2 DEF Inv

\* The objects of a cache that nobody was given, said as the property says them.
LEMMA SpareFacts ==
  ASSUME NEW own, Inv(own), NEW k \in CacheIds
  PROVE  Objects(k) \ InUse(k) = Spare(own, k)
<1>1. SlabsOf(k) = SlabsBy(own, k)
  BY SlabsOfAll
<1> DEFINE z == ObjSize(k)
           n == LineCount(z)
<1>2. \A s \in SlabsBy(own, k) : \A i \in 0..(n - 1) :
        i * z \in Offsets(k) /\ <<s, i * z>> \in Addresses
  <2> SUFFICES ASSUME NEW s \in SlabsBy(own, k), NEW i \in 0..(n - 1)
               PROVE  i * z \in Offsets(k) /\ <<s, i * z>> \in Addresses
    OBVIOUS
  <2>1. i * z \in Offsets(k)
    BY DEF Offsets
  <2> HIDE DEF n, z
  <2>2. i * z \in 0..(SlabBytes - 1)
    BY <2>1, OffsetFacts, SizeFacts
  <2> QED
    BY <2>1, <2>2 DEF Addresses, SlabsBy
<1>3. ASSUME NEW a \in Objects(k) PROVE a \in ObjectsBy(own, k)
  <2>1. PICK s \in SlabsBy(own, k), i \in 0..(n - 1) : a = <<s, i * z>>
    BY <1>1 DEF Objects
  <2> HIDE DEF n, z
  <2> QED
    BY <2>1, <1>2 DEF ObjectsBy, SlabsBy
<1>4. ASSUME NEW a \in ObjectsBy(own, k) PROVE a \in Objects(k)
  <2>1. a[1] \in SlabsBy(own, k) /\ a = <<a[1], a[2]>> /\ a[2] \in Offsets(k)
    BY DEF ObjectsBy, SlabsBy, Addresses
  <2>2. PICK i \in 0..(n - 1) : a[2] = i * z
    BY <2>1 DEF Offsets
  <2> QED
    BY <2>1, <2>2, <1>1 DEF Objects
<1>5. \A a \in ObjectsBy(own, k) : a \in InUse(k) <=> given[a] # <<>>
  BY <1>1 DEF InUse, ObjectsBy, SlabsBy, Addresses
<1> QED
  BY <1>3, <1>4, <1>5 DEF Spare

-----------------------------------------------------------------------------
\* The fields of the caches, the links and the locals of the calls have their
\* types: no call ever works on a cache there is not, and nf_block never is a
\* word that a caller wrote into its object.
THEOREM TypesHold == AllInSwi => (Spec => []TypeOK)
<1> SUFFICES ASSUME AllInSwi PROVE Spec => []TypeOK
  OBVIOUS
<1>1. IInv => TypeOK
  BY DEF IInv, Inv, Types, TypeOK, CacheType, CallType
<1> QED
  BY <1>1, IInvHolds, PTL

\* Between calls the counted part of the free list of a cache is exactly the
\* objects nobody has, each once: no kmalloc, kfree, refill or destroy loses an
\* object, lists one twice, or lists one that is in use.
THEOREM FreeListsExact == AllInSwi => (Spec => []FreeListExact)
<1> SUFFICES ASSUME AllInSwi PROVE Spec => []FreeListExact
  OBVIOUS
<1>1. IInv => FreeListExact
  <2> SUFFICES ASSUME NEW own, Inv(own), AllIdle, NEW k \in CacheIds, cache[k].head # NULL
               PROVE  /\ {FreeList(k)[n] : n \in 1..cache[k].nr} = Objects(k) \ InUse(k)
                      /\ cache[k].nr = Cardinality(Objects(k) \ InUse(k))
    BY DEF IInv, FreeListExact
  <2> DEFINE S == Spare(own, k)
             nr == cache[k].nr
  <2>1. nr \in Nat
    BY DEF Inv, Types, CacheType
  <2>2. IsList(S, cache[k].nf, nr, link)
    <3>1. CacheOK(own, k, {}, 0)
      BY IdleFacts DEF Live
    <3>2. Spare(own, k) \ {} = S /\ cache[k].nr + 0 = nr
      BY <2>1
    <3> QED
      BY <3>1, <3>2 DEF CacheOK
  <2>3. S \subseteq Addresses
    BY DEF Spare, ObjectsBy
  <2>4. S = Objects(k) \ InUse(k)
    BY SpareFacts
  <2> HIDE DEF S, nr
  <2>5. AllAlong(cache[k].nf, nr, Addresses, link, NULL) = S
    BY <2>1, <2>2, <2>3, WalkList
  <2>6. FreeList(k) = Along(cache[k].nf, nr, Addresses, link, NULL)
    BY DEF FreeList, Along, nr
  <2>7. nr = Cardinality(S)
    BY <2>1, <2>2, ListCardinality
  <2> QED
    BY <2>4, <2>5, <2>6, <2>7 DEF nr, AllAlong
<1> QED
  BY <1>1, IInvHolds, PTL

\* kmalloc gives no object to two callers; what it gave to two never overlaps,
\* holds the size asked for and does not run over the end of the slab.
THEOREM ObjectsApart == AllInSwi => (Spec => []NoOverlap)
<1> SUFFICES ASSUME AllInSwi PROVE Spec => []NoOverlap
  OBVIOUS
<1>1. IInv => NoOverlap
  <2> SUFFICES ASSUME NEW own, Inv(own) PROVE NoOverlap
    BY DEF IInv
  <2>1. GivenOnce
    <3> SUFFICES ASSUME NEW a \in Addresses PROVE Len(given[a]) <= 1
      BY DEF GivenOnce
    <3>1. CASE given[a] = <<>>
      BY <3>1
    <3>2. CASE given[a] # <<>>
      <4>1. PICK z \in Nat : given[a] = <<z>>
        BY <3>2 DEF Inv, Types
      <4> QED
        BY <4>1
    <3> QED
      BY <3>1, <3>2
  <2>2. ASSUME NEW a \in Addresses, given[a] # <<>>
        PROVE  /\ a[2] + given[a][1] <= SlabBytes
               /\ \A b \in Addresses :
                    given[b] # <<>> /\ b[1] = a[1] /\ b[2] > a[2] => a[2] + given[a][1] <= b[2]
    <3>1. PICK k \in CacheIds : own[a[1]] = k
      BY <2>2 DEF Inv, GivenInv
    <3>2. a[2] \in Offsets(k) /\ given[a][1] \in 1..ObjSize(k)
      BY <2>2, <3>1 DEF Inv, GivenInv
    <3>3. /\ ObjSize(k) \in Nat /\ SlabBytes \in Nat
          /\ a[2] \in Nat /\ a[2] + ObjSize(k) <= SlabBytes
      BY <3>2, OffsetFacts, SizeFacts
    <3>4. ASSUME NEW b \in Addresses, given[b] # <<>>, b[1] = a[1], b[2] > a[2]
          PROVE  a[2] + given[a][1] <= b[2]
      <4>1. b[2] \in Offsets(k)
        BY <3>1, <3>4 DEF Inv, GivenInv
      <4>2. b[2] \in Nat /\ a[2] + ObjSize(k) <= b[2]
        BY <4>1, <3>2, <3>3, <3>4, OffsetFacts
      <4> QED
        BY <4>2, <3>2, <3>3
    <3> QED
      BY <3>2, <3>3, <3>4
  <2> QED
    BY <2>1, <2>2 DEF NoOverlap
<1> QED
  BY <1>1, IInvHolds, PTL

\* kfree finds the cache an object came from by its page alone, whatever that
\* page was used for before.
THEOREM ObjectsGoHome == AllInSwi => (Spec => []FreeGoesHome)
<1> SUFFICES ASSUME AllInSwi PROVE Spec => []FreeGoesHome
  OBVIOUS
<1>1. IInv => FreeGoesHome
  <2> SUFFICES ASSUME NEW own, Inv(own), NEW k \in CacheIds, NEW a \in InUse(k)
               PROVE  cachep[PageOf(a)] = k
    BY DEF IInv, FreeGoesHome
  <2>1. a \in Addresses /\ given[a] # <<>> /\ a[1] \in SlabsBy(own, k)
    BY SlabsOfAll DEF InUse
  <2> QED
    BY <2>1 DEF Inv, GivenInv, SlabsBy
<1> QED
  BY <1>1, IInvHolds, PTL

\* Between calls every slab is in the pool or hangs from exactly one cache: no
\* refill and no kmem_cache_destroy loses a slab or shares one.
THEOREM NoSlabLost == AllInSwi => (Spec => []SlabsAccounted)
<1> SUFFICES ASSUME AllInSwi PROVE Spec => []SlabsAccounted
  OBVIOUS
<1>1. IInv => SlabsAccounted
  <2> SUFFICES ASSUME NEW own, Inv(own), AllIdle PROVE SlabsAccounted
    BY DEF IInv, SlabsAccounted
  <2>1. \A k \in CacheIds : SlabsOf(k) = SlabsBy(own, k)
    BY SlabsOfAll
  <2>2. own \in [Slabs -> Owners] /\ pool = SlabsBy(own, Pool)
    BY DEF Inv, OwnInv
  <2>3. \A s \in Slabs \ pool : own[s] \in CacheIds
    BY <2>2, IdleFacts DEF Owners, SlabsBy
  <2>4. \A s \in Slabs \ pool : \E k \in CacheIds : s \in SlabsOf(k)
    BY <2>1, <2>3 DEF SlabsBy
  <2>5. \A k \in CacheIds : SlabsOf(k) \cap pool = {}
    BY <2>1, <2>2, OwnerFacts DEF SlabsBy
  <2>6. \A k, j \in CacheIds : k # j => SlabsOf(k) \cap SlabsOf(j) = {}
    BY <2>1 DEF SlabsBy
  <2> QED
    BY <2>4, <2>5, <2>6 DEF SlabsAccounted
<1> QED
  BY <1>1, IInvHolds, PTL
=============================================================================
