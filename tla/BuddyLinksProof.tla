--------------------------- MODULE BuddyLinksProof ---------------------------
(***************************************************************************)
(* Proofs about BuddyLinks, for every size of the heap and every largest   *)
(* order: the pointers implement the lists of Buddy, and the rings stay    *)
(* whole, whatever the object caches leave in the links of the blocks they *)
(* hold.                                                                   *)
(***************************************************************************)
EXTENDS BuddyLinks, Sequences, Chains

\* What is proved of Buddy, said of its variables as BuddyLinks shows them.
P == INSTANCE BuddyProof WITH
  OutsideDescs <- {Quiet}, free <- xFree, order <- xOrder, busy <- xBusy

\* The instance speaks of the same heap.
LEMMA SameHeap ==
  /\ P!Pages = Pages /\ P!Orders = Orders /\ P!NotHeld = NotHeld /\ P!Descs = Descs
  /\ \A p \in Pages, o \in Orders : P!Block(p, o) = Block(p, o)
BY DEF P!Pages, P!Orders, P!NotHeld, P!Descs, P!Block, Pages, Orders, NotHeld, Descs, Block

LEMMA Sizes ==
  /\ NPages \in Nat /\ NPages > 0
  /\ MaxOrder \in Nat
  /\ \A o \in Orders : Size[o] \in Nat /\ Size[o] >= 1 /\ Size[o] <= Size[MaxOrder]
  /\ Size[0] = 1
  /\ \A o \in Orders : o < MaxOrder => o + 1 \in Orders /\ Size[o + 1] = 2 * Size[o]
BY GeometryAssumption DEF Orders

\* What lies around the array is the description of a page.
LEMMA QuietIsDesc == {Quiet} \subseteq [busy : BOOLEAN, order : Int]
<1>1. MaxOrder \in Orders
  BY Sizes DEF Orders
<1>2. Size[MaxOrder] \in Nat
  BY <1>1, Sizes
<1> QED
  BY <1>2, Sizes DEF Quiet

\* The memory around the array never passes for a free block.
LEMMA QuietApart == P!QuietOutside
<1>1. MaxOrder \in Orders
  BY Sizes DEF Orders
<1>2. Size[MaxOrder] \in Nat
  BY <1>1, Sizes
<1> QED
  BY <1>2, Sizes DEF Quiet, P!QuietOutside, P!Orders

\* f cuts the pages into blocks, as in BuddyProof.
Tiled(f) ==
  /\ f \in [Pages -> Orders \cup {-1}]
  /\ \A p \in Pages : f[p] # -1 => p + Size[f[p]] <= NPages
  /\ \A p, q \in Pages : f[p] # -1 /\ f[q] # -1 /\ p < q => p + Size[f[p]] <= q

\* s is a list of blocks of order o, none twice.
Placed(f, s, o) ==
  /\ s \in Seq(Pages)
  /\ \A i, j \in 1..Len(s) : s[i] = s[j] => i = j
  /\ \A k \in 1..Len(s) : f[s[k]] = o

\* Where the k-th link of ring o starts, the head being link 0, and where link k - 1 ends.
Out(s, o, k) == IF k = 0 THEN HeadOf(o) ELSE BlockEnd(s[k], o)
In(s, o, k) == IF k = Len(s) + 1 THEN HeadOf(o) ELSE s[k]

\* The links between the blocks of list s, and those from and to the head.
Ring(l, s, o) ==
  \A k \in 0..Len(s) :
    l.next[Out(s, o, k)] = In(s, o, k + 1) /\ l.prev[In(s, o, k + 1)] = Out(s, o, k)

\* The links inside the blocks.
Inner(l, f) ==
  \A p \in Pages : f[p] # -1 =>
    \A i \in (p + 1)..(p + Size[f[p]] - 1) : l.next[i - 1] = i /\ l.prev[i] = i - 1

LinkTypes(l) ==
  l \in [next : [Nodes -> Nodes \cup {NULL}], prev : [Nodes -> Nodes]]

LEMMA EndFacts ==
  ASSUME NEW f, Tiled(f), NEW p \in Pages, f[p] # -1
  PROVE  /\ f[p] \in Orders /\ BlockEnd(p, f[p]) \in Pages
         /\ BlockEnd(p, f[p]) = p + Size[f[p]] - 1
         /\ \A q \in Pages : f[q] # -1 /\ BlockEnd(q, f[q]) = BlockEnd(p, f[p]) => q = p
         /\ \A q \in Pages : f[q] # -1 =>
              ~(BlockEnd(p, f[p]) + 1 \in (q + 1)..(q + Size[f[q]] - 1))
         /\ \A q \in Pages : f[q] # -1 => ~(p \in (q + 1)..(q + Size[f[q]] - 1))
<1>1. \A q \in Pages : f[q] # -1 => f[q] \in Orders /\ Size[f[q]] \in Nat /\ Size[f[q]] >= 1
                                   /\ BlockEnd(q, f[q]) = q + Size[f[q]] - 1 /\ q \in Nat
  BY Sizes DEF Tiled, BlockEnd, Pages
<1>2. p + Size[f[p]] <= NPages
  BY DEF Tiled
<1>3. \A q \in Pages : f[q] # -1 =>
        (q < p => q + Size[f[q]] <= p) /\ (p < q => p + Size[f[p]] <= q)
  BY DEF Tiled
<1>4. BlockEnd(p, f[p]) \in Pages
  BY <1>1, <1>2, Sizes DEF Pages
<1>5. ASSUME NEW q \in Pages, f[q] # -1
      PROVE  /\ BlockEnd(q, f[q]) = BlockEnd(p, f[p]) => q = p
             /\ ~(BlockEnd(p, f[p]) + 1 \in (q + 1)..(q + Size[f[q]] - 1))
             /\ ~(p \in (q + 1)..(q + Size[f[q]] - 1))
  BY <1>1, <1>3, <1>5
<1> QED
  BY <1>1, <1>4, <1>5

\* The ends of a ring's links are nodes, each the end of one link only.
LEMMA RingNodes ==
  ASSUME NEW f, Tiled(f), NEW o \in Orders, NEW s, Placed(f, s, o)
  PROVE  /\ Len(s) \in Nat /\ \A k \in 1..Len(s) : s[k] \in Pages /\ BlockEnd(s[k], o) \in Pages
         /\ HeadOf(o) \in Nodes /\ HeadOf(o) \notin Pages /\ Pages \subseteq Nodes
         /\ \A k \in 0..Len(s) : Out(s, o, k) \in Nodes /\ In(s, o, k + 1) \in Nodes
         /\ \A i, j \in 0..Len(s) : Out(s, o, i) = Out(s, o, j) => i = j
         /\ \A i, j \in 1..(Len(s) + 1) : In(s, o, i) = In(s, o, j) => i = j
<1>1. Len(s) \in Nat /\ \A k \in 1..Len(s) : s[k] \in Pages /\ f[s[k]] = o
  BY DEF Placed
<1>2. o # -1
  BY Sizes DEF Orders
<1>3. \A k \in 1..Len(s) : BlockEnd(s[k], o) \in Pages
  BY <1>1, <1>2, EndFacts
<1>4. HeadOf(o) \in Nodes /\ HeadOf(o) \notin Pages /\ Pages \subseteq Nodes
  BY Sizes DEF HeadOf, Nodes, Pages, Orders
<1>5. \A i, j \in 1..Len(s) : BlockEnd(s[i], o) = BlockEnd(s[j], o) => i = j
  <2> SUFFICES ASSUME NEW i \in 1..Len(s), NEW j \in 1..Len(s),
                      BlockEnd(s[i], o) = BlockEnd(s[j], o)
               PROVE  i = j
    OBVIOUS
  <2>1. s[i] = s[j]
    BY <1>1, <1>2, EndFacts
  <2> QED
    BY <2>1 DEF Placed
<1>6. \A k \in 0..Len(s) : /\ k = 0 \/ k \in 1..Len(s)
                           /\ Out(s, o, k) = IF k = 0 THEN HeadOf(o) ELSE BlockEnd(s[k], o)
  BY <1>1 DEF Out
<1>7. \A k \in 1..(Len(s) + 1) : /\ k = Len(s) + 1 \/ k \in 1..Len(s)
                                 /\ In(s, o, k) = IF k = Len(s) + 1 THEN HeadOf(o) ELSE s[k]
  BY <1>1 DEF In
<1>8. \A k \in 0..Len(s) : Out(s, o, k) \in Nodes
  BY <1>3, <1>4, <1>6
<1>9. \A k \in 0..Len(s) : k + 1 \in 1..(Len(s) + 1)
  BY <1>1
<1>10. \A k \in 1..(Len(s) + 1) : In(s, o, k) \in Nodes
  BY <1>1, <1>4, <1>7
<1>11. ASSUME NEW i \in 0..Len(s), NEW j \in 0..Len(s), Out(s, o, i) = Out(s, o, j)
       PROVE  i = j
  <2>1. CASE i = 0 /\ j = 0
    BY <2>1
  <2>2. CASE i \in 1..Len(s) /\ j \in 1..Len(s)
    BY <2>2, <1>5, <1>6, <1>11
  <2> QED
    BY <2>1, <2>2, <1>3, <1>4, <1>6, <1>11
<1>12. ASSUME NEW i \in 1..(Len(s) + 1), NEW j \in 1..(Len(s) + 1), In(s, o, i) = In(s, o, j)
       PROVE  i = j
  <2>1. CASE i = Len(s) + 1 /\ j = Len(s) + 1
    BY <2>1
  <2>2. CASE i \in 1..Len(s) /\ j \in 1..Len(s)
    <3>1. s[i] = s[j]
      BY <2>2, <1>1, <1>7, <1>12
    <3> QED
      BY <3>1, <2>2 DEF Placed
  <2>3. CASE i \in 1..Len(s) /\ j = Len(s) + 1
    BY <2>3, <1>1, <1>4, <1>7, <1>12
  <2>4. CASE j \in 1..Len(s) /\ i = Len(s) + 1
    BY <2>4, <1>1, <1>4, <1>7, <1>12
  <2> QED
    BY <2>1, <2>2, <2>3, <2>4, <1>7
<1> QED
  BY <1>1, <1>3, <1>4, <1>8, <1>9, <1>10, <1>11, <1>12

\* Links change at most behind and before the blocks of Q and the heads of the lists H.
Touches(l, m, f, Q, H) ==
  \A n \in Nodes :
    /\ m.next[n] = l.next[n]
         \/ (\E q \in Q : n = BlockEnd(q, f[q])) \/ (\E h \in H : n = HeadOf(h))
    /\ m.prev[n] = l.prev[n] \/ n \in Q \/ (\E h \in H : n = HeadOf(h))

\* A ring that none of the touched blocks is in stays as it is.
LEMMA RingStays ==
  ASSUME NEW f, Tiled(f), NEW o \in Orders, NEW s, Placed(f, s, o), NEW l, Ring(l, s, o),
         NEW Q \in SUBSET Pages, NEW H \in SUBSET Orders, o \notin H,
         \A q \in Q : f[q] # -1, \A k \in 1..Len(s) : s[k] \notin Q,
         NEW m, Touches(l, m, f, Q, H)
  PROVE  Ring(m, s, o)
<1> SUFFICES ASSUME NEW k \in 0..Len(s)
             PROVE  /\ m.next[Out(s, o, k)] = In(s, o, k + 1)
                    /\ m.prev[In(s, o, k + 1)] = Out(s, o, k)
  BY DEF Ring
<1>1. Out(s, o, k) \in Nodes /\ In(s, o, k + 1) \in Nodes /\ Len(s) \in Nat
      /\ \A j \in 1..Len(s) : s[j] \in Pages /\ BlockEnd(s[j], o) \in Pages
  BY RingNodes
<1>2. \A q \in Q : BlockEnd(q, f[q]) \in Pages
  BY EndFacts
<1>3. \A h \in Orders : HeadOf(h) \notin Pages /\ (h # o => HeadOf(h) # HeadOf(o))
  BY Sizes DEF HeadOf, Pages, Orders
<1>4. ASSUME NEW q \in Q PROVE Out(s, o, k) # BlockEnd(q, f[q])
  <2>1. CASE k = 0
    BY <2>1, <1>2, <1>3 DEF Out
  <2>2. CASE k \in 1..Len(s)
    <3>1. f[s[k]] = o /\ o # -1 /\ s[k] \in Pages /\ s[k] # q
      BY <2>2, <1>1, Sizes DEF Placed, Orders
    <3>2. BlockEnd(q, f[q]) # BlockEnd(s[k], f[s[k]])
      BY <3>1, EndFacts
    <3> QED
      BY <3>1, <3>2, <2>2 DEF Out
  <2> QED
    BY <2>1, <2>2, <1>1
<1>5. ASSUME NEW h \in H PROVE Out(s, o, k) # HeadOf(h) /\ In(s, o, k + 1) # HeadOf(h)
  BY <1>1, <1>3 DEF Out, In
<1>6. In(s, o, k + 1) \notin Q
  <2>1. k + 1 = Len(s) + 1 \/ k + 1 \in 1..Len(s)
    BY <1>1
  <2> QED
    BY <2>1, <1>1, <1>3 DEF In
<1>7. m.next[Out(s, o, k)] = l.next[Out(s, o, k)]
  BY <1>1, <1>4, <1>5 DEF Touches
<1>8. m.prev[In(s, o, k + 1)] = l.prev[In(s, o, k + 1)]
  BY <1>1, <1>5, <1>6 DEF Touches
<1> QED
  BY <1>7, <1>8 DEF Ring

\* The links inside the blocks stay as they are in any case.
LEMMA InnerStays ==
  ASSUME NEW f, Tiled(f), NEW l, Inner(l, f),
         NEW Q \in SUBSET Pages, NEW H \in SUBSET Orders, \A q \in Q : f[q] # -1,
         NEW m, Touches(l, m, f, Q, H)
  PROVE  Inner(m, f)
<1> SUFFICES ASSUME NEW p \in Pages, f[p] # -1, NEW i \in (p + 1)..(p + Size[f[p]] - 1)
             PROVE  m.next[i - 1] = i /\ m.prev[i] = i - 1
  BY DEF Inner
<1>1. /\ p \in Nat /\ Size[f[p]] \in Nat /\ p + Size[f[p]] <= NPages /\ NPages \in Nat
  BY Sizes DEF Tiled, Pages
<1>2. i \in Pages /\ i - 1 \in Pages /\ (i - 1) + 1 = i
  BY <1>1 DEF Pages
<1>3. Pages \subseteq Nodes /\ \A h \in Orders : HeadOf(h) \notin Pages
  BY Sizes DEF HeadOf, Nodes, Pages, Orders
<1>4. \A q \in Q : i # q /\ i - 1 # BlockEnd(q, f[q])
  BY <1>2, EndFacts
<1>5. m.next[i - 1] = l.next[i - 1] /\ m.prev[i] = l.prev[i]
  BY <1>2, <1>3, <1>4 DEF Touches
<1> QED
  BY <1>5 DEF Inner

-----------------------------------------------------------------------------
(* The two ways the code changes a ring. *)

\* The blocks of a list.
Blocks(s) == {s[k] : k \in 1..Len(s)}

\* The list without its j-th block, and with p behind the j-th.
CutOut(s, j) == [i \in 1..(Len(s) - 1) |-> IF i < j THEN s[i] ELSE s[i + 1]]
PutIn(s, j, p) ==
  [i \in 1..(Len(s) + 1) |-> IF i <= j THEN s[i] ELSE IF i = j + 1 THEN p ELSE s[i - 1]]

LEMMA RingRemove ==
  ASSUME NEW f, Tiled(f), NEW o \in Orders, NEW s, Placed(f, s, o),
         NEW l, LinkTypes(l), Ring(l, s, o), NEW j \in 1..Len(s)
  PROVE  LET m == RemoveChain(l, s[j], BlockEnd(s[j], o))
         IN  /\ Ring(m, CutOut(s, j), o) /\ LinkTypes(m)
             /\ Touches(l, m, f, Blocks(s), {o})
<1> DEFINE m == RemoveChain(l, s[j], BlockEnd(s[j], o))
           t == CutOut(s, j)
           a == Out(s, o, j - 1)
           b == In(s, o, j + 1)
           Q == Blocks(s)
<1>1. /\ Len(s) \in Nat /\ \A k \in 1..Len(s) : s[k] \in Pages /\ BlockEnd(s[k], o) \in Pages
      /\ HeadOf(o) \in Nodes /\ HeadOf(o) \notin Pages /\ Pages \subseteq Nodes
      /\ \A k \in 0..Len(s) : Out(s, o, k) \in Nodes /\ In(s, o, k + 1) \in Nodes
      /\ \A i, k \in 0..Len(s) : Out(s, o, i) = Out(s, o, k) => i = k
      /\ \A i, k \in 1..(Len(s) + 1) : In(s, o, i) = In(s, o, k) => i = k
  BY RingNodes
<1>2. /\ j \in 0..Len(s) /\ j - 1 \in 0..Len(s) /\ (j - 1) + 1 = j
      /\ Out(s, o, j) = BlockEnd(s[j], o) /\ In(s, o, j) = s[j]
  BY <1>1 DEF Out, In
<1>3. l.prev[s[j]] = a /\ l.next[BlockEnd(s[j], o)] = b /\ a \in Nodes /\ b \in Nodes
  <2>1. l.prev[In(s, o, (j - 1) + 1)] = Out(s, o, j - 1)
    BY <1>2 DEF Ring
  <2>2. l.next[Out(s, o, j)] = In(s, o, j + 1)
    BY <1>2 DEF Ring
  <2> QED
    BY <2>1, <2>2, <1>1, <1>2
<1>4. /\ \A n \in Nodes : m.next[n] = IF n = a THEN b ELSE l.next[n]
      /\ \A n \in Nodes : m.prev[n] = IF n = b THEN a ELSE l.prev[n]
      /\ LinkTypes(m)
  <2> HIDE DEF a, b
  <2> QED
    BY <1>3 DEF RemoveChain, LinkTypes
<1>5. /\ Len(t) = Len(s) - 1
      /\ \A i \in 1..(Len(s) - 1) : t[i] = IF i < j THEN s[i] ELSE s[i + 1]
  BY <1>1 DEF CutOut
<1>6. ASSUME NEW k \in 0..Len(t)
      PROVE  /\ Out(t, o, k) = IF k < j THEN Out(s, o, k) ELSE Out(s, o, k + 1)
             /\ In(t, o, k + 1) = IF k + 1 < j THEN In(s, o, k + 1) ELSE In(s, o, k + 2)
  <2>1. CASE k = 0
    <3>1. Out(t, o, k) = HeadOf(o) /\ Out(s, o, k) = HeadOf(o) /\ k < j
      BY <2>1 DEF Out
    <3> QED
      BY <3>1, <2>1, <1>1, <1>5 DEF In
  <2>2. CASE k > 0
    <3>1. Out(t, o, k) = BlockEnd(t[k], o) /\ Out(s, o, k) = BlockEnd(s[k], o)
          /\ Out(s, o, k + 1) = BlockEnd(s[k + 1], o) /\ k \in 1..(Len(s) - 1)
      BY <2>2, <1>1, <1>5 DEF Out
    <3> QED
      BY <3>1, <2>2, <1>1, <1>5 DEF In
  <2> QED
    BY <2>1, <2>2, <1>5
<1> HIDE DEF t, m
<1>7. ASSUME NEW k \in 0..Len(t)
      PROVE  m.next[Out(t, o, k)] = In(t, o, k + 1) /\ m.prev[In(t, o, k + 1)] = Out(t, o, k)
  <2>1. CASE k + 1 < j
    <3>1. k \in 0..Len(s) /\ k # j - 1 /\ k + 1 # j + 1 /\ k + 1 \in 1..(Len(s) + 1)
          /\ j + 1 \in 1..(Len(s) + 1) /\ k < j
      BY <2>1, <1>1, <1>5
    <3>2. Out(s, o, k) # a /\ In(s, o, k + 1) # b
      BY <3>1, <1>1, <1>2
    <3> QED
      BY <3>1, <3>2, <2>1, <1>1, <1>4, <1>6 DEF Ring
  <2>2. CASE k + 1 = j
    <3>1. Out(t, o, k) = a /\ In(t, o, k + 1) = b
      <4>1. k < j /\ ~(k + 1 < j) /\ k = j - 1 /\ k + 2 = j + 1
        BY <2>2, <1>1, <1>5
      <4>2. Out(t, o, k) = Out(s, o, k) /\ In(t, o, k + 1) = In(s, o, k + 2)
        BY <4>1, <1>6
      <4> QED
        BY <4>1, <4>2
    <3> QED
      BY <3>1, <1>3, <1>4
  <2>3. CASE k >= j
    <3>1. k + 1 \in 0..Len(s) /\ k + 1 # j - 1 /\ k + 2 # j + 1 /\ k + 2 \in 1..(Len(s) + 1)
          /\ j + 1 \in 1..(Len(s) + 1) /\ ~(k < j) /\ ~(k + 1 < j) /\ (k + 1) + 1 = k + 2
      BY <2>3, <1>1, <1>5
    <3>2. Out(s, o, k + 1) # a /\ In(s, o, k + 2) # b
      BY <3>1, <1>1, <1>2
    <3>3. Out(t, o, k) = Out(s, o, k + 1) /\ In(t, o, k + 1) = In(s, o, k + 2)
      BY <3>1, <1>6
    <3>4. l.next[Out(s, o, k + 1)] = In(s, o, k + 2) /\ l.prev[In(s, o, k + 2)] = Out(s, o, k + 1)
      BY <3>1 DEF Ring
    <3>5. Out(s, o, k + 1) \in Nodes /\ In(s, o, k + 2) \in Nodes
      BY <3>1, <1>1
    <3> QED
      BY <3>2, <3>3, <3>4, <3>5, <1>4
  <2> QED
    BY <2>1, <2>2, <2>3, <1>1, <1>5
<1>8. Ring(m, t, o)
  BY <1>7 DEF Ring
<1>9. Touches(l, m, f, Q, {o})
  <2>1. a = HeadOf(o) \/ \E q \in Q : a = BlockEnd(q, f[q])
    <3>1. CASE j = 1
      BY <3>1 DEF Out
    <3>2. CASE j # 1
      <4>1. j - 1 \in 1..Len(s) /\ a = BlockEnd(s[j - 1], o) /\ f[s[j - 1]] = o
        BY <3>2, <1>1 DEF Out, Placed
      <4> QED
        BY <4>1 DEF Blocks
    <3> QED
      BY <3>1, <3>2
  <2>2. b = HeadOf(o) \/ b \in Q
    <3>1. j + 1 = Len(s) + 1 \/ j + 1 \in 1..Len(s)
      BY <1>1
    <3> QED
      BY <3>1 DEF In, Blocks
  <2> HIDE DEF a, b, Q
  <2> QED
    BY <2>1, <2>2, <1>4 DEF Touches
<1> QED
  BY <1>4, <1>8, <1>9 DEF m, t

\* The links between which a block is hung in, and what becomes of them.
Hung(l, m, a, b, p, e) ==
  /\ \A n \in Nodes : m.next[n] = IF n = a THEN p ELSE IF n = e THEN b ELSE l.next[n]
  /\ \A n \in Nodes : m.prev[n] = IF n = b THEN e ELSE IF n = p THEN a ELSE l.prev[n]

LEMMA RingInsert ==
  ASSUME NEW f, Tiled(f), NEW o \in Orders, NEW s, Placed(f, s, o),
         NEW l, Ring(l, s, o), NEW j \in 0..Len(s),
         NEW p \in Pages, f[p] = o, \A k \in 1..Len(s) : s[k] # p,
         NEW m, Hung(l, m, Out(s, o, j), In(s, o, j + 1), p, BlockEnd(p, o))
  PROVE  /\ Ring(m, PutIn(s, j, p), o)
         /\ Touches(l, m, f, Blocks(s) \cup {p}, {o})
<1> DEFINE t == PutIn(s, j, p)
           a == Out(s, o, j)
           b == In(s, o, j + 1)
           e == BlockEnd(p, o)
           Q == Blocks(s) \cup {p}
<1>1. /\ Len(s) \in Nat /\ \A k \in 1..Len(s) : s[k] \in Pages /\ BlockEnd(s[k], o) \in Pages
      /\ HeadOf(o) \in Nodes /\ HeadOf(o) \notin Pages /\ Pages \subseteq Nodes
      /\ \A k \in 0..Len(s) : Out(s, o, k) \in Nodes /\ In(s, o, k + 1) \in Nodes
      /\ \A i, k \in 0..Len(s) : Out(s, o, i) = Out(s, o, k) => i = k
      /\ \A i, k \in 1..(Len(s) + 1) : In(s, o, i) = In(s, o, k) => i = k
  BY RingNodes
<1>2. /\ \A n \in Nodes : m.next[n] = IF n = a THEN p ELSE IF n = e THEN b ELSE l.next[n]
      /\ \A n \in Nodes : m.prev[n] = IF n = b THEN e ELSE IF n = p THEN a ELSE l.prev[n]
  BY DEF Hung
<1>3. /\ Len(t) = Len(s) + 1
      /\ \A i \in 1..(Len(s) + 1) :
           t[i] = IF i <= j THEN s[i] ELSE IF i = j + 1 THEN p ELSE s[i - 1]
  BY <1>1 DEF PutIn
<1>4. e \in Pages /\ \A k \in 1..Len(s) : BlockEnd(s[k], o) # e
  <2>1. o # -1
    BY Sizes DEF Orders
  <2>2. \A k \in 1..Len(s) : f[s[k]] = o
    BY DEF Placed
  <2> QED
    BY <2>1, <2>2, <1>1, EndFacts
<1>5. \A k \in 0..Len(s) : Out(s, o, k) # e
  <2>1. \A k \in 0..Len(s) : k = 0 \/ k \in 1..Len(s)
    BY <1>1
  <2> HIDE DEF e
  <2> QED
    BY <2>1, <1>1, <1>4 DEF Out
<1>6. \A k \in 1..(Len(s) + 1) : In(s, o, k) # p
  <2>1. \A k \in 1..(Len(s) + 1) : k = Len(s) + 1 \/ k \in 1..Len(s)
    BY <1>1
  <2> QED
    BY <2>1, <1>1 DEF In
<1>7. ASSUME NEW k \in 0..Len(t)
      PROVE  /\ k <= j => Out(t, o, k) = Out(s, o, k)
             /\ k = j + 1 => Out(t, o, k) = e
             /\ k > j + 1 => Out(t, o, k) = Out(s, o, k - 1)
             /\ k < j => In(t, o, k + 1) = In(s, o, k + 1)
             /\ k = j => In(t, o, k + 1) = p
             /\ k > j => In(t, o, k + 1) = In(s, o, k)
  <2>1. Out(t, o, k) = IF k = 0 THEN HeadOf(o) ELSE BlockEnd(t[k], o)
    BY DEF Out
  <2>2. In(t, o, k + 1) = IF k + 1 = Len(s) + 2 THEN HeadOf(o) ELSE t[k + 1]
    BY <1>1, <1>3 DEF In
  <2>3. k > 0 => k \in 1..(Len(s) + 1)
    BY <1>1, <1>3
  <2>4. k < Len(s) + 1 => k + 1 \in 1..(Len(s) + 1)
    BY <1>1, <1>3
  <2>5. k \in Int /\ j \in Int /\ 0 <= k /\ k <= Len(s) + 1 /\ 0 <= j /\ j <= Len(s)
    BY <1>1, <1>3
  <2> HIDE DEF t
  <2>6. k <= j => Out(t, o, k) = Out(s, o, k)
    BY <2>1, <2>3, <2>5, <1>3 DEF Out
  <2>7. k = j + 1 => Out(t, o, k) = e
    BY <2>1, <2>3, <2>5, <1>3
  <2>8. k > j + 1 => Out(t, o, k) = Out(s, o, k - 1)
    BY <2>1, <2>3, <2>5, <1>3 DEF Out
  <2>9. k < j => In(t, o, k + 1) = In(s, o, k + 1)
    BY <2>2, <2>4, <2>5, <1>3 DEF In
  <2>10. k = j => In(t, o, k + 1) = p
    BY <2>2, <2>4, <2>5, <1>1, <1>3
  <2>11. k > j => In(t, o, k + 1) = In(s, o, k)
    <3>1. CASE k = Len(s) + 1
      BY <3>1, <2>2, <2>5, <1>1 DEF In
    <3>2. CASE k < Len(s) + 1
      <4>1. k > j => t[k + 1] = s[k]
        BY <3>2, <2>4, <2>5, <1>1, <1>3
      <4> QED
        BY <4>1, <3>2, <2>2, <2>5, <1>1 DEF In
    <3> QED
      BY <3>1, <3>2, <2>5, <1>1
  <2> QED
    BY <2>6, <2>7, <2>8, <2>9, <2>10, <2>11
<1>8. a \in Nodes /\ b \in Nodes /\ e \in Nodes /\ p \in Nodes /\ a # e /\ b # p
  <2>1. j + 1 \in 1..(Len(s) + 1)
    BY <1>1
  <2> QED
    BY <2>1, <1>1, <1>4, <1>5, <1>6
<1> HIDE DEF t, e
<1>9. ASSUME NEW k \in 0..Len(t)
      PROVE  m.next[Out(t, o, k)] = In(t, o, k + 1) /\ m.prev[In(t, o, k + 1)] = Out(t, o, k)
  <2>1. CASE k < j
    <3>1. k \in 0..Len(s) /\ k # j /\ k + 1 # j + 1 /\ k + 1 \in 1..(Len(s) + 1)
          /\ j + 1 \in 1..(Len(s) + 1) /\ k <= j
      BY <2>1, <1>1, <1>3
    <3>2. /\ Out(t, o, k) = Out(s, o, k) /\ In(t, o, k + 1) = In(s, o, k + 1)
          /\ Out(s, o, k) # a /\ In(s, o, k + 1) # b
          /\ Out(s, o, k) # e /\ In(s, o, k + 1) # p
      BY <3>1, <2>1, <1>1, <1>5, <1>6, <1>7
    <3> QED
      BY <3>1, <3>2, <1>1, <1>2 DEF Ring
  <2>2. CASE k = j
    <3>1. Out(t, o, k) = a /\ In(t, o, k + 1) = p
      BY <2>2, <1>7
    <3> QED
      BY <3>1, <1>2, <1>8
  <2>3. CASE k = j + 1
    <3>1. k <= Len(s) + 1 /\ k > j
      BY <2>3, <1>1, <1>3
    <3>2. Out(t, o, k) = e /\ In(t, o, k + 1) = b
      BY <2>3, <3>1, <1>7
    <3> QED
      BY <3>2, <1>2, <1>8
  <2>4. CASE k > j + 1
    <3>1. k - 1 \in 0..Len(s) /\ k - 1 # j /\ k # j + 1 /\ k \in 1..(Len(s) + 1) /\ k > j
          /\ j + 1 \in 1..(Len(s) + 1) /\ (k - 1) + 1 = k
      BY <2>4, <1>1, <1>3
    <3>2. /\ Out(t, o, k) = Out(s, o, k - 1) /\ In(t, o, k + 1) = In(s, o, k)
          /\ Out(s, o, k - 1) # a /\ In(s, o, k) # b
          /\ Out(s, o, k - 1) # e /\ In(s, o, k) # p
      BY <3>1, <2>4, <1>1, <1>5, <1>6, <1>7
    <3>3. l.next[Out(s, o, k - 1)] = In(s, o, k) /\ l.prev[In(s, o, k)] = Out(s, o, k - 1)
      BY <3>1 DEF Ring
    <3>4. Out(s, o, k - 1) \in Nodes /\ In(s, o, k) \in Nodes
      BY <3>1, <1>1
    <3> QED
      BY <3>2, <3>3, <3>4, <1>2
  <2> QED
    BY <2>1, <2>2, <2>3, <2>4, <1>1, <1>3
<1>10. Ring(m, t, o)
  BY <1>9 DEF Ring
<1>11. Touches(l, m, f, Q, {o})
  <2>1. a = HeadOf(o) \/ \E q \in Q : a = BlockEnd(q, f[q])
    <3>1. CASE j = 0
      BY <3>1 DEF Out
    <3>2. CASE j # 0
      <4>1. j \in 1..Len(s) /\ a = BlockEnd(s[j], o) /\ f[s[j]] = o
        BY <3>2, <1>1 DEF Out, Placed
      <4> QED
        BY <4>1 DEF Blocks
    <3> QED
      BY <3>1, <3>2
  <2>2. b = HeadOf(o) \/ b \in Q
    <3>1. j + 1 = Len(s) + 1 \/ j + 1 \in 1..Len(s)
      BY <1>1
    <3> QED
      BY <3>1 DEF In, Blocks
  <2>3. \E q \in Q : e = BlockEnd(q, f[q])
    BY DEF e
  <2>4. p \in Q
    OBVIOUS
  <2> HIDE DEF a, b, Q
  <2> QED
    BY <2>1, <2>2, <2>3, <2>4, <1>2 DEF Touches
<1> QED
  BY <1>10, <1>11 DEF t

-----------------------------------------------------------------------------
(* What FirstPages finds in a ring. *)

\* A list of blocks is not longer than there are pages.
LEMMA ListFits ==
  ASSUME NEW f, NEW o \in Orders, NEW s, Placed(f, s, o)
  PROVE  Len(s) \in Nat /\ Len(s) <= NPages
<1>1. Len(s) \in Nat /\ \A k \in 1..Len(s) : s[k] \in Pages
  BY DEF Placed
<1>2. IsFiniteSet(1..Len(s)) /\ Cardinality(1..Len(s)) = Len(s)
  BY <1>1, FS_Interval
<1>3. IsFiniteSet(Pages) /\ Cardinality(Pages) = NPages
  BY FS_Interval, Sizes DEF Pages
<1> DEFINE g == [k \in 1..Len(s) |-> s[k]]
<1>4. g \in Injection(1..Len(s), Pages)
  BY <1>1 DEF Placed, Injection, IsInjective
<1> HIDE DEF g
<1>6. Cardinality(1..Len(s)) <= Cardinality(Pages)
  BY <1>3, <1>4, FS_Injection
<1> QED
  BY <1>1, <1>2, <1>3, <1>6

\* FirstPages, of any links.
FirstOf(l, o) ==
  LET hop[k \in 1..(NPages + 1)] ==
        IF k = 1 THEN l.next[HeadOf(o)]
        ELSE IF hop[k - 1] \in Pages /\ BlockEnd(hop[k - 1], o) \in Pages
        THEN l.next[BlockEnd(hop[k - 1], o)]
        ELSE HeadOf(o)
      n == Cardinality({k \in 1..(NPages + 1) : hop[k] \in Pages})
  IN  [k \in 1..n |-> hop[k]]

LEMMA FirstOfRing ==
  ASSUME NEW f, Tiled(f), NEW o \in Orders, NEW s, Placed(f, s, o), NEW l, Ring(l, s, o)
  PROVE  FirstOf(l, o) = s
<1> DEFINE h == HeadOf(o)
           body(w) == [k \in 1..(NPages + 1) |->
                         IF k = 1 THEN l.next[HeadOf(o)]
                         ELSE IF w[k - 1] \in Pages /\ BlockEnd(w[k - 1], o) \in Pages
                         THEN l.next[BlockEnd(w[k - 1], o)]
                         ELSE HeadOf(o)]
           hop == CHOOSE w : w = body(w)
           v == [k \in 1..(NPages + 1) |-> IF k <= Len(s) THEN s[k] ELSE HeadOf(o)]
           n == Cardinality({k \in 1..(NPages + 1) : hop[k] \in Pages})
<1>1. /\ Len(s) \in Nat /\ Len(s) <= NPages /\ NPages \in Nat /\ h \notin Pages
      /\ \A k \in 1..Len(s) : s[k] \in Pages /\ BlockEnd(s[k], o) \in Pages
      /\ s \in [1..Len(s) -> Pages]
  BY RingNodes, ListFits, Sizes DEF Placed
<1>2. l.next[h] = IF Len(s) = 0 THEN h ELSE s[1]
  <2>1. 0 \in 0..Len(s) /\ 0 + 1 = 1 /\ Out(s, o, 0) = h
    BY <1>1 DEF Out
  <2>2. l.next[h] = In(s, o, 1)
    BY <2>1 DEF Ring
  <2> QED
    BY <2>2, <1>1 DEF In
<1>3. \A k \in 1..Len(s) : l.next[BlockEnd(s[k], o)] = IF k = Len(s) THEN h ELSE s[k + 1]
  <2> SUFFICES ASSUME NEW k \in 1..Len(s)
               PROVE  l.next[BlockEnd(s[k], o)] = IF k = Len(s) THEN h ELSE s[k + 1]
    OBVIOUS
  <2>1. k \in 0..Len(s) /\ Out(s, o, k) = BlockEnd(s[k], o)
    BY <1>1 DEF Out
  <2>2. l.next[BlockEnd(s[k], o)] = In(s, o, k + 1)
    BY <2>1 DEF Ring
  <2> QED
    BY <2>2, <1>1 DEF In
<1>4. v = body(v)
  <2> SUFFICES ASSUME NEW k \in 1..(NPages + 1) PROVE v[k] = body(v)[k]
    OBVIOUS
  <2>1. CASE k = 1
    <3>1. v[k] = IF Len(s) = 0 THEN h ELSE s[1]
      BY <2>1, <1>1
    <3> QED
      BY <3>1, <2>1, <1>2
  <2>2. CASE k # 1 /\ k - 1 <= Len(s)
    <3>1. k - 1 \in 1..Len(s) /\ k - 1 \in 1..(NPages + 1) /\ (k - 1) + 1 = k
      BY <2>2, <1>1
    <3>2. v[k - 1] = s[k - 1] /\ s[k - 1] \in Pages /\ BlockEnd(s[k - 1], o) \in Pages
      BY <3>1, <2>2, <1>1
    <3>3. body(v)[k] = l.next[BlockEnd(s[k - 1], o)]
      BY <3>2, <2>2
    <3>4. v[k] = IF k - 1 = Len(s) THEN h ELSE s[(k - 1) + 1]
      BY <3>1, <2>2, <1>1
    <3> QED
      BY <3>1, <3>3, <3>4, <1>3
  <2>3. CASE k # 1 /\ ~(k - 1 <= Len(s))
    <3>1. k - 1 \in 1..(NPages + 1) /\ ~(k <= Len(s))
      BY <2>3, <1>1
    <3>2. v[k - 1] = h /\ v[k] = h
      BY <3>1, <2>3
    <3> QED
      BY <3>2, <2>3, <1>1
  <2> QED
    BY <2>1, <2>2, <2>3
<1>5. hop = body(hop)
  <2> HIDE DEF body, v
  <2> QED
    BY <1>4
<1> HIDE DEF hop
<1>6. StepsAlike(NPages + 1, v, hop)
  <2> SUFFICES ASSUME NEW k \in 1..(NPages + 1), k = 1 \/ v[k - 1] = hop[k - 1]
               PROVE  v[k] = hop[k]
    BY DEF StepsAlike
  <2>1. v[k] = body(v)[k] /\ hop[k] = body(hop)[k]
    BY <1>4, <1>5
  <2> HIDE DEF v
  <2> QED
    BY <2>1
<1>7. \A k \in 1..(NPages + 1) : v[k] = hop[k]
  <2>1. NPages + 1 \in Nat
    BY <1>1
  <2> HIDE DEF body, v
  <2> QED
    BY <2>1, <1>6, SameWalk
<1>8. {k \in 1..(NPages + 1) : hop[k] \in Pages} = 1..Len(s)
  BY <1>1, <1>7
<1>9. n = Len(s)
  <2>1. Cardinality(1..Len(s)) = Len(s)
    BY <1>1, FS_Interval
  <2> QED
    BY <2>1, <1>8
<1>10. [k \in 1..n |-> hop[k]] = s
  <2>1. \A k \in 1..Len(s) : hop[k] = s[k]
    BY <1>1, <1>7
  <2> HIDE DEF n
  <2> QED
    BY <2>1, <1>1, <1>9
<1> QED
  BY <1>10 DEF FirstOf, hop, n

-----------------------------------------------------------------------------
(* The inductive invariant. *)

\* The order of the block that starts at page p, -1 if none does, as in BuddyProof.
BlockOrder ==
  [p \in Pages |-> IF pc # "idle" /\ p = cur THEN ord ELSE order[p]]

\* The block that was handed out last, while its caller holds it.
AnswerHeld == ret \in [asked : Orders, page : Pages] => held[ret.page] = ret.asked

Rings == \A o \in Orders : Ring(links, xFree[o], o)

LInv ==
  /\ P!IInv
  /\ LinkTypes(links)
  /\ order \in [Pages -> Orders \cup {-1}]
  /\ busy \in [Pages -> BOOLEAN]
  /\ Rings
  /\ Inner(links, BlockOrder)
  /\ AnswerHeld

\* The blocks in list o: neither held nor in hand.
Queued(p, o) == order[p] = o /\ ~busy[p] /\ ~(pc # "idle" /\ p = cur)

\* What P!IInv says, in the words of BuddyLinks.
LEMMA Known ==
  ASSUME P!IInv, order \in [Pages -> Orders \cup {-1}], busy \in [Pages -> BOOLEAN]
  PROVE  /\ P!Tiling(BlockOrder) /\ Tiled(BlockOrder)
         /\ \A o \in Orders : Placed(BlockOrder, xFree[o], o)
         /\ \A o \in Orders : \A k \in 1..Len(xFree[o]) : Queued(xFree[o][k], o)
         /\ \A o \in Orders, p \in Pages :
              Queued(p, o) => \E k \in 1..Len(xFree[o]) : xFree[o][k] = p
         /\ dirty \subseteq Pages /\ held \in [Pages -> Orders \cup {NotHeld}] /\ ret \in Answers
         /\ pc \in {"idle", "split", "merge"} /\ cur \in Pages /\ ord \in Orders /\ want \in Orders
         /\ \A p \in Pages : held[p] # NotHeld => busy[p] /\ order[p] = held[p]
         /\ pc # "idle" => ~busy[cur]
         /\ pc = "split" => want <= ord
         /\ pc = "merge" => order[cur] = ord
<1>1. Pages \subseteq Descs
  <2>1. MaxOrder \in Orders
    BY Sizes DEF Orders
  <2>2. Size[MaxOrder] \in Nat
    BY <2>1, Sizes
  <2> QED
    BY <2>2, Sizes DEF Pages, Descs
<1>2. \A p \in Pages : xOrder[p] = order[p] /\ xBusy[p] = busy[p]
  BY <1>1 DEF xOrder, xBusy
<1>3. P!TypeOK /\ P!Tiling(P!BlockOrder) /\ P!ListsInv /\ P!HeldInv /\ P!InHandInv
  BY DEF P!IInv
<1>4. P!BlockOrder = BlockOrder
  BY <1>2, SameHeap DEF P!BlockOrder, BlockOrder
<1>5. /\ BlockOrder \in [Pages -> Orders \cup {-1}]
      /\ \A p \in Pages : BlockOrder[p] # -1 => p + Size[BlockOrder[p]] <= NPages
      /\ \A p, q \in Pages : BlockOrder[p] # -1 /\ BlockOrder[q] # -1 /\ p < q
                               => p + Size[BlockOrder[p]] <= q
  BY <1>3, <1>4, SameHeap DEF P!Tiling
<1>6. /\ xFree \in [Orders -> Seq(Pages)]
      /\ dirty \subseteq Pages /\ held \in [Pages -> Orders \cup {NotHeld}]
      /\ pc \in {"idle", "split", "merge"} /\ cur \in Pages /\ ord \in Orders /\ want \in Orders
  BY <1>3, SameHeap DEF P!TypeOK
<1>7. ret \in Answers
  BY <1>3, SameHeap DEF P!TypeOK, P!Answers, Answers
<1>8. \A o \in Orders : P!Distinct(xFree[o]) /\ P!Members(xFree[o]) = P!FreeHeads(o)
  BY <1>3, SameHeap DEF P!ListsInv
<1>9. \A o \in Orders : P!FreeHeads(o) = {p \in Pages : Queued(p, o)}
  BY <1>2, SameHeap DEF P!FreeHeads, Queued
<1>10. \A o \in Orders : \A k \in 1..Len(xFree[o]) :
         xFree[o][k] \in Pages /\ Queued(xFree[o][k], o)
  BY <1>8, <1>9 DEF P!Members
<1>11. \A o \in Orders, p \in Pages :
         Queued(p, o) => \E k \in 1..Len(xFree[o]) : xFree[o][k] = p
  BY <1>8, <1>9 DEF P!Members
<1>12. \A o \in Orders : \A i, j \in 1..Len(xFree[o]) : xFree[o][i] = xFree[o][j] => i = j
  BY <1>8 DEF P!Distinct
<1>13. \A o \in Orders : \A k \in 1..Len(xFree[o]) : BlockOrder[xFree[o][k]] = o
  BY <1>10 DEF BlockOrder, Queued
<1>14. \A o \in Orders : Placed(BlockOrder, xFree[o], o)
  BY <1>6, <1>12, <1>13 DEF Placed
<1>15. \A p \in Pages : held[p] # NotHeld => busy[p] /\ order[p] = held[p]
  BY <1>2, <1>3, SameHeap DEF P!HeldInv
<1>16. /\ pc # "idle" => ~busy[cur]
       /\ pc = "split" => want <= ord
       /\ pc = "merge" => order[cur] = ord
  BY <1>2, <1>3, <1>6 DEF P!InHandInv
<1> QED
  BY <1>3, <1>4, <1>5, <1>6, <1>7, <1>10, <1>11, <1>14, <1>15, <1>16 DEF Tiled

\* The lists are known from the rings.
LEMMA ListsFromRings ==
  ASSUME NEW f, Tiled(f), NEW t, DOMAIN t = Orders, t = [o \in Orders |-> t[o]],
         \A o \in Orders : Placed(f, t[o], o) /\ Ring(links', t[o], o)
  PROVE  xFree' = t
<1>1. \A o \in Orders : FirstPages(o)' = FirstOf(links', o)
  BY DEF FirstPages, FirstOf
<1>2. \A o \in Orders : FirstOf(links', o) = t[o]
  BY FirstOfRing
<1>3. xFree' = [o \in Orders |-> FirstPages(o)']
  BY DEF xFree
<1> QED
  BY <1>1, <1>2, <1>3

-----------------------------------------------------------------------------
(* Every action is one of Buddy's, and the links follow. *)

\* What the invariant says of the links, after a step.
LinksInv ==
  /\ LinkTypes(links)
  /\ order \in [Pages -> Orders \cup {-1}]
  /\ busy \in [Pages -> BOOLEAN]
  /\ Rings
  /\ Inner(links, BlockOrder)
  /\ AnswerHeld

\* The steps that leave the links alone.
LEMMA LinksStay ==
  ASSUME links' = links
  PROVE  xFree' = xFree /\ (Rings => Rings') /\ (LinkTypes(links) => LinkTypes(links)')
<1>1. \A o \in Orders : FirstPages(o)' = FirstPages(o)
  BY DEF FirstPages
<1>2. xFree' = xFree
  BY <1>1 DEF xFree
<1>3. Rings => Rings'
  BY <1>2 DEF Rings, Ring
<1> QED
  BY <1>2, <1>3 DEF LinkTypes

LEMMA FieldsStay ==
  /\ order' = order => xOrder' = xOrder
  /\ busy' = busy => xBusy' = xBusy
BY DEF xOrder, xBusy

\* A field written is the same field written in Buddy.
LEMMA FieldsWritten ==
  /\ Pages \subseteq Descs
  /\ \A p \in Pages : xOrder[p] = order[p] /\ xBusy[p] = busy[p]
  /\ \A p \in Pages : \A b :
       busy' = [busy EXCEPT ![p] = b] /\ busy \in [Pages -> BOOLEAN]
         => xBusy' = [xBusy EXCEPT ![p] = b]
  /\ \A p \in Pages : \A a :
       order' = [order EXCEPT ![p] = a] /\ DOMAIN order = Pages
         => xOrder' = [xOrder EXCEPT ![p] = a]
  /\ \A p, q \in Pages : \A a, b :
       order' = [order EXCEPT ![p] = a, ![q] = b] /\ DOMAIN order = Pages
         => xOrder' = [xOrder EXCEPT ![p] = a, ![q] = b]
<1>1. MaxOrder \in Orders
  BY Sizes DEF Orders
<1>2. Size[MaxOrder] \in Nat
  BY <1>1, Sizes
<1>3. Pages \subseteq Descs
  BY <1>2, Sizes DEF Pages, Descs
<1> QED
  BY <1>3 DEF xOrder, xBusy

LEMMA EmptyRing ==
  ASSUME LInv, NEW o \in Orders
  PROVE  Empty(o) <=> xFree[o] = <<>>
<1> DEFINE s == xFree[o]
<1>1. Placed(BlockOrder, s, o) /\ Tiled(BlockOrder) /\ Ring(links, s, o)
  BY Known DEF LInv, Rings
<1> HIDE DEF s
<1>2. s \in Seq(Pages) /\ Len(s) \in Nat /\ \A k \in 1..Len(s) : s[k] \in Pages
  BY <1>1 DEF Placed
<1>3. links.next[HeadOf(o)] = In(s, o, 1)
  <2>1. 0 \in 0..Len(s) /\ 0 + 1 = 1 /\ Out(s, o, 0) = HeadOf(o)
    BY <1>2 DEF Out
  <2> QED
    BY <2>1, <1>1 DEF Ring
<1>4. HeadOf(o) \notin Pages
  BY Sizes DEF HeadOf, Pages, Orders
<1>5. CASE Len(s) = 0
  BY <1>2, <1>3, <1>5 DEF In, Empty, s
<1>6. CASE Len(s) # 0
  <2>1. links.next[HeadOf(o)] \in Pages /\ s # <<>>
    BY <1>2, <1>3, <1>6 DEF In
  <2> QED
    BY <2>1, <1>4 DEF Empty, s
<1> QED
  BY <1>5, <1>6

LEMMA GetFailStep ==
  ASSUME LInv, NEW o \in Orders, GetFail(o)
  PROVE  P!GetFail(o) /\ LinksInv'
<1>1. /\ pc = "idle" /\ ret' = [asked |-> o, page |-> NULL]
      /\ UNCHANGED <<links, order, busy, dirty, held, pc, cur, ord, want>>
      /\ \A n \in o..MaxOrder : Empty(n)
  BY DEF GetFail
<1>2. \A n \in o..MaxOrder : n \in Orders
  BY Sizes DEF Orders
<1>3. xFree' = xFree /\ Rings' /\ LinkTypes(links)' /\ xOrder' = xOrder /\ xBusy' = xBusy
  BY <1>1, LinksStay, FieldsStay DEF LInv
<1>4. \A n \in o..MaxOrder : xFree[n] = <<>>
  BY <1>1, <1>2, EmptyRing
<1>5. P!GetFail(o)
  BY <1>1, <1>3, <1>4 DEF P!GetFail
<1>6. BlockOrder' = BlockOrder
  BY <1>1 DEF BlockOrder
<1>7. AnswerHeld'
  BY <1>1, GeometryAssumption DEF AnswerHeld, Pages
<1>8. Inner(links, BlockOrder)'
  BY <1>1, <1>6 DEF LInv, Inner
<1> QED
  BY <1>1, <1>3, <1>5, <1>7, <1>8 DEF LinksInv, LInv

LEMMA PutStartStep ==
  ASSUME LInv, NEW p \in Pages, PutStart(p)
  PROVE  P!PutStart(p) /\ LinksInv'
<1>1. /\ pc = "idle" /\ held[p] # NotHeld /\ busy[p]
      /\ dirty' = dirty \ Block(p, held[p])
      /\ busy' = [busy EXCEPT ![p] = FALSE]
      /\ held' = [held EXCEPT ![p] = NotHeld]
      /\ cur' = p /\ ord' = held[p] /\ pc' = "merge" /\ ret' = NULL
      /\ UNCHANGED <<links, order, want>>
  BY DEF PutStart
<1>2. xFree' = xFree /\ Rings' /\ LinkTypes(links)' /\ xOrder' = xOrder
  BY <1>1, LinksStay, FieldsStay DEF LInv
<1>3. held \in [Pages -> Orders \cup {NotHeld}] /\ order[p] = held[p]
  BY <1>1, Known DEF LInv
<1>4. xBusy[p] = busy[p] /\ xBusy' = [xBusy EXCEPT ![p] = FALSE]
  BY <1>1, FieldsWritten DEF LInv
<1>5. P!NotHeld = NotHeld /\ P!Block(p, held[p]) = Block(p, held[p])
  BY <1>1, <1>3, SameHeap
<1>6. P!PutStart(p)
  BY <1>1, <1>2, <1>4, <1>5 DEF P!PutStart
<1>7. BlockOrder' = BlockOrder
  BY <1>1, <1>3 DEF BlockOrder
<1>8. AnswerHeld'
  <2>1. NULL \notin [asked : Orders, page : Pages]
    BY GeometryAssumption DEF Orders, Pages
  <2> QED
    BY <2>1, <1>1 DEF AnswerHeld
<1>9. Inner(links, BlockOrder)'
  BY <1>1, <1>7 DEF LInv, Inner
<1>10. (busy \in [Pages -> BOOLEAN])'
  BY <1>1 DEF LInv
<1> QED
  BY <1>1, <1>2, <1>6, <1>8, <1>9, <1>10 DEF LinksInv, LInv

LEMMA PutRefusedStep ==
  ASSUME LInv, NEW p \in Pages, NEW o \in Orders, PutRefused(p, o)
  PROVE  P!PutRefused(p, o) /\ LinksInv'
<1>1. /\ pc = "idle" /\ ~busy[p] /\ Block(p, o) \subseteq Pages
      /\ dirty' = dirty \ Block(p, o)
      /\ UNCHANGED <<links, order, busy, held, ret, pc, cur, ord, want>>
  BY DEF PutRefused
<1>2. xFree' = xFree /\ Rings' /\ LinkTypes(links)' /\ xOrder' = xOrder /\ xBusy' = xBusy
  BY <1>1, LinksStay, FieldsStay DEF LInv
<1>3. xBusy[p] = busy[p]
  BY FieldsWritten
<1>4. P!PutRefused(p, o)
  BY <1>1, <1>2, <1>3, SameHeap DEF P!PutRefused
<1>5. BlockOrder' = BlockOrder
  BY <1>1 DEF BlockOrder
<1>6. Inner(links, BlockOrder)' /\ AnswerHeld'
  BY <1>1, <1>5 DEF LInv, Inner, AnswerHeld
<1> QED
  BY <1>1, <1>2, <1>4, <1>6 DEF LinksInv, LInv

LEMMA GetDoneStep ==
  ASSUME LInv, GetDone
  PROVE  P!GetDone /\ LinksInv'
<1>1. /\ pc = "split" /\ ord = want
      /\ busy' = [busy EXCEPT ![cur] = TRUE]
      /\ order' = [order EXCEPT ![cur] = want]
      /\ dirty' = dirty \cup Block(cur, want)
      /\ held' = [held EXCEPT ![cur] = want]
      /\ ret' = [asked |-> want, page |-> cur]
      /\ pc' = "idle"
      /\ UNCHANGED <<links, cur, ord, want>>
  BY DEF GetDone
<1>2. /\ cur \in Pages /\ want \in Orders
      /\ held \in [Pages -> Orders \cup {NotHeld}]
      /\ order \in [Pages -> Orders \cup {-1}] /\ busy \in [Pages -> BOOLEAN]
  BY Known DEF LInv
<1>3. xFree' = xFree /\ Rings' /\ LinkTypes(links)'
  BY <1>1, LinksStay DEF LInv
<1>4. xBusy' = [xBusy EXCEPT ![cur] = TRUE]
  BY <1>1, <1>2, FieldsWritten
<1>5. xOrder' = [xOrder EXCEPT ![cur] = want]
  <2>1. DOMAIN order = Pages
    BY <1>2
  <2> QED
    BY <2>1, <1>1, <1>2, FieldsWritten
<1>6. P!GetDone
  BY <1>1, <1>2, <1>3, <1>4, <1>5, SameHeap DEF P!GetDone
<1>7. BlockOrder' = BlockOrder
  BY <1>1, <1>2 DEF BlockOrder
<1>8. Inner(links, BlockOrder)'
  BY <1>1, <1>7 DEF LInv, Inner
<1>9. AnswerHeld'
  BY <1>1, <1>2 DEF AnswerHeld
<1>10. (order \in [Pages -> Orders \cup {-1}] /\ busy \in [Pages -> BOOLEAN])'
  BY <1>1, <1>2
<1> QED
  BY <1>3, <1>6, <1>8, <1>9, <1>10 DEF LinksInv

\* What the object caches write is behind blocks that are held: no ring is touched.
LEMMA ChainStep ==
  ASSUME LInv, NEW q \in Pages, Chain(q)
  PROVE  UNCHANGED P!vars /\ LinksInv'
<1> DEFINE f == BlockOrder
           r == ret.page
           a == BlockEnd(q, held[q])
           b == BlockEnd(r, ret.asked)
<1>1. /\ pc = "idle" /\ ret \in [asked : Orders, page : Pages] /\ held[q] # NotHeld
      /\ links' = [links EXCEPT !.next[a] = r, !.next[b] = NULL]
      /\ UNCHANGED <<order, busy, dirty, held, ret, pc, cur, ord, want>>
  BY DEF Chain
<1>2. /\ Tiled(f) /\ \A o \in Orders : Placed(f, xFree[o], o)
      /\ \A o \in Orders : \A k \in 1..Len(xFree[o]) : Queued(xFree[o][k], o)
      /\ \A p \in Pages : held[p] # NotHeld => busy[p] /\ order[p] = held[p]
      /\ held \in [Pages -> Orders \cup {NotHeld}]
  BY Known DEF LInv
<1>3. r \in Pages /\ held[r] = ret.asked /\ held[r] \in Orders /\ held[r] # NotHeld
  BY <1>1, Sizes DEF LInv, AnswerHeld, NotHeld, Orders
<1>4. /\ f[q] = held[q] /\ f[r] = held[r] /\ busy[q] /\ busy[r]
      /\ f[q] # -1 /\ f[r] # -1
  BY <1>1, <1>2, <1>3 DEF BlockOrder, NotHeld
<1>5. a \in Pages /\ b \in Pages /\ a = BlockEnd(q, f[q]) /\ b = BlockEnd(r, f[r])
  BY <1>2, <1>3, <1>4, EndFacts
<1>6. Pages \subseteq Nodes
  BY Sizes DEF Pages, Nodes
<1>7. /\ \A n \in Nodes : n # a /\ n # b => links'.next[n] = links.next[n]
      /\ links'.prev = links.prev
      /\ LinkTypes(links)'
  <2>1. LinkTypes(links) /\ a \in Nodes /\ b \in Nodes /\ r \in Nodes
    BY <1>3, <1>5, <1>6 DEF LInv
  <2> HIDE DEF a, b, r
  <2> QED
    BY <2>1, <1>1 DEF LinkTypes
<1>8. Touches(links, links', f, {q, r}, {})
  <2>1. \E p \in {q, r} : a = BlockEnd(p, f[p])
    BY <1>5
  <2>2. \E p \in {q, r} : b = BlockEnd(p, f[p])
    BY <1>5
  <2> HIDE DEF a, b, r, f
  <2> QED
    BY <2>1, <2>2, <1>7 DEF Touches
<1>9. {q, r} \in SUBSET Pages /\ \A p \in {q, r} : f[p] # -1
  BY <1>3, <1>4
<1>10. ASSUME NEW o \in Orders PROVE Ring(links', xFree[o], o)
  <2>1. \A k \in 1..Len(xFree[o]) : xFree[o][k] \notin {q, r}
    BY <1>2, <1>4 DEF Queued
  <2>2. Ring(links, xFree[o], o) /\ {} \in SUBSET Orders /\ o \notin {}
    BY DEF LInv, Rings
  <2> HIDE DEF f, r
  <2> QED
    BY <2>1, <2>2, <1>2, <1>8, <1>9, RingStays
<1>11. xFree' = xFree
  <2>1. xFree = [o \in Orders |-> xFree[o]] /\ DOMAIN xFree = Orders
    BY DEF xFree
  <2> HIDE DEF f
  <2> QED
    BY <2>1, <1>2, <1>10, ListsFromRings
<1>12. Rings'
  BY <1>10, <1>11 DEF Rings
<1>13. xOrder' = xOrder /\ xBusy' = xBusy
  BY <1>1, FieldsStay
<1>14. UNCHANGED P!vars
  BY <1>1, <1>11, <1>13 DEF P!vars
<1>15. Inner(links', f)
  <2>1. Inner(links, f) /\ {} \in SUBSET Orders
    BY DEF LInv
  <2> HIDE DEF f, r
  <2> QED
    BY <2>1, <1>2, <1>8, <1>9, InnerStays
<1>16. BlockOrder' = BlockOrder
  BY <1>1 DEF BlockOrder
<1>17. Inner(links, BlockOrder)' /\ AnswerHeld'
  BY <1>1, <1>15, <1>16 DEF LInv, Inner, AnswerHeld
<1> QED
  BY <1>1, <1>7, <1>12, <1>14, <1>17 DEF LinksInv, LInv

-----------------------------------------------------------------------------
(* The steps that change a list. *)

\* All lists in all rings, and the links inside the blocks.
Whole(l, f, t) ==
  /\ LinkTypes(l) /\ Inner(l, f)
  /\ \A o \in Orders : Placed(f, t[o], o) /\ Ring(l, t[o], o)

LEMMA CutFacts ==
  ASSUME NEW f, NEW o \in Orders, NEW s, Placed(f, s, o), NEW j \in 1..Len(s)
  PROVE  Placed(f, CutOut(s, j), o) /\ \A k \in 1..Len(CutOut(s, j)) : CutOut(s, j)[k] # s[j]
<1> DEFINE t == CutOut(s, j)
<1>1. Len(s) \in Nat /\ \A k \in 1..Len(s) : s[k] \in Pages /\ f[s[k]] = o
  BY DEF Placed
<1>2. /\ Len(t) = Len(s) - 1 /\ Len(s) - 1 \in Nat
      /\ \A i \in 1..(Len(s) - 1) : t[i] = IF i < j THEN s[i] ELSE s[i + 1]
  BY <1>1 DEF CutOut
<1>3. \A i \in 1..(Len(s) - 1) : i \in 1..Len(s) /\ i + 1 \in 1..Len(s)
  BY <1>1
<1>4. t \in Seq(Pages)
  BY <1>1, <1>2, <1>3 DEF CutOut
<1> HIDE DEF t
<1>5. \A i, k \in 1..Len(t) : t[i] = t[k] => i = k
  <2> SUFFICES ASSUME NEW i \in 1..Len(t), NEW k \in 1..Len(t), t[i] = t[k]
               PROVE  i = k
    OBVIOUS
  <2>1. \A x, y \in 1..Len(s) : s[x] = s[y] => x = y
    BY DEF Placed
  <2> QED
    BY <2>1, <1>1, <1>2, <1>3
<1>6. \A i \in 1..Len(t) : f[t[i]] = o
  BY <1>1, <1>2, <1>3
<1>7. \A i \in 1..Len(t) : t[i] # s[j]
  BY <1>1, <1>2, <1>3 DEF Placed
<1> QED
  BY <1>4, <1>5, <1>6, <1>7 DEF Placed, t

LEMMA PutFacts ==
  ASSUME NEW f, NEW o \in Orders, NEW s, Placed(f, s, o), NEW j \in 0..Len(s),
         NEW p \in Pages, f[p] = o, \A k \in 1..Len(s) : s[k] # p
  PROVE  Placed(f, PutIn(s, j, p), o)
<1> DEFINE t == PutIn(s, j, p)
<1>1. Len(s) \in Nat /\ \A k \in 1..Len(s) : s[k] \in Pages /\ f[s[k]] = o
  BY DEF Placed
<1>2. /\ Len(t) = Len(s) + 1
      /\ \A i \in 1..(Len(s) + 1) :
           t[i] = IF i <= j THEN s[i] ELSE IF i = j + 1 THEN p ELSE s[i - 1]
  BY <1>1 DEF PutIn
<1>3. \A i \in 1..(Len(s) + 1) :
        /\ i <= j => i \in 1..Len(s)
        /\ i > j + 1 => i - 1 \in 1..Len(s)
        /\ i <= j \/ i = j + 1 \/ i > j + 1
  BY <1>1
<1>4. \A i \in 1..(Len(s) + 1) : t[i] \in Pages /\ f[t[i]] = o
  BY <1>1, <1>2, <1>3
<1>5. t \in Seq(Pages)
  BY <1>1, <1>2, <1>4 DEF PutIn
<1> HIDE DEF t
<1>6. \A i, k \in 1..Len(t) : t[i] = t[k] => i = k
  <2> SUFFICES ASSUME NEW i \in 1..(Len(s) + 1), NEW k \in 1..(Len(s) + 1), t[i] = t[k]
               PROVE  i = k
    BY <1>2
  <2>1. \A x, y \in 1..Len(s) : s[x] = s[y] => x = y
    BY DEF Placed
  <2>2. i = j + 1 <=> k = j + 1
    BY <1>2, <1>3
  <2>3. CASE i = j + 1
    BY <2>2, <2>3
  <2>4. CASE i <= j /\ k <= j
    BY <2>1, <2>4, <1>1, <1>2, <1>3
  <2>5. CASE i <= j /\ k > j + 1
    BY <2>1, <2>5, <1>1, <1>2, <1>3
  <2>6. CASE i > j + 1 /\ k <= j
    BY <2>1, <2>6, <1>1, <1>2, <1>3
  <2>7. CASE i > j + 1 /\ k > j + 1
    BY <2>1, <2>7, <1>1, <1>2, <1>3
  <2> QED
    BY <2>2, <2>3, <2>4, <2>5, <2>6, <2>7, <1>3
<1> QED
  BY <1>2, <1>4, <1>5, <1>6 DEF Placed, t

\* The blocks of another list are not in this one.
LEMMA ListsApart ==
  ASSUME NEW f, NEW t, NEW l, Whole(l, f, t), NEW n \in Orders, NEW o \in Orders, o # n,
         NEW p, f[p] = n
  PROVE  \A k \in 1..Len(t[o]) : t[o][k] # p
BY DEF Whole, Placed

LEMMA CutList ==
  ASSUME NEW f, Tiled(f), NEW t, DOMAIN t = Orders, NEW l, Whole(l, f, t),
         NEW n \in Orders, NEW j \in 1..Len(t[n])
  PROVE  Whole(RemoveChain(l, t[n][j], BlockEnd(t[n][j], n)), f,
               [t EXCEPT ![n] = CutOut(t[n], j)])
<1> DEFINE m == RemoveChain(l, t[n][j], BlockEnd(t[n][j], n))
           u == [t EXCEPT ![n] = CutOut(t[n], j)]
           Q == Blocks(t[n])
<1>1. Placed(f, t[n], n) /\ Ring(l, t[n], n) /\ LinkTypes(l) /\ Inner(l, f)
  BY DEF Whole
<1>2. Ring(m, CutOut(t[n], j), n) /\ LinkTypes(m) /\ Touches(l, m, f, Q, {n})
  BY <1>1, RingRemove
<1>3. Q \in SUBSET Pages /\ \A q \in Q : f[q] = n /\ f[q] # -1
  BY <1>1, Sizes DEF Placed, Orders, Blocks
<1>4. {n} \in SUBSET Orders
  OBVIOUS
<1>5. u[n] = CutOut(t[n], j) /\ \A o \in Orders : o # n => u[o] = t[o]
  OBVIOUS
<1> HIDE DEF m, u, Q
<1>6. Inner(m, f)
  BY <1>1, <1>2, <1>3, <1>4, InnerStays
<1>7. ASSUME NEW o \in Orders PROVE Placed(f, u[o], o) /\ Ring(m, u[o], o)
  <2>1. CASE o = n
    BY <2>1, <1>1, <1>2, <1>5, CutFacts
  <2>2. CASE o # n
    <3>1. Placed(f, t[o], o) /\ Ring(l, t[o], o)
      BY DEF Whole
    <3>2. \A k \in 1..Len(t[o]) : t[o][k] \notin Q
      BY <2>2, <3>1, <1>3 DEF Placed
    <3>3. Ring(m, t[o], o)
      BY <3>1, <3>2, <2>2, <1>2, <1>3, <1>4, RingStays
    <3> QED
      BY <3>1, <3>3, <2>2, <1>5
  <2> QED
    BY <2>1, <2>2
<1>8. Whole(m, f, u)
  BY <1>2, <1>6, <1>7 DEF Whole
<1> QED
  BY <1>8 DEF m, u

LEMMA PutList ==
  ASSUME NEW f, Tiled(f), NEW t, DOMAIN t = Orders, NEW l, Whole(l, f, t),
         NEW n \in Orders, NEW j \in 0..Len(t[n]),
         NEW p \in Pages, f[p] = n, \A k \in 1..Len(t[n]) : t[n][k] # p,
         NEW m, LinkTypes(m),
         Hung(l, m, Out(t[n], n, j), In(t[n], n, j + 1), p, BlockEnd(p, n))
  PROVE  Whole(m, f, [t EXCEPT ![n] = PutIn(t[n], j, p)])
<1> DEFINE u == [t EXCEPT ![n] = PutIn(t[n], j, p)]
           Q == Blocks(t[n]) \cup {p}
<1>1. Placed(f, t[n], n) /\ Ring(l, t[n], n) /\ Inner(l, f)
  BY DEF Whole
<1>2. Ring(m, PutIn(t[n], j, p), n) /\ Touches(l, m, f, Q, {n})
  <2> DEFINE s == t[n]
  <2>1. /\ Placed(f, s, n) /\ Ring(l, s, n) /\ j \in 0..Len(s)
        /\ \A k \in 1..Len(s) : s[k] # p
        /\ Hung(l, m, Out(s, n, j), In(s, n, j + 1), p, BlockEnd(p, n))
    BY <1>1
  <2> HIDE DEF s
  <2>2. Ring(m, PutIn(s, j, p), n) /\ Touches(l, m, f, Blocks(s) \cup {p}, {n})
    BY <2>1, RingInsert
  <2> QED
    BY <2>2 DEF s
<1>3. Q \in SUBSET Pages /\ \A q \in Q : f[q] = n /\ f[q] # -1
  <2>1. \A q \in Blocks(t[n]) : q \in Pages /\ f[q] = n
    BY <1>1 DEF Placed, Blocks
  <2>2. n # -1
    BY Sizes DEF Orders
  <2> QED
    BY <2>1, <2>2
<1>4. {n} \in SUBSET Orders
  OBVIOUS
<1>5. u[n] = PutIn(t[n], j, p) /\ \A o \in Orders : o # n => u[o] = t[o]
  OBVIOUS
<1> HIDE DEF u, Q
<1>6. Inner(m, f)
  BY <1>1, <1>2, <1>3, <1>4, InnerStays
<1>7. ASSUME NEW o \in Orders PROVE Placed(f, u[o], o) /\ Ring(m, u[o], o)
  <2>1. CASE o = n
    BY <2>1, <1>1, <1>2, <1>5, PutFacts
  <2>2. CASE o # n
    <3>1. Placed(f, t[o], o) /\ Ring(l, t[o], o)
      BY DEF Whole
    <3>2. \A k \in 1..Len(t[o]) : t[o][k] \notin Q
      BY <2>2, <3>1, <1>3 DEF Placed
    <3>3. Ring(m, t[o], o)
      BY <3>1, <3>2, <2>2, <1>2, <1>3, <1>4, RingStays
    <3> QED
      BY <3>1, <3>3, <2>2, <1>5
  <2> QED
    BY <2>1, <2>2
<1>8. Whole(m, f, u)
  BY <1>6, <1>7 DEF Whole
<1> QED
  BY <1>8 DEF u

\* The lists as Buddy writes them.
LEMMA ListIsFunction ==
  ASSUME NEW s \in Seq(Pages)
  PROVE  s = [i \in 1..Len(s) |-> s[i]]
OBVIOUS

LEMMA TailIsCut ==
  ASSUME NEW s \in Seq(Pages), s # <<>>
  PROVE  1 \in 1..Len(s) /\ CutOut(s, 1) = Tail(s)
<1>1. Len(s) \in Nat /\ Len(s) >= 1
  OBVIOUS
<1>2. /\ Tail(s) \in Seq(Pages) /\ Len(Tail(s)) = Len(s) - 1
      /\ \A i \in 1..(Len(s) - 1) : Tail(s)[i] = s[i + 1]
  OBVIOUS
<1>3. \A i \in 1..(Len(s) - 1) : ~(i < 1)
  OBVIOUS
<1>4. CutOut(s, 1) = [i \in 1..(Len(s) - 1) |-> s[i + 1]]
  BY <1>3 DEF CutOut
<1>5. Tail(s) = [i \in 1..(Len(s) - 1) |-> s[i + 1]]
  <2>1. Tail(s) = [i \in 1..Len(Tail(s)) |-> Tail(s)[i]]
    BY <1>2, ListIsFunction
  <2> QED
    BY <2>1, <1>2
<1> QED
  BY <1>1, <1>4, <1>5

LEMMA WithoutIsCut ==
  ASSUME NEW f, NEW o \in Orders, NEW s, Placed(f, s, o), NEW j \in 1..Len(s)
  PROVE  P!Without(s, s[j]) = CutOut(s, j)
<1> DEFINE k == CHOOSE i \in 1..Len(s) : s[i] = s[j]
<1>1. k \in 1..Len(s) /\ s[k] = s[j]
  OBVIOUS
<1>2. k = j
  BY <1>1 DEF Placed
<1>3. P!Without(s, s[j]) = [i \in 1..(Len(s) - 1) |-> IF i < k THEN s[i] ELSE s[i + 1]]
  BY <1>1 DEF P!Without
<1> QED
  BY <1>2, <1>3 DEF CutOut

LEMMA ConsIsPut ==
  ASSUME NEW s \in Seq(Pages), NEW p \in Pages
  PROVE  PutIn(s, 0, p) = <<p>> \o s /\ PutIn(s, Len(s), p) = Append(s, p)
<1>1. Len(s) \in Nat
  OBVIOUS
<1>2. \A i \in 1..(Len(s) + 1) : (~(i <= 0)) /\ (i <= Len(s) \/ i = Len(s) + 1)
  BY <1>1
<1>3. <<p>> \o s = [i \in 1..(Len(s) + 1) |-> IF i = 1 THEN p ELSE s[i - 1]]
  <2>1. /\ <<p>> \o s \in Seq(Pages) /\ Len(<<p>> \o s) = Len(s) + 1
        /\ \A i \in 1..(Len(s) + 1) : (<<p>> \o s)[i] = IF i = 1 THEN p ELSE s[i - 1]
    OBVIOUS
  <2>2. DOMAIN (<<p>> \o s) = 1..(Len(s) + 1)
    BY <2>1
  <2> QED
    BY <2>1, <2>2
<1>4. Append(s, p) = [i \in 1..(Len(s) + 1) |-> IF i <= Len(s) THEN s[i] ELSE p]
  <2>1. /\ Append(s, p) \in Seq(Pages) /\ Len(Append(s, p)) = Len(s) + 1
        /\ \A i \in 1..(Len(s) + 1) : Append(s, p)[i] = IF i <= Len(s) THEN s[i] ELSE p
    OBVIOUS
  <2>2. Append(s, p) = [i \in 1..Len(Append(s, p)) |-> Append(s, p)[i]]
    BY <2>1, ListIsFunction
  <2> QED
    BY <2>1, <2>2
<1> QED
  BY <1>1, <1>2, <1>3, <1>4 DEF PutIn

\* What the invariant says of the links, in one piece, and how to come back to it.
LEMMA WholeNow ==
  ASSUME LInv
  PROVE  Whole(links, BlockOrder, xFree) /\ DOMAIN xFree = Orders
<1>1. \A o \in Orders : Placed(BlockOrder, xFree[o], o)
  BY Known DEF LInv
<1> QED
  BY <1>1 DEF LInv, Rings, Whole, xFree

LEMMA WholeNext ==
  ASSUME NEW f, Tiled(f), NEW t, t = [o \in Orders |-> t[o]], Whole(links', f, t),
         BlockOrder' = f
  PROVE  xFree' = t /\ Rings' /\ LinkTypes(links)' /\ Inner(links, BlockOrder)'
<1>1. xFree' = t
  <2>1. \A o \in Orders : Placed(f, t[o], o) /\ Ring(links', t[o], o)
    BY DEF Whole
  <2>2. DOMAIN t = Orders
    OBVIOUS
  <2> QED
    BY <2>1, <2>2, ListsFromRings
<1>2. Rings'
  BY <1>1 DEF Rings, Whole
<1> QED
  BY <1>1, <1>2 DEF Whole

LEMMA GetStartStep ==
  ASSUME LInv, NEW o \in Orders, GetStart(o)
  PROVE  P!GetStart(o) /\ LinksInv'
<1>1. PICK n \in o..MaxOrder :
        /\ ~Empty(n)
        /\ \A m \in o..(n - 1) : Empty(m)
        /\ cur' = links.next[HeadOf(n)]
        /\ links' = RemoveFirst(links, BlockEnd(cur', n), HeadOf(n))
        /\ ord' = n
  BY DEF GetStart
<1>2. /\ pc = "idle" /\ want' = o /\ pc' = "split"
      /\ UNCHANGED <<order, busy, dirty, held, ret>>
  BY DEF GetStart
<1>3. n \in Orders /\ \A m \in o..(n - 1) : m \in Orders
  BY <1>1, Sizes DEF Orders
<1> DEFINE s == xFree[n]
           f == BlockOrder
           t == [xFree EXCEPT ![n] = CutOut(s, 1)]
<1>4. /\ Whole(links, f, xFree) /\ DOMAIN xFree = Orders /\ Tiled(f)
      /\ Placed(f, s, n) /\ Ring(links, s, n) /\ LinkTypes(links)
  BY <1>3, WholeNow, Known DEF LInv, Whole
<1>5. s # <<>> /\ \A m \in o..(n - 1) : xFree[m] = <<>>
  BY <1>1, <1>3, EmptyRing
<1>6. s \in Seq(Pages) /\ 1 \in 1..Len(s) /\ CutOut(s, 1) = Tail(s) /\ Head(s) = s[1]
      /\ s[1] \in Pages /\ Len(s) \in Nat
  <2> HIDE DEF s
  <2>1. s \in Seq(Pages)
    BY <1>4 DEF Placed
  <2> QED
    BY <2>1, <1>5, TailIsCut
<1>7. links.next[HeadOf(n)] = s[1] /\ links.prev[s[1]] = HeadOf(n)
  <2>1. /\ 0 \in 0..Len(s) /\ 0 + 1 = 1 /\ Out(s, n, 0) = HeadOf(n) /\ In(s, n, 1) = s[1]
    BY <1>6 DEF Out, In
  <2> HIDE DEF s
  <2> QED
    BY <2>1, <1>4 DEF Ring
<1>8. links' = RemoveChain(links, s[1], BlockEnd(s[1], n)) /\ cur' = s[1]
  BY <1>1, <1>7 DEF RemoveFirst, RemoveChain
<1>9. Whole(links', f, t)
  <2> HIDE DEF f
  <2> QED
    BY <1>3, <1>4, <1>6, <1>8, CutList
<1>10. order[s[1]] = n /\ ~busy[s[1]]
  <2>1. Queued(xFree[n][1], n)
    BY <1>3, <1>6, Known DEF LInv
  <2> QED
    BY <2>1 DEF Queued
<1>11. BlockOrder' = f
  BY <1>1, <1>2, <1>8, <1>10 DEF BlockOrder
<1>12. t = [m \in Orders |-> t[m]]
  BY <1>4
<1> HIDE DEF f, t
<1>13. xFree' = t /\ Rings' /\ LinkTypes(links)' /\ Inner(links, BlockOrder)'
  BY <1>4, <1>9, <1>11, <1>12, WholeNext
<1>14. xOrder' = xOrder /\ xBusy' = xBusy
  BY <1>2, FieldsStay
<1>15. xFree' = [xFree EXCEPT ![n] = Tail(xFree[n])]
  BY <1>6, <1>13 DEF t
<1>16. P!GetStart(o)
  <2>1. /\ xFree[n] # <<>> /\ \A m \in o..(n - 1) : xFree[m] = <<>>
        /\ cur' = Head(xFree[n]) /\ ord' = n
    BY <1>1, <1>5, <1>6, <1>8
  <2> HIDE DEF s
  <2> QED
    BY <2>1, <1>2, <1>14, <1>15 DEF P!GetStart
<1>17. AnswerHeld'
  BY <1>2 DEF LInv, AnswerHeld
<1> QED
  BY <1>2, <1>13, <1>16, <1>17 DEF LinksInv, LInv

LEMMA PutDoneStep ==
  ASSUME LInv, PutDone, ~P!CanMergeNext, ~P!CanMergePrev
  PROVE  P!PutDone /\ LinksInv'
<1>1. /\ pc = "merge"
      /\ links' = AddChain(links, cur, BlockEnd(cur, order[cur]), HeadOf(order[cur]))
      /\ pc' = "idle"
      /\ UNCHANGED <<order, busy, dirty, held, ret, cur, ord, want>>
  BY DEF PutDone
<1> DEFINE n == ord
           s == xFree[n]
           f == BlockOrder
           t == [xFree EXCEPT ![n] = PutIn(s, 0, cur)]
           h == HeadOf(n)
           e == BlockEnd(cur, n)
<1>2. n \in Orders /\ cur \in Pages /\ order[cur] = n /\ f[cur] = n /\ n # -1
  BY <1>1, Known, Sizes DEF LInv, BlockOrder, Orders
<1>3. /\ Whole(links, f, xFree) /\ DOMAIN xFree = Orders /\ Tiled(f)
      /\ Placed(f, s, n) /\ Ring(links, s, n) /\ LinkTypes(links)
  BY <1>2, WholeNow, Known DEF LInv, Whole
<1>4. \A k \in 1..Len(s) : s[k] # cur
  <2>1. \A k \in 1..Len(xFree[n]) : Queued(xFree[n][k], n)
    BY <1>2, Known DEF LInv
  <2> QED
    BY <2>1, <1>1 DEF Queued
<1>5. /\ 0 \in 0..Len(s) /\ 0 + 1 = 1 /\ Out(s, n, 0) = h /\ links.next[h] = In(s, n, 1)
      /\ h \in Nodes /\ h \notin Pages /\ In(s, n, 1) \in Nodes /\ cur \in Nodes
      /\ e \in Nodes /\ e \in Pages /\ s \in Seq(Pages)
  <2> HIDE DEF s, f
  <2>1. Len(s) \in Nat /\ h \in Nodes /\ h \notin Pages /\ Pages \subseteq Nodes
    BY <1>2, <1>3, RingNodes
  <2>2. 0 \in 0..Len(s) /\ 0 + 1 = 1 /\ Out(s, n, 0) = h
    BY <2>1 DEF Out
  <2>3. In(s, n, 0 + 1) \in Nodes
    BY <2>2, <1>2, <1>3, RingNodes
  <2>4. links.next[h] = In(s, n, 1)
    BY <2>2, <1>3 DEF Ring
  <2>5. e \in Pages
    BY <1>2, <1>3, EndFacts
  <2>6. s \in Seq(Pages)
    BY <1>3 DEF Placed
  <2> QED
    BY <2>1, <2>2, <2>3, <2>4, <2>5, <2>6, <1>2
<1>6. In(s, n, 1) # cur
  <2>1. 0 + 1 = Len(s) + 1 \/ 1 \in 1..Len(s)
    BY <1>5
  <2> QED
    BY <2>1, <1>2, <1>4, <1>5 DEF In
<1>7. LinkTypes(links') /\ Hung(links, links', Out(s, n, 0), In(s, n, 1), cur, e)
  <2> DEFINE b == In(s, n, 1)
  <2>1. /\ links' = AddChain(links, cur, e, h) /\ h # e /\ b # cur /\ links.next[h] = b
        /\ h \in Nodes /\ e \in Nodes /\ b \in Nodes /\ cur \in Nodes /\ LinkTypes(links)
    BY <1>1, <1>2, <1>3, <1>5, <1>6
  <2>2. Out(s, n, 0) = h
    BY <1>5
  <2> HIDE DEF b, h, e, s
  <2>3. LinkTypes(links') /\ Hung(links, links', h, b, cur, e)
    BY <2>1 DEF AddChain, LinkTypes, Hung
  <2> QED
    BY <2>2, <2>3 DEF b
<1>8. Whole(links', f, t)
  <2>1. Hung(links, links', Out(s, n, 0), In(s, n, 0 + 1), cur, BlockEnd(cur, n))
    BY <1>5, <1>7
  <2> HIDE DEF f
  <2> QED
    BY <2>1, <1>2, <1>3, <1>4, <1>5, <1>7, PutList
<1>9. BlockOrder' = f
  BY <1>1, <1>2 DEF BlockOrder
<1>10. t = [m \in Orders |-> t[m]]
  BY <1>3
<1> HIDE DEF f, t
<1>11. xFree' = t /\ Rings' /\ LinkTypes(links)' /\ Inner(links, BlockOrder)'
  BY <1>3, <1>8, <1>9, <1>10, WholeNext
<1>12. xOrder' = xOrder /\ xBusy' = xBusy /\ xOrder[cur] = n
  BY <1>1, <1>2, FieldsStay, FieldsWritten
<1>13. xFree' = [xFree EXCEPT ![xOrder[cur]] = <<cur>> \o xFree[xOrder[cur]]]
  BY <1>2, <1>5, <1>11, <1>12, ConsIsPut DEF t
<1>14. P!PutDone
  <2> HIDE DEF s
  <2> QED
    BY <1>1, <1>12, <1>13 DEF P!PutDone
<1>15. AnswerHeld'
  BY <1>1 DEF LInv, AnswerHeld
<1> QED
  BY <1>1, <1>11, <1>14, <1>15 DEF LinksInv, LInv

\* What BuddyProof knows of cutting and joining blocks.
LEMMA SplitTiles ==
  ASSUME NEW f, P!Tiling(f), NEW c \in P!Pages, NEW o \in P!Orders, o < MaxOrder, f[c] = o + 1
  PROVE  c + Size[o] \in P!Pages /\ P!Tiling([f EXCEPT ![c] = o, ![c + Size[o]] = o])
BY P!SplitTiling, GeometryAssumption, QuietIsDesc DEF P!Pages, P!Orders

LEMMA MergeTiles ==
  ASSUME NEW f, P!Tiling(f), NEW c \in P!Pages, NEW o \in P!Orders, o < MaxOrder,
         c + Size[o] \in P!Pages, f[c] = o, f[c + Size[o]] = o
  PROVE  P!Tiling([f EXCEPT ![c] = o + 1, ![c + Size[o]] = -1])
BY P!MergeTiling, GeometryAssumption, QuietIsDesc DEF P!Pages, P!Orders

LEMMA SplitStep ==
  ASSUME LInv, Split
  PROVE  P!Split /\ LinksInv'
<1>1. /\ pc = "split" /\ ord > want
      /\ order' = [order EXCEPT ![cur] = ord - 1]
      /\ links' = AddChainTail(links, cur, BlockEnd(cur, ord - 1), HeadOf(ord - 1))
      /\ cur' = cur + Size[ord - 1] /\ ord' = ord - 1
      /\ UNCHANGED <<busy, dirty, held, ret, pc, want>>
  BY DEF Split
<1> DEFINE n == ord - 1
           s == xFree[n]
           f == BlockOrder
           c == cur + Size[n]
           g == [f EXCEPT ![cur] = n, ![c] = n]
           t == [xFree EXCEPT ![n] = PutIn(s, Len(s), cur)]
           h == HeadOf(n)
           e == BlockEnd(cur, n)
           a == Out(s, n, Len(s))
<1>2. /\ n \in Orders /\ cur \in Pages /\ f[cur] = n + 1 /\ n # -1 /\ n < MaxOrder
      /\ n + 1 \in Orders /\ Size[n] \in Nat /\ Size[n] >= 1 /\ Size[n + 1] = 2 * Size[n]
  <2>1. ord \in Orders /\ want \in Orders /\ cur \in Pages
    BY Known DEF LInv
  <2>2. n \in Orders /\ n + 1 = ord /\ n # -1 /\ n < MaxOrder
    BY <2>1, <1>1, Sizes DEF Orders
  <2> QED
    BY <2>1, <2>2, <1>1, Sizes DEF BlockOrder
<1>3. /\ Whole(links, f, xFree) /\ DOMAIN xFree = Orders /\ Tiled(f) /\ P!Tiling(f)
      /\ LinkTypes(links) /\ Inner(links, f)
  BY WholeNow, Known DEF LInv
<1>4. c \in Pages /\ f[c] = -1 /\ P!Tiling(g)
  <2>1. cur \in P!Pages /\ n \in P!Orders
    BY <1>2, SameHeap
  <2> HIDE DEF n, f
  <2>2. c \in P!Pages /\ P!Tiling(g)
    BY <2>1, <1>2, <1>3, SplitTiles
  <2>3. cur \in Nat /\ cur < c /\ c \in Pages /\ f[cur] # -1
    BY <2>2, <1>2, SameHeap DEF Pages, Orders
  <2> HIDE DEF c
  <2>4. f[c] # -1 => cur + Size[f[cur]] <= c
    BY <2>3, <1>2, <1>3 DEF Tiled
  <2> QED
    BY <2>2, <2>3, <2>4, <1>2, SameHeap DEF c
<1>5. Tiled(g)
  BY <1>4, SameHeap DEF P!Tiling, Tiled
<1>6. c # cur /\ g[cur] = n /\ g[c] = n /\ \A p \in Pages : p # cur /\ p # c => g[p] = f[p]
  <2>1. f \in [Pages -> Orders \cup {-1}]
    BY <1>3 DEF Tiled
  <2> HIDE DEF n, f
  <2> QED
    BY <2>1, <1>2, <1>4 DEF Pages
<1>7. \A o \in Orders : \A k \in 1..Len(xFree[o]) : xFree[o][k] # cur /\ xFree[o][k] # c
  <2> SUFFICES ASSUME NEW o \in Orders, NEW k \in 1..Len(xFree[o])
               PROVE  xFree[o][k] # cur /\ xFree[o][k] # c
    OBVIOUS
  <2>1. Queued(xFree[o][k], o)
    BY Known DEF LInv
  <2>2. f[xFree[o][k]] = o /\ o # -1
    BY <1>3, Sizes DEF Whole, Placed, Orders
  <2> HIDE DEF f, c
  <2> QED
    BY <2>1, <2>2, <1>1, <1>4 DEF Queued
<1>8. Inner(links, g)
  <2> HIDE DEF f, n
  <2> SUFFICES ASSUME NEW p \in Pages, g[p] # -1, NEW i \in (p + 1)..(p + Size[g[p]] - 1)
               PROVE  links.next[i - 1] = i /\ links.prev[i] = i - 1
    BY DEF Inner
  <2>1. CASE p = cur
    <3>1. i \in (cur + 1)..(cur + Size[f[cur]] - 1) /\ f[cur] # -1
      BY <2>1, <1>2, <1>6 DEF Pages, Orders
    <3> QED
      BY <3>1, <1>2, <1>3 DEF Inner
  <2>2. CASE p = c
    <3>1. i \in (cur + 1)..(cur + Size[f[cur]] - 1) /\ f[cur] # -1
      BY <2>2, <1>2, <1>6 DEF Pages, Orders
    <3> QED
      BY <3>1, <1>2, <1>3 DEF Inner
  <2>3. CASE p # cur /\ p # c
    <3>1. f[p] = g[p]
      BY <2>3, <1>6
    <3> HIDE DEF g
    <3> QED
      BY <3>1, <1>3 DEF Inner
  <2> QED
    BY <2>1, <2>2, <2>3
<1>9. Whole(links, g, xFree)
  <2>1. ASSUME NEW o \in Orders PROVE Placed(g, xFree[o], o) /\ Ring(links, xFree[o], o)
    <3>1. Placed(f, xFree[o], o) /\ Ring(links, xFree[o], o)
      BY <1>3 DEF Whole
    <3>2. \A k \in 1..Len(xFree[o]) : xFree[o][k] \in Pages
      BY <3>1 DEF Placed
    <3>3. \A k \in 1..Len(xFree[o]) : g[xFree[o][k]] = o
      BY <3>1, <3>2, <1>6, <1>7 DEF Placed
    <3> HIDE DEF f, g
    <3> QED
      BY <3>1, <3>3 DEF Placed
  <2> QED
    BY <2>1, <1>3, <1>8 DEF Whole
<1>10. Placed(g, s, n) /\ Ring(links, s, n) /\ \A k \in 1..Len(s) : s[k] # cur
  BY <1>2, <1>7, <1>9 DEF Whole
<1> HIDE DEF g, f, n
<1>11. /\ Len(s) \in 0..Len(s) /\ In(s, n, Len(s) + 1) = h /\ links.prev[h] = a
       /\ a \in Nodes /\ h \in Nodes /\ h \notin Pages /\ cur \in Nodes
       /\ e \in Nodes /\ s \in Seq(Pages) /\ a # e
  <2> HIDE DEF s
  <2>1. /\ Len(s) \in Nat /\ h \in Nodes /\ h \notin Pages /\ Pages \subseteq Nodes
        /\ \A k \in 1..Len(s) : s[k] \in Pages
    BY <1>2, <1>5, <1>10, RingNodes
  <2>2. Len(s) \in 0..Len(s) /\ In(s, n, Len(s) + 1) = h
    BY <2>1 DEF In
  <2>3. a \in Nodes
    BY <2>2, <1>2, <1>5, <1>10, RingNodes
  <2>4. links.prev[h] = a
    BY <2>2, <1>10 DEF Ring
  <2>5. e \in Pages
    BY <1>2, <1>5, <1>6, EndFacts
  <2>6. s \in Seq(Pages)
    BY <1>10 DEF Placed
  <2>7. \A k \in 1..Len(s) : BlockEnd(s[k], n) # e
    <3> SUFFICES ASSUME NEW k \in 1..Len(s), BlockEnd(s[k], n) = e PROVE FALSE
      OBVIOUS
    <3>1. s[k] \in Pages /\ g[s[k]] = n /\ s[k] # cur
      BY <2>1, <1>10 DEF Placed
    <3> QED
      BY <3>1, <1>2, <1>5, <1>6, EndFacts
  <2>8. a # e
    BY <2>1, <2>5, <2>7 DEF Out
  <2> QED
    BY <2>1, <2>2, <2>3, <2>4, <2>5, <2>6, <2>8, <1>2
<1>12. LinkTypes(links') /\ Hung(links, links', a, h, cur, e)
  <2>1. links' = AddChainTail(links, cur, e, h)
    BY <1>1 DEF n
  <2>2. h # cur
    BY <1>2, <1>11
  <2> HIDE DEF a, h, e
  <2> QED
    BY <2>1, <2>2, <1>3, <1>11 DEF AddChainTail, LinkTypes, Hung
<1>13. Whole(links', g, t)
  <2>1. Hung(links, links', Out(s, n, Len(s)), In(s, n, Len(s) + 1), cur, BlockEnd(cur, n))
    BY <1>11, <1>12
  <2>2. LinkTypes(links')
    BY <1>12
  <2> QED
    BY <2>1, <2>2, <1>2, <1>3, <1>5, <1>6, <1>9, <1>10, <1>11, PutList
<1>14. BlockOrder' = g
  <2>1. order \in [Pages -> Orders \cup {-1}] /\ pc' = "split"
    BY <1>1 DEF LInv
  <2>2. \A p \in Pages : BlockOrder'[p] = IF p = c THEN n ELSE IF p = cur THEN n ELSE order[p]
    BY <2>1, <1>1, <1>2, <1>4 DEF BlockOrder, n
  <2>3. \A p \in Pages : p # cur => f[p] = order[p]
    BY DEF f, BlockOrder
  <2>4. \A p \in Pages : BlockOrder'[p] = g[p]
    BY <2>2, <2>3, <1>6
  <2>5. BlockOrder' = [p \in Pages |-> BlockOrder'[p]]
    BY DEF BlockOrder
  <2>6. g = [p \in Pages |-> g[p]]
    BY <1>5 DEF Tiled
  <2> QED
    BY <2>4, <2>5, <2>6
<1>15. t = [m \in Orders |-> t[m]]
  BY <1>3
<1> HIDE DEF t
<1>16. xFree' = t /\ Rings' /\ LinkTypes(links)' /\ Inner(links, BlockOrder)'
  BY <1>5, <1>13, <1>14, <1>15, WholeNext
<1>17. xBusy' = xBusy /\ xOrder' = [xOrder EXCEPT ![cur] = ord - 1]
  <2>1. DOMAIN order = Pages
    BY DEF LInv
  <2> QED
    BY <2>1, <1>1, <1>2, FieldsStay, FieldsWritten
<1>18. xFree' = [xFree EXCEPT ![ord - 1] = Append(xFree[ord - 1], cur)]
  BY <1>2, <1>11, <1>16, ConsIsPut DEF t, n
<1>19. P!Split
  BY <1>1, <1>17, <1>18 DEF P!Split
<1>20. AnswerHeld'
  BY <1>1 DEF LInv, AnswerHeld
<1>21. (order \in [Pages -> Orders \cup {-1}] /\ busy \in [Pages -> BOOLEAN])'
  BY <1>1, <1>2 DEF LInv, n
<1> QED
  BY <1>16, <1>19, <1>20, <1>21 DEF LinksInv

\* Two neighbours of one order that are in no list become one block.
LEMMA JoinBlocks ==
  ASSUME NEW f, Tiled(f), NEW t, NEW l, Whole(l, f, t), NEW o \in Orders, NEW c \in Pages,
         NEW d \in Pages, d = c + Size[o], f[c] = o, f[d] = o,
         \A x \in Orders : \A k \in 1..Len(t[x]) : t[x][k] # c /\ t[x][k] # d,
         o + 1 \in Orders,
         NEW g, g = [f EXCEPT ![c] = o + 1, ![d] = -1]
  PROVE  Whole(Join(l, BlockEnd(c, o), d), g, t)
<1> DEFINE e == BlockEnd(c, o)
           m == Join(l, e, d)
<1>1. /\ Size[o] \in Nat /\ Size[o] >= 1 /\ Size[o + 1] = 2 * Size[o] /\ o # -1 /\ o + 1 # -1
      /\ c \in Nat /\ d \in Nat /\ c # d /\ e = d - 1
  BY Sizes DEF Orders, Pages, BlockEnd
<1>2. e \in Pages /\ e = BlockEnd(c, f[c]) /\ Pages \subseteq Nodes
  <2>1. e \in Pages
    BY <1>1, EndFacts
  <2> QED
    BY <2>1, Sizes DEF Pages, Nodes
<1>3. LinkTypes(l) /\ Inner(l, f)
  BY DEF Whole
<1>4. /\ \A n \in Nodes : m.next[n] = IF n = e THEN d ELSE l.next[n]
      /\ \A n \in Nodes : m.prev[n] = IF n = d THEN e ELSE l.prev[n]
      /\ LinkTypes(m)
  <2>1. e \in Nodes /\ d \in Nodes
    BY <1>2
  <2> HIDE DEF e
  <2> QED
    BY <2>1, <1>3 DEF Join, LinkTypes
<1> HIDE DEF m, e
<1>5. Touches(l, m, f, {c, d}, {})
  BY <1>2, <1>4 DEF Touches
<1>6. {c, d} \in SUBSET Pages /\ {} \in SUBSET Orders /\ \A q \in {c, d} : f[q] # -1
  BY <1>1
<1>7. /\ g[c] = o + 1 /\ g[d] = -1 /\ \A p \in Pages : p # c /\ p # d => g[p] = f[p]
  <2>1. f \in [Pages -> Orders \cup {-1}]
    BY DEF Tiled
  <2> QED
    BY <2>1, <1>1
<1>8. ASSUME NEW x \in Orders PROVE Placed(g, t[x], x) /\ Ring(m, t[x], x)
  <2>1. Placed(f, t[x], x) /\ Ring(l, t[x], x)
    BY DEF Whole
  <2>2. \A k \in 1..Len(t[x]) : t[x][k] \notin {c, d}
    OBVIOUS
  <2>3. Ring(m, t[x], x)
    <3>1. x \notin {}
      OBVIOUS
    <3> QED
      BY <3>1, <2>1, <2>2, <1>5, <1>6, RingStays
  <2>4. \A k \in 1..Len(t[x]) : t[x][k] \in Pages /\ f[t[x][k]] = x
    BY <2>1 DEF Placed
  <2>5. \A k \in 1..Len(t[x]) : g[t[x][k]] = x
    BY <2>2, <2>4, <1>7
  <2> QED
    BY <2>1, <2>3, <2>5 DEF Placed
<1>9. Inner(m, f)
  BY <1>3, <1>5, <1>6, InnerStays
<1>10. Inner(m, g)
  <2> SUFFICES ASSUME NEW p \in Pages, g[p] # -1, NEW i \in (p + 1)..(p + Size[g[p]] - 1)
               PROVE  m.next[i - 1] = i /\ m.prev[i] = i - 1
    BY DEF Inner
  <2>1. CASE p # c
    <3>1. g[p] = f[p]
      BY <2>1, <1>7
    <3> QED
      BY <3>1, <1>9 DEF Inner
  <2>2. CASE p = c /\ i < d
    <3>1. i \in (c + 1)..(c + Size[f[c]] - 1) /\ f[c] # -1
      BY <2>2, <1>1, <1>7
    <3> QED
      BY <3>1, <1>9 DEF Inner
  <2>3. CASE p = c /\ i = d
    BY <2>3, <1>1, <1>2, <1>4
  <2>4. CASE p = c /\ i > d
    <3>1. i \in (d + 1)..(d + Size[f[d]] - 1) /\ f[d] # -1
      BY <2>4, <1>1, <1>7
    <3> QED
      BY <3>1, <1>9 DEF Inner
  <2> QED
    BY <2>1, <2>2, <2>3, <2>4, <1>1
<1>11. Whole(m, g, t)
  BY <1>4, <1>8, <1>10 DEF Whole
<1> QED
  BY <1>11 DEF m, e

\* What the merge loop takes for a free block is one, in BuddyLinks and in Buddy.
LEMMA SameNeighbours ==
  ASSUME LInv, pc = "merge"
  PROVE  /\ CanMergeNext <=> P!CanMergeNext
         /\ CanMergePrev <=> P!CanMergePrev
         /\ NextBuddy = P!NextBuddy /\ PrevBuddy = P!PrevBuddy
<1>1. cur \in Pages /\ ord \in Orders
  BY Known DEF LInv
<1>2. /\ Size[ord] \in Nat /\ Size[ord] <= Size[MaxOrder] /\ Size[MaxOrder] \in Nat
      /\ MaxOrder \in Nat
  <2>1. MaxOrder \in Orders
    BY Sizes DEF Orders
  <2> QED
    BY <2>1, <1>1, Sizes
<1>3. NextBuddy \in Descs /\ PrevBuddy \in Descs
  BY <1>1, <1>2, Sizes DEF NextBuddy, PrevBuddy, Pages, Descs
<1>4. Quiet.order \notin Orders
  BY <1>2 DEF Quiet, Orders
<1>5. \A d \in Descs : LooksFree(d, ord) <=> P!LooksFree(d, ord)
  BY <1>1, <1>4 DEF LooksFree, P!LooksFree, xOrder, xBusy
<1>6. NextBuddy = P!NextBuddy /\ PrevBuddy = P!PrevBuddy
  BY DEF NextBuddy, PrevBuddy, P!NextBuddy, P!PrevBuddy
<1>7. CanMergeNext <=> P!CanMergeNext
  BY <1>3, <1>5, <1>6 DEF CanMergeNext, P!CanMergeNext
<1>8. CanMergePrev <=> P!CanMergePrev
  BY <1>3, <1>5, <1>6, <1>7 DEF CanMergePrev, P!CanMergePrev
<1> QED
  BY <1>6, <1>7, <1>8

\* Block q leaves its list and is joined with the block in hand, c before d.
LEMMA Merged ==
  ASSUME LInv, pc = "merge", ord < MaxOrder, NEW q \in Pages, Queued(q, ord),
         NEW c \in Pages, NEW d \in Pages, d = c + Size[ord],
         (c = cur /\ d = q) \/ (c = q /\ d = cur)
  PROVE  LET g == [BlockOrder EXCEPT ![c] = ord + 1, ![d] = -1]
             t == [xFree EXCEPT ![ord] = P!Without(xFree[ord], q)]
             m == Join(RemoveChain(links, q, BlockEnd(q, ord)), BlockEnd(c, ord), d)
         IN  Tiled(g) /\ Whole(m, g, t) /\ t = [x \in Orders |-> t[x]]
<1> DEFINE f == BlockOrder
           n == ord
           s == xFree[n]
           g == [f EXCEPT ![c] = n + 1, ![d] = -1]
           t == [xFree EXCEPT ![n] = P!Without(s, q)]
           l == RemoveChain(links, q, BlockEnd(q, n))
<1>1. /\ Whole(links, f, xFree) /\ DOMAIN xFree = Orders /\ Tiled(f) /\ P!Tiling(f)
      /\ n \in Orders /\ n + 1 \in Orders /\ order[cur] = n /\ cur \in Pages
  BY WholeNow, Known, Sizes DEF LInv
<1>2. f[q] = n /\ f[cur] = n /\ q # cur
  BY <1>1 DEF Queued, BlockOrder
<1>3. f[c] = n /\ f[d] = n
  BY <1>2
<1>4. PICK j \in 1..Len(s) : s[j] = q
  BY <1>1, Known DEF LInv
<1>5. Placed(f, s, n)
  BY <1>1 DEF Whole
<1>6. P!Without(s, q) = CutOut(s, j) /\ \A k \in 1..Len(CutOut(s, j)) : CutOut(s, j)[k] # q
  <2> HIDE DEF s, f, n
  <2>1. n \in Orders /\ Placed(f, s, n) /\ j \in 1..Len(s)
    BY <1>1, <1>4, <1>5
  <2>2. P!Without(s, s[j]) = CutOut(s, j)
    BY <2>1, WithoutIsCut
  <2>3. \A k \in 1..Len(CutOut(s, j)) : CutOut(s, j)[k] # s[j]
    BY <2>1, CutFacts
  <2> QED
    BY <2>2, <2>3, <1>4
<1>7. Whole(l, f, t)
  <2>1. Whole(RemoveChain(links, s[j], BlockEnd(s[j], n)), f, [xFree EXCEPT ![n] = CutOut(s, j)])
    <3> HIDE DEF f, n
    <3> QED
      BY <1>1, <1>4, CutList
  <2> QED
    BY <2>1, <1>4, <1>6
<1>8. \A x \in Orders : \A k \in 1..Len(t[x]) : t[x][k] # q /\ t[x][k] # cur
  <2> SUFFICES ASSUME NEW x \in Orders, NEW k \in 1..Len(t[x])
               PROVE  t[x][k] # q /\ t[x][k] # cur
    OBVIOUS
  <2>1. f[t[x][k]] = x
    BY <1>7 DEF Whole, Placed
  <2>2. CASE x # n
    BY <2>1, <2>2, <1>2
  <2>3. CASE x = n
    <3>1. t[x] = CutOut(s, j)
      BY <2>3, <1>1, <1>6
    <3>2. t[x][k] # q
      BY <3>1, <1>6
    <3>3. \A i \in 1..Len(s) : s[i] # cur
      <4>1. \A i \in 1..Len(xFree[n]) : Queued(xFree[n][i], n)
        BY <1>1, Known DEF LInv
      <4> QED
        BY <4>1 DEF Queued
    <3>4. \A i \in 1..Len(CutOut(s, j)) : \E y \in 1..Len(s) : CutOut(s, j)[i] = s[y]
      <4>1. Len(s) \in Nat
        BY <1>5 DEF Placed
      <4> HIDE DEF s
      <4> QED
        BY <4>1, <1>4 DEF CutOut
    <3> QED
      BY <3>1, <3>2, <3>3, <3>4
  <2> QED
    BY <2>2, <2>3
<1>9. t = [x \in Orders |-> t[x]]
  BY <1>1
<1>10. Tiled(g)
  <2>1. c \in P!Pages /\ n \in P!Orders /\ c + Size[n] \in P!Pages
    BY <1>1, SameHeap
  <2> HIDE DEF f, n
  <2>2. P!Tiling([f EXCEPT ![c] = n + 1, ![c + Size[n]] = -1])
    <3>1. n < MaxOrder /\ f[c + Size[n]] = n
      BY <1>3 DEF n
    <3> QED
      BY <3>1, <2>1, <1>1, <1>3, MergeTiles
  <2>3. P!Tiling(g)
    BY <2>2 DEF n
  <2> HIDE DEF g
  <2> QED
    BY <2>3, SameHeap DEF P!Tiling, Tiled
<1>11. Whole(Join(l, BlockEnd(c, n), d), g, t)
  <2>1. \A x \in Orders : \A k \in 1..Len(t[x]) : t[x][k] # c /\ t[x][k] # d
    BY <1>8
  <2>2. d = c + Size[n]
    OBVIOUS
  <2> HIDE DEF f, n, l, t, s
  <2> QED
    BY <2>1, <2>2, <1>1, <1>3, <1>7, JoinBlocks
<1> QED
  BY <1>9, <1>10, <1>11

LEMMA MergeNextStep ==
  ASSUME LInv, MergeNext
  PROVE  P!MergeNext /\ LinksInv'
<1>1. /\ pc = "merge" /\ CanMergeNext
      /\ order' = [order EXCEPT ![cur] = @ + 1, ![NextBuddy] = -1]
      /\ links' = Join(RemoveChain(links, NextBuddy, BlockEnd(NextBuddy, ord)), BlockEnd(cur, ord), NextBuddy)
      /\ cur' = cur /\ ord' = ord + 1
      /\ UNCHANGED <<busy, dirty, held, ret, pc, want>>
  BY DEF MergeNext
<1> DEFINE f == BlockOrder
           c == cur
           d == NextBuddy
           q == NextBuddy
           g == [f EXCEPT ![c] = ord + 1, ![d] = -1]
           t == [xFree EXCEPT ![ord] = P!Without(xFree[ord], q)]
<1>2. /\ ord < MaxOrder /\ q \in Pages /\ ~busy[q] /\ order[q] = ord
      /\ cur \in Pages /\ ord \in Orders /\ order[cur] = ord
      /\ order \in [Pages -> Orders \cup {-1}]
  BY <1>1, Known DEF LInv, CanMergeNext, LooksFree
<1>3. Size[ord] \in Nat /\ Size[ord] >= 1 /\ cur \in Nat /\ ord + 1 \in Orders
  BY <1>2, Sizes DEF Pages
<1>4. /\ c \in Pages /\ d \in Pages /\ d = c + Size[ord] /\ c # d /\ q # cur
      /\ (c = cur /\ d = q) \/ (c = q /\ d = cur)
  BY <1>1, <1>2, <1>3 DEF NextBuddy, PrevBuddy
<1>5. Queued(q, ord)
  BY <1>2, <1>4 DEF Queued
<1>6. Tiled(g) /\ Whole(links', g, t) /\ t = [x \in Orders |-> t[x]]
  <2> HIDE DEF f, c, d, q
  <2>1. links' = Join(RemoveChain(links, q, BlockEnd(q, ord)), BlockEnd(c, ord), d)
    BY <1>1 DEF c, d, q
  <2>2. LET k == [BlockOrder EXCEPT ![c] = ord + 1, ![d] = -1]
            u == [xFree EXCEPT ![ord] = P!Without(xFree[ord], q)]
            m == Join(RemoveChain(links, q, BlockEnd(q, ord)), BlockEnd(c, ord), d)
        IN  Tiled(k) /\ Whole(m, k, u) /\ u = [x \in Orders |-> u[x]]
    <3>1. /\ pc = "merge" /\ ord < MaxOrder /\ q \in Pages /\ Queued(q, ord)
          /\ c \in Pages /\ d \in Pages /\ d = c + Size[ord]
          /\ (c = cur /\ d = q) \/ (c = q /\ d = cur)
      BY <1>1, <1>2, <1>4, <1>5
    <3> QED
      BY <3>1, Merged
  <2> QED
    BY <2>1, <2>2 DEF f
<1>7. BlockOrder' = g
  <2>1. \A p \in Pages : BlockOrder'[p] = IF p = d THEN -1 ELSE IF p = c THEN ord + 1 ELSE order[p]
    BY <1>1, <1>2, <1>3, <1>4 DEF BlockOrder
  <2>2. \A p \in Pages : p # cur => f[p] = order[p]
    BY DEF BlockOrder
  <2>3. f \in [Pages -> Orders \cup {-1}]
    BY <1>2 DEF BlockOrder
  <2> HIDE DEF f, c, d, q
  <2>4. \A p \in Pages : g[p] = IF p = d THEN -1 ELSE IF p = c THEN ord + 1 ELSE f[p]
    BY <2>3, <1>4
  <2>5. \A p \in Pages : BlockOrder'[p] = g[p]
    BY <2>1, <2>2, <2>4, <1>4
  <2>6. BlockOrder' = [p \in Pages |-> BlockOrder'[p]]
    BY DEF BlockOrder
  <2>7. g = [p \in Pages |-> g[p]]
    BY <2>3
  <2> QED
    BY <2>5, <2>6, <2>7
<1> HIDE DEF f, g, t
<1>8. xFree' = t /\ Rings' /\ LinkTypes(links)' /\ Inner(links, BlockOrder)'
  BY <1>6, <1>7, WholeNext
<1>9. /\ xBusy' = xBusy /\ xOrder[cur] = order[cur] /\ xOrder[q] = order[q]
      /\ xOrder' = [xOrder EXCEPT ![cur] = xOrder[cur] + 1, ![NextBuddy] = -1]
  <2>1. DOMAIN order = Pages
    BY <1>2
  <2>2. order' = [order EXCEPT ![cur] = order[cur] + 1, ![NextBuddy] = -1]
    BY <1>1, <1>2
  <2>3. xOrder' = [xOrder EXCEPT ![cur] = order[cur] + 1, ![NextBuddy] = -1]
    <3>1. Pages \subseteq Descs /\ q \in Pages /\ cur \in Pages
      BY <1>2, FieldsWritten
    <3> QED
      BY <3>1, <2>1, <2>2 DEF xOrder
  <2>4. xOrder[cur] = order[cur] /\ xOrder[q] = order[q]
    BY <1>2, FieldsWritten
  <2>5. xBusy' = xBusy
    BY <1>1, FieldsStay
  <2>6. xOrder[cur] = order[cur] /\ xOrder[NextBuddy] = order[NextBuddy]
    BY <2>4 DEF q
  <2> QED
    BY <2>3, <2>4, <2>5, <2>6
<1>10. P!MergeNext
  <2>1. P!CanMergeNext /\ NextBuddy = P!NextBuddy /\ PrevBuddy = P!PrevBuddy
    BY <1>1, SameNeighbours
  <2>2. xFree' = [xFree EXCEPT ![ord] = P!Without(xFree[ord], P!NextBuddy)]
    BY <2>1, <1>8 DEF t
  <2>3. xOrder' = [xOrder EXCEPT ![cur] = xOrder[cur] + 1, ![P!NextBuddy] = -1]
    BY <2>1, <1>9
  <2> QED
    BY <2>1, <2>2, <2>3, <1>1, <1>9 DEF P!MergeNext
<1>11. AnswerHeld'
  BY <1>1 DEF LInv, AnswerHeld
<1>12. (order \in [Pages -> Orders \cup {-1}] /\ busy \in [Pages -> BOOLEAN])'
  BY <1>1, <1>2, <1>3 DEF LInv
<1> QED
  BY <1>8, <1>10, <1>11, <1>12 DEF LinksInv

LEMMA MergePrevStep ==
  ASSUME LInv, MergePrev
  PROVE  P!MergePrev /\ LinksInv'
<1>1. /\ pc = "merge" /\ CanMergePrev
      /\ order' = [order EXCEPT ![cur] = -1, ![PrevBuddy] = @ + 1]
      /\ links' = Join(RemoveChain(links, PrevBuddy, BlockEnd(PrevBuddy, ord)), BlockEnd(PrevBuddy, ord), cur)
      /\ cur' = PrevBuddy /\ ord' = ord + 1
      /\ UNCHANGED <<busy, dirty, held, ret, pc, want>>
  BY DEF MergePrev
<1> DEFINE f == BlockOrder
           c == PrevBuddy
           d == cur
           q == PrevBuddy
           g == [f EXCEPT ![c] = ord + 1, ![d] = -1]
           t == [xFree EXCEPT ![ord] = P!Without(xFree[ord], q)]
<1>2. /\ ord < MaxOrder /\ q \in Pages /\ ~busy[q] /\ order[q] = ord
      /\ cur \in Pages /\ ord \in Orders /\ order[cur] = ord
      /\ order \in [Pages -> Orders \cup {-1}]
  BY <1>1, Known DEF LInv, CanMergePrev, LooksFree
<1>3. Size[ord] \in Nat /\ Size[ord] >= 1 /\ cur \in Nat /\ ord + 1 \in Orders
  BY <1>2, Sizes DEF Pages
<1>4. /\ c \in Pages /\ d \in Pages /\ d = c + Size[ord] /\ c # d /\ q # cur
      /\ (c = cur /\ d = q) \/ (c = q /\ d = cur)
  BY <1>1, <1>2, <1>3 DEF NextBuddy, PrevBuddy
<1>5. Queued(q, ord)
  BY <1>2, <1>4 DEF Queued
<1>6. Tiled(g) /\ Whole(links', g, t) /\ t = [x \in Orders |-> t[x]]
  <2> HIDE DEF f, c, d, q
  <2>1. links' = Join(RemoveChain(links, q, BlockEnd(q, ord)), BlockEnd(c, ord), d)
    BY <1>1 DEF c, d, q
  <2>2. LET k == [BlockOrder EXCEPT ![c] = ord + 1, ![d] = -1]
            u == [xFree EXCEPT ![ord] = P!Without(xFree[ord], q)]
            m == Join(RemoveChain(links, q, BlockEnd(q, ord)), BlockEnd(c, ord), d)
        IN  Tiled(k) /\ Whole(m, k, u) /\ u = [x \in Orders |-> u[x]]
    <3>1. /\ pc = "merge" /\ ord < MaxOrder /\ q \in Pages /\ Queued(q, ord)
          /\ c \in Pages /\ d \in Pages /\ d = c + Size[ord]
          /\ (c = cur /\ d = q) \/ (c = q /\ d = cur)
      BY <1>1, <1>2, <1>4, <1>5
    <3> QED
      BY <3>1, Merged
  <2> QED
    BY <2>1, <2>2 DEF f
<1>7. BlockOrder' = g
  <2>1. \A p \in Pages : BlockOrder'[p] = IF p = d THEN -1 ELSE IF p = c THEN ord + 1 ELSE order[p]
    BY <1>1, <1>2, <1>3, <1>4 DEF BlockOrder
  <2>2. \A p \in Pages : p # cur => f[p] = order[p]
    BY DEF BlockOrder
  <2>3. f \in [Pages -> Orders \cup {-1}]
    BY <1>2 DEF BlockOrder
  <2> HIDE DEF f, c, d, q
  <2>4. \A p \in Pages : g[p] = IF p = d THEN -1 ELSE IF p = c THEN ord + 1 ELSE f[p]
    BY <2>3, <1>4
  <2>5. \A p \in Pages : BlockOrder'[p] = g[p]
    BY <2>1, <2>2, <2>4, <1>4
  <2>6. BlockOrder' = [p \in Pages |-> BlockOrder'[p]]
    BY DEF BlockOrder
  <2>7. g = [p \in Pages |-> g[p]]
    BY <2>3
  <2> QED
    BY <2>5, <2>6, <2>7
<1> HIDE DEF f, g, t
<1>8. xFree' = t /\ Rings' /\ LinkTypes(links)' /\ Inner(links, BlockOrder)'
  BY <1>6, <1>7, WholeNext
<1>9. /\ xBusy' = xBusy /\ xOrder[cur] = order[cur] /\ xOrder[q] = order[q]
      /\ xOrder' = [xOrder EXCEPT ![cur] = -1, ![PrevBuddy] = xOrder[PrevBuddy] + 1]
  <2>1. DOMAIN order = Pages
    BY <1>2
  <2>2. order' = [order EXCEPT ![cur] = -1, ![PrevBuddy] = order[PrevBuddy] + 1]
    BY <1>1, <1>2
  <2>3. xOrder' = [xOrder EXCEPT ![cur] = -1, ![PrevBuddy] = order[PrevBuddy] + 1]
    <3>1. Pages \subseteq Descs /\ q \in Pages /\ cur \in Pages
      BY <1>2, FieldsWritten
    <3> QED
      BY <3>1, <2>1, <2>2 DEF xOrder
  <2>4. xOrder[cur] = order[cur] /\ xOrder[q] = order[q]
    BY <1>2, FieldsWritten
  <2>5. xBusy' = xBusy
    BY <1>1, FieldsStay
  <2>6. xOrder[cur] = order[cur] /\ xOrder[PrevBuddy] = order[PrevBuddy]
    BY <2>4 DEF q
  <2> QED
    BY <2>3, <2>4, <2>5, <2>6
<1>10. P!MergePrev
  <2>1. P!CanMergePrev /\ NextBuddy = P!NextBuddy /\ PrevBuddy = P!PrevBuddy
    BY <1>1, SameNeighbours
  <2>2. xFree' = [xFree EXCEPT ![ord] = P!Without(xFree[ord], P!PrevBuddy)]
    BY <2>1, <1>8 DEF t
  <2>3. xOrder' = [xOrder EXCEPT ![cur] = -1, ![P!PrevBuddy] = xOrder[P!PrevBuddy] + 1]
    BY <2>1, <1>9
  <2> QED
    BY <2>1, <2>2, <2>3, <1>1, <1>9 DEF P!MergePrev
<1>11. AnswerHeld'
  BY <1>1 DEF LInv, AnswerHeld
<1>12. (order \in [Pages -> Orders \cup {-1}] /\ busy \in [Pages -> BOOLEAN])'
  BY <1>1, <1>2, <1>3 DEF LInv
<1> QED
  BY <1>8, <1>10, <1>11, <1>12 DEF LinksInv

-----------------------------------------------------------------------------
(* The rings init_page_map builds. *)

LEMMA UpFacts ==
  ASSUME NEW a \in Int, NEW b \in Int, NEW h, h \notin a..b
  PROVE  /\ Up(a..b, h, h) = IF a <= b THEN a ELSE h
         /\ \A x \in a..b : Up(a..b, h, x) = IF x < b THEN x + 1 ELSE h
<1>1. ASSUME NEW c \in Int, NEW T, T = c..b, c <= b
      PROVE  (CHOOSE m \in T : \A k \in T : m <= k) = c
  <2> DEFINE m0 == CHOOSE m \in T : \A k \in T : m <= k
  <2>1. c \in T /\ \A k \in T : c <= k
    BY <1>1
  <2>2. m0 \in T /\ \A k \in T : m0 <= k
    BY <2>1
  <2>3. m0 = c
    <3> HIDE DEF m0
    <3> QED
      BY <2>1, <2>2, <1>1
  <2> QED
    BY <2>3
<1>2. Up(a..b, h, h) = IF a <= b THEN a ELSE h
  <2>1. CASE a <= b
    <3>1. a..b # {}
      BY <2>1
    <3>2. (CHOOSE m \in a..b : \A k \in a..b : m <= k) = a
      BY <2>1, <1>1
    <3> QED
      BY <3>1, <3>2, <2>1 DEF Up
  <2>2. CASE ~(a <= b)
    <3>1. a..b = {}
      BY <2>2
    <3> QED
      BY <3>1, <2>2 DEF Up
  <2> QED
    BY <2>1, <2>2
<1>3. ASSUME NEW x \in a..b PROVE Up(a..b, h, x) = IF x < b THEN x + 1 ELSE h
  <2> DEFINE T == {m \in a..b : m > x}
  <2>1. T = (x + 1)..b /\ x # h
    OBVIOUS
  <2>2. Up(a..b, h, x) = IF T = {} THEN h ELSE CHOOSE m \in T : \A k \in T : m <= k
    BY <2>1 DEF Up
  <2> HIDE DEF T
  <2>3. CASE x < b
    <3>1. x + 1 \in T
      BY <2>1, <2>3
    <3>2. (CHOOSE m \in T : \A k \in T : m <= k) = x + 1
      BY <2>1, <2>3, <1>1
    <3> QED
      BY <3>1, <3>2, <2>2, <2>3
  <2>4. CASE ~(x < b)
    <3>1. T = {}
      BY <2>1, <2>4
    <3> QED
      BY <3>1, <2>2, <2>4
  <2> QED
    BY <2>3, <2>4
<1> QED
  BY <1>2, <1>3

LEMMA DownFacts ==
  ASSUME NEW a \in Int, NEW b \in Int, NEW h, h \notin a..b
  PROVE  /\ Down(a..b, h, h) = IF a <= b THEN b ELSE h
         /\ \A x \in a..b : Down(a..b, h, x) = IF x > a THEN x - 1 ELSE h
<1>1. ASSUME NEW c \in Int, NEW T, T = a..c, a <= c
      PROVE  (CHOOSE m \in T : \A k \in T : m >= k) = c
  <2> DEFINE m0 == CHOOSE m \in T : \A k \in T : m >= k
  <2>1. c \in T /\ \A k \in T : c >= k
    BY <1>1
  <2>2. m0 \in T /\ \A k \in T : m0 >= k
    BY <2>1
  <2>3. m0 = c
    <3> HIDE DEF m0
    <3> QED
      BY <2>1, <2>2, <1>1
  <2> QED
    BY <2>3
<1>2. Down(a..b, h, h) = IF a <= b THEN b ELSE h
  <2>1. CASE a <= b
    <3>1. a..b # {}
      BY <2>1
    <3>2. (CHOOSE m \in a..b : \A k \in a..b : m >= k) = b
      BY <2>1, <1>1
    <3> QED
      BY <3>1, <3>2, <2>1 DEF Down
  <2>2. CASE ~(a <= b)
    <3>1. a..b = {}
      BY <2>2
    <3> QED
      BY <3>1, <2>2 DEF Down
  <2> QED
    BY <2>1, <2>2
<1>3. ASSUME NEW x \in a..b PROVE Down(a..b, h, x) = IF x > a THEN x - 1 ELSE h
  <2> DEFINE T == {m \in a..b : m < x}
  <2>1. T = a..(x - 1) /\ x # h
    OBVIOUS
  <2>2. Down(a..b, h, x) = IF T = {} THEN h ELSE CHOOSE m \in T : \A k \in T : m >= k
    BY <2>1 DEF Down
  <2> HIDE DEF T
  <2>3. CASE x > a
    <3>1. x - 1 \in T
      BY <2>1, <2>3
    <3>2. (CHOOSE m \in T : \A k \in T : m >= k) = x - 1
      BY <2>1, <2>3, <1>1
    <3> QED
      BY <3>1, <3>2, <2>2, <2>3
  <2>4. CASE ~(x > a)
    <3>1. T = {}
      BY <2>1, <2>4
    <3> QED
      BY <3>1, <2>2, <2>4
  <2> QED
    BY <2>3, <2>4
<1> QED
  BY <1>2, <1>3

\* h and the pages from a to b, linked one by one in both directions.
Chained(l, h, a, b) ==
  /\ l.next[h] = IF a <= b THEN a ELSE h
  /\ l.prev[h] = IF a <= b THEN b ELSE h
  /\ \A x \in a..b : /\ l.next[x] = IF x < b THEN x + 1 ELSE h
                     /\ l.prev[x] = IF x > a THEN x - 1 ELSE h

\* Where the k-th block behind a begins, n blocks of B pages.
Steps(M, n, B) ==
  /\ M[0] = 0
  /\ \A k \in 0..n : M[k] \in Nat /\ M[k] <= M[n]
  /\ \A k \in 0..(n - 1) : M[k + 1] = M[k] + B /\ M[k] + B <= M[n]

\* Blocks that lie one behind the other, linked page by page, are a ring.
LEMMA ChainedRing ==
  ASSUME NEW o \in Orders, NEW a \in Nat, NEW n \in Nat, NEW M, Steps(M, n, Size[o]),
         NEW s, Len(s) = n, \A i \in 1..n : s[i] = a + M[i - 1],
         NEW l, Chained(l, HeadOf(o), a, a + M[n] - 1)
  PROVE  Ring(l, s, o)
<1> DEFINE B == Size[o]
           h == HeadOf(o)
           b == a + M[n] - 1
<1>1. B \in Nat /\ B >= 1
  BY Sizes
<1>2. /\ M[0] = 0
      /\ \A k \in 0..n : M[k] \in Nat /\ M[k] <= M[n]
      /\ \A k \in 0..(n - 1) : M[k + 1] = M[k] + B /\ M[k] + B <= M[n]
  BY DEF Steps
<1>3. /\ l.next[h] = IF a <= b THEN a ELSE h
      /\ l.prev[h] = IF a <= b THEN b ELSE h
      /\ \A x \in a..b : /\ l.next[x] = IF x < b THEN x + 1 ELSE h
                         /\ l.prev[x] = IF x > a THEN x - 1 ELSE h
  BY DEF Chained
<1> HIDE DEF B
<1>4. ASSUME NEW k \in 0..n
      PROVE  /\ Out(s, o, k) = IF k = 0 THEN h ELSE a + M[k] - 1
             /\ In(s, o, k + 1) = IF k = n THEN h ELSE a + M[k]
             /\ k # 0 => M[k] >= B
             /\ k # n => M[k] + B <= M[n] /\ (k + 1) - 1 = k
             /\ M[k] \in Nat /\ M[k] <= M[n] /\ M[n] \in Nat
  <2>1. CASE k = 0
    <3>1. Out(s, o, k) = h
      BY <2>1 DEF Out
    <3>2. In(s, o, k + 1) = IF k = n THEN h ELSE s[k + 1]
      BY DEF In
    <3>3. k # n => k + 1 \in 1..n /\ (k + 1) - 1 = k /\ k \in 0..(n - 1)
      OBVIOUS
    <3> QED
      BY <3>1, <3>2, <3>3, <2>1, <1>2
  <2>2. CASE k # 0
    <3>1. k \in 1..n /\ k - 1 \in 0..(n - 1) /\ (k - 1) + 1 = k
      BY <2>2
    <3>2. M[k] = M[k - 1] + B /\ M[k - 1] \in Nat
      BY <3>1, <1>2
    <3>3. Out(s, o, k) = s[k] + B - 1 /\ s[k] = a + M[k - 1]
      BY <3>1, <2>2 DEF Out, BlockEnd, B
    <3>4. In(s, o, k + 1) = IF k = n THEN h ELSE s[k + 1]
      BY DEF In
    <3>5. k # n => k + 1 \in 1..n /\ (k + 1) - 1 = k /\ k \in 0..(n - 1)
      OBVIOUS
    <3>6. Out(s, o, k) = a + M[k] - 1 /\ M[k] >= B /\ M[k] \in Nat
      BY <3>2, <3>3, <1>1
    <3>7. k # n => s[k + 1] = a + M[k] /\ M[k] + B <= M[n]
      BY <3>5, <1>2
    <3>8. M[k] <= M[n] /\ M[n] \in Nat
      BY <1>2
    <3> QED
      BY <3>4, <3>5, <3>6, <3>7, <3>8, <2>2
  <2> QED
    BY <2>1, <2>2
<1> SUFFICES ASSUME NEW k \in 0..n
             PROVE  /\ l.next[Out(s, o, k)] = In(s, o, k + 1)
                    /\ l.prev[In(s, o, k + 1)] = Out(s, o, k)
  BY DEF Ring
<1>5. CASE k = 0 /\ n = 0
  BY <1>5, <1>2, <1>3, <1>4
<1>6. CASE k = 0 /\ n # 0
  <2>1. a <= b /\ M[k] = 0 /\ b \in Int
    BY <1>6, <1>1, <1>2, <1>4
  <2> HIDE DEF b
  <2> QED
    BY <2>1, <1>3, <1>4, <1>6
<1>7. CASE k # 0 /\ k = n
  <2>1. a <= b /\ b \in Int /\ b \in a..b /\ Out(s, o, k) = b /\ In(s, o, k + 1) = h
    BY <1>7, <1>1, <1>2, <1>4
  <2> HIDE DEF b
  <2> QED
    BY <2>1, <1>3
<1>8. CASE k # 0 /\ k # n
  <2> DEFINE y == a + M[k]
  <2>0. M[k] \in Nat /\ M[k] >= B /\ M[k] + B <= M[n] /\ M[n] \in Nat
    BY <1>8, <1>4
  <2>1. Out(s, o, k) = y - 1 /\ In(s, o, k + 1) = y
    BY <1>8, <1>4
  <2>2. y \in Int /\ b \in Int /\ y > a /\ y <= b
    BY <2>0, <1>1
  <2> HIDE DEF b, y
  <2> QED
    BY <2>1, <2>2, <1>3
<1> QED
  BY <1>5, <1>6, <1>7, <1>8

\* How many pages the whole blocks take.
LEMMA InitSizes ==
  LET S == Size[MaxOrder]
      W == P!WholeBlocks
  IN  /\ S \in Nat /\ S > 0 /\ W \in Nat /\ FirstSingle \in Nat /\ FirstSingle <= NPages
      /\ W * S = FirstSingle /\ NPages % S \in Nat /\ NPages = FirstSingle + (NPages % S)
      /\ MaxOrder = 0 => FirstSingle = NPages
<1> DEFINE S == Size[MaxOrder]
           W == P!WholeBlocks
<1>1. S \in Nat /\ S > 0 /\ NPages \in Nat /\ (MaxOrder = 0 => S = 1)
  <2>1. MaxOrder \in Orders
    BY Sizes DEF Orders
  <2> QED
    BY <2>1, Sizes
<1>2. W = NPages \div S
  BY DEF P!WholeBlocks
<1> HIDE DEF S, W
<1>3. NPages \div S \in Nat /\ NPages % S \in Nat /\ NPages % S < S
      /\ NPages = (NPages \div S) * S + (NPages % S)
  BY <1>1
<1>4. W \in Nat /\ NPages = W * S + (NPages % S)
  BY <1>2, <1>3
<1>5. W * S \in Nat
  BY <1>1, <1>4
<1>6. FirstSingle = NPages - (NPages % S)
  BY DEF FirstSingle, S
<1> DEFINE R == NPages % S
           Z == FirstSingle
<1>7. R \in Nat /\ NPages = W * S + R /\ Z = NPages - R /\ R < S
  BY <1>3, <1>4, <1>6 DEF S
<1> HIDE DEF R, Z
<1>8. Z = W * S /\ Z \in Nat /\ Z <= NPages /\ NPages = Z + R /\ (MaxOrder = 0 => Z = NPages)
  BY <1>1, <1>5, <1>7
<1>9. W * S = FirstSingle
  BY <1>8 DEF Z
<1> QED
  BY <1>1, <1>4, <1>7, <1>8, <1>9 DEF R, S, W, Z

LEMMA InitLinks ==
  ASSUME Init, NEW o \in Orders, NEW a \in Nat, NEW b \in Int, InitLists(o) = a..b
  PROVE  Chained(links, HeadOf(o), a, b)
<1> DEFINE h == HeadOf(o)
<1>1. FirstSingle \in Nat /\ FirstSingle <= NPages /\ NPages \in Nat /\ MaxOrder \in Nat
  BY InitSizes, Sizes
<1>2. \A x \in Orders : InitLists(x) \subseteq Pages
  BY <1>1 DEF InitLists, Pages
<1>3. \A x \in Orders : HeadOf(x) \notin Pages /\ HeadOf(x) \in Nodes
                       /\ \A y \in Orders : HeadOf(x) = HeadOf(y) => x = y
  BY <1>1 DEF HeadOf, Pages, Orders, Nodes
<1>4. \A x, y \in Orders : x # y => InitLists(x) \cap InitLists(y) = {}
  BY <1>1 DEF InitLists, Orders
<1>5. ASSUME NEW n \in InitLists(o) \cup {h} PROVE InitList(n) = o
  <2>1. \A x \in Orders : n \in InitLists(x) \cup {HeadOf(x)} => x = o
    BY <1>2, <1>3, <1>4, <1>5
  <2> DEFINE w == CHOOSE x \in Orders : n \in InitLists(x) \cup {HeadOf(x)}
  <2>2. w \in Orders /\ n \in InitLists(w) \cup {HeadOf(w)}
    BY <1>5
  <2> HIDE DEF w
  <2>3. w = o
    BY <2>1, <2>2
  <2> QED
    BY <2>3 DEF w, InitList
<1>6. /\ links.next = [n \in Nodes |-> Up(InitLists(InitList(n)), HeadOf(InitList(n)), n)]
      /\ links.prev = [n \in Nodes |-> Down(InitLists(InitList(n)), HeadOf(InitList(n)), n)]
  BY DEF Init
<1>7. Pages \subseteq Nodes
  BY <1>1 DEF Pages, Nodes
<1>8. \A n \in InitLists(o) \cup {h} :
        links.next[n] = Up(a..b, h, n) /\ links.prev[n] = Down(a..b, h, n)
  BY <1>2, <1>3, <1>5, <1>6, <1>7
<1>9. h \notin a..b
  BY <1>2, <1>3
<1> HIDE DEF h
<1>10. /\ Up(a..b, h, h) = IF a <= b THEN a ELSE h
       /\ \A x \in a..b : Up(a..b, h, x) = IF x < b THEN x + 1 ELSE h
       /\ Down(a..b, h, h) = IF a <= b THEN b ELSE h
       /\ \A x \in a..b : Down(a..b, h, x) = IF x > a THEN x - 1 ELSE h
  <2>0. a \in Int
    OBVIOUS
  <2>1. /\ Up(a..b, h, h) = IF a <= b THEN a ELSE h
        /\ \A x \in a..b : Up(a..b, h, x) = IF x < b THEN x + 1 ELSE h
    BY <2>0, <1>9, UpFacts
  <2>2. /\ Down(a..b, h, h) = IF a <= b THEN b ELSE h
        /\ \A x \in a..b : Down(a..b, h, x) = IF x > a THEN x - 1 ELSE h
    BY <2>0, <1>9, DownFacts
  <2> QED
    BY <2>1, <2>2
<1>11. Chained(links, h, a, b)
  BY <1>8, <1>10 DEF Chained
<1> QED
  BY <1>11 DEF h

LEMMA InitRing ==
  ASSUME Init, NEW o \in Orders
  PROVE  Ring(links, P!InitFree(o), o)
<1> DEFINE S == Size[MaxOrder]
           W == P!WholeBlocks
           Z == FirstSingle
           R == NPages % S
           s == P!InitFree(o)
<1>1. /\ S \in Nat /\ S > 0 /\ W \in Nat /\ Z \in Nat /\ W * S = Z /\ R \in Nat
      /\ NPages = Z + R /\ (MaxOrder = 0 => Z = NPages)
  BY InitSizes
<1>2. CASE o = MaxOrder
  <2> DEFINE M == [k \in 0..W |-> k * S]
  <2>1. s = [i \in 1..W |-> (i - 1) * S]
    BY <1>2 DEF P!InitFree
  <2>2. Steps(M, W, S)
    <3>1. M[0] = 0 /\ 0 \in 0..W /\ W \in 0..W
      BY <1>1
    <3> HIDE DEF S, W
    <3>2. \A k \in 0..W : k * S \in Nat
      BY <1>1
    <3>3. \A k \in 0..(W - 1) : (k + 1) * S = k * S + S
      BY <1>1
    <3>4. ASSUME NEW k \in 0..W PROVE k * S <= W * S
      <4>1. W - k \in Nat /\ (W - k) * S \in Nat
        BY <1>1
      <4>2. W * S = k * S + (W - k) * S
        BY <1>1
      <4> QED
        BY <4>1, <4>2, <3>2, <1>1
    <3>5. \A k \in 0..(W - 1) : k \in 0..W /\ k + 1 \in 0..W /\ k * S + S <= W * S
      BY <3>3, <3>4, <1>1
    <3>6. \A k \in 0..W : M[k] = k * S
      OBVIOUS
    <3> HIDE DEF M
    <3> QED
      BY <3>1, <3>2, <3>3, <3>4, <3>5, <3>6, <1>1 DEF Steps
  <2>3. Len(s) = W /\ \A i \in 1..W : s[i] = 0 + M[i - 1]
    <3> HIDE DEF S, W, s
    <3>1. \A i \in 1..W : s[i] = (i - 1) * S /\ i - 1 \in 0..W /\ i - 1 \in Nat
      BY <2>1, <1>1
    <3>2. \A i \in 1..W : M[i - 1] = (i - 1) * S /\ (i - 1) * S \in Nat
      BY <3>1, <1>1
    <3>3. Len(s) = W
      BY <2>1, <1>1
    <3> HIDE DEF M
    <3> QED
      BY <3>1, <3>2, <3>3
  <2>4. M[W] = Z
    BY <1>1
  <2>5. InitLists(o) = 0..(0 + Z - 1)
    BY <1>1, <1>2 DEF InitLists
  <2>6. Chained(links, HeadOf(o), 0, 0 + Z - 1)
    BY <2>5, <1>1, InitLinks
  <2> HIDE DEF M, W, S, Z, s
  <2>7. Steps(M, W, Size[o]) /\ Chained(links, HeadOf(o), 0, 0 + M[W] - 1)
    BY <2>2, <2>4, <2>6, <1>2 DEF S
  <2> QED
    BY <2>3, <2>7, <1>1, ChainedRing DEF s
<1>3. CASE o # MaxOrder /\ o = 0
  <2> DEFINE M == [k \in 0..R |-> k]
  <2>1. s = [i \in 1..R |-> W * S + i - 1]
    BY <1>3 DEF P!InitFree
  <2>2. Steps(M, R, 1) /\ M[R] = R
    <3>1. \A k \in 0..R : M[k] = k
      OBVIOUS
    <3> HIDE DEF M, R, S, Z, W
    <3> QED
      BY <3>1, <1>1 DEF Steps
  <2>3. Len(s) = R /\ \A i \in 1..R : s[i] = Z + M[i - 1]
    <3> HIDE DEF S, W, R, Z, s
    <3> QED
      BY <2>1, <1>1
  <2>4. InitLists(o) = Z..(Z + R - 1)
    BY <1>1, <1>3 DEF InitLists
  <2>5. Chained(links, HeadOf(o), Z, Z + R - 1)
    BY <2>4, <1>1, InitLinks
  <2>6. Size[o] = 1
    BY <1>3, Sizes
  <2> HIDE DEF M, W, S, Z, R, s
  <2> QED
    BY <2>2, <2>3, <2>5, <2>6, <1>1, ChainedRing DEF s
<1>4. CASE o # MaxOrder /\ o # 0
  <2> DEFINE M == [k \in 0..0 |-> 0]
  <2>1. s = <<>>
    BY <1>4 DEF P!InitFree
  <2>2. Steps(M, 0, Size[o]) /\ M[0] = 0
    BY DEF Steps
  <2>3. InitLists(o) = 0..(0 + M[0] - 1)
    BY <1>4 DEF InitLists
  <2>4. Chained(links, HeadOf(o), 0, 0 + M[0] - 1)
    <3>1. 0 + M[0] - 1 \in Int
      BY <2>2
    <3> HIDE DEF M, s
    <3> QED
      BY <3>1, <2>3, InitLinks
  <2>5. Len(s) = 0 /\ \A i \in 1..0 : s[i] = 0 + M[i - 1]
    BY <2>1
  <2> HIDE DEF M, s
  <2> QED
    BY <2>2, <2>4, <2>5, ChainedRing DEF s
<1> QED
  BY <1>2, <1>3, <1>4

LEMMA InitHolds ==
  ASSUME Init
  PROVE  P!Init /\ LInv
<1> DEFINE S == Size[MaxOrder]
           W == P!WholeBlocks
           Z == FirstSingle
           f == [p \in Pages |-> P!InitOrder(p)]
           t == [o \in Orders |-> P!InitFree(o)]
<1>1. /\ S \in Nat /\ S > 0 /\ W \in Nat /\ Z \in Nat /\ W * S = Z /\ Z <= NPages
      /\ NPages \in Nat /\ MaxOrder \in Orders /\ 0 \in Orders
  BY InitSizes, Sizes DEF Orders
<1>2. /\ order = [p \in Pages |-> IF p >= Z THEN 0 ELSE IF p % S = 0 THEN MaxOrder ELSE -1]
      /\ busy = [p \in Pages |-> FALSE] /\ dirty = {} /\ held = [p \in Pages |-> NotHeld]
      /\ ret = NULL /\ pc = "idle" /\ cur = 0 /\ ord = 0 /\ want = 0
  BY DEF Init
<1>3. \A p \in Pages : P!InitOrder(p) = order[p]
  BY <1>1, <1>2 DEF P!InitOrder, P!InMaxBlocks, Pages
<1>4. BlockOrder = f
  BY <1>2, <1>3 DEF BlockOrder
<1>5. Tiled(f)
  <2>1. P!Tiling([p \in P!Pages |-> P!InitOrder(p)])
    BY P!InitTiling, GeometryAssumption, QuietIsDesc DEF P!Pages
  <2> QED
    BY <2>1, SameHeap DEF P!Tiling, Tiled
<1>6. ASSUME NEW o \in Orders PROVE Placed(f, t[o], o)
  <2>1. /\ P!InitFree(o) \in Seq(P!Pages) /\ P!Distinct(P!InitFree(o))
        /\ P!Members(P!InitFree(o)) = {p \in P!Pages : P!InitOrder(p) = o}
    BY P!InitLists, GeometryAssumption, QuietIsDesc, SameHeap DEF P!Pages, P!Orders, Orders
  <2> QED
    BY <2>1, SameHeap DEF P!Distinct, P!Members, Placed
<1>7. \A o \in Orders : Ring(links, t[o], o)
  BY InitRing
<1>8. xFree = t
  <2>1. \A o \in Orders : FirstPages(o) = FirstOf(links, o)
    BY DEF FirstPages, FirstOf
  <2>2. \A o \in Orders : FirstOf(links, o) = t[o]
    <3> HIDE DEF f, t
    <3> QED
      BY <1>5, <1>6, <1>7, FirstOfRing
  <2>3. xFree = [o \in Orders |-> FirstPages(o)]
    BY DEF xFree
  <2> QED
    BY <2>1, <2>2, <2>3
<1>9. Rings
  BY <1>7, <1>8 DEF Rings
<1>10. ASSUME NEW o \in Orders
       PROVE  \E a \in Nat, b \in Int :
                InitLists(o) = a..b /\ a..b \subseteq Pages /\ Chained(links, HeadOf(o), a, b)
  <2>1. CASE o = MaxOrder
    <3>1. InitLists(o) = 0..(Z - 1) /\ 0 \in Nat /\ Z - 1 \in Int
      BY <2>1, <1>1 DEF InitLists
    <3> HIDE DEF Z
    <3> QED
      BY <3>1, <1>1, InitLinks DEF Pages
  <2>2. CASE o # MaxOrder /\ o = 0
    <3>1. InitLists(o) = Z..(NPages - 1) /\ NPages - 1 \in Int
      BY <2>2, <1>1 DEF InitLists
    <3> HIDE DEF Z
    <3> QED
      BY <3>1, <1>1, InitLinks DEF Pages
  <2>3. CASE o # MaxOrder /\ o # 0
    <3>1. InitLists(o) = 0..(-1) /\ 0 \in Nat /\ -1 \in Int
      BY <2>3 DEF InitLists
    <3> QED
      BY <3>1, InitLinks
  <2> QED
    BY <2>1, <2>2, <2>3
<1>11. Pages \subseteq Nodes /\ \A o \in Orders : HeadOf(o) \in Nodes
  BY <1>1 DEF Pages, Nodes, Orders, HeadOf
<1>12. LinkTypes(links)
  <2>1. /\ links = [next |-> links.next, prev |-> links.prev]
        /\ links.next = [n \in Nodes |-> links.next[n]]
        /\ links.prev = [n \in Nodes |-> links.prev[n]]
    BY DEF Init
  <2>2. ASSUME NEW n \in Nodes PROVE links.next[n] \in Nodes /\ links.prev[n] \in Nodes
    <3>1. \E o \in Orders : n \in InitLists(o) \cup {HeadOf(o)}
      <4>1. CASE n >= NPages
        <5>1. n - NPages \in Orders /\ n = HeadOf(n - NPages)
          BY <4>1, <1>1 DEF Nodes, Orders, HeadOf
        <5> QED
          BY <5>1
      <4>2. CASE n < Z
        <5>1. n \in InitLists(MaxOrder)
          BY <4>2, <1>1 DEF InitLists, Nodes
        <5> QED
          BY <5>1, <1>1
      <4>3. CASE Z <= n /\ n < NPages
        <5>1. MaxOrder # 0
          <6>1. MaxOrder = 0 => Z = NPages
            BY InitSizes
          <6> HIDE DEF Z
          <6> QED
            BY <6>1, <4>3, <1>1 DEF Nodes
        <5>2. n \in InitLists(0)
          BY <5>1, <4>3, <1>1 DEF InitLists, Nodes
        <5> QED
          BY <5>2, <1>1
      <4> QED
        BY <4>1, <4>2, <4>3, <1>1 DEF Nodes
    <3>2. PICK o \in Orders : n \in InitLists(o) \cup {HeadOf(o)}
      BY <3>1
    <3>3. PICK a \in Nat, b \in Int :
            InitLists(o) = a..b /\ a..b \subseteq Pages /\ Chained(links, HeadOf(o), a, b)
      BY <1>10
    <3> DEFINE h == HeadOf(o)
    <3>4. /\ links.next[h] = IF a <= b THEN a ELSE h
          /\ links.prev[h] = IF a <= b THEN b ELSE h
          /\ \A x \in a..b : /\ links.next[x] = IF x < b THEN x + 1 ELSE h
                             /\ links.prev[x] = IF x > a THEN x - 1 ELSE h
      BY <3>3 DEF Chained
    <3>5. h \in Nodes /\ a..b \subseteq Nodes
      BY <1>11, <3>3
    <3> HIDE DEF h
    <3>6. CASE n = h
      <4>1. a <= b => a \in Nodes /\ b \in Nodes
        BY <3>5
      <4> QED
        BY <4>1, <3>4, <3>5, <3>6
    <3>7. CASE n \in a..b
      <4>1. n < b => n + 1 \in a..b
        BY <3>7
      <4>2. n > a => n - 1 \in a..b
        BY <3>7
      <4> QED
        BY <4>1, <4>2, <3>4, <3>5, <3>7
    <3> QED
      BY <3>2, <3>3, <3>6, <3>7 DEF h
  <2>3. links.next \in [Nodes -> Nodes \cup {NULL}] /\ links.prev \in [Nodes -> Nodes]
    BY <2>1, <2>2
  <2> QED
    BY <2>1, <2>3 DEF LinkTypes
<1>13. Inner(links, f)
  <2> SUFFICES ASSUME NEW p \in Pages, f[p] # -1, NEW i \in (p + 1)..(p + Size[f[p]] - 1)
               PROVE  links.next[i - 1] = i /\ links.prev[i] = i - 1
    BY DEF Inner
  <2>1. f[p] = IF p >= Z THEN 0 ELSE IF p % S = 0 THEN MaxOrder ELSE -1
    BY <1>2, <1>3
  <2>2. p \in Nat /\ Size[0] = 1
    BY Sizes DEF Pages
  <2>3. p < Z /\ f[p] = MaxOrder
    BY <2>1, <2>2, <1>1
  <2>4. p + S <= Z
    <3>1. p + S <= NPages
      BY <1>5, <2>3 DEF Tiled
    <3>2. CASE Z = NPages
      BY <3>1, <3>2
    <3>3. CASE Z # NPages
      <4>1. Z \in Pages
        BY <3>3, <1>1 DEF Pages
      <4>2. f[Z] = 0
        BY <4>1, <1>1, <1>2, <1>3
      <4>3. f[p] # -1 /\ f[Z] # -1 /\ p < Z
        BY <4>2, <2>3
      <4> HIDE DEF Z, f
      <4>4. p + Size[f[p]] <= Z
        BY <4>1, <4>3, <1>5 DEF Tiled
      <4> QED
        BY <4>4, <2>3
    <3> QED
      BY <3>2, <3>3
  <2>5. i \in 1..(Z - 1) /\ i - 1 \in 0..(Z - 1) /\ i \in 0..(Z - 1) /\ i - 1 < Z - 1 /\ i > 0
        /\ (i - 1) + 1 = i
    <3> HIDE DEF Z, f
    <3> QED
      BY <2>2, <2>3, <2>4, <1>1
  <2>6. Chained(links, HeadOf(MaxOrder), 0, Z - 1)
    <3>1. InitLists(MaxOrder) = 0..(Z - 1) /\ 0 \in Nat /\ Z - 1 \in Int
      BY <1>1 DEF InitLists
    <3> HIDE DEF Z
    <3> QED
      BY <3>1, <1>1, InitLinks
  <2> HIDE DEF Z
  <2> QED
    BY <2>5, <2>6 DEF Chained
<1>14. AnswerHeld
  <2>1. NULL \notin [asked : Orders, page : Pages]
    BY GeometryAssumption DEF Orders, Pages
  <2> QED
    BY <2>1, <1>2 DEF AnswerHeld
<1>15. order \in [Pages -> Orders \cup {-1}] /\ busy \in [Pages -> BOOLEAN]
  <2>1. busy \in [Pages -> BOOLEAN]
    BY <1>2
  <2>2. f \in [Pages -> Orders \cup {-1}] /\ order = f
    BY <1>2, <1>3, <1>5 DEF Tiled
  <2> QED
    BY <2>1, <2>2
<1>16. P!Init
  <2> DEFINE out == [d \in P!Beyond |-> Quiet]
  <2>1. out \in [P!Beyond -> {Quiet}]
    OBVIOUS
  <2>2. xFree = [o \in P!Orders |-> P!InitFree(o)]
    BY <1>8, SameHeap
  <2>3. Pages \subseteq Descs
    BY FieldsWritten
  <2>4. \A d \in P!Descs : d \notin P!Pages => out[d] = Quiet
    BY DEF P!Beyond
  <2> HIDE DEF out
  <2>5. xOrder = [d \in P!Descs |-> IF d \in P!Pages THEN P!InitOrder(d) ELSE out[d].order]
    BY <2>4, <1>3, SameHeap DEF xOrder
  <2>6. xBusy = [d \in P!Descs |-> IF d \in P!Pages THEN FALSE ELSE out[d].busy]
    BY <2>4, <1>2, SameHeap DEF xBusy
  <2>7. held = [p \in P!Pages |-> P!NotHeld]
    BY <1>2, SameHeap
  <2> QED
    BY <2>1, <2>2, <2>5, <2>6, <2>7, <1>2 DEF P!Init
<1>17. P!IInv
  BY <1>16, QuietApart, P!InitInv, GeometryAssumption, QuietIsDesc DEF P!Pages, P!Orders
<1> QED
  BY <1>4, <1>9, <1>12, <1>13, <1>14, <1>15, <1>16, <1>17 DEF LInv

\* Every step is one of Buddy's, or leaves its variables alone.
LEMMA StepImplements ==
  ASSUME LInv, [Next]_vars
  PROVE  [P!Next]_(P!vars) /\ LinksInv'
<1>1. ASSUME NEW o \in Orders, GetStart(o) PROVE P!Next /\ LinksInv'
  <2>1. P!GetStart(o) /\ LinksInv'
    BY <1>1, GetStartStep
  <2> QED
    BY <2>1, SameHeap DEF P!Next
<1>2. ASSUME NEW o \in Orders, GetFail(o) PROVE P!Next /\ LinksInv'
  <2>1. P!GetFail(o) /\ LinksInv'
    BY <1>2, GetFailStep
  <2> QED
    BY <2>1, SameHeap DEF P!Next
<1>3. ASSUME NEW p \in Pages, PutStart(p) PROVE P!Next /\ LinksInv'
  <2>1. P!PutStart(p) /\ LinksInv'
    BY <1>3, PutStartStep
  <2> QED
    BY <2>1, SameHeap DEF P!Next
<1>4. ASSUME NEW p \in Pages, NEW o \in Orders, PutRefused(p, o) PROVE P!Next /\ LinksInv'
  <2>1. P!PutRefused(p, o) /\ LinksInv'
    BY <1>4, PutRefusedStep
  <2> QED
    BY <2>1, SameHeap DEF P!Next
<1>5. ASSUME NEW q \in Pages, Chain(q) PROVE UNCHANGED P!vars /\ LinksInv'
  BY <1>5, ChainStep
<1>6. CASE Split
  BY <1>6, SplitStep DEF P!Next
<1>7. CASE GetDone
  BY <1>7, GetDoneStep DEF P!Next
<1>8. CASE MergeNext
  BY <1>8, MergeNextStep DEF P!Next
<1>9. CASE MergePrev
  BY <1>9, MergePrevStep DEF P!Next
<1>10. CASE PutDone
  <2>1. pc = "merge" /\ ~CanMergeNext /\ ~CanMergePrev
    BY <1>10 DEF PutDone
  <2>2. ~P!CanMergeNext /\ ~P!CanMergePrev
    BY <2>1, SameNeighbours
  <2> QED
    BY <2>2, <1>10, PutDoneStep DEF P!Next
<1>11. CASE UNCHANGED vars
  <2>1. UNCHANGED <<links, order, busy, dirty, held, ret, pc, cur, ord, want>>
    BY <1>11 DEF vars
  <2>2. xFree' = xFree /\ Rings' /\ LinkTypes(links)' /\ xOrder' = xOrder /\ xBusy' = xBusy
    BY <2>1, LinksStay, FieldsStay DEF LInv
  <2>3. BlockOrder' = BlockOrder
    BY <2>1 DEF BlockOrder
  <2>4. Inner(links, BlockOrder)' /\ AnswerHeld'
    BY <2>1, <2>3 DEF LInv, Inner, AnswerHeld
  <2> QED
    BY <2>1, <2>2, <2>4 DEF LinksInv, LInv, P!vars
<1> QED
  BY <1>1, <1>2, <1>3, <1>4, <1>5, <1>6, <1>7, <1>8, <1>9, <1>10, <1>11 DEF Next

LEMMA LInvNext == LInv /\ [Next]_vars => LInv'
<1> SUFFICES ASSUME LInv, [Next]_vars
             PROVE  LInv'
  OBVIOUS
<1>1. [P!Next]_(P!vars) /\ LinksInv'
  BY StepImplements
<1>2. P!IInv'
  BY <1>1, P!NextInv, GeometryAssumption, QuietIsDesc DEF LInv, P!Pages, P!Orders
<1> QED
  BY <1>1, <1>2 DEF LInv, LinksInv

-----------------------------------------------------------------------------
(* The theorems. *)

\* The inductive invariant holds throughout: the rings are the lists of Buddy,
\* whose invariant holds of them, and inside the blocks every page leads to the next.
THEOREM Invariance == Spec => []LInv
<1>1. Init => LInv
  BY InitHolds
<1> QED
  BY <1>1, LInvNext, PTL DEF Spec

\* The variables have their types: the links lead to nodes of the lists or, where an
\* object cache wrote, to a page or NULL.
THEOREM TypesHold == Spec => []TypeOK
<1>1. ASSUME LInv PROVE TypeOK
  <2>1. /\ dirty \subseteq Pages /\ held \in [Pages -> Orders \cup {NotHeld}] /\ ret \in Answers
        /\ pc \in {"idle", "split", "merge"} /\ cur \in Pages /\ ord \in Orders
        /\ want \in Orders
    BY <1>1, Known DEF LInv
  <2> QED
    BY <2>1, <1>1 DEF LInv, LinkTypes, TypeOK
<1> QED
  BY <1>1, Invariance, PTL

\* Every free list is one ring, page by page through each of its blocks, upwards, and
\* on to the next block or back to the head, and prev always leads back.
THEOREM RingsStayWhole == Spec => []RingsWhole
<1>1. ASSUME LInv PROVE RingsWhole
  <2> SUFFICES ASSUME NEW o \in Orders
               PROVE  LET first == FirstPages(o)
                          inside == UNION {Block(first[k], o) : k \in DOMAIN first}
                      IN  /\ \A n \in inside \cup {HeadOf(o)} :
                               /\ links.next[n] \in inside \cup {HeadOf(o)}
                               /\ links.prev[links.next[n]] = n
                          /\ \A k \in DOMAIN first : \A i \in Block(first[k], o) \ {first[k]} :
                               links.next[i - 1] = i
    BY DEF RingsWhole
  <2> DEFINE s == FirstPages(o)
             f == BlockOrder
             h == HeadOf(o)
             inside == UNION {Block(s[k], o) : k \in DOMAIN s}
  <2>1. /\ Tiled(f) /\ Placed(f, s, o) /\ Ring(links, s, o) /\ Inner(links, f)
        /\ \A k \in 1..Len(s) : f[s[k]] = o
    <3>1. xFree[o] = s
      BY DEF xFree
    <3> HIDE DEF s, f
    <3>2. Tiled(BlockOrder) /\ Placed(BlockOrder, s, o) /\ Ring(links, s, o)
          /\ Inner(links, BlockOrder)
      BY <1>1, <3>1, Known DEF LInv, Rings
    <3> QED
      BY <3>2 DEF Placed, f
  <2> HIDE DEF s, f
  <2>2. /\ Len(s) \in Nat /\ DOMAIN s = 1..Len(s)
        /\ \A k \in 1..Len(s) : s[k] \in Pages /\ s[k] \in Nat
        /\ Size[o] \in Nat /\ Size[o] >= 1 /\ o # -1
    <3>1. s \in Seq(Pages)
      BY <2>1 DEF Placed
    <3>2. DOMAIN s = 1..Len(s) /\ Len(s) \in Nat /\ \A k \in 1..Len(s) : s[k] \in Pages
      BY <3>1
    <3> QED
      BY <3>2, Sizes DEF Pages, Orders
  <2>3. \A k \in 1..Len(s) : Block(s[k], o) \subseteq inside /\ s[k] \in Block(s[k], o)
    BY <2>2 DEF Block
  <2>4. ASSUME NEW k \in 1..Len(s), NEW n \in Block(s[k], o), n # BlockEnd(s[k], o)
        PROVE  /\ n + 1 \in Block(s[k], o) /\ links.next[n] = n + 1 /\ links.prev[n + 1] = n
    <3>1. /\ n + 1 \in (s[k] + 1)..(s[k] + Size[o] - 1) /\ (n + 1) - 1 = n
          /\ n + 1 \in s[k]..(s[k] + Size[o] - 1)
      <4>1. s[k] \in Nat /\ Size[o] \in Nat
        BY <2>2
      <4>2. n \in s[k]..(s[k] + Size[o] - 1) /\ n # s[k] + Size[o] - 1
        BY <2>4 DEF Block, BlockEnd
      <4> QED
        BY <4>1, <4>2
    <3>2. s[k] \in Pages /\ f[s[k]] = o /\ f[s[k]] # -1
      BY <2>1, <2>2
    <3>3. links.next[(n + 1) - 1] = n + 1 /\ links.prev[n + 1] = (n + 1) - 1
      BY <3>1, <3>2, <2>1 DEF Inner
    <3> QED
      BY <3>1, <3>3 DEF Block
  <2>5. ASSUME NEW k \in 0..Len(s)
        PROVE  /\ links.next[Out(s, o, k)] = In(s, o, k + 1)
               /\ links.prev[In(s, o, k + 1)] = Out(s, o, k)
               /\ In(s, o, k + 1) \in inside \cup {h}
    <3>1. links.next[Out(s, o, k)] = In(s, o, k + 1) /\ links.prev[In(s, o, k + 1)] = Out(s, o, k)
      BY <2>1 DEF Ring
    <3>2. k + 1 = Len(s) + 1 \/ k + 1 \in 1..Len(s)
      BY <2>2
    <3>3. In(s, o, k + 1) \in inside \cup {h}
      <4> HIDE DEF inside
      <4> QED
        BY <3>2, <2>3 DEF In
    <3> QED
      BY <3>1, <3>3
  <2>6. ASSUME NEW n \in inside \cup {h}
        PROVE  links.next[n] \in inside \cup {h} /\ links.prev[links.next[n]] = n
    <3>1. CASE n = h
      <4>1. 0 \in 0..Len(s) /\ Out(s, o, 0) = h
        BY <2>2 DEF Out
      <4> HIDE DEF inside, h
      <4> QED
        BY <4>1, <3>1, <2>5
    <3>2. CASE n \in inside
      <4>1. PICK k \in 1..Len(s) : n \in Block(s[k], o)
        BY <3>2, <2>2
      <4>2. CASE n = BlockEnd(s[k], o)
        <5>1. k \in 0..Len(s) /\ Out(s, o, k) = n
          BY <4>2, <2>2 DEF Out
        <5> HIDE DEF inside, h
        <5> QED
          BY <5>1, <2>5
      <4>3. CASE n # BlockEnd(s[k], o)
        <5>1. n + 1 \in Block(s[k], o) /\ links.next[n] = n + 1 /\ links.prev[n + 1] = n
          BY <4>1, <4>3, <2>4
        <5> QED
          BY <5>1, <2>3
      <4> QED
        BY <4>2, <4>3
    <3> QED
      BY <3>1, <3>2
  <2>7. ASSUME NEW k \in DOMAIN s, NEW i \in Block(s[k], o) \ {s[k]}
        PROVE  links.next[i - 1] = i
    <3>1. k \in 1..Len(s)
      BY <2>2
    <3>2. /\ i - 1 \in Block(s[k], o) /\ i - 1 # BlockEnd(s[k], o) /\ (i - 1) + 1 = i
      BY <3>1, <2>2 DEF Block, BlockEnd
    <3>3. links.next[i - 1] = (i - 1) + 1
      BY <3>1, <3>2, <2>4
    <3> QED
      BY <3>2, <3>3
  <2> QED
    BY <2>6, <2>7 DEF s
<1> QED
  BY <1>1, Invariance, PTL

\* BuddyProof's instance and the one of ImplementsBuddy are the same Buddy.
LEMMA SameBuddy ==
  /\ P!Init => Lists!Init
  /\ [P!Next]_(P!vars) => [Lists!Next]_(Lists!vars)
<1>1. P!Pages = Lists!Pages /\ P!Orders = Lists!Orders /\ P!NotHeld = Lists!NotHeld
  BY DEF P!Pages, Lists!Pages, P!Orders, Lists!Orders, P!NotHeld, Lists!NotHeld
<1>2. P!Init => Lists!Init
  BY DEF P!Init, Lists!Init, P!InitOrder, Lists!InitOrder, P!InitFree, Lists!InitFree,
     P!Pages, Lists!Pages, P!Orders, Lists!Orders, P!NotHeld, Lists!NotHeld, P!Descs,
     Lists!Descs, P!Beyond, Lists!Beyond, P!WholeBlocks, Lists!WholeBlocks, P!InMaxBlocks,
     Lists!InMaxBlocks
<1>3. /\ \A p, o : P!Block(p, o) = Lists!Block(p, o)
      /\ \A s, p : P!Without(s, p) = Lists!Without(s, p)
  BY DEF P!Block, Lists!Block, P!Without, Lists!Without
<1>4. \A o : P!GetStart(o) => Lists!GetStart(o)
  BY DEF P!GetStart, Lists!GetStart
<1>5. \A o : P!GetFail(o) => Lists!GetFail(o)
  BY DEF P!GetFail, Lists!GetFail
<1>6. \A p : P!PutStart(p) => Lists!PutStart(p)
  BY <1>1, <1>3 DEF P!PutStart, Lists!PutStart
<1>7. \A p, o : P!PutRefused(p, o) => Lists!PutRefused(p, o)
  BY <1>1, <1>3 DEF P!PutRefused, Lists!PutRefused
<1>8. P!Split => Lists!Split
  BY DEF P!Split, Lists!Split
<1>9. P!GetDone => Lists!GetDone
  BY <1>1, <1>3 DEF P!GetDone, Lists!GetDone
<1>10. /\ P!NextBuddy = Lists!NextBuddy /\ P!PrevBuddy = Lists!PrevBuddy
       /\ (P!CanMergeNext <=> Lists!CanMergeNext)
       /\ (P!CanMergePrev <=> Lists!CanMergePrev)
  BY DEF P!NextBuddy, Lists!NextBuddy, P!PrevBuddy, Lists!PrevBuddy, P!CanMergeNext,
     Lists!CanMergeNext, P!CanMergePrev, Lists!CanMergePrev, P!LooksFree, Lists!LooksFree
<1>11. P!MergeNext => Lists!MergeNext
  BY <1>3, <1>10 DEF P!MergeNext, Lists!MergeNext
<1>12. P!MergePrev => Lists!MergePrev
  BY <1>3, <1>10 DEF P!MergePrev, Lists!MergePrev
<1>13. P!PutDone => Lists!PutDone
  BY <1>10 DEF P!PutDone, Lists!PutDone
<1>14. UNCHANGED P!vars => UNCHANGED Lists!vars
  BY DEF P!vars, Lists!vars
<1> QED
  BY <1>1, <1>2, <1>4, <1>5, <1>6, <1>7, <1>8, <1>9, <1>11, <1>12, <1>13, <1>14
  DEF P!Next, Lists!Next

\* No block is lost behind a wrong link, whatever is split and merged and whatever the
\* object caches left in the links of the blocks they give back: the pointers
\* implement the lists of Buddy, step by step.
THEOREM Refinement == Spec => ImplementsBuddy
<1>1. Init => Lists!Init
  <2> SUFFICES ASSUME Init PROVE Lists!Init
    OBVIOUS
  <2>1. P!Init
    BY InitHolds
  <2> QED
    BY <2>1, SameBuddy
<1>2. LInv /\ [Next]_vars => [Lists!Next]_(Lists!vars)
  <2> SUFFICES ASSUME LInv, [Next]_vars PROVE [Lists!Next]_(Lists!vars)
    OBVIOUS
  <2>1. [P!Next]_(P!vars)
    BY StepImplements
  <2> QED
    BY <2>1, SameBuddy
<1> QED
  BY <1>1, <1>2, Invariance, PTL DEF Spec, ImplementsBuddy, Lists!Spec
=============================================================================
