----------------------------- MODULE BuddyProof -----------------------------
(***************************************************************************)
(* Proofs about Buddy, for every size of the heap and every largest order. *)
(*                                                                         *)
(* They assume that the memory around the array of page structures never   *)
(* passes for a free block (QuietOutside); the code does not check, and    *)
(* the run buddy_outside shows what happens without the assumption.        *)
(*                                                                         *)
(* The core of the inductive invariant is Tiling: the map from pages to    *)
(* the order of the block that starts there cuts the heap into intervals   *)
(* that leave no gap.  Only Split and the two merges change this map.      *)
(***************************************************************************)
EXTENDS Buddy, TLAPS

\* The order of the block that starts at page p, -1 if none does: the order
\* field, except for the block in hand, whose field is only written later.
BlockOrder ==
  [p \in Pages |-> IF pc # "idle" /\ p = cur THEN ord ELSE order[p]]

\* f cuts the pages into blocks that do not overlap and leave no page out.
Tiling(f) ==
  /\ f \in [Pages -> Orders \cup {-1}]
  /\ \A p \in Pages : f[p] # -1 => p + Size[f[p]] <= NPages
  /\ \A p, q \in Pages : f[p] # -1 /\ f[q] # -1 /\ p < q => p + Size[f[p]] <= q
  /\ \A i \in Pages : \E p \in Pages : f[p] # -1 /\ p <= i /\ i < p + Size[f[p]]

LEMMA SizeFacts ==
  /\ NPages \in Nat /\ NPages > 0
  /\ MaxOrder \in Nat
  /\ \A o \in Orders : Size[o] \in Nat /\ Size[o] >= 1 /\ Size[o] <= Size[MaxOrder]
  /\ Size[0] = 1
  /\ \A o \in Orders : o < MaxOrder => o + 1 \in Orders /\ Size[o + 1] = 2 * Size[o]
BY GeometryAssumption DEF Orders

\* Cutting a block in two halves keeps the tiling.
LEMMA SplitTiling ==
  ASSUME NEW f, Tiling(f), NEW c \in Pages, NEW o \in Orders,
         o < MaxOrder, f[c] = o + 1
  PROVE  /\ c + Size[o] \in Pages
         /\ f[c + Size[o]] = -1
         /\ Tiling([f EXCEPT ![c] = o, ![c + Size[o]] = o])
<1> DEFINE h == c + Size[o]
           g == [f EXCEPT ![c] = o, ![h] = o]
<1>1. Size[o] \in Nat /\ Size[o] >= 1 /\ Size[f[c]] = 2 * Size[o]
  BY SizeFacts
<1>2. f[c] # -1 /\ o # -1
  BY DEF Orders
<1>3. /\ c \in Int /\ c >= 0 /\ h \in Int /\ h = c + Size[o]
      /\ c + 2 * Size[o] <= NPages /\ h \in Pages /\ h > c
  <2>1. c + Size[f[c]] <= NPages
    BY <1>2 DEF Tiling
  <2> QED
    BY <2>1, <1>1, SizeFacts DEF Pages
<1>4. f[h] = -1
  <2>1. f[h] # -1 => c + Size[f[c]] <= h
    BY <1>2, <1>3 DEF Tiling
  <2> QED
    BY <2>1, <1>1, <1>3
<1>5. g \in [Pages -> Orders \cup {-1}]
  BY <1>3 DEF Tiling
<1>6. g[c] = o /\ g[h] = o /\ \A p \in Pages : p # c /\ p # h => g[p] = f[p]
  BY <1>3 DEF Tiling
<1> HIDE DEF g, h
<1>7. \A p, q \in Pages : f[p] # -1 => Size[f[p]] \in Nat /\ p \in Int /\ q \in Int
  <2>1. \A p \in Pages : f[p] # -1 => f[p] \in Orders
    BY DEF Tiling
  <2> QED
    BY <2>1, SizeFacts DEF Pages
<1>8. ASSUME NEW p \in Pages, g[p] # -1
      PROVE  p + Size[g[p]] <= NPages
  <2>1. CASE p = c \/ p = h
    BY <2>1, <1>1, <1>3, <1>6, SizeFacts
  <2>2. CASE p # c /\ p # h
    BY <2>2, <1>6, <1>8 DEF Tiling
  <2> QED
    BY <2>1, <2>2
<1>9. ASSUME NEW p \in Pages, NEW q \in Pages, g[p] # -1, g[q] # -1, p < q
      PROVE  p + Size[g[p]] <= q
  <2>1. CASE p # c /\ p # h /\ q # h
    BY <2>1, <1>2, <1>6, <1>9 DEF Tiling
  <2>2. CASE p # c /\ p # h /\ q = h
    <3>1. g[p] = f[p] /\ f[p] # -1
      BY <2>2, <1>6, <1>9
    <3>2. p < c
      <4>1. c < p => c + Size[f[c]] <= p
        BY <3>1, <1>2 DEF Tiling
      <4> QED
        BY <4>1, <2>2, <1>1, <1>3, <1>7, <1>9
    <3>3. p + Size[f[p]] <= c
      BY <3>1, <3>2, <1>2 DEF Tiling
    <3> QED
      BY <3>1, <3>3, <2>2, <1>3, <1>7
  <2>3. CASE (p = c \/ p = h) /\ q # h
    <3>1. q # c /\ f[q] # -1 /\ c < q
      BY <2>3, <1>3, <1>6, <1>7, <1>9, <1>2
    <3>2. c + Size[f[c]] <= q
      BY <3>1, <1>2 DEF Tiling
    <3> QED
      BY <3>2, <2>3, <1>1, <1>3, <1>6, <1>7, <1>2
  <2>4. CASE (p = c \/ p = h) /\ q = h
    BY <2>4, <1>3, <1>6, <1>9
  <2> QED
    BY <2>1, <2>2, <2>3, <2>4
<1>10. ASSUME NEW i \in Pages
       PROVE  \E p \in Pages : g[p] # -1 /\ p <= i /\ i < p + Size[g[p]]
  <2>1. PICK p \in Pages : f[p] # -1 /\ p <= i /\ i < p + Size[f[p]]
    BY DEF Tiling
  <2>2. CASE p # c
    BY <2>1, <2>2, <1>4, <1>6
  <2>3. CASE p = c /\ i < h
    BY <2>1, <2>3, <1>2, <1>3, <1>6
  <2>4. CASE p = c /\ ~(i < h)
    BY <2>1, <2>4, <1>1, <1>2, <1>3, <1>6, <1>7
  <2> QED
    BY <2>2, <2>3, <2>4
<1> QED
  BY <1>3, <1>4, <1>5, <1>8, <1>9, <1>10 DEF Tiling, g, h

\* Joining two neighbours of one order keeps the tiling, aligned or not.
LEMMA MergeTiling ==
  ASSUME NEW f, Tiling(f), NEW c \in Pages, NEW o \in Orders, o < MaxOrder,
         c + Size[o] \in Pages, f[c] = o, f[c + Size[o]] = o
  PROVE  Tiling([f EXCEPT ![c] = o + 1, ![c + Size[o]] = -1])
<1> DEFINE h == c + Size[o]
           g == [f EXCEPT ![c] = o + 1, ![h] = -1]
<1>1. /\ Size[o] \in Nat /\ Size[o] >= 1 /\ o + 1 \in Orders
      /\ Size[o + 1] = 2 * Size[o] /\ o # -1 /\ o + 1 # -1
  BY SizeFacts DEF Orders
<1>2. c \in Int /\ h \in Int /\ h = c + Size[o] /\ h \in Pages /\ h > c /\ f[h] = o
  BY <1>1 DEF Pages
<1>3. g \in [Pages -> Orders \cup {-1}]
  BY <1>1, <1>2 DEF Tiling
<1>4. g[c] = o + 1 /\ g[h] = -1 /\ \A p \in Pages : p # c /\ p # h => g[p] = f[p]
  BY <1>2 DEF Tiling
<1> HIDE DEF g, h
<1>5. \A p, q \in Pages : f[p] # -1 => Size[f[p]] \in Nat /\ p \in Int /\ q \in Int
  <2>1. \A p \in Pages : f[p] # -1 => f[p] \in Orders
    BY DEF Tiling
  <2> QED
    BY <2>1, SizeFacts DEF Pages
<1>6. h + Size[o] <= NPages
  BY <1>1, <1>2 DEF Tiling
<1>7. ASSUME NEW p \in Pages, g[p] # -1
      PROVE  p + Size[g[p]] <= NPages
  <2>1. CASE p = c
    BY <2>1, <1>1, <1>2, <1>4, <1>6, SizeFacts
  <2>2. CASE p # c
    BY <2>2, <1>4, <1>7 DEF Tiling
  <2> QED
    BY <2>1, <2>2
<1>8. ASSUME NEW p \in Pages, NEW q \in Pages, g[p] # -1, g[q] # -1, p < q
      PROVE  p + Size[g[p]] <= q
  <2>1. p # h /\ q # h
    BY <1>4, <1>8
  <2>2. CASE p = c
    <3>1. f[q] # -1 /\ f[c] # -1 /\ f[h] # -1
      BY <2>1, <2>2, <1>1, <1>2, <1>4, <1>8, <1>5
    <3>2. c + Size[f[c]] <= q
      BY <3>1, <2>2, <1>8 DEF Tiling
    <3>3. h < q
      BY <3>2, <2>1, <1>2, <1>5, <3>1
    <3>4. h + Size[f[h]] <= q
      BY <3>1, <3>3, <1>2 DEF Tiling
    <3> QED
      BY <3>4, <3>1, <2>2, <1>1, <1>2, <1>4, <1>5
  <2>3. CASE p # c
    BY <2>1, <2>3, <1>1, <1>4, <1>8 DEF Tiling
  <2> QED
    BY <2>2, <2>3
<1>9. ASSUME NEW i \in Pages
      PROVE  \E p \in Pages : g[p] # -1 /\ p <= i /\ i < p + Size[g[p]]
  <2>1. PICK p \in Pages : f[p] # -1 /\ p <= i /\ i < p + Size[f[p]]
    BY DEF Tiling
  <2>2. CASE p = c \/ p = h
    BY <2>1, <2>2, <1>1, <1>2, <1>4, <1>5
  <2>3. CASE p # c /\ p # h
    BY <2>1, <2>3, <1>4
  <2> QED
    BY <2>2, <2>3
<1> QED
  BY <1>3, <1>7, <1>8, <1>9 DEF Tiling, g, h

-----------------------------------------------------------------------------
(* The lists: what taking a block out or putting one in does to the blocks. *)

\* The members of a list, and that it holds none twice.
Members(s) == {s[j] : j \in 1..Len(s)}
Distinct(s) == \A i, j \in 1..Len(s) : s[i] = s[j] => i = j

LEMMA TailFacts ==
  ASSUME NEW s \in Seq(Pages), s # <<>>, Distinct(s)
  PROVE  /\ Head(s) \in Members(s)
         /\ Tail(s) \in Seq(Pages)
         /\ Distinct(Tail(s))
         /\ Members(Tail(s)) = Members(s) \ {Head(s)}
<1>1. /\ Len(s) \in Nat /\ Len(s) >= 1 /\ Head(s) = s[1]
      /\ Tail(s) \in Seq(Pages) /\ Len(Tail(s)) = Len(s) - 1
      /\ \A j \in 1..(Len(s) - 1) : Tail(s)[j] = s[j + 1]
  OBVIOUS
<1>2. Distinct(Tail(s))
  BY <1>1 DEF Distinct
<1>3. Members(Tail(s)) \subseteq Members(s) \ {Head(s)}
  BY <1>1 DEF Members, Distinct
<1>4. ASSUME NEW x \in Members(s) \ {Head(s)}
      PROVE  x \in Members(Tail(s))
  <2>1. PICK j \in 1..Len(s) : x = s[j]
    BY DEF Members
  <2>2. j - 1 \in 1..(Len(s) - 1) /\ Tail(s)[j - 1] = s[j]
    BY <2>1, <1>1
  <2> QED
    BY <2>1, <2>2, <1>1 DEF Members
<1>5. Head(s) \in Members(s)
  <2>1. 1 \in 1..Len(s)
    BY <1>1
  <2> QED
    BY <2>1, <1>1 DEF Members
<1>6. Members(Tail(s)) = Members(s) \ {Head(s)}
  BY <1>3, <1>4
<1> QED
  BY <1>1, <1>2, <1>5, <1>6

LEMMA AppendFacts ==
  ASSUME NEW s \in Seq(Pages), NEW p \in Pages, Distinct(s), p \notin Members(s)
  PROVE  /\ Append(s, p) \in Seq(Pages)
         /\ Distinct(Append(s, p))
         /\ Members(Append(s, p)) = Members(s) \cup {p}
<1> DEFINE t == Append(s, p)
<1>1. /\ Len(s) \in Nat /\ t \in Seq(Pages) /\ Len(t) = Len(s) + 1
      /\ t[Len(s) + 1] = p /\ \A j \in 1..Len(s) : t[j] = s[j]
  OBVIOUS
<1> HIDE DEF t
<1>2. Distinct(t)
  <2> SUFFICES ASSUME NEW i \in 1..Len(t), NEW j \in 1..Len(t), t[i] = t[j]
               PROVE  i = j
    BY DEF Distinct
  <2>1. \A k \in 1..Len(s) : t[k] # p
    BY <1>1 DEF Members
  <2>2. \A k \in 1..Len(t) : k \in 1..Len(s) \/ k = Len(s) + 1
    BY <1>1
  <2>3. CASE i \in 1..Len(s) /\ j \in 1..Len(s)
    BY <2>3, <1>1 DEF Distinct
  <2>4. t[Len(s) + 1] = p
    BY <1>1
  <2>5. i = Len(s) + 1 => j \notin 1..Len(s)
    BY <2>1, <2>4
  <2>6. j = Len(s) + 1 => i \notin 1..Len(s)
    BY <2>1, <2>4
  <2> QED
    BY <2>2, <2>3, <2>5, <2>6
<1>3. Members(t) = Members(s) \cup {p}
  BY <1>1 DEF Members
<1> QED
  BY <1>1, <1>2, <1>3 DEF t

LEMMA ConsFacts ==
  ASSUME NEW s \in Seq(Pages), NEW p \in Pages, Distinct(s), p \notin Members(s)
  PROVE  /\ <<p>> \o s \in Seq(Pages)
         /\ Distinct(<<p>> \o s)
         /\ Members(<<p>> \o s) = Members(s) \cup {p}
<1> DEFINE t == <<p>> \o s
<1>1. /\ Len(s) \in Nat /\ t \in Seq(Pages) /\ Len(t) = Len(s) + 1
      /\ t[1] = p /\ \A j \in 1..Len(s) : t[j + 1] = s[j]
  OBVIOUS
<1> HIDE DEF t
<1>2. \A j \in 2..Len(t) : j - 1 \in 1..Len(s) /\ t[j] = s[j - 1]
  BY <1>1
<1>3. Distinct(t)
  <2> SUFFICES ASSUME NEW i \in 1..Len(t), NEW j \in 1..Len(t), t[i] = t[j]
               PROVE  i = j
    BY DEF Distinct
  <2>1. \A k \in 2..Len(t) : t[k] # p
    BY <1>2 DEF Members
  <2>2. \A k \in 1..Len(t) : k \in 2..Len(t) \/ k = 1
    BY <1>1
  <2>3. CASE i \in 2..Len(t) /\ j \in 2..Len(t)
    <3>1. i - 1 = j - 1
      BY <2>3, <1>2 DEF Distinct
    <3> QED
      BY <3>1
  <2>4. t[1] = p
    BY <1>1
  <2>5. i = 1 => j \notin 2..Len(t)
    BY <2>1, <2>4
  <2>6. j = 1 => i \notin 2..Len(t)
    BY <2>1, <2>4
  <2> QED
    BY <2>2, <2>3, <2>5, <2>6
<1>4. Members(t) = Members(s) \cup {p}
  <2>1. ASSUME NEW x \in Members(t)
        PROVE  x \in Members(s) \cup {p}
    <3>1. PICK j \in 1..Len(t) : x = t[j]
      BY DEF Members
    <3>2. CASE j = 1
      <4>1. x = p
        BY <3>1, <3>2, <1>1
      <4> QED
        BY <4>1
    <3>3. CASE j \in 2..Len(t)
      <4>1. j - 1 \in 1..Len(s) /\ x = s[j - 1]
        BY <3>1, <3>3, <1>2
      <4> QED
        BY <4>1 DEF Members
    <3>4. j = 1 \/ j \in 2..Len(t)
      BY <1>1
    <3> QED
      BY <3>2, <3>3, <3>4
  <2>2. \A j \in 1..Len(s) : j + 1 \in 1..Len(t) /\ t[j + 1] = s[j]
    BY <1>1
  <2>3. Members(s) \subseteq Members(t)
    BY <2>2 DEF Members
  <2>4. 1 \in 1..Len(t) /\ t[1] = p
    BY <1>1
  <2>5. p \in Members(t)
    BY <2>4 DEF Members
  <2> QED
    BY <2>1, <2>3, <2>5
<1> QED
  BY <1>1, <1>3, <1>4 DEF t

LEMMA WithoutFacts ==
  ASSUME NEW s \in Seq(Pages), NEW p \in Pages, Distinct(s), p \in Members(s)
  PROVE  /\ Without(s, p) \in Seq(Pages)
         /\ Distinct(Without(s, p))
         /\ Members(Without(s, p)) = Members(s) \ {p}
<1> DEFINE k == CHOOSE j \in 1..Len(s) : s[j] = p
           t == [j \in 1..(Len(s) - 1) |-> IF j < k THEN s[j] ELSE s[j + 1]]
<1>1. k \in 1..Len(s) /\ s[k] = p
  BY DEF Members
<1>2. Without(s, p) = t
  BY <1>1 DEF Without
<1> HIDE DEF k
<1>3. Len(s) \in Nat /\ \A j \in 1..Len(s) : s[j] \in Pages
  OBVIOUS
<1>4. /\ t \in Seq(Pages) /\ Len(t) = Len(s) - 1
      /\ \A j \in 1..(Len(s) - 1) : t[j] = IF j < k THEN s[j] ELSE s[j + 1]
  <2>1. Len(s) - 1 \in Nat
    BY <1>1, <1>3
  <2>2. t \in [1..(Len(s) - 1) -> Pages]
    BY <1>1, <1>3
  <2> QED
    BY <2>1, <2>2
<1> HIDE DEF t
<1>5. Distinct(t)
  BY <1>1, <1>3, <1>4 DEF Distinct
<1>6. Members(t) \subseteq Members(s) \ {p}
  BY <1>1, <1>3, <1>4 DEF Distinct, Members
<1>7. ASSUME NEW x \in Members(s) \ {p}
      PROVE  x \in Members(t)
  <2>1. PICK j \in 1..Len(s) : x = s[j]
    BY DEF Members
  <2>2. CASE j < k
    BY <2>1, <2>2, <1>1, <1>3, <1>4 DEF Members
  <2>3. CASE j > k
    <3>1. j - 1 \in 1..(Len(s) - 1) /\ t[j - 1] = s[j]
      BY <2>1, <2>3, <1>1, <1>3, <1>4
    <3> QED
      BY <3>1, <2>1, <1>4 DEF Members
  <2> QED
    BY <2>1, <2>2, <2>3, <1>1
<1> QED
  BY <1>2, <1>4, <1>5, <1>6, <1>7

-----------------------------------------------------------------------------
(* The inductive invariant. *)

\* Pages that start a block which is neither held nor in hand.
FreeHeads(o) ==
  {p \in Pages : order[p] = o /\ ~busy[p] /\ ~(pc # "idle" /\ p = cur)}

ListsInv ==
  \A o \in Orders : Distinct(free[o]) /\ Members(free[o]) = FreeHeads(o)

HeldInv ==
  /\ \A p \in Pages : held[p] # NotHeld => busy[p] /\ order[p] = held[p]
  /\ \A p \in Pages : busy[p] => held[p] # NotHeld

\* What is known of the block in hand between two iterations of a loop.
InHandInv ==
  /\ pc # "idle" => ~busy[cur]
  /\ pc = "split" => want <= ord
  /\ pc = "merge" => order[cur] = ord

OutsideInv == \A d \in Beyond, o \in Orders : ~LooksFree(d, o)

IInv ==
  /\ TypeOK
  /\ Tiling(BlockOrder)
  /\ ListsInv
  /\ HeldInv
  /\ InHandInv
  /\ OutsideInv
  /\ DirtyIsHeld

\* Both neighbours of a block in hand are addresses the model gives a value.
LEMMA NeighboursAreDescs ==
  ASSUME TypeOK
  PROVE  NextBuddy \in Descs /\ PrevBuddy \in Descs /\ Pages \subseteq Descs
<1>1. Size[ord] \in Nat /\ Size[ord] <= Size[MaxOrder] /\ Size[MaxOrder] \in Nat
  <2>1. MaxOrder \in Orders
    BY SizeFacts DEF Orders
  <2> QED
    BY <2>1, SizeFacts DEF TypeOK
<1>2. cur \in Int /\ 0 <= cur /\ cur <= NPages - 1 /\ NPages \in Int
  BY SizeFacts DEF TypeOK, Pages
<1>3. Pages \subseteq Descs
  BY <1>1, SizeFacts DEF Descs, Pages
<1>4. NextBuddy \in Descs /\ PrevBuddy \in Descs
  BY <1>1, <1>2 DEF NextBuddy, PrevBuddy, Descs
<1> QED
  BY <1>3, <1>4

LEMMA GetStartInv ==
  ASSUME IInv, NEW o \in Orders, GetStart(o)
  PROVE  IInv'
<1> USE DEF IInv
<1>1. PICK n \in o..MaxOrder :
        /\ free[n] # <<>>
        /\ cur' = Head(free[n])
        /\ free' = [free EXCEPT ![n] = Tail(free[n])]
        /\ ord' = n
  BY DEF GetStart
<1>2. n \in Orders /\ o <= n /\ o \in Int /\ n \in Int
  BY <1>1, SizeFacts DEF Orders
<1>3. pc = "idle" /\ pc' = "split" /\ want' = o
      /\ UNCHANGED <<order, busy, dirty, held, ret>>
  BY DEF GetStart
<1>4. free[n] \in Seq(Pages) /\ Distinct(free[n]) /\ Members(free[n]) = FreeHeads(n)
  BY <1>2 DEF TypeOK, ListsInv
<1>5. /\ cur' \in FreeHeads(n)
      /\ Tail(free[n]) \in Seq(Pages)
      /\ Distinct(Tail(free[n]))
      /\ Members(Tail(free[n])) = FreeHeads(n) \ {cur'}
  BY <1>1, <1>4, TailFacts
<1>6. cur' \in Pages /\ order[cur'] = n /\ ~busy[cur']
  BY <1>5 DEF FreeHeads
<1>7. TypeOK'
  BY <1>1, <1>2, <1>3, <1>5, <1>6 DEF TypeOK
<1>8. BlockOrder' = BlockOrder
  BY <1>1, <1>3, <1>6 DEF BlockOrder
<1>9. Tiling(BlockOrder)'
  BY <1>8 DEF Tiling
<1>10. ListsInv'
  <2> SUFFICES ASSUME NEW m \in Orders
               PROVE  Distinct(free'[m]) /\ Members(free'[m]) = FreeHeads(m)'
    BY DEF ListsInv, Distinct, Members
  <2>1. FreeHeads(m)' = FreeHeads(m) \ {cur'}
    BY <1>3 DEF FreeHeads
  <2>2. CASE m = n
    BY <2>1, <2>2, <1>1, <1>2, <1>5 DEF TypeOK
  <2>3. CASE m # n
    <3>1. free'[m] = free[m]
      BY <2>3, <1>1, <1>2 DEF TypeOK
    <3>2. cur' \notin FreeHeads(m)
      BY <2>3, <1>6 DEF FreeHeads
    <3> QED
      BY <2>1, <3>1, <3>2 DEF ListsInv
  <2> QED
    BY <2>2, <2>3
<1>11. HeldInv' /\ OutsideInv' /\ DirtyIsHeld'
  BY <1>3 DEF HeldInv, OutsideInv, DirtyIsHeld, LooksFree, HeldPages
<1>12. InHandInv'
  BY <1>1, <1>2, <1>3, <1>6 DEF InHandInv
<1> QED
  BY <1>7, <1>9, <1>10, <1>11, <1>12

LEMMA SplitInv ==
  ASSUME IInv, Split
  PROVE  IInv'
<1> USE DEF IInv
<1> DEFINE o == ord - 1
           h == cur + Size[o]
<1>1. /\ pc = "split" /\ pc' = "split" /\ ord > want /\ ord' = o /\ cur' = h
      /\ order' = [order EXCEPT ![cur] = o]
      /\ free' = [free EXCEPT ![o] = Append(free[o], cur)]
      /\ UNCHANGED <<busy, dirty, held, ret, want>>
  BY DEF Split
<1>2. o \in Orders /\ o < MaxOrder /\ ord = o + 1 /\ o \in Int /\ o # -1 /\ want <= o
  BY <1>1, SizeFacts DEF TypeOK, Orders
<1>3. cur \in Pages /\ BlockOrder[cur] = o + 1
  BY <1>1, <1>2 DEF TypeOK, BlockOrder
<1>4. /\ h \in Pages
      /\ BlockOrder[h] = -1
      /\ Tiling([BlockOrder EXCEPT ![cur] = o, ![h] = o])
  BY <1>2, <1>3, SplitTiling
<1>5. h # cur
  BY <1>2, <1>3, <1>4 DEF Orders
<1>6. order[h] = -1 /\ ~busy[cur]
  BY <1>1, <1>4, <1>5 DEF BlockOrder, InHandInv
<1>7. ~busy[h]
  <2>1. busy[h] => order[h] \in Orders
    BY <1>4 DEF HeldInv, TypeOK, NotHeld
  <2> QED
    BY <2>1, <1>6 DEF Orders
<1> HIDE DEF o, h
<1>8. Pages \subseteq Descs
  BY NeighboursAreDescs
<1>9. /\ order'[cur] = o
      /\ \A d \in Descs : d # cur => order'[d] = order[d]
  BY <1>1, <1>3, <1>8 DEF TypeOK
<1>10. BlockOrder' = [BlockOrder EXCEPT ![cur] = o, ![h] = o]
  <2>1. BlockOrder' = [p \in Pages |-> IF p = h THEN o ELSE order'[p]]
    BY <1>1 DEF BlockOrder
  <2>2. \A p \in Pages : p # cur => BlockOrder[p] = order[p]
    BY <1>1 DEF BlockOrder
  <2>3. BlockOrder = [p \in Pages |-> BlockOrder[p]]
    BY DEF BlockOrder
  <2> QED
    BY <2>1, <2>2, <2>3, <1>3, <1>4, <1>5, <1>8, <1>9
<1>11. Tiling(BlockOrder)'
  BY <1>4, <1>10 DEF Tiling
<1>12. cur \notin FreeHeads(o)
  BY <1>1 DEF FreeHeads
<1>13. /\ Append(free[o], cur) \in Seq(Pages)
       /\ Distinct(Append(free[o], cur))
       /\ Members(Append(free[o], cur)) = FreeHeads(o) \cup {cur}
  BY <1>2, <1>3, <1>12, AppendFacts DEF TypeOK, ListsInv
<1>14. TypeOK'
  BY <1>1, <1>2, <1>4, <1>13 DEF TypeOK
<1>15. ListsInv'
  <2> SUFFICES ASSUME NEW m \in Orders
               PROVE  Distinct(free'[m]) /\ Members(free'[m]) = FreeHeads(m)'
    BY DEF ListsInv, Distinct, Members
  <2>1. \A p \in Pages : p # cur => (p \in FreeHeads(m)' <=> p \in FreeHeads(m))
    <3> SUFFICES ASSUME NEW p \in Pages, p # cur
                 PROVE  p \in FreeHeads(m)' <=> p \in FreeHeads(m)
      OBVIOUS
    <3>1. p \in FreeHeads(m)' <=> order'[p] = m /\ ~busy[p] /\ p # h
      BY <1>1 DEF FreeHeads
    <3>2. p \in FreeHeads(m) <=> order[p] = m /\ ~busy[p]
      BY DEF FreeHeads
    <3>3. order'[p] = order[p]
      BY <1>8, <1>9
    <3>4. m # -1
      BY DEF Orders
    <3> QED
      BY <3>1, <3>2, <3>3, <3>4, <1>6
  <2>2. cur \in FreeHeads(m)' <=> m = o
    BY <1>1, <1>3, <1>5, <1>6, <1>9 DEF FreeHeads
  <2>3. cur \notin FreeHeads(m)
    BY <1>1 DEF FreeHeads
  <2>4. FreeHeads(m)' \subseteq Pages /\ FreeHeads(m) \subseteq Pages
    BY DEF FreeHeads
  <2>5. CASE m = o
    <3>1. FreeHeads(m)' = FreeHeads(m) \cup {cur}
      BY <2>1, <2>2, <2>3, <2>4, <2>5, <1>3
    <3> QED
      BY <2>5, <3>1, <1>1, <1>2, <1>13 DEF TypeOK
  <2>6. CASE m # o
    <3>1. FreeHeads(m)' = FreeHeads(m)
      BY <2>1, <2>2, <2>3, <2>4, <2>6, <1>3
    <3> QED
      BY <2>6, <3>1, <1>1, <1>2 DEF TypeOK, ListsInv
  <2> QED
    BY <2>5, <2>6
<1>16. HeldInv'
  BY <1>1, <1>6, <1>8, <1>9 DEF HeldInv
<1>17. InHandInv'
  BY <1>1, <1>2, <1>7 DEF InHandInv
<1>18. OutsideInv'
  BY <1>1, <1>3, <1>9 DEF OutsideInv, LooksFree, Beyond
<1>19. DirtyIsHeld'
  BY <1>1 DEF DirtyIsHeld, HeldPages
<1> QED
  BY <1>11, <1>14, <1>15, <1>16, <1>17, <1>18, <1>19

LEMMA GetDoneInv ==
  ASSUME IInv, GetDone
  PROVE  IInv'
<1> USE DEF IInv
<1>1. /\ pc = "split" /\ pc' = "idle" /\ ord = want
      /\ ret' = [asked |-> want, page |-> cur]
      /\ busy' = [busy EXCEPT ![cur] = TRUE]
      /\ order' = [order EXCEPT ![cur] = ord]
      /\ held' = [held EXCEPT ![cur] = ord]
      /\ dirty' = dirty \cup Block(cur, ord)
      /\ UNCHANGED <<free, cur, ord, want>>
  BY DEF GetDone
<1>2. cur \in Pages /\ ord \in Orders /\ ord # -1 /\ Pages \subseteq Descs
  BY NeighboursAreDescs DEF TypeOK, Orders
<1>3. BlockOrder[cur] = ord
  BY <1>1, <1>2 DEF BlockOrder
<1>4. cur \in Int /\ Size[ord] \in Nat /\ cur + Size[ord] <= NPages
  <2>1. cur + Size[BlockOrder[cur]] <= NPages
    BY <1>2, <1>3 DEF Tiling
  <2> QED
    BY <2>1, <1>2, <1>3, SizeFacts DEF Pages
<1>5. Block(cur, ord) \subseteq Pages
  BY <1>2, <1>4, SizeFacts DEF Block, Pages
<1>6. /\ order'[cur] = ord /\ busy'[cur] /\ held'[cur] = ord
      /\ \A d \in Descs : d # cur => order'[d] = order[d] /\ busy'[d] = busy[d]
      /\ \A p \in Pages : p # cur => held'[p] = held[p]
  BY <1>1, <1>2 DEF TypeOK
<1>7. TypeOK'
  BY <1>1, <1>2, <1>5 DEF TypeOK, Orders, Answers
<1>8. BlockOrder' = BlockOrder
  <2>1. BlockOrder' = [p \in Pages |-> order'[p]]
    BY <1>1 DEF BlockOrder
  <2>2. BlockOrder = [p \in Pages |-> IF p = cur THEN ord ELSE order[p]]
    BY <1>1 DEF BlockOrder
  <2> QED
    BY <2>1, <2>2, <1>2, <1>6
<1>9. Tiling(BlockOrder)'
  BY <1>8 DEF Tiling
<1>10. ListsInv'
  <2>1. ASSUME NEW m \in Orders
        PROVE  FreeHeads(m)' = FreeHeads(m)
    <3>1. FreeHeads(m)' = {p \in Pages : order'[p] = m /\ ~busy'[p]}
      BY <1>1 DEF FreeHeads
    <3>2. FreeHeads(m) = {p \in Pages : order[p] = m /\ ~busy[p] /\ p # cur}
      BY <1>1 DEF FreeHeads
    <3> QED
      BY <3>1, <3>2, <1>2, <1>6
  <2> QED
    BY <2>1, <1>1 DEF ListsInv, Distinct, Members
<1>11. HeldInv'
  BY <1>2, <1>6 DEF HeldInv, NotHeld
<1>12. InHandInv'
  BY <1>1 DEF InHandInv
<1>13. OutsideInv'
  BY <1>2, <1>6 DEF OutsideInv, LooksFree, Beyond
<1>14. DirtyIsHeld'
  <2> SUFFICES ASSUME NEW i \in dirty'
               PROVE  i \in HeldPages(held')
    BY DEF DirtyIsHeld
  <2>1. CASE i \in Block(cur, ord)
    BY <2>1, <1>2, <1>5, <1>6 DEF HeldPages, NotHeld
  <2>2. CASE i \notin Block(cur, ord)
    <3>1. i \in dirty
      BY <2>2, <1>1
    <3>2. PICK p \in Pages : i \in Pages /\ held[p] # NotHeld /\ i \in Block(p, held[p])
      BY <3>1 DEF DirtyIsHeld, HeldPages
    <3>3. p # cur
      BY <3>2, <1>1 DEF HeldInv, InHandInv
    <3> QED
      BY <3>2, <3>3, <1>6 DEF HeldPages
  <2> QED
    BY <2>1, <2>2
<1> QED
  BY <1>7, <1>9, <1>10, <1>11, <1>12, <1>13, <1>14

LEMMA PutStartInv ==
  ASSUME IInv, NEW b \in Pages, PutStart(b)
  PROVE  IInv'
<1> USE DEF IInv
<1>1. /\ pc = "idle" /\ pc' = "merge" /\ held[b] # NotHeld /\ cur' = b
      /\ ord' = held[b]
      /\ busy' = [busy EXCEPT ![b] = FALSE]
      /\ held' = [held EXCEPT ![b] = NotHeld]
      /\ dirty' = dirty \ Block(b, held[b])
      /\ ret' = NULL
      /\ UNCHANGED <<free, order, want>>
  BY DEF PutStart
<1>2. Pages \subseteq Descs
  BY NeighboursAreDescs
<1>3. busy[b] /\ order[b] = held[b] /\ held[b] \in Orders
  BY <1>1 DEF HeldInv, TypeOK
<1>4. /\ ~busy'[b] /\ held'[b] = NotHeld
      /\ \A d \in Descs : d # b => busy'[d] = busy[d]
      /\ \A p \in Pages : p # b => held'[p] = held[p]
  BY <1>1, <1>2 DEF TypeOK
<1>5. TypeOK'
  BY <1>1, <1>3 DEF TypeOK, Answers
<1>6. BlockOrder' = BlockOrder
  BY <1>1, <1>3 DEF BlockOrder
<1>7. Tiling(BlockOrder)'
  BY <1>6 DEF Tiling
<1>8. ListsInv'
  <2>1. ASSUME NEW m \in Orders
        PROVE  FreeHeads(m)' = FreeHeads(m)
    <3>1. FreeHeads(m)' = {p \in Pages : order[p] = m /\ ~busy'[p] /\ p # b}
      BY <1>1 DEF FreeHeads
    <3>2. FreeHeads(m) = {p \in Pages : order[p] = m /\ ~busy[p]}
      BY <1>1 DEF FreeHeads
    <3> QED
      BY <3>1, <3>2, <1>2, <1>3, <1>4
  <2> QED
    BY <2>1, <1>1 DEF ListsInv, Distinct, Members
<1>9. HeldInv'
  BY <1>1, <1>2, <1>4 DEF HeldInv
<1>10. InHandInv'
  BY <1>1, <1>3, <1>4 DEF InHandInv
<1>11. OutsideInv'
  BY <1>1, <1>4 DEF OutsideInv, LooksFree, Beyond
<1>12. DirtyIsHeld'
  <2> SUFFICES ASSUME NEW i \in dirty'
               PROVE  i \in HeldPages(held')
    BY DEF DirtyIsHeld
  <2>1. i \in dirty /\ i \notin Block(b, held[b])
    BY <1>1
  <2>2. PICK p \in Pages : i \in Pages /\ held[p] # NotHeld /\ i \in Block(p, held[p])
    BY <2>1 DEF DirtyIsHeld, HeldPages
  <2>3. p # b
    BY <2>1, <2>2
  <2> QED
    BY <2>2, <2>3, <1>4 DEF HeldPages
<1> QED
  BY <1>5, <1>7, <1>8, <1>9, <1>10, <1>11, <1>12

\* Both merges: the block at c absorbs the free block h just after it (or is
\* absorbed, when h is the one in hand), and x is the one that leaves its list.
LEMMA MergeInv ==
  ASSUME IInv, pc = "merge", ord < MaxOrder,
         NEW c \in Pages, NEW h \in Pages, h = c + Size[ord],
         NEW x, {c, h} = {cur, x}, x # cur, LooksFree(x, ord),
         order' = [order EXCEPT ![c] = ord + 1, ![h] = -1],
         free' = [free EXCEPT ![ord] = Without(@, x)],
         cur' = c, ord' = ord + 1,
         UNCHANGED <<busy, dirty, held, ret, pc, want>>
  PROVE  IInv'
<1> USE DEF IInv
<1>1. Pages \subseteq Descs /\ ord \in Orders /\ ord + 1 \in Orders
      /\ cur \in Pages /\ x \in Pages /\ c # h /\ ord # -1 /\ ord + 1 # -1
  <2>1. Pages \subseteq Descs
    BY NeighboursAreDescs
  <2>2. ord \in Orders /\ cur \in Pages
    BY DEF TypeOK
  <2>3. ord + 1 \in Orders /\ ord # -1 /\ ord + 1 # -1
    BY <2>2, SizeFacts DEF Orders
  <2>4. c # h
    BY <2>2, SizeFacts DEF Pages
  <2>5. x \in {c, h}
    OBVIOUS
  <2> QED
    BY <2>1, <2>2, <2>3, <2>4, <2>5
<1>2. order[cur] = ord /\ order[x] = ord /\ ~busy[cur] /\ ~busy[x]
  BY DEF InHandInv, LooksFree
<1>3. /\ order'[c] = ord + 1 /\ order'[h] = -1
      /\ \A d \in Descs : d # c /\ d # h => order'[d] = order[d]
  BY <1>1 DEF TypeOK
<1>4. BlockOrder[c] = ord /\ BlockOrder[h] = ord
  BY <1>1, <1>2 DEF BlockOrder
<1>5. Tiling([BlockOrder EXCEPT ![c] = ord + 1, ![h] = -1])
  BY <1>1, <1>4, MergeTiling
<1>6. BlockOrder' = [BlockOrder EXCEPT ![c] = ord + 1, ![h] = -1]
  <2>1. BlockOrder' = [p \in Pages |-> IF p = c THEN ord + 1 ELSE order'[p]]
    BY DEF BlockOrder
  <2>2. BlockOrder = [p \in Pages |-> IF p = cur THEN ord ELSE order[p]]
    BY DEF BlockOrder
  <2>3. \A p \in Pages : p # c /\ p # h => p # cur /\ order'[p] = order[p]
    BY <1>1, <1>3
  <2>4. c # h /\ c \in Pages /\ h \in Pages /\ order'[h] = -1
    BY <1>1, <1>3
  <2>5. ASSUME NEW p \in Pages
        PROVE  BlockOrder'[p] = [BlockOrder EXCEPT ![c] = ord + 1, ![h] = -1][p]
    <3>1. CASE p = c
      BY <3>1, <2>1, <2>2, <2>4
    <3>2. CASE p = h
      BY <3>2, <2>1, <2>2, <2>4
    <3>3. CASE p # c /\ p # h
      BY <3>3, <2>1, <2>2, <2>3
    <3> QED
      BY <3>1, <3>2, <3>3
  <2> QED
    BY <2>1, <2>2, <2>5
<1>7. Tiling(BlockOrder)'
  BY <1>5, <1>6 DEF Tiling
<1>8. x \in FreeHeads(ord)
  BY <1>1, <1>2 DEF FreeHeads
<1>9. /\ Without(free[ord], x) \in Seq(Pages)
      /\ Distinct(Without(free[ord], x))
      /\ Members(Without(free[ord], x)) = FreeHeads(ord) \ {x}
  BY <1>1, <1>8, WithoutFacts DEF TypeOK, ListsInv
<1>10. order' \in [Descs -> Int] /\ free' \in [Orders -> Seq(Pages)]
  BY <1>1, <1>9 DEF TypeOK, Orders
<1>11. TypeOK'
  BY <1>1, <1>10 DEF TypeOK
<1>12. ListsInv'
  <2> SUFFICES ASSUME NEW m \in Orders
               PROVE  Distinct(free'[m]) /\ Members(free'[m]) = FreeHeads(m)'
    BY DEF ListsInv, Distinct, Members
  <2>1. FreeHeads(m)' = {p \in Pages : order'[p] = m /\ ~busy[p] /\ p # c}
    BY DEF FreeHeads
  <2>2. FreeHeads(m) = {p \in Pages : order[p] = m /\ ~busy[p] /\ p # cur}
    BY DEF FreeHeads
  <2>3. m # -1
    BY DEF Orders
  <2>4. \A p \in Pages : p # c /\ p # h =>
          p # cur /\ p # x /\ order'[p] = order[p]
    BY <1>1, <1>3
  <2>5. FreeHeads(m)' = FreeHeads(m) \ {x}
    BY <2>1, <2>2, <2>3, <2>4, <1>1, <1>3
  <2>6. CASE m = ord
    BY <2>5, <2>6, <1>1, <1>9 DEF TypeOK
  <2>7. CASE m # ord
    <3>1. free'[m] = free[m]
      BY <2>7, <1>1 DEF TypeOK
    <3>2. x \notin FreeHeads(m)
      BY <2>2, <2>7, <1>2
    <3> QED
      BY <2>5, <3>1, <3>2 DEF ListsInv
  <2> QED
    BY <2>6, <2>7
<1>13. HeldInv'
  <2>1. \A p \in Pages : held[p] # NotHeld => p # c /\ p # h
    BY <1>1, <1>2 DEF HeldInv
  <2> QED
    BY <2>1, <1>1, <1>3 DEF HeldInv
<1>14. InHandInv'
  BY <1>1, <1>2, <1>3 DEF InHandInv
<1>15. OutsideInv'
  BY <1>3 DEF OutsideInv, LooksFree, Beyond
<1>16. DirtyIsHeld'
  BY DEF DirtyIsHeld, HeldPages
<1> QED
  BY <1>7, <1>11, <1>12, <1>13, <1>14, <1>15, <1>16

LEMMA MergeNextInv ==
  ASSUME IInv, MergeNext
  PROVE  IInv'
<1>1. /\ pc = "merge" /\ ord < MaxOrder /\ LooksFree(NextBuddy, ord)
      /\ order' = [order EXCEPT ![cur] = order[cur] + 1, ![NextBuddy] = -1]
      /\ free' = [free EXCEPT ![ord] = Without(@, NextBuddy)]
      /\ cur' = cur /\ ord' = ord + 1
      /\ UNCHANGED <<busy, dirty, held, ret, pc, want>>
  BY DEF MergeNext, CanMergeNext
<1>2. TypeOK /\ cur \in Pages /\ ord \in Orders /\ order[cur] = ord
  BY <1>1 DEF IInv, TypeOK, InHandInv
<1>3. NextBuddy \in Pages
  BY <1>1, <1>2, NeighboursAreDescs DEF IInv, OutsideInv, Beyond
<1>4. NextBuddy = cur + Size[ord] /\ NextBuddy # cur
  BY <1>2, SizeFacts DEF NextBuddy, Pages
<1>5. /\ order' = [order EXCEPT ![cur] = ord + 1, ![NextBuddy] = -1]
      /\ {cur, NextBuddy} = {cur, NextBuddy}
  BY <1>1, <1>2
<1> HIDE DEF NextBuddy
<1> QED
  BY <1>1, <1>2, <1>3, <1>4, <1>5, MergeInv

LEMMA MergePrevInv ==
  ASSUME IInv, MergePrev
  PROVE  IInv'
<1>1. /\ pc = "merge" /\ ord < MaxOrder /\ LooksFree(PrevBuddy, ord)
      /\ order' = [order EXCEPT ![cur] = -1, ![PrevBuddy] = @ + 1]
      /\ free' = [free EXCEPT ![ord] = Without(@, PrevBuddy)]
      /\ cur' = PrevBuddy /\ ord' = ord + 1
      /\ UNCHANGED <<busy, dirty, held, ret, pc, want>>
  BY DEF MergePrev, CanMergePrev
<1>2. TypeOK /\ cur \in Pages /\ ord \in Orders /\ order[PrevBuddy] = ord
  BY <1>1 DEF IInv, TypeOK, LooksFree
<1>3. PrevBuddy \in Pages /\ Pages \subseteq Descs
  BY <1>1, <1>2, NeighboursAreDescs DEF IInv, OutsideInv, Beyond
<1>4. cur = PrevBuddy + Size[ord] /\ PrevBuddy # cur
  BY <1>2, SizeFacts DEF PrevBuddy, Pages
<1>5. order' = [order EXCEPT ![PrevBuddy] = ord + 1, ![cur] = -1]
  BY <1>1, <1>2, <1>3, <1>4 DEF TypeOK
<1>6. {PrevBuddy, cur} = {cur, PrevBuddy}
  OBVIOUS
<1> QED
  BY <1>1, <1>2, <1>3, <1>4, <1>5, <1>6, MergeInv

LEMMA PutDoneInv ==
  ASSUME IInv, PutDone
  PROVE  IInv'
<1> USE DEF IInv
<1>1. /\ pc = "merge" /\ pc' = "idle"
      /\ free' = [free EXCEPT ![order[cur]] = <<cur>> \o free[order[cur]]]
      /\ UNCHANGED <<order, busy, dirty, held, ret, cur, ord, want>>
  BY DEF PutDone
<1>2. cur \in Pages /\ ord \in Orders /\ order[cur] = ord /\ ~busy[cur]
  BY <1>1 DEF TypeOK, InHandInv
<1>3. free' = [free EXCEPT ![ord] = <<cur>> \o free[ord]]
  BY <1>1, <1>2
<1>4. cur \notin FreeHeads(ord)
  BY <1>1 DEF FreeHeads
<1>5. /\ <<cur>> \o free[ord] \in Seq(Pages)
      /\ Distinct(<<cur>> \o free[ord])
      /\ Members(<<cur>> \o free[ord]) = FreeHeads(ord) \cup {cur}
  BY <1>2, <1>4, ConsFacts DEF TypeOK, ListsInv
<1>6. TypeOK'
  BY <1>1, <1>2, <1>3, <1>5 DEF TypeOK
<1>7. BlockOrder' = BlockOrder
  BY <1>1, <1>2 DEF BlockOrder
<1>8. Tiling(BlockOrder)'
  BY <1>7 DEF Tiling
<1>9. ListsInv'
  <2> SUFFICES ASSUME NEW m \in Orders
               PROVE  Distinct(free'[m]) /\ Members(free'[m]) = FreeHeads(m)'
    BY DEF ListsInv, Distinct, Members
  <2>1. FreeHeads(m)' = {p \in Pages : order[p] = m /\ ~busy[p]}
    BY <1>1 DEF FreeHeads
  <2>2. FreeHeads(m) = {p \in Pages : order[p] = m /\ ~busy[p] /\ p # cur}
    BY <1>1 DEF FreeHeads
  <2>3. CASE m = ord
    <3>1. FreeHeads(m)' = FreeHeads(m) \cup {cur}
      BY <2>1, <2>2, <2>3, <1>2
    <3> QED
      BY <2>3, <3>1, <1>2, <1>3, <1>5 DEF TypeOK
  <2>4. CASE m # ord
    <3>1. FreeHeads(m)' = FreeHeads(m)
      BY <2>1, <2>2, <2>4, <1>2
    <3> QED
      BY <2>4, <3>1, <1>2, <1>3 DEF TypeOK, ListsInv
  <2> QED
    BY <2>3, <2>4
<1>10. HeldInv' /\ OutsideInv' /\ DirtyIsHeld' /\ InHandInv'
  BY <1>1 DEF HeldInv, OutsideInv, DirtyIsHeld, InHandInv, LooksFree, HeldPages
<1> QED
  BY <1>6, <1>8, <1>9, <1>10

\* Steps that leave the blocks alone: a refused free, a failed allocation.
LEMMA OtherStepsInv ==
  ASSUME IInv, dirty' \subseteq dirty, ret' \in Answers,
         UNCHANGED <<free, order, busy, held, pc, cur, ord, want>>
  PROVE  IInv'
<1> USE DEF IInv
<1>1. TypeOK'
  BY DEF TypeOK
<1>2. BlockOrder' = BlockOrder
  BY DEF BlockOrder
<1>3. Tiling(BlockOrder)'
  BY <1>2 DEF Tiling
<1>4. \A m \in Orders : FreeHeads(m)' = FreeHeads(m)
  BY DEF FreeHeads
<1>5. ListsInv'
  BY <1>4 DEF ListsInv, Distinct, Members
<1>6. HeldInv' /\ OutsideInv' /\ DirtyIsHeld' /\ InHandInv'
  BY DEF HeldInv, OutsideInv, DirtyIsHeld, InHandInv, LooksFree, HeldPages
<1> QED
  BY <1>1, <1>3, <1>5, <1>6

LEMMA NextInv == IInv /\ [Next]_vars => IInv'
<1> SUFFICES ASSUME IInv, [Next]_vars
             PROVE  IInv'
  OBVIOUS
<1>1. TypeOK
  BY DEF IInv
<1>2. ASSUME NEW o \in Orders, GetStart(o)
      PROVE  IInv'
  BY <1>2, GetStartInv
<1>3. ASSUME NEW o \in Orders, GetFail(o)
      PROVE  IInv'
  BY <1>3, OtherStepsInv DEF GetFail, Answers
<1>4. CASE Split
  BY <1>4, SplitInv
<1>5. CASE GetDone
  BY <1>5, GetDoneInv
<1>6. ASSUME NEW p \in Pages, PutStart(p)
      PROVE  IInv'
  BY <1>6, PutStartInv
<1>7. ASSUME NEW p \in Pages, NEW o \in Orders, PutRefused(p, o)
      PROVE  IInv'
  BY <1>1, <1>7, OtherStepsInv DEF PutRefused, TypeOK
<1>8. CASE MergeNext
  BY <1>8, MergeNextInv
<1>9. CASE MergePrev
  BY <1>9, MergePrevInv
<1>10. CASE PutDone
  BY <1>10, PutDoneInv
<1>11. CASE UNCHANGED vars
  BY <1>1, <1>11, OtherStepsInv DEF vars, TypeOK
<1> QED
  BY <1>2, <1>3, <1>4, <1>5, <1>6, <1>7, <1>8, <1>9, <1>10, <1>11 DEF Next

-----------------------------------------------------------------------------
(* The initial state: init_page_map. *)

LEMMA DivFacts ==
  ASSUME NEW a \in Nat, NEW s \in Nat, s > 0
  PROVE  /\ a \div s \in Nat
         /\ a % s \in Nat /\ a % s < s
         /\ a = (a \div s) * s + (a % s)
OBVIOUS

LEMMA MultFacts ==
  ASSUME NEW k \in Nat, NEW m \in Nat, NEW s \in Nat, s > 0
  PROVE  /\ k * s \in Nat
         /\ k < m => k * s + s <= m * s
         /\ k * s < m * s => k < m
         /\ (k * s) % s = 0
<1>1. k * s \in Nat /\ m * s \in Nat
  OBVIOUS
<1>2. ASSUME k < m PROVE k * s + s <= m * s
  <2>1. PICK d \in Nat : m = k + 1 + d
    <3>1. m - k - 1 \in Nat /\ m = k + 1 + (m - k - 1)
      BY <1>2
    <3> QED
      BY <3>1
  <2>2. m * s = k * s + s + d * s
    BY <2>1
  <2>3. d * s \in Nat
    BY <2>1
  <2> QED
    BY <2>2, <2>3, <1>1
<1>3. ASSUME k * s < m * s PROVE k < m
  <2>1. SUFFICES ASSUME m <= k PROVE FALSE
    OBVIOUS
  <2>2. PICK d \in Nat : k = m + d
    <3>1. k - m \in Nat /\ k = m + (k - m)
      BY <2>1
    <3> QED
      BY <3>1
  <2>3. k * s = m * s + d * s /\ d * s \in Nat
    BY <2>2
  <2> QED
    BY <2>3, <1>1, <1>3
<1>4. (k * s) % s = 0
  OBVIOUS
<1> QED
  BY <1>1, <1>2, <1>3, <1>4

\* The map init_page_map writes cuts the heap into blocks.
LEMMA InitTiling == Tiling([p \in Pages |-> InitOrder(p)])
<1> DEFINE f == [p \in Pages |-> InitOrder(p)]
           S == Size[MaxOrder]
           W == WholeBlocks
<1>1. MaxOrder \in Orders /\ 0 \in Orders /\ Size[0] = 1 /\ MaxOrder # -1
  BY SizeFacts DEF Orders
<1>2. S \in Nat /\ S > 0 /\ NPages \in Nat
  BY <1>1, SizeFacts
<1>3. W \in Nat /\ W * S \in Nat /\ W * S <= NPages
  <2>1. W \in Nat
    BY <1>2, DivFacts DEF WholeBlocks
  <2>2. W * S \in Nat
    BY <2>1, <1>2, MultFacts
  <2>3. NPages = W * S + (NPages % S) /\ NPages % S \in Nat
    BY <1>2, DivFacts DEF WholeBlocks
  <2> QED
    BY <2>1, <2>2, <2>3
<1> DEFINE Z == W * S
<1>4. \A p \in Pages : p \in InMaxBlocks <=> p < Z
  BY <1>2, <1>3 DEF InMaxBlocks, Pages
<1>5. \A p \in Pages : /\ f[p] # -1 /\ p < Z => f[p] = MaxOrder /\ p % S = 0
                       /\ p >= Z => f[p] = 0
                       /\ p < Z /\ p % S = 0 => f[p] = MaxOrder
  BY <1>3, <1>4 DEF InitOrder, Pages
<1>6. f \in [Pages -> Orders \cup {-1}]
  BY <1>1 DEF InitOrder
<1>7. ASSUME NEW p \in Pages
      PROVE  /\ p \in Nat /\ p \div S \in Nat /\ p % S \in Nat /\ p % S < S
             /\ (p \div S) * S \in Nat /\ p = (p \div S) * S + (p % S)
  BY <1>2, DivFacts, MultFacts DEF Pages
\* The end of a whole block is at most any later multiple of S.
<1>8. ASSUME NEW p \in Pages, p % S = 0, NEW k \in Nat, p < k * S
      PROVE  p + S <= k * S
  <2>1. p = (p \div S) * S /\ p \div S \in Nat
    BY <1>7, <1>8
  <2> QED
    BY <2>1, <1>2, <1>8, MultFacts
<1> HIDE DEF f, W
<1>9. ASSUME NEW p \in Pages, f[p] # -1
      PROVE  p + Size[f[p]] <= NPages
  <2>1. CASE p < Z
    <3>1. f[p] = MaxOrder /\ p % S = 0
      BY <2>1, <1>5, <1>9
    <3>2. p + S <= Z
      BY <2>1, <3>1, <1>3, <1>8
    <3> QED
      BY <3>1, <3>2, <1>2, <1>3, <1>7
  <2>2. CASE p >= Z
    BY <2>2, <1>1, <1>2, <1>5 DEF Pages
  <2> QED
    BY <2>1, <2>2, <1>3, <1>7
<1>10. ASSUME NEW p \in Pages, NEW q \in Pages, f[p] # -1, f[q] # -1, p < q
       PROVE  p + Size[f[p]] <= q
  <2>1. CASE q < Z
    <3>1. p < Z /\ f[p] = MaxOrder /\ p % S = 0 /\ q % S = 0
      BY <2>1, <1>3, <1>5, <1>7, <1>10
    <3>2. q = (q \div S) * S /\ q \div S \in Nat
      BY <3>1, <1>7
    <3> QED
      BY <3>1, <3>2, <1>8, <1>10
  <2>2. CASE p < Z /\ q >= Z
    <3>1. f[p] = MaxOrder /\ p % S = 0
      BY <2>2, <1>5, <1>10
    <3>2. p + S <= Z
      BY <2>2, <3>1, <1>3, <1>8
    <3> QED
      BY <3>1, <3>2, <2>2, <1>2, <1>3, <1>7
  <2>3. CASE p >= Z
    BY <2>3, <1>1, <1>5, <1>7, <1>10
  <2> QED
    BY <2>1, <2>2, <2>3, <1>3, <1>7
<1>11. ASSUME NEW i \in Pages
       PROVE  \E p \in Pages : f[p] # -1 /\ p <= i /\ i < p + Size[f[p]]
  <2>1. CASE i >= Z
    BY <2>1, <1>1, <1>5, <1>7
  <2>2. CASE i < Z
    <3> DEFINE p == (i \div S) * S
    <3>0. p % S = 0
      <4>1. i \div S \in Nat
        BY <1>7
      <4> HIDE DEF S
      <4> QED
        BY <4>1, <1>2, MultFacts
    <3>1. p \in Nat /\ p <= i /\ i < p + S /\ p % S = 0
      <4>1. i \in Nat /\ i % S \in Nat /\ i % S < S /\ p \in Nat /\ i = p + (i % S)
        BY <1>7
      <4> HIDE DEF p, S
      <4> QED
        BY <4>1, <3>0, <1>2
    <3>2. p \in Pages /\ p < Z
      BY <3>1, <2>2, <1>2, <1>3 DEF Pages
    <3>3. f[p] = MaxOrder
      BY <3>1, <3>2, <1>5
    <3> HIDE DEF p
    <3> QED
      BY <3>1, <3>2, <3>3, <1>1
  <2> QED
    BY <2>1, <2>2, <1>3, <1>7
<1> QED
  BY <1>6, <1>9, <1>10, <1>11 DEF Tiling, f

\* The lists init_page_map builds hold the blocks it made, each once.
LEMMA InitLists ==
  ASSUME NEW o \in Orders
  PROVE  /\ InitFree(o) \in Seq(Pages)
         /\ Distinct(InitFree(o))
         /\ Members(InitFree(o)) = {p \in Pages : InitOrder(p) = o}
<1> DEFINE S == Size[MaxOrder]
           W == WholeBlocks
           R == NPages % S
           Z == W * S
<1>1. MaxOrder \in Orders /\ 0 \in Orders /\ o # -1 /\ MaxOrder \in Nat
  BY SizeFacts DEF Orders
<1>2. S \in Nat /\ S > 0 /\ NPages \in Nat
  BY <1>1, SizeFacts
<1>3. W \in Nat /\ R \in Nat /\ Z \in Nat /\ NPages = Z + R
  <2>1. W \in Nat /\ R \in Nat /\ NPages = W * S + R
    BY <1>2, DivFacts DEF WholeBlocks
  <2> QED
    BY <2>1, <1>2, MultFacts
<1>4. \A p \in Pages : p \in InMaxBlocks <=> p < Z
  BY <1>2, <1>3 DEF InMaxBlocks, Pages
<1>5. \A p \in Pages :
        InitOrder(p) = o <=> \/ p >= Z /\ o = 0
                             \/ p < Z /\ p % S = 0 /\ o = MaxOrder
  BY <1>1, <1>3, <1>4 DEF InitOrder, Pages
<1>6. CASE o = MaxOrder
  <2> DEFINE s == [i \in 1..W |-> (i - 1) * S]
  <2>1. InitFree(o) = s
    BY <1>6 DEF InitFree
  <2>2. ASSUME NEW i \in 1..W
        PROVE  s[i] = (i - 1) * S /\ s[i] \in Nat /\ s[i] < Z /\ s[i] % S = 0
    <3> DEFINE k == i - 1
    <3>1. k \in Nat /\ k < W /\ s[i] = k * S
      BY <1>3
    <3> HIDE DEF k, s, W, S
    <3>2. k * S \in Nat /\ k * S + S <= W * S /\ (k * S) % S = 0
      BY <3>1, <1>2, <1>3, MultFacts
    <3> QED
      BY <3>1, <3>2, <1>2, <1>3 DEF k
  <2>3. s \in [1..W -> Pages]
    BY <2>2, <1>3 DEF Pages
  <2>4. s \in Seq(Pages) /\ Len(s) = W
    BY <2>3, <1>3
  <2>5. ASSUME NEW i \in 1..W, NEW j \in 1..W, s[i] = s[j]
        PROVE  i = j
    <3> DEFINE k == i - 1
               m == j - 1
    <3>1. k \in Nat /\ m \in Nat /\ i = k + 1 /\ j = m + 1
      BY <1>3
    <3>2. k * S = m * S
      BY <2>5
    <3> HIDE DEF k, m, S
    <3>3. /\ k * S \in Nat /\ m * S \in Nat
          /\ k < m => k * S + S <= m * S
          /\ m < k => m * S + S <= k * S
      BY <3>1, <1>2, MultFacts
    <3>4. k = m
      BY <3>1, <3>2, <3>3, <1>2
    <3> QED
      BY <3>1, <3>4
  <2>6. ASSUME NEW p \in Pages, p < Z, p % S = 0
        PROVE  \E i \in 1..W : s[i] = p
    <3>1. p \in Nat /\ p \div S \in Nat /\ p = (p \div S) * S
      BY <2>6, <1>2, DivFacts DEF Pages
    <3>2. p \div S < W
      BY <3>1, <2>6, <1>2, <1>3, MultFacts
    <3>3. (p \div S) + 1 \in 1..W /\ s[(p \div S) + 1] = (p \div S) * S
      BY <3>1, <3>2, <1>3
    <3> QED
      BY <3>1, <3>3
  <2>7. MaxOrder = 0 => Z = NPages
    BY <1>2, <1>3, SizeFacts, DivFacts
  <2> HIDE DEF s
  <2>8. Members(s) = {p \in Pages : p < Z /\ p % S = 0}
    BY <2>2, <2>3, <2>4, <2>6 DEF Members
  <2>9. \A p \in Pages : InitOrder(p) = o <=> p < Z /\ p % S = 0
    BY <2>7, <1>3, <1>5, <1>6 DEF Pages
  <2> QED
    BY <2>1, <2>4, <2>5, <2>8, <2>9 DEF Distinct
<1>7. CASE o # MaxOrder /\ o = 0
  <2> DEFINE s == [i \in 1..R |-> Z + i - 1]
  <2>1. InitFree(o) = s
    BY <1>7 DEF InitFree
  <2>2. s \in [1..R -> Pages]
    BY <1>3 DEF Pages
  <2>3. s \in Seq(Pages) /\ Len(s) = R
    <3>1. R \in Nat
      BY <1>3
    <3> HIDE DEF s
    <3>2. s \in Seq(Pages)
      BY <3>1, <2>2
    <3>3. DOMAIN s = 1..R
      BY <2>2
    <3>4. Len(s) = R
      BY <3>1, <3>2, <3>3
    <3> QED
      BY <3>2, <3>4
  <2>4. Distinct(s)
    BY <2>3, <1>3 DEF Distinct
  <2>5. Members(s) = {p \in Pages : p >= Z}
    <3>1. Members(s) \subseteq {p \in Pages : p >= Z}
      <4>1. \A i \in 1..R : s[i] \in Pages /\ s[i] >= Z
        BY <2>2, <1>3
      <4> HIDE DEF s, Z
      <4> QED
        BY <4>1, <2>3 DEF Members
    <3>2. ASSUME NEW p \in Pages, p >= Z
          PROVE  p \in Members(s)
      <4>1. p - Z + 1 \in 1..R /\ s[p - Z + 1] = p
        BY <3>2, <1>3 DEF Pages
      <4> QED
        BY <4>1, <2>3 DEF Members
    <3> QED
      BY <3>1, <3>2
  <2> QED
    BY <2>1, <2>3, <2>4, <2>5, <1>5, <1>7
<1>8. CASE o # MaxOrder /\ o # 0
  <2>1. InitFree(o) = <<>>
    BY <1>8 DEF InitFree
  <2>2. \A p \in Pages : InitOrder(p) # o
    BY <1>5, <1>8
  <2> QED
    BY <2>1, <2>2 DEF Distinct, Members
<1> QED
  BY <1>6, <1>7, <1>8

LEMMA InitInv ==
  ASSUME QuietOutside
  PROVE  Init => IInv
<1> SUFFICES ASSUME Init
             PROVE  IInv
  OBVIOUS
<1>1. PICK out \in [Beyond -> OutsideDescs] :
        /\ order = [d \in Descs |-> IF d \in Pages THEN InitOrder(d) ELSE out[d].order]
        /\ busy = [d \in Descs |-> IF d \in Pages THEN FALSE ELSE out[d].busy]
  BY DEF Init
<1>2. /\ free = [o \in Orders |-> InitFree(o)]
      /\ dirty = {} /\ held = [p \in Pages |-> NotHeld] /\ ret = NULL
      /\ pc = "idle" /\ cur = 0 /\ ord = 0 /\ want = 0
  BY DEF Init
<1>3. 0 \in Pages /\ 0 \in Orders /\ MaxOrder \in Orders
  BY SizeFacts DEF Pages, Orders
<1>4. Pages \subseteq Descs
  BY <1>3, SizeFacts DEF Pages, Descs
<1>5. \A d \in Beyond : out[d] \in [busy : BOOLEAN, order : Int]
                       /\ (out[d].busy \/ out[d].order \notin Orders)
  BY <1>1, OutsideAssumption DEF QuietOutside
<1>6. \A p \in Pages : InitOrder(p) \in Int /\ order[p] = InitOrder(p) /\ ~busy[p]
  BY <1>1, <1>3, <1>4 DEF InitOrder, Orders
<1>7. order \in [Descs -> Int] /\ busy \in [Descs -> BOOLEAN]
  BY <1>1, <1>5, <1>6, <1>4 DEF Beyond
<1>8. free \in [Orders -> Seq(Pages)]
  BY <1>2, InitLists
<1>9. TypeOK
  BY <1>2, <1>3, <1>7, <1>8 DEF TypeOK, Answers
<1>10. BlockOrder = [p \in Pages |-> InitOrder(p)]
  BY <1>2, <1>6 DEF BlockOrder
<1>11. Tiling(BlockOrder)
  BY <1>10, InitTiling
<1>12. ListsInv
  <2> SUFFICES ASSUME NEW o \in Orders
               PROVE  Distinct(free[o]) /\ Members(free[o]) = FreeHeads(o)
    BY DEF ListsInv
  <2>1. FreeHeads(o) = {p \in Pages : InitOrder(p) = o}
    BY <1>2, <1>6 DEF FreeHeads
  <2> QED
    BY <2>1, <1>2, InitLists
<1>13. HeldInv
  BY <1>2, <1>6 DEF HeldInv
<1>14. InHandInv
  BY <1>2 DEF InHandInv
<1>15. OutsideInv
  BY <1>1, <1>5 DEF OutsideInv, LooksFree, Beyond
<1>16. DirtyIsHeld
  BY <1>2 DEF DirtyIsHeld
<1> QED
  BY <1>9, <1>11, <1>12, <1>13, <1>14, <1>15, <1>16 DEF IInv

-----------------------------------------------------------------------------
(* The theorems. *)

\* The inductive invariant holds throughout: the blocks tile the heap, and the
\* lists, the holders' view and the fields of struct page agree on them, at
\* every iteration of get_pages_from_list and put_pages_to_list.
THEOREM Invariance ==
  ASSUME QuietOutside
  PROVE  Spec => []IInv
<1>1. Init => IInv
  BY InitInv
<1>2. IInv /\ [Next]_vars => IInv'
  BY NextInv
<1> QED
  BY <1>1, <1>2, PTL DEF Spec

\* In a state of the invariant a block is one that BlockOrder names.
LEMMA BlocksAreTiles ==
  ASSUME IInv, NEW p \in Pages, NEW o \in Orders
  PROVE  IsBlock(p, o) <=> BlockOrder[p] = o
<1> USE DEF IInv
<1>1. InList(p, o) <=> p \in FreeHeads(o)
  BY DEF ListsInv, InList, Members
<1>2. held[p] = o <=> busy[p] /\ order[p] = o
  BY DEF HeldInv, TypeOK, NotHeld, Orders
<1>3. BlockOrder[p] = IF pc # "idle" /\ p = cur THEN ord ELSE order[p]
  BY DEF BlockOrder
<1>4. CASE pc # "idle" /\ p = cur
  BY <1>1, <1>2, <1>3, <1>4 DEF IsBlock, FreeHeads, InHandInv
<1>5. CASE ~(pc # "idle" /\ p = cur)
  BY <1>1, <1>2, <1>3, <1>5 DEF IsBlock, FreeHeads
<1> QED
  BY <1>4, <1>5

LEMMA BlockBounds ==
  ASSUME NEW p \in Pages, NEW o \in Orders, NEW i
  PROVE  i \in Block(p, o) <=> i \in Int /\ p <= i /\ i < p + Size[o]
BY SizeFacts DEF Block, Pages

\* No call loses a page: it is queued, held or in hand, halfway included.
THEOREM NoPageLost ==
  ASSUME QuietOutside
  PROVE  Spec => []EveryPageInABlock
<1>1. ASSUME IInv PROVE EveryPageInABlock
  <2> SUFFICES ASSUME NEW i \in Pages
               PROVE  \E p \in Pages, o \in Orders : IsBlock(p, o) /\ i \in Block(p, o)
    BY DEF EveryPageInABlock
  <2>1. PICK p \in Pages :
          BlockOrder[p] # -1 /\ p <= i /\ i < p + Size[BlockOrder[p]]
    BY <1>1 DEF IInv, Tiling
  <2>2. BlockOrder[p] \in Orders
    BY <2>1, <1>1 DEF IInv, Tiling
  <2>3. i \in Block(p, BlockOrder[p])
    BY <2>1, <2>2, BlockBounds DEF Pages
  <2> QED
    BY <2>2, <2>3, <1>1, BlocksAreTiles
<1> QED
  BY <1>1, Invariance, PTL

\* No page is in two blocks and no block leaves the heap, whichever neighbour
\* a block is merged with.
THEOREM NoOverlap ==
  ASSUME QuietOutside
  PROVE  Spec => []BlocksDisjoint
<1>1. ASSUME IInv PROVE BlocksDisjoint
  <2> SUFFICES ASSUME NEW p \in Pages, NEW o \in Orders, IsBlock(p, o)
               PROVE  /\ Block(p, o) \subseteq Pages
                      /\ \A q \in Pages, n \in Orders :
                           IsBlock(q, n) /\ <<q, n>> # <<p, o>> =>
                             Block(p, o) \cap Block(q, n) = {}
    BY DEF BlocksDisjoint
  <2>1. BlockOrder[p] = o /\ o # -1
    BY <1>1, BlocksAreTiles DEF Orders
  <2>2. p + Size[o] <= NPages
    BY <2>1, <1>1 DEF IInv, Tiling
  <2>3. Block(p, o) \subseteq Pages
    BY <2>2, BlockBounds, SizeFacts DEF Pages
  <2>4. ASSUME NEW q \in Pages, NEW n \in Orders, IsBlock(q, n), <<q, n>> # <<p, o>>
        PROVE  Block(p, o) \cap Block(q, n) = {}
    <3>1. BlockOrder[q] = n /\ n # -1
      BY <2>4, <1>1, BlocksAreTiles DEF Orders
    <3>2. q # p
      BY <2>1, <2>4, <3>1
    <3>3. /\ p < q => p + Size[o] <= q
          /\ q < p => q + Size[n] <= p
      BY <2>1, <3>1, <1>1 DEF IInv, Tiling
    <3>4. p \in Int /\ q \in Int /\ Size[o] \in Nat /\ Size[n] \in Nat
      BY SizeFacts DEF Pages
    <3> QED
      BY <3>2, <3>3, <3>4, BlockBounds
  <2> QED
    BY <2>3, <2>4
<1> QED
  BY <1>1, Invariance, PTL

\* The variables have their types: whatever is merged with what, the block in
\* hand starts at a page of the heap and its order is at most the largest.
THEOREM TypesHold ==
  ASSUME QuietOutside
  PROVE  Spec => []TypeOK
<1>1. IInv => TypeOK
  BY DEF IInv
<1> QED
  BY <1>1, Invariance, PTL

\* The order field and the busy flag the merge loop trusts tell the truth.
THEOREM Metadata ==
  ASSUME QuietOutside
  PROVE  Spec => []MetadataAgrees
<1>1. ASSUME IInv PROVE MetadataAgrees
  <2> SUFFICES ASSUME NEW p \in Pages, NEW o \in Orders
               PROVE  /\ InList(p, o) <=> LooksFree(p, o) /\ ~(pc # "idle" /\ p = cur)
                      /\ held[p] = o <=> busy[p] /\ order[p] = o
    BY DEF MetadataAgrees
  <2>1. InList(p, o) <=> p \in FreeHeads(o)
    BY <1>1 DEF IInv, ListsInv, InList, Members
  <2>2. held[p] = o <=> busy[p] /\ order[p] = o
    BY <1>1 DEF IInv, HeldInv, TypeOK, NotHeld, Orders
  <2> QED
    BY <2>1, <2>2 DEF FreeHeads, LooksFree
<1> QED
  BY <1>1, Invariance, PTL

\* No list holds a block twice, whatever is queued, split and merged.
THEOREM ListsDistinct ==
  ASSUME QuietOutside
  PROVE  Spec => []NoDuplicates
<1>1. ASSUME IInv PROVE NoDuplicates
  BY <1>1 DEF IInv, ListsInv, Distinct, NoDuplicates
<1> QED
  BY <1>1, Invariance, PTL

\* PAGE_DIRTY only marks pages that are held: free_pages takes the flags of a
\* block away and no merge or refused call sets or leaves one.
THEOREM DirtyPages ==
  ASSUME QuietOutside
  PROVE  Spec => []DirtyIsHeld
<1>1. IInv => DirtyIsHeld
  BY DEF IInv
<1> QED
  BY <1>1, Invariance, PTL

\* With no call running, the heap is the blocks in the lists and the held ones:
\* when every list is empty, every page is held.
LEMMA EmptyListsAllHeld ==
  ASSUME IInv, pc = "idle", \A n \in Orders : free[n] = <<>>
  PROVE  HeldPages(held) = Pages
<1> SUFFICES ASSUME NEW i \in Pages
             PROVE  i \in HeldPages(held)
  BY DEF HeldPages
<1>1. PICK p \in Pages : BlockOrder[p] # -1 /\ p <= i /\ i < p + Size[BlockOrder[p]]
  BY DEF IInv, Tiling
<1>2. BlockOrder[p] \in Orders /\ BlockOrder[p] = order[p]
  BY <1>1 DEF IInv, Tiling, BlockOrder
<1>3. i \in Block(p, order[p])
  BY <1>1, <1>2, BlockBounds DEF Pages
<1>4. FreeHeads(order[p]) = {}
  BY <1>2 DEF IInv, ListsInv, Members
<1>5. busy[p]
  BY <1>4 DEF FreeHeads
<1> QED
  BY <1>3, <1>5 DEF IInv, HeldInv, HeldPages

\* Every step of the buddy system is a step of the abstract allocator, or none.
LEMMA StepImplements ==
  ASSUME IInv, [Next]_vars
  PROVE  [Promise!Next]_(Promise!vars)
<1> USE DEF Promise!vars
<1>1. ASSUME NEW o \in Orders, GetStart(o)
      PROVE  UNCHANGED <<held, ret>>
  BY <1>1 DEF GetStart
<1>2. ASSUME NEW o \in Orders, GetFail(o)
      PROVE  Promise!Refuse(o)
  <2>1. o = 0 => \A n \in Orders : free[n] = <<>>
    BY <1>2 DEF GetFail, Orders
  <2>2. o = 0 => HeldPages(held) = Pages
    BY <2>1, <1>2, EmptyListsAllHeld DEF GetFail
  <2> QED
    BY <2>2, <1>2 DEF GetFail, Promise!Refuse, Promise!HeldPages, HeldPages,
       Promise!Pages, Pages, Promise!Block, Block, Promise!NotHeld, NotHeld
<1>3. ASSUME GetDone
      PROVE  Promise!Alloc(want)
  <2>1. /\ pc = "split" /\ ord = want /\ ret' = [asked |-> want, page |-> cur]
        /\ held' = [held EXCEPT ![cur] = want]
    BY <1>3 DEF GetDone
  <2>2. cur \in Pages /\ want \in Orders /\ BlockOrder[cur] = want /\ want # -1
    BY <2>1 DEF IInv, TypeOK, BlockOrder, Orders
  <2>3. cur + Size[want] <= NPages
    BY <2>2 DEF IInv, Tiling
  <2>4. Block(cur, want) \subseteq Pages
    BY <2>2, <2>3, BlockBounds, SizeFacts DEF Pages
  <2>5. ASSUME NEW i \in Block(cur, want), i \in HeldPages(held)
        PROVE  FALSE
    <3>1. PICK q \in Pages : held[q] # NotHeld /\ i \in Block(q, held[q])
      BY <2>5 DEF HeldPages
    <3>2. q # cur /\ held[q] \in Orders /\ BlockOrder[q] = held[q] /\ held[q] # -1
      BY <3>1, <2>1 DEF IInv, TypeOK, HeldInv, InHandInv, BlockOrder, NotHeld
    <3>3. /\ cur < q => cur + Size[want] <= q
          /\ q < cur => q + Size[held[q]] <= cur
      BY <3>2, <2>2 DEF IInv, Tiling
    <3>4. /\ cur \in Int /\ q \in Int /\ i \in Int
          /\ cur <= i /\ i < cur + Size[want] /\ q <= i /\ i < q + Size[held[q]]
          /\ Size[want] \in Nat /\ Size[held[q]] \in Nat
      BY <3>1, <3>2, <2>2, <2>5, BlockBounds, SizeFacts DEF Pages
    <3> QED
      BY <3>2, <3>3, <3>4
  <2>6. Block(cur, want) \cap HeldPages(held) = {}
    BY <2>5
  <2> QED
    BY <2>1, <2>2, <2>4, <2>6 DEF Promise!Alloc, Promise!HeldPages, HeldPages,
       Promise!Pages, Pages, Promise!Block, Block, Promise!NotHeld, NotHeld
<1>4. ASSUME NEW p \in Pages, PutStart(p)
      PROVE  Promise!Free(p)
  BY <1>4 DEF PutStart, Promise!Free, Promise!NotHeld, NotHeld
<1>5. ASSUME NEW p \in Pages, NEW o \in Orders, PutRefused(p, o)
      PROVE  UNCHANGED <<held, ret>>
  BY <1>5 DEF PutRefused
<1>6. Split \/ MergeNext \/ MergePrev \/ PutDone \/ UNCHANGED vars
        => UNCHANGED <<held, ret>>
  BY DEF Split, MergeNext, MergePrev, PutDone, vars
<1>7. want \in Orders
  BY DEF IInv, TypeOK
<1> QED
  BY <1>1, <1>2, <1>3, <1>4, <1>5, <1>6, <1>7
  DEF Next, Promise!Next, Promise!Orders, Orders, Promise!Pages, Pages

\* The buddy system keeps the promise of alloc_pages and free_pages: what it
\* hands out lies in the heap and is nobody else's, and a request for one page
\* fails only when every page is held.
THEOREM Refinement ==
  ASSUME QuietOutside
  PROVE  Spec => ImplementsPageAllocator
<1>1. Init => Promise!Init
  BY DEF Init, Promise!Init, Promise!Pages, Pages, Promise!NotHeld, NotHeld
<1>2. IInv /\ [Next]_vars => [Promise!Next]_(Promise!vars)
  BY StepImplements
<1> QED
  BY <1>1, <1>2, Invariance, PTL DEF Spec, ImplementsPageAllocator, Promise!Spec

-----------------------------------------------------------------------------
(* Alignment. *)

\* Splitting and merging apart, no step changes where the blocks are.
LEMMA BlocksStay ==
  ASSUME IInv, [Next]_vars, ~Split, ~(MergeNext \/ MergePrev)
  PROVE  BlockOrder' = BlockOrder
<1>. USE DEF IInv
<1>1. Pages \subseteq Descs
  BY NeighboursAreDescs
<1>2. ASSUME NEW o \in Orders, GetStart(o)
      PROVE  BlockOrder' = BlockOrder
  <2>1. PICK n \in o..MaxOrder :
          free[n] # <<>> /\ cur' = Head(free[n]) /\ ord' = n
    BY <1>2 DEF GetStart
  <2>2. n \in Orders
    BY <2>1, SizeFacts DEF Orders
  <2>3. cur' \in FreeHeads(n)
    BY <2>1, <2>2, TailFacts DEF TypeOK, ListsInv
  <2>. QED
    BY <1>2, <2>1, <2>3 DEF GetStart, BlockOrder, FreeHeads
<1>3. CASE GetDone
  <2>1. \A p \in Pages : order'[p] = IF p = cur THEN ord ELSE order[p]
    BY <1>1, <1>3 DEF GetDone, TypeOK
  <2>. QED
    BY <1>3, <2>1 DEF GetDone, BlockOrder
<1>4. ASSUME NEW b \in Pages, PutStart(b)
      PROVE  BlockOrder' = BlockOrder
  BY <1>4 DEF PutStart, HeldInv, BlockOrder
<1>5. CASE PutDone
  BY <1>5 DEF PutDone, InHandInv, BlockOrder
<1>6. ASSUME UNCHANGED <<order, pc, cur, ord>>
      PROVE  BlockOrder' = BlockOrder
  BY <1>6 DEF BlockOrder
<1>. QED
  BY <1>2, <1>3, <1>4, <1>5, <1>6 DEF Next, GetFail, PutRefused, vars

\* A multiple of a size, and what is a page further on by half of it.
LEMMA Halves ==
  ASSUME NEW o \in Orders, o < MaxOrder, NEW p \in Pages, NEW k \in 0..NPages,
         p = k * Size[o + 1]
  PROVE  /\ \E j \in 0..NPages : p = j * Size[o]
         /\ p + Size[o] \in Pages => \E j \in 0..NPages : p + Size[o] = j * Size[o]
<1>1. /\ NPages \in Nat /\ k \in Nat /\ p \in Nat /\ p < NPages
      /\ Size[o] \in Nat /\ Size[o] >= 1 /\ Size[o + 1] = 2 * Size[o]
  BY SizeFacts DEF Pages
<1>2. p = (2 * k) * Size[o]
  BY <1>1
<1>3. p + Size[o] = (2 * k + 1) * Size[o]
  BY <1>1
<1>4. ASSUME NEW j \in Nat, j * Size[o] < NPages
      PROVE  j \in 0..NPages
  <2>1. j <= j * Size[o]
    <3>1. PICK d \in Nat : Size[o] = 1 + d
      <4>1. Size[o] - 1 \in Nat /\ Size[o] = 1 + (Size[o] - 1)
        BY <1>1
      <4>. QED
        BY <4>1
    <3>2. j * Size[o] = j + j * d /\ j * d \in Nat
      BY <3>1
    <3>. QED
      BY <3>2
  <2>2. j * Size[o] \in Nat
    BY <1>1
  <2>. QED
    BY <1>1, <1>4, <2>1, <2>2
<1>5. 2 * k \in Nat /\ 2 * k + 1 \in Nat
  BY <1>1
<1>6. 2 * k \in 0..NPages
  BY <1>1, <1>2, <1>4, <1>5
<1>7. p + Size[o] \in Pages => 2 * k + 1 \in 0..NPages
  BY <1>1, <1>3, <1>4, <1>5 DEF Pages
<1>. QED
  BY <1>2, <1>3, <1>6, <1>7

LEMMA BlockTilesNext ==
  ASSUME IInv', NEW p \in Pages, NEW o \in Orders, IsBlock(p, o)'
  PROVE  BlockOrder'[p] = o
<1>1. (IInv => (IsBlock(p, o) <=> BlockOrder[p] = o))'
  BY BlocksAreTiles, PTL
<1>. QED
  BY <1>1

LEMMA SplitKeepsAligned ==
  ASSUME IInv, Split, Aligned
  PROVE  Aligned'
<1>. DEFINE o == ord - 1
            h == cur + Size[o]
<1>1. /\ pc = "split" /\ pc' = "split" /\ ord > want /\ ord' = o /\ cur' = h
      /\ order' = [order EXCEPT ![cur] = o]
  BY DEF Split
<1>2. o \in Orders /\ o < MaxOrder /\ ord = o + 1 /\ ord \in Orders
  BY <1>1, SizeFacts DEF IInv, TypeOK, Orders
<1>3. cur \in Pages /\ BlockOrder[cur] = o + 1
  BY <1>1, <1>2 DEF IInv, TypeOK, BlockOrder
<1>4. h \in Pages
  BY <1>2, <1>3, SplitTiling DEF IInv
<1>5. PICK k \in 0..NPages : cur = k * Size[o + 1]
  <2>1. IsBlock(cur, ord)
    BY <1>2, <1>3, BlocksAreTiles
  <2>. QED
    BY <1>2, <1>3, <2>1 DEF Aligned
<1>6. /\ \E j \in 0..NPages : cur = j * Size[o]
      /\ \E j \in 0..NPages : h = j * Size[o]
  BY <1>2, <1>3, <1>4, <1>5, Halves
<1>7. IInv'
  BY SplitInv
<1>8. ASSUME NEW p \in Pages, NEW n \in Orders, IsBlock(p, n)'
      PROVE  \E j \in 0..NPages : p = j * Size[n]
  <2>1. BlockOrder'[p] = n
    BY <1>7, <1>8, BlockTilesNext
  <2>2. CASE p = h
    BY <1>1, <1>6, <2>1, <2>2 DEF BlockOrder
  <2>3. CASE p = cur /\ p # h
    <3>1. order'[p] = o
      BY <1>1, <1>3, <2>3, NeighboursAreDescs DEF IInv, TypeOK
    <3>. QED
      BY <1>1, <1>6, <2>1, <2>3, <3>1 DEF BlockOrder
  <2>4. CASE p # cur /\ p # h
    <3>1. BlockOrder[p] = n
      BY <1>1, <2>1, <2>4, NeighboursAreDescs DEF BlockOrder, IInv, TypeOK
    <3>. QED
      BY <3>1, BlocksAreTiles DEF Aligned
  <2>. QED
    BY <2>2, <2>3, <2>4
<1>. QED
  BY <1>8 DEF Aligned

\* The blocks init_page_map makes: those of the largest order one after the other,
\* and single pages.
LEMMA InitAligned ==
  ASSUME Init
  PROVE  Aligned
<1>. DEFINE S == Size[MaxOrder]
<1>1. /\ MaxOrder \in Orders /\ 0 \in Orders /\ NPages \in Nat
      /\ S \in Nat /\ S > 0 /\ Size[0] = 1
  BY SizeFacts DEF Orders
<1>2. WholeBlocks \in Nat /\ (NPages % S) \in Nat /\ NPages = WholeBlocks * S + (NPages % S)
  BY <1>1, DivFacts DEF WholeBlocks
<1>3. WholeBlocks <= NPages
  <2>1. WholeBlocks * S = WholeBlocks + WholeBlocks * (S - 1)
    BY <1>1, <1>2
  <2>2. WholeBlocks * (S - 1) \in Nat
    <3>1. S - 1 \in Nat
      BY <1>1
    <3>. QED
      BY <3>1, <1>2
  <2>. QED
    BY <1>1, <1>2, <2>1, <2>2
<1>. HIDE DEF S
<1>4. ASSUME NEW p \in Pages, NEW o \in Orders, IsBlock(p, o)
      PROVE  \E k \in 0..NPages : p = k * Size[o]
  <2>1. PICK j \in 1..Len(InitFree(o)) : InitFree(o)[j] = p
    BY <1>4 DEF Init, IsBlock, InList, NotHeld, Orders
  <2>2. CASE o = MaxOrder
    <3>1. j \in 1..WholeBlocks /\ p = (j - 1) * S
      BY <1>2, <2>1, <2>2 DEF InitFree, S
    <3>2. j - 1 \in 0..NPages
      BY <1>1, <1>2, <1>3, <3>1
    <3>. QED
      BY <2>2, <3>1, <3>2 DEF S
  <2>3. CASE o = 0
    <3>1. p \in 0..NPages /\ p = p * Size[0]
      BY <1>1 DEF Pages
    <3>. QED
      BY <2>3, <3>1
  <2>4. CASE o # MaxOrder /\ o # 0
    BY <2>1, <2>4 DEF InitFree
  <2>. QED
    BY <2>2, <2>3, <2>4
<1>. QED
  BY <1>4 DEF Aligned

\* Blocks are aligned at first, and only merging ever changes that.
THEOREM Alignment ==
  ASSUME QuietOutside
  PROVE  Spec => AlignedUntilMerged
<1>1. Init => Aligned
  BY InitAligned
<1>2. IInv /\ [Next]_vars => [Aligned /\ ~(MergeNext \/ MergePrev) => Aligned']_vars
  <2>. SUFFICES ASSUME IInv, [Next]_vars, Aligned, ~(MergeNext \/ MergePrev)
                PROVE  Aligned'
    OBVIOUS
  <2>1. CASE Split
    BY <2>1, SplitKeepsAligned
  <2>2. CASE ~Split
    <3>1. BlockOrder' = BlockOrder
      BY <2>2, BlocksStay
    <3>2. IInv'
      BY NextInv
    <3>3. ASSUME NEW p \in Pages, NEW o \in Orders, IsBlock(p, o)'
          PROVE  \E k \in 0..NPages : p = k * Size[o]
      <4>1. BlockOrder[p] = o
        BY <3>1, <3>2, <3>3, BlockTilesNext
      <4>2. IsBlock(p, o)
        BY <4>1, BlocksAreTiles
      <4>. QED
        BY <4>2 DEF Aligned
    <3>. QED
      BY <3>3 DEF Aligned
  <2>. QED
    BY <2>1, <2>2
<1>. QED
  BY <1>1, <1>2, Invariance, PTL DEF Spec, AlignedUntilMerged
=============================================================================
