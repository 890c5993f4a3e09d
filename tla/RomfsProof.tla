----------------------------- MODULE RomfsProof -----------------------------
(***************************************************************************)
(* genromfs and lookups in its images, for every host, every option, path  *)
(* and whatever lies in the buffer: every header is written where the scan *)
(* has put it, data are aligned, nothing leaks, and an inode tells the     *)
(* truth about its file.                                                   *)
(*                                                                         *)
(* The invariant has one part per party.  PassInv: what the scan has made, *)
(* in which order, and which directories it is in.  DumpInv: how many of   *)
(* the nodes are written, and that the next to come is the next that was   *)
(* made.  ImageInv: what dumpnode writes into headers.  LocalType, CallInv,*)
(* HeldInv and ResultInv: what the buffer and the rest of the path are at  *)
(* each point of namei, what it holds, and what the caller got.            *)
(*                                                                         *)
(* What lookups find takes more.  LinksInv: where a header's next and      *)
(* spec.info lead; DirsInv: only directories have nodes in them; FirstInv: *)
(* the first header is where the kernel begins; SeekInv: a lookup is where *)
(* the tree has the part of the path it has done.  ShowInv and BottomInv:  *)
(* the nodes of a directory are what the host has in it, a part of it      *)
(* while the scan is there and all of it when the scan has left.           *)
(***************************************************************************)
EXTENDS Romfs, Chains

-----------------------------------------------------------------------------
(* Numbers: multiples, rounding, alignment. *)

\* A multiple of a header's granularity.
Multiple(x) == \E c \in Int : x = c * Unit

LEMMA UnitFacts == Unit \in Nat /\ Unit > 0
BY RomImageAssumption

LEMMA DivMod ==
  ASSUME NEW a \in Nat, NEW b \in Nat, b > 0
  PROVE  /\ a \div b \in Nat /\ a % b \in 0..(b - 1)
         /\ a = (a \div b) * b + (a % b)
OBVIOUS

\* A number that is q times b leaves nothing.
LEMMA NoRest ==
  ASSUME NEW q \in Int, NEW b \in Nat, b > 0, q * b \in Nat
  PROVE  (q * b) % b = 0
<1>1. /\ (q * b) \div b \in Nat /\ (q * b) % b \in 0..(b - 1)
      /\ q * b = ((q * b) \div b) * b + ((q * b) % b)
  BY DivMod
<1>. DEFINE d == (q * b) \div b
           e == (q * b) % b
           f == q - d
<1>2. f \in Int /\ e = f * b
  BY <1>1
<1>3. f = 0
  <2>. HIDE DEF f, d
  <2>1. e \in 0..(b - 1)
    BY <1>1
  <2>. HIDE DEF e
  <2>2. ASSUME f >= 1 PROVE FALSE
    <3>1. f * b >= b
      <4>1. PICK g \in Nat : f = g + 1
        <5>1. f - 1 \in Nat /\ f = (f - 1) + 1
          BY <1>2, <2>2
        <5>. QED
          BY <5>1
      <4>2. f * b = g * b + b /\ g * b >= 0
        BY <4>1
      <4>. QED
        BY <4>2
    <3>. QED
      BY <1>2, <2>1, <3>1
  <2>3. ASSUME f <= -1 PROVE FALSE
    <3>1. PICK g \in Nat : f = -g - 1
      <4>1. -f - 1 \in Nat /\ f = -(-f - 1) - 1
        BY <1>2, <2>3
      <4>. QED
        BY <4>1
    <3>2. f * b = -(g * b) - b /\ g * b >= 0
      BY <3>1
    <3>. QED
      BY <1>2, <2>1, <3>2
  <2>. QED
    BY <1>2, <2>2, <2>3
<1>4. e = 0
  <2>. HIDE DEF f, e
  <2>. QED
    BY <1>2, <1>3
<1>. QED
  BY <1>4

LEMMA MultipleFacts ==
  ASSUME NEW x \in Nat
  PROVE  Multiple(x) <=> (x % Unit) = 0
<1>1. ASSUME Multiple(x) PROVE (x % Unit) = 0
  BY <1>1, NoRest, UnitFacts DEF Multiple
<1>2. ASSUME (x % Unit) = 0 PROVE Multiple(x)
  <2>1. x = (x \div Unit) * Unit /\ x \div Unit \in Nat
    BY <1>2, DivMod, UnitFacts
  <2>. QED
    BY <2>1 DEF Multiple
<1>. QED
  BY <1>1, <1>2

LEMMA MultipleSum ==
  ASSUME NEW x \in Int, NEW y \in Int, Multiple(x), Multiple(y)
  PROVE  Multiple(x + y) /\ Multiple(x - y)
<1>1. PICK c \in Int, d \in Int : x = c * Unit /\ y = d * Unit
  BY DEF Multiple
<1>2. x + y = (c + d) * Unit /\ x - y = (c - d) * Unit
  BY <1>1, UnitFacts
<1>. QED
  BY <1>2 DEF Multiple

LEMMA MultipleTimes ==
  ASSUME NEW q \in Int, NEW y \in Int, Multiple(y)
  PROVE  Multiple(q * y)
<1>1. PICK d \in Int : y = d * Unit
  BY DEF Multiple
<1>2. q * y = (q * d) * Unit /\ q * d \in Int
  BY <1>1, UnitFacts
<1>. QED
  BY <1>2 DEF Multiple

\* Rounding goes up to a multiple.
LEMMA RoundUpFacts ==
  ASSUME NEW x \in Nat
  PROVE  RoundUp(x, Unit) \in Nat /\ RoundUp(x, Unit) >= x /\ Multiple(RoundUp(x, Unit))
<1>. DEFINE y == x + Unit - 1
           q == y \div Unit
<1>1. y \in Nat
  BY UnitFacts
<1>2. q \in Nat /\ y % Unit \in 0..(Unit - 1) /\ y = q * Unit + (y % Unit)
  BY <1>1, DivMod, UnitFacts
<1>3. RoundUp(x, Unit) = q * Unit
  BY DEF RoundUp
<1>. HIDE DEF q
<1>4. q * Unit >= x /\ q * Unit \in Nat
  BY <1>2, UnitFacts
<1>. QED
  BY <1>2, <1>3, <1>4 DEF Multiple

LEMMA RoundUpNought == RoundUp(0, Unit) = 0
<1>1. (Unit - 1) \div Unit = 0
  BY UnitFacts
<1>2. 0 + Unit - 1 = Unit - 1
  BY UnitFacts
<1>3. RoundUp(0, Unit) = ((Unit - 1) \div Unit) * Unit
  BY <1>2 DEF RoundUp
<1>. QED
  BY <1>1, <1>3, UnitFacts

LEMMA HeaderFacts ==
  ASSUME NEW name \in Seq(Chars)
  PROVE  HeaderLen(name) \in Nat /\ HeaderLen(name) > 0 /\ Multiple(HeaderLen(name))
<1>. DEFINE r == RoundUp(Len(name) + 1, Unit)
<1>1. r \in Nat /\ Multiple(r)
  BY RoundUpFacts
<1>2. Multiple(Unit)
  <2>1. Unit = 1 * Unit
    BY UnitFacts
  <2>. QED
    BY <2>1 DEF Multiple
<1>3. HeaderLen(name) = Unit + r
  BY DEF HeaderLen
<1>. HIDE DEF r
<1>. QED
  BY <1>1, <1>2, <1>3, MultipleSum, UnitFacts

\* A finite set of numbers has a greatest.
LEMMA Greatest ==
  ASSUME NEW S, S \subseteq Nat, S # {}, NEW most \in Nat, \A s \in S : s <= most
  PROVE  \E s \in S : \A t \in S : t <= s
<1>. DEFINE T == {most - s : s \in S}
<1>1. T \in SUBSET Nat /\ T # {}
  <2>1. \A s \in S : most - s \in Nat
    OBVIOUS
  <2>2. T \subseteq Nat
    BY <2>1
  <2>3. PICK s \in S : TRUE
    OBVIOUS
  <2>4. most - s \in T
    BY <2>3
  <2>. QED
    BY <2>2, <2>4
<1>2. PICK x \in T : \A y \in T : x <= y
  BY <1>1, LeastElement
<1>3. PICK s \in S : x = most - s
  BY <1>2
<1>4. \A t \in S : x <= most - t
  BY <1>2
<1>. QED
  BY <1>3, <1>4

\* Alignments are bounded, there being finitely many -A options.
LEMMA Bounded == \E most \in Nat : Align <= most /\ Unit <= most /\ \A p \in Patterns : p.align <= most
<1>1. PICK s \in Seq(Patterns) : \A p \in Patterns : \E n \in 1..Len(s) : s[n] = p
  BY RomImageAssumption DEF IsFiniteSet
<1>. DEFINE Ok(n, m) == Align <= m /\ Unit <= m /\ \A k \in 1..n : s[k].align <= m
           T == {n \in 0..Len(s) : ~\E m \in Nat : Ok(n, m)}
<1>2. \A k \in 1..Len(s) : s[k] \in Patterns
  BY <1>1
<1>3. T = {}
  <2>1. SUFFICES ASSUME T # {} PROVE FALSE
    OBVIOUS
  <2>2. T \in SUBSET Nat
    BY <1>1
  <2>3. PICK n \in T : \A y \in T : n <= y
    <3>. HIDE DEF T
    <3>. QED
      BY <2>1, <2>2, LeastElement
  <2>4. n # 0
    <3>1. \E m \in Nat : Align <= m /\ Unit <= m
      <4>1. Align + Unit \in Nat /\ Align <= Align + Unit /\ Unit <= Align + Unit
        BY RomImageAssumption
      <4>. QED
        BY <4>1
    <3>2. \A m : (Align <= m /\ Unit <= m) => Ok(0, m)
      OBVIOUS
    <3>. QED
      BY <3>1, <3>2
  <2>5. n - 1 \in 0..Len(s) /\ n - 1 \notin T
    <3>1. n \in 0..Len(s) /\ Len(s) \in Nat
      BY <1>1, <2>3
    <3>2. n - 1 \in 0..Len(s) /\ ~(n <= n - 1)
      BY <2>4, <3>1
    <3>. HIDE DEF T
    <3>. QED
      BY <2>3, <3>2
  <2>6. PICK m \in Nat : Ok(n - 1, m)
    BY <2>5
  <2>7. s[n].align \in Nat /\ n \in 1..Len(s)
    <3>1. n \in 1..Len(s)
      BY <1>1, <2>3, <2>4
    <3>. QED
      BY <1>2, <3>1, RomImageAssumption
  <2>8. Ok(n, m + s[n].align)
    <3>. DEFINE a == s[n].align
    <3>1. \A k \in 1..n : s[k].align \in Nat
      BY <1>2, <2>7, RomImageAssumption
    <3>2. a \in Nat
      BY <2>7
    <3>3. \A k \in 1..(n - 1) : s[k].align <= m
      BY <2>6
    <3>4. Align \in Nat /\ Unit \in Nat /\ Align <= m /\ Unit <= m
      BY <2>6, RomImageAssumption
    <3>5. \A k \in 1..n : s[k].align <= m + a
      <4>. TAKE k \in 1..n
      <4>1. CASE k = n
        BY <3>2, <4>1
      <4>2. CASE k # n
        <5>1. k \in 1..(n - 1)
          BY <2>7, <4>2
        <5>. HIDE DEF a
        <5>. QED
          BY <3>1, <3>2, <3>3, <5>1
      <4>. QED
        BY <4>1, <4>2
    <3>. HIDE DEF a
    <3>. QED
      BY <3>2, <3>4, <3>5 DEF a
  <2>9. m + s[n].align \in Nat
    BY <2>7
  <2>. QED
    BY <2>3, <2>8, <2>9
<1>4. PICK m \in Nat : Ok(Len(s), m)
  <2>1. Len(s) \in 0..Len(s)
    BY <1>1
  <2>. QED
    BY <1>3, <2>1
<1>. QED
  BY <1>1, <1>4

LEMMA Options ==
  /\ Align \in Nat \ {0} /\ (Align % Unit) = 0
  /\ \A p \in Patterns : p.align \in Nat \ {0} /\ (p.align % Unit) = 0
BY Zenon, RomImageAssumption

LEMMA AlignFacts ==
  ASSUME NEW name, NEW kind
  PROVE  /\ FindAlign(name, kind) \in Nat /\ FindAlign(name, kind) > 0
         /\ Multiple(FindAlign(name, kind))
<1>. DEFINE wanted == {IF kind = "reg" THEN Align ELSE Unit}
                  \cup {p.align : p \in {q \in Patterns : name \in q.names}}
<1>1. \A a \in wanted : a \in Nat \ {0} /\ (a % Unit) = 0
  <2>1. Unit \in Nat \ {0} /\ (Unit % Unit) = 0
    <3>1. Multiple(Unit)
      <4>1. Unit = 1 * Unit
        BY UnitFacts
      <4>. QED
        BY <4>1 DEF Multiple
    <3>. QED
      BY <3>1, MultipleFacts, UnitFacts
  <2>2. \A a \in wanted : a = Align \/ a = Unit \/ \E p \in Patterns : a = p.align
    OBVIOUS
  <2>. HIDE DEF wanted
  <2>. QED
    BY <2>1, <2>2, Options
<1>2. PICK most \in Nat : \A a \in wanted : a <= most
  BY Bounded
<1>3. wanted \subseteq Nat /\ wanted # {}
  BY <1>1
<1>. HIDE DEF wanted
<1>4. \E a \in wanted : \A b \in wanted : b <= a
  BY <1>2, <1>3, Greatest
<1>5. FindAlign(name, kind) = CHOOSE a \in wanted : \A b \in wanted : b <= a
  BY DEF FindAlign, wanted
<1>6. FindAlign(name, kind) \in wanted
  BY <1>4, <1>5
<1>. QED
  BY <1>1, <1>6, MultipleFacts

\* Padding: what comes behind it starts at a multiple of the alignment.
LEMMA PadFacts ==
  ASSUME NEW name, NEW kind, NEW o \in Nat, Multiple(o)
  PROVE  /\ Pad(name, kind, o) \in Nat /\ Multiple(Pad(name, kind, o))
         /\ (o + Pad(name, kind, o)) % FindAlign(name, kind) = 0
<1>. DEFINE a == FindAlign(name, kind)
           q == o \div a
           r == o % a
<1>1. a \in Nat /\ a > 0 /\ Multiple(a)
  BY AlignFacts
<1>2. Pad(name, kind, o) = IF r = 0 THEN 0 ELSE a - r
  BY DEF Pad
<1>. HIDE DEF a
<1>3. q \in Nat /\ r \in 0..(a - 1) /\ o = q * a + r
  BY <1>1, DivMod
<1>. HIDE DEF q, r
<1>4. CASE r = 0
  <2>1. o % a = 0
    BY <1>4 DEF r
  <2>2. Multiple(0)
    <3>1. 0 = 0 * Unit /\ 0 \in Int
      BY UnitFacts
    <3>. QED
      BY <3>1, Zenon DEF Multiple
  <2>. QED
    BY <1>2, <1>4, <2>1, <2>2 DEF a
<1>5. CASE r # 0
  <2>1. Pad(name, kind, o) = a - r /\ a - r \in Nat
    BY <1>1, <1>2, <1>3, <1>5
  <2>2. q * a \in Int /\ Multiple(q * a)
    <3>1. q \in Int /\ a \in Int /\ q * a \in Int
      BY <1>1, <1>3
    <3>. QED
      BY <1>1, <3>1, MultipleTimes, Zenon
  <2>3. r = o - q * a
    BY <1>3, <2>2
  <2>4. Multiple(r)
    BY <2>2, <2>3, MultipleSum
  <2>5. Multiple(a - r)
    BY <1>1, <1>3, <2>4, MultipleSum
  <2>6. o + (a - r) = (q + 1) * a
    BY <1>1, <1>3
  <2>7. (q + 1) * a \in Nat
    BY <1>1, <1>3
  <2>8. ((q + 1) * a) % a = 0
    BY <1>1, <1>3, <2>7, NoRest
  <2>. QED
    BY <2>1, <2>5, <2>6, <2>8 DEF a
<1>. QED
  BY <1>4, <1>5

\* s lists the numbers in S, in order.
InOrder(s, S) ==
  /\ s \in Seq(Nat)
  /\ \A k \in 1..Len(s) : s[k] \in S
  /\ \A j \in S : \E k \in 1..Len(s) : s[k] = j
  /\ \A k, l \in 1..Len(s) : k < l => s[k] < s[l]

LEMMA InOrderEmpty == InOrder(<<>>, {})
BY DEF InOrder

LEMMA InOrderAppend ==
  ASSUME NEW S, NEW s, InOrder(s, S), NEW n \in Nat, \A j \in S : j < n
  PROVE  InOrder(Append(s, n), S \cup {n})
<1>. DEFINE t == Append(s, n)
<1>1. /\ t \in Seq(Nat) /\ Len(t) = Len(s) + 1 /\ Len(s) \in Nat
      /\ \A k \in 1..Len(s) : t[k] = s[k]
      /\ t[Len(s) + 1] = n
  BY DEF InOrder
<1>. HIDE DEF t
<1>2. ASSUME NEW k \in 1..Len(t)
      PROVE  t[k] \in S \cup {n}
  <2>1. CASE k \in 1..Len(s)
    <3>1. t[k] = s[k] /\ s[k] \in S
      BY <1>1, <2>1, Zenon DEF InOrder
    <3>. QED
      BY <3>1
  <2>2. CASE k \notin 1..Len(s)
    <3>1. k = Len(s) + 1
      BY <1>1, <2>2
    <3>. QED
      BY <1>1, <3>1
  <2>. QED
    BY <2>1, <2>2
<1>3. ASSUME NEW j \in S \cup {n}
      PROVE  \E k \in 1..Len(t) : t[k] = j
  <2>1. \A k \in 1..Len(s) : k \in 1..Len(t)
    BY <1>1
  <2>2. Len(s) + 1 \in 1..Len(t)
    BY <1>1
  <2>3. CASE j \in S
    <3>1. PICK k \in 1..Len(s) : s[k] = j
      BY <2>3, Zenon DEF InOrder
    <3>. QED
      BY <1>1, <2>1, <3>1, Zenon
  <2>4. CASE j = n
    BY <1>1, <2>2, <2>4, Zenon
  <2>. QED
    BY <2>3, <2>4
<1>4. ASSUME NEW k \in 1..Len(t), NEW l \in 1..Len(t), k < l
      PROVE  t[k] < t[l]
  <2>1. k \in 1..Len(s) /\ t[k] = s[k] /\ s[k] \in S
    BY <1>1, <1>4 DEF InOrder
  <2>2. CASE l = Len(s) + 1
    BY <1>1, <2>1, <2>2
  <2>3. CASE l # Len(s) + 1
    <3>1. l \in 1..Len(s) /\ t[l] = s[l]
      BY <1>1, <1>4, <2>3
    <3>2. s[k] < s[l]
      BY <1>4, <2>1, <3>1 DEF InOrder
    <3>. QED
      BY <2>1, <3>1, <3>2
  <2>. QED
    BY <2>2, <2>3
<1>. QED
  BY <1>1, <1>2, <1>3, <1>4 DEF InOrder, t

\* What is behind the first, and two lists one behind the other.
LEMMA InOrderTail ==
  ASSUME NEW S, NEW s, InOrder(s, S), s # <<>>
  PROVE  s[1] \in S /\ (\A j \in S : s[1] <= j) /\ InOrder(Tail(s), S \ {s[1]})
<1>. DEFINE t == Tail(s)
<1>1. /\ t \in Seq(Nat) /\ Len(t) = Len(s) - 1 /\ Len(s) \in Nat /\ Len(s) >= 1
      /\ \A k \in 1..(Len(s) - 1) : t[k] = s[k + 1]
      /\ \A k \in 1..Len(s) : s[k] \in Nat
  BY DEF InOrder
<1>. HIDE DEF t
<1>2. s[1] \in S /\ \A k \in 2..Len(s) : s[k] \in S /\ s[1] < s[k]
  <2>1. 1 \in 1..Len(s) /\ \A k \in 2..Len(s) : k \in 1..Len(s) /\ 1 < k
    BY <1>1
  <2>2. \A k, l \in 1..Len(s) : s[k] \in S /\ (k < l => s[k] < s[l])
    BY DEF InOrder
  <2>. QED
    BY <2>1, <2>2
<1>3. \A j \in S : s[1] <= j
  BY <1>1, <1>2 DEF InOrder
<1>4. \A k \in 1..Len(t) : t[k] \in S \ {s[1]}
  BY <1>1, <1>2
<1>5. ASSUME NEW j \in S \ {s[1]} PROVE \E k \in 1..Len(t) : t[k] = j
  <2>1. PICK k \in 1..Len(s) : s[k] = j
    BY DEF InOrder
  <2>2. k - 1 \in 1..Len(t) /\ t[k - 1] = j
    BY <1>1, <1>5, <2>1
  <2>. QED
    BY <2>2
<1>6. ASSUME NEW k \in 1..Len(t), NEW l \in 1..Len(t), k < l
      PROVE  t[k] < t[l]
  <2>1. t[k] = s[k + 1] /\ t[l] = s[l + 1] /\ k + 1 < l + 1
        /\ k + 1 \in 1..Len(s) /\ l + 1 \in 1..Len(s)
    BY <1>1, <1>6
  <2>. QED
    BY <2>1 DEF InOrder
<1>. QED
  BY <1>1, <1>2, <1>3, <1>4, <1>5, <1>6 DEF InOrder, t

LEMMA InOrderConcat ==
  ASSUME NEW A, NEW a, InOrder(a, A), NEW B, NEW b, InOrder(b, B),
         \A j \in A : \A m \in B : j < m
  PROVE  InOrder(a \o b, A \cup B)
<1>. DEFINE t == a \o b
<1>1. /\ t \in Seq(Nat) /\ Len(t) = Len(a) + Len(b) /\ Len(a) \in Nat /\ Len(b) \in Nat
      /\ \A k \in 1..Len(a) : t[k] = a[k]
      /\ \A k \in (Len(a) + 1)..(Len(a) + Len(b)) : t[k] = b[k - Len(a)]
  BY DEF InOrder
<1>. HIDE DEF t
<1>2. \A k \in 1..Len(a) : t[k] \in A /\ k \in 1..Len(t)
  <2>1. \A k \in 1..Len(a) : a[k] \in A
    BY Zenon DEF InOrder
  <2>2. \A k \in 1..Len(a) : k \in 1..Len(t)
    BY <1>1
  <2>. QED
    BY <1>1, <2>1, <2>2, Zenon
<1>3. \A k \in (Len(a) + 1)..(Len(a) + Len(b)) : k - Len(a) \in 1..Len(b) /\ t[k] \in B
  <2>1. \A k \in (Len(a) + 1)..(Len(a) + Len(b)) : k - Len(a) \in 1..Len(b)
    BY <1>1
  <2>2. \A k \in 1..Len(b) : b[k] \in B
    BY Zenon DEF InOrder
  <2>. QED
    BY <1>1, <2>1, <2>2
<1>4. \A k \in 1..Len(t) : t[k] \in A \cup B
  BY <1>1, <1>2, <1>3
<1>5. ASSUME NEW j \in A PROVE \E k \in 1..Len(t) : t[k] = j
  <2>1. PICK k \in 1..Len(a) : a[k] = j
    BY DEF InOrder
  <2>. QED
    BY <1>1, <1>2, <2>1
<1>6. ASSUME NEW j \in B PROVE \E k \in 1..Len(t) : t[k] = j
  <2>1. PICK k \in 1..Len(b) : b[k] = j
    BY DEF InOrder
  <2>2. k + Len(a) \in (Len(a) + 1)..(Len(a) + Len(b)) /\ k + Len(a) \in 1..Len(t)
        /\ (k + Len(a)) - Len(a) = k
    BY <1>1
  <2>3. t[k + Len(a)] = b[(k + Len(a)) - Len(a)]
    BY <1>1, <2>2
  <2>4. t[k + Len(a)] = j
    BY <2>1, <2>2, <2>3
  <2>. QED
    BY <2>2, <2>4
<1>7. ASSUME NEW k \in 1..Len(t), NEW l \in 1..Len(t), k < l
      PROVE  t[k] < t[l]
  <2>1. CASE l <= Len(a)
    <3>1. k \in 1..Len(a) /\ l \in 1..Len(a)
      BY <1>1, <1>7, <2>1
    <3>2. a[k] < a[l]
      BY <1>7, <3>1 DEF InOrder
    <3>. QED
      BY <1>1, <3>1, <3>2
  <2>2. CASE k <= Len(a) /\ l > Len(a)
    BY <1>1, <1>2, <1>3, <2>2
  <2>3. CASE k > Len(a)
    <3>1. t[k] = b[k - Len(a)] /\ t[l] = b[l - Len(a)] /\ k - Len(a) < l - Len(a)
          /\ k - Len(a) \in 1..Len(b) /\ l - Len(a) \in 1..Len(b)
      BY <1>1, <1>3, <1>7, <2>3
    <3>. QED
      BY <3>1 DEF InOrder
  <2>. QED
    BY <1>1, <2>1, <2>2, <2>3
<1>. QED
  BY <1>1, <1>4, <1>5, <1>6, <1>7 DEF InOrder, t

\* append keeps a directory's list in the order the nodes were made.
LEMMA ChildrenFacts ==
  ASSUME NEW i, Len(nodes) \in Nat
  PROVE  InOrder(Children(i), {j \in 1..Len(nodes) : nodes[j].dir = i})
<1>. DEFINE N == Len(nodes)
            step(g, k) == IF k = 0 THEN <<>>
                          ELSE IF nodes[k].dir = i THEN Append(g[k - 1], k) ELSE g[k - 1]
            Good(g, m) == g = [k \in 0..m |-> step(g, k)]
            T == {m \in 0..N : ~\E g : Good(g, m)}
<1>1. T = {}
  <2>1. SUFFICES ASSUME T # {} PROVE FALSE
    OBVIOUS
  <2>2. T \in SUBSET Nat
    OBVIOUS
  <2>3. PICK n \in T : \A y \in T : n <= y
    <3>. HIDE DEF T
    <3>. QED
      BY <2>1, <2>2, LeastElement
  <2>4. n \in 0..N /\ ~\E g : Good(g, n)
    BY <2>3
  <2>5. n # 0
    <3>1. Good([k \in 0..0 |-> <<>>], 0)
      OBVIOUS
    <3>. QED
      BY <2>4, <3>1
  <2>6. PICK g : Good(g, n - 1)
    <3>1. n - 1 \in 0..N /\ ~(n <= n - 1)
      BY <2>4, <2>5
    <3>2. n - 1 \notin T
      <4>. HIDE DEF T
      <4>. QED
        BY <2>3, <3>1
    <3>. HIDE DEF Good
    <3>. QED
      BY <3>1, <3>2
  <2>. DEFINE h == [k \in 0..n |-> IF k = n THEN step(g, n) ELSE g[k]]
  <2>7. \A k \in 0..(n - 1) : g[k] = step(g, k)
    <3>. HIDE DEF step
    <3>. QED
      BY <2>6
  <2>8. \A k \in 0..n : h[k] = step(h, k)
    <3>. TAKE k \in 0..n
    <3>1. k # 0 => k - 1 \in 0..(n - 1) /\ h[k - 1] = g[k - 1]
      BY <2>4
    <3>2. step(h, k) = step(g, k)
      <4>. HIDE DEF h
      <4>. QED
        BY <3>1
    <3>3. h[k] = step(g, k)
      <4>. HIDE DEF step
      <4>. QED
        BY <2>4, <2>7
    <3>. QED
      BY <3>2, <3>3
  <2>9. h = [k \in 0..n |-> step(h, k)]
    <3>1. h = [k \in 0..n |-> h[k]]
      BY Zenon
    <3>. HIDE DEF h, step
    <3>. QED
      BY <2>8, <3>1
  <2>. QED
    BY <2>4, <2>9
<1>. DEFINE list == CHOOSE g : Good(g, N)
<1>2. Good(list, N)
  <2>1. \E g : Good(g, N)
    <3>1. N \in 0..N
      OBVIOUS
    <3>. HIDE DEF Good
    <3>. QED
      BY <1>1, <3>1
  <2>. HIDE DEF Good
  <2>. QED
    BY <2>1
<1>3. Children(i) = list[N]
  BY Zenon DEF Children
<1>. HIDE DEF list
<1>4. \A k \in 0..N : list[k] = step(list, k)
  <2>. HIDE DEF step
  <2>. QED
    BY <1>2
<1>. DEFINE Under(m) == {j \in 1..m : nodes[j].dir = i}
            U == {m \in 0..N : ~InOrder(list[m], Under(m))}
<1>5. U = {}
  <2>1. SUFFICES ASSUME U # {} PROVE FALSE
    OBVIOUS
  <2>2. U \in SUBSET Nat
    OBVIOUS
  <2>3. PICK n \in U : \A y \in U : n <= y
    <3>. HIDE DEF U
    <3>. QED
      BY <2>1, <2>2, LeastElement
  <2>4. n \in 0..N /\ ~InOrder(list[n], Under(n))
    BY <2>3
  <2>5. n # 0
    <3>1. list[0] = <<>> /\ Under(0) = {}
      BY <1>4
    <3>. HIDE DEF Under
    <3>. QED
      BY <2>4, <3>1, InOrderEmpty
  <2>6. InOrder(list[n - 1], Under(n - 1))
    <3>1. n - 1 \in 0..N /\ ~(n <= n - 1)
      BY <2>4, <2>5
    <3>2. n - 1 \notin U
      <4>. HIDE DEF U
      <4>. QED
        BY <2>3, <3>1
    <3>. HIDE DEF Under
    <3>. QED
      BY <3>1, <3>2
  <2>7. CASE nodes[n].dir = i
    <3>1. list[n] = Append(list[n - 1], n)
      BY <1>4, <2>4, <2>5, <2>7
    <3>2. Under(n) = Under(n - 1) \cup {n} /\ \A j \in Under(n - 1) : j < n
      BY <2>4, <2>5, <2>7
    <3>. HIDE DEF Under
    <3>. QED
      BY <2>4, <2>6, <3>1, <3>2, InOrderAppend
  <2>8. CASE nodes[n].dir # i
    <3>1. list[n] = list[n - 1]
      BY <1>4, <2>4, <2>5, <2>8
    <3>2. Under(n) = Under(n - 1)
      BY <2>4, <2>5, <2>8
    <3>. HIDE DEF Under
    <3>. QED
      BY <2>4, <2>6, <3>1, <3>2
  <2>. QED
    BY <2>7, <2>8
<1>6. InOrder(list[N], Under(N))
  <2>1. N \in 0..N
    OBVIOUS
  <2>. HIDE DEF Under
  <2>. QED
    BY <1>5, <2>1
<1>. QED
  BY <1>3, <1>6

-----------------------------------------------------------------------------
(* The scan. *)

Kinds == {"reg", "dir", "lnk"}
Filenodes == [name : Seq(Chars), ino : Int, kind : Kinds \cup {"none"}, dir : Nat, link : Nat,
              pad : Nat, off : Nat, size : Nat]
EntriesOf(h) == Seq([name : Seq(Chars) \ {<<>>}, ino : DOMAIN h])

\* Headers start at multiples of Unit, data of regular files as the options say.
NodeOK(n) ==
  /\ Multiple(n.off)
  /\ n.kind = "reg" /\ n.link = 0 =>
       (HeaderLen(n.name) + n.off) % FindAlign(n.name, "reg") = 0

\* The filenodes ns, o being the offset behind them.  They lie one behind the other;
\* nobody who was made in a directory after it was left is in it.
NodesOK(ns, o) ==
  /\ ns \in Seq(Filenodes) /\ ns # <<>>
  /\ ns[1].dir = 0 /\ ns[1].off = 0 /\ ns[1].size = 0 /\ ns[1].name = Volume
  /\ o = EndOf(ns[Len(ns)])
  /\ \A i \in 1..Len(ns) : NodeOK(ns[i])
  /\ \A i \in 2..Len(ns) : /\ ns[i].dir \in 1..(i - 1)
                           /\ ns[i].off = EndOf(ns[i - 1]) + ns[i].pad
  /\ \A i, j \in 1..Len(ns) : i < j => EndOf(ns[i]) <= ns[j].off
  /\ \A j, m \in 1..Len(ns) : ns[m].dir < ns[j].dir /\ ns[j].dir < m => j < m

\* The directories processdir is in: nothing outside of one came after it.
StackOK(h, st, ns) ==
  /\ st \in Seq([dir : 1..Len(ns), left : EntriesOf(h)])
  /\ \A i \in 1..Len(st) : \A m \in (st[i].dir + 1)..Len(ns) : ns[m].dir >= st[i].dir
  /\ \A i, k \in 1..Len(st) : i < k => st[k].dir < st[i].dir

LEMMA HostFacts ==
  ASSUME NEW h \in Hosts
  PROVE  /\ DOMAIN h \subseteq Nat /\ Outside \in DOMAIN h /\ Root \in DOMAIN h
         /\ \A i \in DOMAIN h : /\ h[i].kind \in Kinds /\ h[i].size \in Nat
                                /\ h[i].to \in DOMAIN h \cup {NoFile}
                                /\ h[i].entries \in EntriesOf(h)
BY HostAssumption DEF Kinds, EntriesOf

LEMMA EndFacts ==
  ASSUME NEW n \in Filenodes, Multiple(n.off)
  PROVE  EndOf(n) \in Nat /\ EndOf(n) > n.off /\ Multiple(EndOf(n))
<1>. DEFINE a == HeaderLen(n.name)
           b == RoundUp(n.size, Unit)
<1>1. n.name \in Seq(Chars) /\ n.size \in Nat /\ n.off \in Nat
  BY DEF Filenodes
<1>2. a \in Nat /\ a > 0 /\ Multiple(a)
  BY <1>1, HeaderFacts
<1>3. b \in Nat /\ Multiple(b)
  BY <1>1, RoundUpFacts
<1>4. EndOf(n) = n.off + (a + b)
  BY DEF EndOf, SpaceNeeded
<1>. HIDE DEF a, b
<1>5. Multiple(a + b) /\ a + b \in Nat /\ a + b > 0
  BY <1>2, <1>3, MultipleSum
<1>. DEFINE c == a + b
<1>6. EndOf(n) = n.off + c /\ c \in Nat /\ c > 0 /\ Multiple(c)
  BY <1>4, <1>5
<1>. DEFINE x == n.off
<1>. HIDE DEF c
<1>7. Multiple(x + c)
  <2>1. x \in Int /\ c \in Int /\ Multiple(x)
    BY <1>1, <1>6
  <2>. HIDE DEF x
  <2>. QED
    BY <1>6, <2>1, MultipleSum
<1>. QED
  BY <1>1, <1>6, <1>7

LEMMA NodeAtFacts ==
  ASSUME host \in Hosts, NEW o \in Nat, Multiple(o), NEW name \in Seq(Chars),
         NEW ino \in DOMAIN host, NEW dir \in Nat, NEW link \in Nat,
         NEW n, n = NodeAt(o, name, ino, dir, link)
  PROVE  n \in Filenodes /\ NodeOK(n) /\ n.off = o + n.pad /\ n.dir = dir /\ n.ino = ino
<1>. DEFINE kind == host[ino].kind
           head == IF kind = "reg" /\ link = 0 THEN HeaderLen(name) ELSE 0
           pad == Pad(name, kind, o + head)
           size == IF link = 0 /\ kind \in {"reg", "lnk"} THEN host[ino].size ELSE 0
<1>1. kind \in Kinds /\ size \in Nat /\ ino \in Nat
  BY HostFacts
<1>2. Multiple(0)
  <2>1. 0 = 0 * Unit /\ 0 \in Int
    BY UnitFacts
  <2>. QED
    BY <2>1, Zenon DEF Multiple
<1>3. head \in Nat /\ Multiple(head)
  BY <1>2, HeaderFacts
<1>4. o + head \in Nat /\ Multiple(o + head)
  <2>. HIDE DEF head
  <2>. QED
    BY <1>3, MultipleSum
<1>5. /\ pad \in Nat /\ Multiple(pad)
      /\ ((o + head) + pad) % FindAlign(name, kind) = 0
  <2>. HIDE DEF head, kind
  <2>. QED
    BY <1>4, PadFacts
<1>6. n = [name |-> name, ino |-> ino, kind |-> kind, dir |-> dir, link |-> link,
           pad |-> pad, off |-> o + pad, size |-> size]
  BY Zenon DEF NodeAt, Node
<1>. HIDE DEF pad, size
<1>7. n \in Filenodes /\ n.off = o + n.pad /\ n.dir = dir /\ n.ino = ino /\ n.kind = kind /\ n.link = link
      /\ n.name = name /\ n.pad = pad
  <2>. HIDE DEF kind
  <2>. QED
    BY <1>1, <1>5, <1>6 DEF Filenodes
<1>8. Multiple(n.off)
  BY <1>5, <1>7, MultipleSum
<1>9. ASSUME n.kind = "reg", n.link = 0
      PROVE  (HeaderLen(n.name) + n.off) % FindAlign(n.name, "reg") = 0
  <2>1. head = HeaderLen(name) /\ kind = "reg"
    BY <1>7, <1>9
  <2>. HIDE DEF head, kind
  <2>2. HeaderLen(n.name) + n.off = (o + head) + pad
    BY <1>3, <1>5, <1>7, <2>1
  <2>. QED
    BY <1>5, <1>7, <2>1, <2>2
<1>. QED
  BY <1>7, <1>8, <1>9 DEF NodeOK

\* A node more.
LEMMA NodeMore ==
  ASSUME NEW ns, NEW o, NodesOK(ns, o), NEW n \in Filenodes, NodeOK(n), n.off = o + n.pad,
         n.dir \in 1..Len(ns), \A m \in (n.dir + 1)..Len(ns) : ns[m].dir >= n.dir
  PROVE  NodesOK(Append(ns, n), EndOf(n)) /\ o \in Nat /\ Multiple(o)
<1>. DEFINE ms == Append(ns, n)
           L == Len(ns)
<1>1. /\ ms \in Seq(Filenodes) /\ Len(ms) = L + 1 /\ L \in Nat /\ L >= 1
      /\ \A i \in 1..L : ms[i] = ns[i] /\ ns[i] \in Filenodes
      /\ ms[L + 1] = n
  BY DEF NodesOK
<1>. HIDE DEF ms, L
<1>2. \A i \in 1..(L + 1) : i = L + 1 \/ i \in 1..L
  BY <1>1
<1>3. \A i \in 1..L : NodeOK(ns[i]) /\ EndOf(ns[i]) \in Nat /\ EndOf(ns[i]) > ns[i].off
                      /\ Multiple(EndOf(ns[i])) /\ ns[i].off \in Nat /\ ns[i].dir \in Nat
  <2>. TAKE i \in 1..L
  <2>1. ns[i] \in Filenodes /\ NodeOK(ns[i])
    BY <1>1 DEF NodesOK, L
  <2>. QED
    BY <2>1, EndFacts DEF NodeOK, Filenodes
<1>4. L \in 1..L /\ 1 \in 1..L
  BY <1>1
<1>5. o = EndOf(ns[L]) /\ o \in Nat /\ Multiple(o)
  BY <1>3, <1>4 DEF NodesOK, L
<1>6. n.pad \in Nat /\ n.off \in Nat /\ n.off >= o /\ n.dir \in 1..L
  BY <1>5 DEF Filenodes, L
<1>7. ms # <<>> /\ ms[1] = ns[1] /\ ms[Len(ms)] = n
  BY <1>1, <1>4
<1>8. \A i \in 1..Len(ms) : NodeOK(ms[i])
  BY <1>1, <1>2, <1>3
<1>9. ASSUME NEW i \in 2..Len(ms)
      PROVE  ms[i].dir \in 1..(i - 1) /\ ms[i].off = EndOf(ms[i - 1]) + ms[i].pad
  <2>1. CASE i = L + 1
    BY <1>1, <1>4, <1>5, <1>6, <2>1
  <2>2. CASE i # L + 1
    <3>1. i \in 2..L /\ i \in 1..L /\ i - 1 \in 1..L
      BY <1>1, <1>9, <2>2
    <3>2. ns[i].dir \in 1..(i - 1) /\ ns[i].off = EndOf(ns[i - 1]) + ns[i].pad
      BY <3>1 DEF NodesOK, L
    <3>. QED
      BY <1>1, <3>1, <3>2
  <2>. QED
    BY <2>1, <2>2
<1>10. ASSUME NEW i \in 1..Len(ms), NEW j \in 1..Len(ms), i < j
       PROVE  EndOf(ms[i]) <= ms[j].off
  <2>1. i \in 1..L /\ ms[i] = ns[i]
    BY <1>1, <1>10
  <2>2. CASE j = L + 1
    <3>1. EndOf(ns[i]) <= EndOf(ns[L])
      <4>1. CASE i = L
        BY <1>3, <2>1, <4>1
      <4>2. CASE i # L
        <5>1. EndOf(ns[i]) <= ns[L].off
          BY <1>1, <1>4, <2>1, <4>2 DEF NodesOK, L
        <5>. QED
          BY <1>3, <1>4, <2>1, <5>1
      <4>. QED
        BY <4>1, <4>2
    <3>. QED
      BY <1>1, <1>3, <1>4, <1>5, <1>6, <2>1, <2>2, <3>1
  <2>3. CASE j # L + 1
    <3>1. j \in 1..L /\ ms[j] = ns[j]
      BY <1>1, <1>2, <1>10, <2>3
    <3>. QED
      BY <1>10, <2>1, <3>1 DEF NodesOK, L
  <2>. QED
    BY <2>2, <2>3
<1>11. ASSUME NEW j \in 1..Len(ms), NEW m \in 1..Len(ms),
              ms[m].dir < ms[j].dir, ms[j].dir < m
       PROVE  j < m
  <2>1. CASE m = L + 1 /\ j = L + 1
    <3>1. ms[m].dir = ms[j].dir /\ ms[j].dir \in Nat
      BY <1>1, <1>6, <2>1
    <3>. QED
      BY <1>11, <3>1
  <2>2. CASE m = L + 1 /\ j # L + 1
    BY <1>1, <2>2
  <2>3. CASE m # L + 1 /\ j = L + 1
    <3>1. m \in 1..L /\ ms[m] = ns[m] /\ ms[j] = n
      BY <1>1, <1>2, <2>3
    <3>2. m \in (n.dir + 1)..Len(ns)
      BY <1>1, <1>6, <1>11, <3>1 DEF L
    <3>3. ns[m].dir >= n.dir
      BY <3>2
    <3>. QED
      BY <1>3, <1>6, <1>11, <3>1, <3>3
  <2>4. CASE m # L + 1 /\ j # L + 1
    <3>1. m \in 1..L /\ ms[m] = ns[m] /\ j \in 1..L /\ ms[j] = ns[j]
      BY <1>1, <1>2, <2>4
    <3>. QED
      BY <1>11, <3>1 DEF NodesOK, L
  <2>. QED
    BY <2>1, <2>2, <2>3, <2>4
<1>12. NodesOK(ms, EndOf(n))
  <2>1. ns[1].dir = 0 /\ ns[1].off = 0 /\ ns[1].size = 0 /\ ns[1].name = Volume
    BY DEF NodesOK
  <2>. QED
    BY <1>1, <1>7, <1>8, <1>9, <1>10, <1>11, <2>1 DEF NodesOK
<1>. QED
  BY <1>5, <1>12 DEF ms

ScanInv == phase = "scan" => image = <<>> /\ StackOK(host, stack, nodes)

PassInv == host \in Hosts /\ NodesOK(nodes, offset) /\ ScanInv

LEMMA NodeFacts ==
  ASSUME NEW ns, NEW o, NodesOK(ns, o), NEW i \in 1..Len(ns)
  PROVE  /\ ns[i] \in Filenodes /\ Multiple(ns[i].off) /\ ns[i].off \in Nat /\ ns[i].dir \in Nat
         /\ EndOf(ns[i]) \in Nat /\ EndOf(ns[i]) > ns[i].off /\ Multiple(EndOf(ns[i]))
         /\ ns[i].name \in Seq(Chars) /\ ns[i].dir < i
<1>1. ns[i] \in Filenodes /\ NodeOK(ns[i])
  BY DEF NodesOK
<1>2. CASE i = 1
  BY <1>1, <1>2, EndFacts DEF NodeOK, Filenodes, NodesOK
<1>3. CASE i # 1
  <2>1. i \in 2..Len(ns)
    BY <1>3
  <2>2. ns[i].dir \in 1..(i - 1)
    BY <2>1 DEF NodesOK
  <2>. QED
    BY <1>1, <2>2, EndFacts DEF NodeOK, Filenodes
<1>. QED
  BY <1>2, <1>3

\* The volume.
LEMMA FirstNode ==
  ASSUME Init
  PROVE  PassInv
<1>. DEFINE v == [name |-> Volume, ino |-> NoFile, kind |-> "none", dir |-> 0, link |-> 0,
                pad |-> 0, off |-> 0, size |-> 0]
<1>1. nodes = <<v>> /\ offset = HeaderLen(Volume)
  BY DEF Init
<1>2. v \in Filenodes /\ v.kind = "none" /\ v.off = 0 /\ v.dir = 0 /\ v.size = 0 /\ v.name = Volume
  BY RomImageAssumption DEF Filenodes, NoFile
<1>3. Multiple(0)
  <2>1. 0 = 0 * Unit /\ 0 \in Int
    BY UnitFacts
  <2>. QED
    BY <2>1, Zenon DEF Multiple
<1>4. HeaderLen(Volume) \in Nat
  BY HeaderFacts, RomImageAssumption
<1>. HIDE DEF v
<1>5. NodeOK(v)
  BY <1>2, <1>3 DEF NodeOK
<1>6. EndOf(v) = HeaderLen(Volume)
  BY <1>2, <1>4, RoundUpNought DEF EndOf, SpaceNeeded
<1>7. Len(nodes) = 1 /\ nodes[1] = v /\ nodes \in Seq(Filenodes) /\ nodes # <<>>
  BY <1>1, <1>2
<1>8. NodesOK(nodes, offset)
  BY <1>1, <1>2, <1>5, <1>6, <1>7 DEF NodesOK
<1>9. StackOK(host, <<>>, nodes)
  BY DEF StackOK
<1>. QED
  BY <1>8, <1>9 DEF Init, PassInv, ScanInv

LEMMA EntryFacts ==
  ASSUME host \in Hosts, NEW e \in [name : Seq(Chars) \ {<<>>}, ino : DOMAIN host]
  PROVE  /\ Name(e) \in Seq(Chars)
         /\ File(e) \in DOMAIN host \cup {NoFile}
         /\ Taken(e) => File(e) \in DOMAIN host
<1>1. e.name \in Seq(Chars) /\ e.name # <<>> /\ e.ino \in DOMAIN host
  OBVIOUS
<1>2. Tail(e.name) \in Seq(Chars)
  BY <1>1
<1>3. host[e.ino].to \in DOMAIN host \cup {NoFile}
  BY <1>1, HostFacts
<1>. QED
  BY <1>1, <1>2, <1>3 DEF Name, File, Taken

\* A level of processdir more: the new one is last of all.
LEMMA StackMore ==
  ASSUME NEW ns, NEW st, NEW n \in Filenodes, ns \in Seq(Filenodes), StackOK(host, st, ns), st # <<>>,
         \A i \in 1..Len(ns) : ns[i].dir < i, n.dir = st[1].dir, NEW left \in EntriesOf(host)
  PROVE  /\ StackOK(host, st, Append(ns, n))
         /\ StackOK(host, <<[dir |-> Len(ns) + 1, left |-> left]>> \o st, Append(ns, n))
<1>. DEFINE ms == Append(ns, n)
           L == Len(ns)
           top == [dir |-> L + 1, left |-> left]
           up == <<top>> \o st
<1>1. /\ ms \in Seq(Filenodes) /\ Len(ms) = L + 1 /\ L \in Nat
      /\ \A i \in 1..L : ms[i] = ns[i]
      /\ ms[L + 1] = n
  OBVIOUS
<1>. DEFINE E == EntriesOf(host)
<1>2. /\ st \in Seq([dir : 1..L, left : E]) /\ Len(st) \in Nat /\ Len(st) >= 1
      /\ \A i \in 1..Len(st) : st[i].dir \in 1..L /\ st[i] \in [dir : 1..(L + 1), left : E]
  <2>1. st \in Seq([dir : 1..L, left : E]) /\ Len(st) \in Nat
    BY DEF StackOK
  <2>2. [dir : 1..L, left : E] \subseteq [dir : 1..(L + 1), left : E]
    <3>. HIDE DEF E
    <3>. QED
      BY <1>1
  <2>3. \A i \in 1..Len(st) : st[i] \in [dir : 1..L, left : E]
    <3>. DEFINE R == [dir : 1..L, left : E]
    <3>1. st \in Seq(R)
      BY <2>1
    <3>. HIDE DEF R
    <3>2. \A i \in 1..Len(st) : st[i] \in R
      BY <3>1
    <3>. QED
      BY <3>2 DEF R
  <2>4. Len(st) >= 1
    <3>. HIDE DEF E
    <3>. QED
      BY <2>1
  <2>. HIDE DEF E
  <2>. QED
    BY <2>1, <2>2, <2>3, <2>4
<1>3. \A i \in 1..Len(st) : st[i].dir <= n.dir
  <2>. TAKE i \in 1..Len(st)
  <2>1. CASE i = 1
    BY <1>2, <2>1
  <2>2. CASE i # 1
    <3>1. 1 \in 1..Len(st) /\ 1 < i
      BY <1>2, <2>2
    <3>2. st[i].dir < st[1].dir
      BY <3>1 DEF StackOK
    <3>. QED
      BY <1>2, <3>1, <3>2
  <2>. QED
    BY <2>1, <2>2
<1>4. n.dir \in 1..L
  BY <1>2
<1>. HIDE DEF ms
<1>5. ASSUME NEW i \in 1..Len(st), NEW m \in (st[i].dir + 1)..(L + 1)
      PROVE  ms[m].dir >= st[i].dir
  <2>1. CASE m = L + 1
    BY <1>1, <1>3, <2>1
  <2>2. CASE m # L + 1
    <3>1. m \in (st[i].dir + 1)..L /\ m \in 1..L
      BY <1>1, <1>2, <1>5, <2>2
    <3>2. ns[m].dir >= st[i].dir
      BY <3>1 DEF StackOK, L
    <3>. QED
      BY <1>1, <3>1, <3>2
  <2>. QED
    BY <2>1, <2>2
<1>6. st \in Seq([dir : 1..(L + 1), left : EntriesOf(host)])
  <2>1. st = [i \in 1..Len(st) |-> st[i]]
    BY <1>2
  <2>. DEFINE R == [dir : 1..(L + 1), left : E]
  <2>2. \A i \in 1..Len(st) : st[i] \in R
    BY <1>2
  <2>. HIDE DEF E, R
  <2>3. [i \in 1..Len(st) |-> st[i]] \in Seq(R)
    BY <1>2, <2>2
  <2>. QED
    BY <2>1, <2>3 DEF R, E
<1>7. \A i, k \in 1..Len(st) : i < k => st[k].dir < st[i].dir
  BY DEF StackOK
<1>8. StackOK(host, st, ms)
  BY <1>1, <1>5, <1>6, <1>7 DEF StackOK
<1>9. top \in [dir : 1..(L + 1), left : EntriesOf(host)]
  BY <1>1
<1>10. /\ up \in Seq([dir : 1..(L + 1), left : EntriesOf(host)])
       /\ Len(up) = Len(st) + 1 /\ up[1] = top
       /\ \A i \in 2..Len(up) : up[i] = st[i - 1] /\ i - 1 \in 1..Len(st)
  <2>. HIDE DEF top
  <2>. QED
    BY <1>6, <1>9
<1>11. top.dir = L + 1
  OBVIOUS
<1>. HIDE DEF up, top
<1>12. ASSUME NEW i \in 1..Len(up), NEW m \in (up[i].dir + 1)..(L + 1)
       PROVE  ms[m].dir >= up[i].dir
  <2>1. CASE i = 1
    BY <1>1, <1>10, <1>11, <1>12, <2>1
  <2>2. CASE i # 1
    <3>1. i \in 2..Len(up)
      BY <1>12, <2>2
    <3>2. up[i] = st[i - 1] /\ i - 1 \in 1..Len(st)
      BY <1>10, <3>1
    <3>. QED
      BY <1>5, <1>12, <3>2
  <2>. QED
    BY <2>1, <2>2
<1>13. ASSUME NEW i \in 1..Len(up), NEW k \in 1..Len(up), i < k
       PROVE  up[k].dir < up[i].dir
  <2>1. k \in 2..Len(up)
    BY <1>2, <1>10, <1>13
  <2>2. up[k] = st[k - 1] /\ k - 1 \in 1..Len(st)
    BY <1>10, <2>1
  <2>3. CASE i = 1
    BY <1>1, <1>2, <1>10, <1>11, <2>2, <2>3
  <2>4. CASE i # 1
    <3>1. i \in 2..Len(up)
      BY <2>4
    <3>2. up[i] = st[i - 1] /\ i - 1 \in 1..Len(st) /\ i - 1 < k - 1
      BY <1>10, <1>13, <2>1, <3>1
    <3>. QED
      BY <1>7, <2>2, <3>2
  <2>. QED
    BY <2>3, <2>4
<1>14. StackOK(host, up, ms)
  BY <1>1, <1>10, <1>12, <1>13 DEF StackOK
<1>. QED
  BY <1>8, <1>14 DEF ms, up, top


LEMMA ConsFacts ==
  ASSUME NEW R, NEW t \in R, NEW u \in Seq(R), NEW v, v = <<t>> \o u
  PROVE  /\ v \in Seq(R) /\ Len(v) = Len(u) + 1 /\ v[1] = t
         /\ \A i \in 2..(Len(u) + 1) : v[i] = u[i - 1]
OBVIOUS

LEMMA AppendFacts ==
  ASSUME NEW R, NEW u \in Seq(R), NEW t \in R, NEW v, v = Append(u, t)
  PROVE  /\ v \in Seq(R) /\ Len(v) = Len(u) + 1 /\ v[Len(u) + 1] = t
         /\ \A i \in 1..Len(u) : v[i] = u[i]
OBVIOUS

\* The stack when the first entry of the innermost directory has been taken.
Popped(st) == <<[st[1] EXCEPT !.left = Tail(@)]>> \o Tail(st)

LEMMA StackSame ==
  ASSUME NEW ns, NEW st, StackOK(host, st, ns), st # <<>>, st[1].left # <<>>,
         NEW rest, rest = Popped(st)
  PROVE  /\ StackOK(host, rest, ns) /\ rest # <<>> /\ rest[1].dir = st[1].dir
         /\ st[1].dir \in 1..Len(ns)
         /\ Head(st[1].left) \in [name : Seq(Chars) \ {<<>>}, ino : DOMAIN host]
<1>. DEFINE N == [name : Seq(Chars) \ {<<>>}, ino : DOMAIN host]
           E == Seq(N)
           R == [dir : 1..Len(ns), left : E]
           t == [st[1] EXCEPT !.left = Tail(@)]
<1>1. st \in Seq(R)
  BY DEF StackOK, EntriesOf
<1>. HIDE DEF R
<1>2. Len(st) \in Nat /\ Len(st) >= 1 /\ \A i \in 1..Len(st) : st[i] \in R
  BY <1>1
<1>3. 1 \in 1..Len(st) /\ st[1] \in R
  BY <1>2
<1>4. st[1].left \in E /\ st[1].dir \in 1..Len(ns)
  <2>. HIDE DEF E
  <2>. QED
    BY <1>3 DEF R
<1>. HIDE DEF N
<1>5. Tail(st[1].left) \in E /\ Head(st[1].left) \in N
  BY <1>4
<1>6. t \in R /\ t.dir = st[1].dir
  <2>. HIDE DEF E
  <2>. QED
    BY <1>3, <1>5 DEF R
<1>. HIDE DEF t
<1>7. rest = <<t>> \o Tail(st)
  BY DEF t, Popped
<1>8. /\ rest \in Seq(R) /\ Len(rest) = Len(st) /\ rest[1] = t
      /\ \A i \in 2..Len(st) : rest[i] = st[i]
  <2>. DEFINE u == Tail(st)
  <2>1. u \in Seq(R) /\ Len(u) = Len(st) - 1 /\ \A i \in 1..(Len(st) - 1) : u[i] = st[i + 1]
    BY <1>1, <1>2
  <2>2. <<t>> \in Seq(R) /\ Len(<<t>>) = 1 /\ <<t>>[1] = t
    BY <1>6
  <2>. HIDE DEF u
  <2>3. rest = <<t>> \o u
    BY <1>7 DEF u
  <2>4. /\ rest \in Seq(R) /\ Len(rest) = Len(u) + 1 /\ rest[1] = t
        /\ \A i \in 2..(Len(u) + 1) : rest[i] = u[i - 1]
    BY <1>6, <2>1, <2>3, ConsFacts
  <2>5. \A i \in 2..Len(st) : i - 1 \in 1..(Len(st) - 1) /\ rest[i] = u[i - 1]
    BY <1>2, <2>1, <2>4
  <2>. QED
    BY <1>2, <2>1, <2>4, <2>5
<1>9. \A i \in 1..Len(st) : rest[i].dir = st[i].dir
  <2>. TAKE i \in 1..Len(st)
  <2>1. i = 1 \/ i \in 2..Len(st)
    BY <1>2
  <2>. QED
    BY <1>6, <1>8, <2>1
<1>10. StackOK(host, rest, ns)
  <2>1. rest \in Seq([dir : 1..Len(ns), left : EntriesOf(host)])
    BY <1>8 DEF R, E, N, EntriesOf
  <2>2. /\ \A i \in 1..Len(st) : \A m \in (st[i].dir + 1)..Len(ns) : ns[m].dir >= st[i].dir
        /\ \A i, k \in 1..Len(st) : i < k => st[k].dir < st[i].dir
    BY DEF StackOK
  <2>. QED
    BY <1>8, <1>9, <2>1, <2>2 DEF StackOK
<1>11. rest # <<>>
  BY <1>2, <1>8
<1>. QED
  BY <1>4, <1>5, <1>6, <1>8, <1>10, <1>11 DEF N

LEMMA StackLess ==
  ASSUME NEW ns, NEW st, StackOK(host, st, ns), st # <<>>
  PROVE  StackOK(host, Tail(st), ns)
<1>. DEFINE R == [dir : 1..Len(ns), left : EntriesOf(host)]
<1>1. st \in Seq(R)
  BY DEF StackOK
<1>. HIDE DEF R
<1>2. /\ Tail(st) \in Seq(R) /\ Len(Tail(st)) = Len(st) - 1 /\ Len(st) \in Nat
      /\ \A i \in 1..(Len(st) - 1) : Tail(st)[i] = st[i + 1] /\ i + 1 \in 1..Len(st)
  BY <1>1
<1>3. /\ \A i \in 1..Len(st) : \A m \in (st[i].dir + 1)..Len(ns) : ns[m].dir >= st[i].dir
      /\ \A i, k \in 1..Len(st) : i < k => st[k].dir < st[i].dir
  BY DEF StackOK
<1>4. \A i \in 1..Len(Tail(st)) : \A m \in (Tail(st)[i].dir + 1)..Len(ns) :
        ns[m].dir >= Tail(st)[i].dir
  BY <1>2, <1>3
<1>5. \A i, k \in 1..Len(Tail(st)) : i < k => Tail(st)[k].dir < Tail(st)[i].dir
  <2>. SUFFICES ASSUME NEW i \in 1..Len(Tail(st)), NEW k \in 1..Len(Tail(st)), i < k
                PROVE  Tail(st)[k].dir < Tail(st)[i].dir
    OBVIOUS
  <2>1. i + 1 \in 1..Len(st) /\ k + 1 \in 1..Len(st) /\ i + 1 < k + 1
        /\ Tail(st)[i] = st[i + 1] /\ Tail(st)[k] = st[k + 1]
    BY <1>2
  <2>. QED
    BY <1>3, <2>1
<1>. QED
  BY <1>2, <1>4, <1>5 DEF StackOK, R

LEMMA FindNodeFacts ==
  ASSUME NEW ino, Len(nodes) \in Nat
  PROVE  FindNode(ino) \in Nat
<1>. DEFINE found == {i \in 2..Len(nodes) : nodes[i].ino = ino}
<1>1. CASE found = {}
  BY <1>1 DEF FindNode
<1>2. CASE found # {}
  <2>1. found \in SUBSET Nat
    OBVIOUS
  <2>. HIDE DEF found
  <2>2. \E i \in found : \A j \in found : i <= j
    BY <1>2, <2>1, LeastElement
  <2>3. FindNode(ino) = CHOOSE i \in found : \A j \in found : i <= j
    BY <1>2 DEF FindNode, found
  <2>. QED
    BY <2>1, <2>2, <2>3
<1>. QED
  BY <1>1, <1>2

LEMMA ScanRootPass ==
  ASSUME PassInv, ScanRoot
  PROVE  PassInv'
<1>. DEFINE dot == NodeAt(offset, Dot, Root, 1, 0)
           up  == NodeAt(EndOf(dot), DotDot, Outside, 1, 2)
           one == Append(nodes, dot)
           two == Append(one, up)
           st == <<[dir |-> 1, left |-> host[Root].entries]>>
<1>1. /\ phase = "scan" /\ Len(nodes) = 1 /\ nodes' = nodes \o <<dot, up>> /\ offset' = EndOf(up)
      /\ stack' = st
      /\ UNCHANGED <<host, phase, image>>
  BY DEF ScanRoot
<1>2. host \in Hosts /\ NodesOK(nodes, offset) /\ image = <<>> /\ nodes \in Seq(Filenodes)
  BY <1>1 DEF PassInv, ScanInv, NodesOK
<1>3. Root \in DOMAIN host /\ Outside \in DOMAIN host /\ host[Root].entries \in EntriesOf(host)
  BY <1>2, HostFacts
<1>4. Dot \in Seq(Chars) /\ DotDot \in Seq(Chars)
  BY RomImageAssumption DEF Dot, DotDot
<1>5. offset \in Nat /\ Multiple(offset)
  <2>1. 1 \in 1..Len(nodes)
    BY <1>1
  <2>. QED
    BY <1>1, <1>2, <2>1, NodeFacts DEF NodesOK
<1>6. dot \in Filenodes /\ NodeOK(dot) /\ dot.off = offset + dot.pad /\ dot.dir = 1
  BY <1>2, <1>3, <1>4, <1>5, NodeAtFacts
<1>. HIDE DEF dot
<1>7. NodesOK(one, EndOf(dot))
  <2>1. dot.dir \in 1..Len(nodes) /\ \A m \in (dot.dir + 1)..Len(nodes) : nodes[m].dir >= dot.dir
    BY <1>1, <1>6
  <2>. QED
    BY <1>2, <1>6, <2>1, NodeMore
<1>. DEFINE end == EndOf(dot)
<1>8. end \in Nat /\ Multiple(end)
  BY <1>6, EndFacts DEF NodeOK
<1>. HIDE DEF end
<1>9. up \in Filenodes /\ NodeOK(up) /\ up.off = end + up.pad /\ up.dir = 1
  <2>1. up = NodeAt(end, DotDot, Outside, 1, 2)
    BY DEF end
  <2>. DEFINE level == 1
              owner == 2
              file == Outside
  <2>2. level \in Nat /\ owner \in Nat /\ file \in DOMAIN host
    BY <1>3
  <2>3. up = NodeAt(end, DotDot, file, level, owner)
    BY <2>1
  <2>. HIDE DEF up, level, owner, file
  <2>4. up \in Filenodes /\ NodeOK(up) /\ up.off = end + up.pad /\ up.dir = level
    BY <1>2, <1>4, <1>8, <2>2, <2>3, NodeAtFacts
  <2>. QED
    BY <2>4 DEF level
<1>. HIDE DEF up
<1>10. Len(one) = 2 /\ one \in Seq(Filenodes) /\ one[2] = dot /\ nodes' = two
  <2>1. nodes \in Seq(Filenodes) /\ Len(nodes) = 1
    BY <1>1, <1>2
  <2>2. Len(one) = 2 /\ one \in Seq(Filenodes) /\ one[2] = dot
    <3>1. one = Append(nodes, dot)
      OBVIOUS
    <3>. HIDE DEF one
    <3>. QED
      BY <1>6, <2>1, <3>1, AppendFacts
  <2>3. nodes \o <<dot, up>> = Append(Append(nodes, dot), up)
    BY <1>6, <1>9, <2>1
  <2>. QED
    BY <1>1, <2>2, <2>3
<1>. HIDE DEF one
<1>11. NodesOK(two, EndOf(up))
  <2>1. up.dir \in 1..Len(one) /\ \A m \in (up.dir + 1)..Len(one) : one[m].dir >= up.dir
    BY <1>6, <1>9, <1>10
  <2>2. NodesOK(one, end)
    BY <1>7 DEF end
  <2>. QED
    BY <1>9, <2>1, <2>2, NodeMore
<1>12. Len(two) = 3
  <2>1. two = Append(one, up)
    OBVIOUS
  <2>. HIDE DEF two
  <2>. QED
    BY <1>9, <1>10, <2>1, AppendFacts
<1>. HIDE DEF two
<1>13. StackOK(host, st, two)
  <2>1. \A m \in 2..Len(two) : two[m].dir >= 1
    BY <1>11, <1>12 DEF NodesOK
  <2>2. st \in Seq([dir : 1..Len(two), left : EntriesOf(host)]) /\ Len(st) = 1 /\ st[1].dir = 1
    BY <1>3, <1>12
  <2>. HIDE DEF st
  <2>3. \A i \in 1..Len(st) : i = 1 /\ st[i].dir = 1
    BY <2>2
  <2>. QED
    BY <2>1, <2>2, <2>3 DEF StackOK
<1>14. /\ host' \in Hosts /\ NodesOK(nodes', offset') /\ image' = <<>>
       /\ StackOK(host', stack', nodes')
  BY <1>1, <1>2, <1>10, <1>11, <1>13
<1>. QED
  BY <1>14, Zenon DEF PassInv, ScanInv

LEMMA ScanEntryPass ==
  ASSUME PassInv, ScanEntry
  PROVE  PassInv'
<1>. DEFINE dir  == stack[1].dir
           e    == Head(stack[1].left)
           rest == <<[stack[1] EXCEPT !.left = Tail(@)]>> \o Tail(stack)
           link == IF Name(e) = Dot THEN Owner(dir)
                   ELSE IF Name(e) = DotDot THEN Parent(dir)
                   ELSE FindNode(File(e))
           n    == NodeAt(offset, Name(e), File(e), dir, link)
<1>1. phase = "scan" /\ stack # <<>> /\ stack[1].left # <<>> /\ UNCHANGED <<host, phase, image>>
  BY DEF ScanEntry
<1>2. host \in Hosts /\ NodesOK(nodes, offset) /\ image = <<>> /\ StackOK(host, stack, nodes)
      /\ nodes \in Seq(Filenodes) /\ Len(nodes) \in Nat /\ Len(nodes) >= 1
  BY <1>1 DEF PassInv, ScanInv, NodesOK
<1>3. /\ StackOK(host, rest, nodes) /\ rest # <<>> /\ rest[1].dir = dir /\ dir \in 1..Len(nodes)
      /\ e \in [name : Seq(Chars) \ {<<>>}, ino : DOMAIN host]
  <2>1. rest = Popped(stack)
    BY Zenon DEF Popped
  <2>. HIDE DEF rest, dir, e
  <2>2. /\ StackOK(host, rest, nodes) /\ rest # <<>> /\ rest[1].dir = stack[1].dir
        /\ stack[1].dir \in 1..Len(nodes)
        /\ Head(stack[1].left) \in [name : Seq(Chars) \ {<<>>}, ino : DOMAIN host]
    BY <1>1, <1>2, <2>1, StackSame, Zenon
  <2>. QED
    BY <2>2, Zenon DEF dir, e
<1>. HIDE DEF e
<1>4. CASE Taken(e) /\ ~Again(e)
  <2>1. nodes' = Append(nodes, n) /\ offset' = EndOf(n)
        /\ stack' = IF n.kind = "dir" /\ link = 0
                    THEN <<[dir |-> Len(nodes) + 1, left |-> host[n.ino].entries]>> \o rest
                    ELSE rest
    BY <1>4, Zenon DEF ScanEntry, e
  <2>2. Name(e) \in Seq(Chars) /\ File(e) \in DOMAIN host
    BY <1>2, <1>3, <1>4, EntryFacts
  <2>3. offset \in Nat /\ Multiple(offset)
    <3>1. Len(nodes) \in 1..Len(nodes)
      BY <1>2
    <3>. QED
      BY <1>2, <3>1, NodeFacts DEF NodesOK
  <2>4. link \in Nat /\ dir \in Nat
    <3>1. nodes[dir].dir \in Nat
      BY <1>2, <1>3, NodeFacts
    <3>. HIDE DEF dir
    <3>. QED
      BY <1>2, <1>3, <3>1, FindNodeFacts DEF Parent, Owner
  <2>. HIDE DEF dir, link, rest
  <2>5. n \in Filenodes /\ NodeOK(n) /\ n.off = offset + n.pad /\ n.dir = dir /\ n.ino = File(e)
    BY <1>2, <2>2, <2>3, <2>4, NodeAtFacts
  <2>6. host[n.ino].entries \in EntriesOf(host)
    BY <1>2, <2>2, <2>5, HostFacts
  <2>. HIDE DEF n
  <2>7. \A m \in (dir + 1)..Len(nodes) : nodes[m].dir >= dir
    <3>1. 1 \in 1..Len(rest)
      <4>1. rest \in Seq([dir : 1..Len(nodes), left : EntriesOf(host)])
        BY <1>3 DEF StackOK
      <4>. QED
        BY <1>3, <4>1
    <3>. QED
      BY <1>3, <3>1 DEF StackOK
  <2>8. NodesOK(Append(nodes, n), EndOf(n))
    BY <1>2, <1>3, <2>5, <2>7, NodeMore
  <2>9. \A i \in 1..Len(nodes) : nodes[i].dir < i
    BY <1>2, NodeFacts
  <2>10. /\ StackOK(host, rest, Append(nodes, n))
         /\ StackOK(host, <<[dir |-> Len(nodes) + 1, left |-> host[n.ino].entries]>> \o rest,
                    Append(nodes, n))
    <3>. DEFINE left == host[n.ino].entries
    <3>1. left \in EntriesOf(host)
      BY <2>6
    <3>. HIDE DEF left
    <3>2. /\ StackOK(host, rest, Append(nodes, n))
          /\ StackOK(host, <<[dir |-> Len(nodes) + 1, left |-> left]>> \o rest, Append(nodes, n))
      BY <1>2, <1>3, <2>5, <2>9, <3>1, StackMore
    <3>. QED
      BY <3>2 DEF left
  <2>11. StackOK(host', stack', nodes')
    BY <1>1, <2>1, <2>10, Zenon
  <2>12. host' \in Hosts /\ NodesOK(nodes', offset') /\ image' = <<>>
    BY <1>1, <1>2, <2>1, <2>8
  <2>. QED
    BY <2>11, <2>12, Zenon DEF PassInv, ScanInv
<1>5. CASE ~(Taken(e) /\ ~Again(e))
  <2>1. stack' = rest /\ UNCHANGED <<nodes, offset>>
    BY <1>5, Zenon DEF ScanEntry, e
  <2>. HIDE DEF rest, dir
  <2>2. /\ host' \in Hosts /\ NodesOK(nodes', offset') /\ image' = <<>>
        /\ StackOK(host', stack', nodes')
    BY <1>1, <1>2, <1>3, <2>1
  <2>. QED
    BY <2>2, Zenon DEF PassInv, ScanInv
<1>. QED
  BY <1>4, <1>5

LEMMA ScanLeavePass ==
  ASSUME PassInv, ScanLeave
  PROVE  PassInv'
<1>1. phase = "scan" /\ stack # <<>> /\ stack' = Tail(stack)
      /\ UNCHANGED <<host, phase, nodes, offset, image>>
  BY DEF ScanLeave
<1>2. host \in Hosts /\ NodesOK(nodes, offset) /\ image = <<>> /\ StackOK(host, stack, nodes)
  BY <1>1 DEF PassInv, ScanInv
<1>3. StackOK(host, Tail(stack), nodes)
  BY <1>1, <1>2, StackLess
<1>4. /\ host' \in Hosts /\ NodesOK(nodes', offset') /\ image' = <<>>
      /\ StackOK(host', stack', nodes')
  BY <1>1, <1>2, <1>3
<1>. QED
  BY <1>4, Zenon DEF PassInv, ScanInv

-----------------------------------------------------------------------------
(* The dump. *)

\* The nodes behind the first k that hang from one of these.
Pending(k) == {j \in (k + 1)..Len(nodes) : nodes[j].dir <= k}

\* The first k nodes are written, each where the scan has put it.
Written(k) ==
  /\ phase = "done" => k = Len(nodes)
  /\ at = IF phase = "done" THEN RoundUp(offset, Block) ELSE EndOf(nodes[k])
  /\ InOrder(todo, Pending(k))
  /\ DOMAIN image = {nodes[i].off : i \in 1..k}
  /\ \A i \in 1..k : image[nodes[i].off].node = i /\ image[nodes[i].off].name = nodes[i].name
  /\ \A p \in DOMAIN image : Ntohl(image[p].next) \in Nat
  /\ Ntohl(image[0].size) = offset

DumpInv ==
  /\ phase \in {"scan", "dump", "done"}
  /\ phase # "scan" => \E k \in 1..Len(nodes) : Written(k)

LEMMA OffsetsApart ==
  ASSUME NEW ns, NEW o, NodesOK(ns, o), NEW i \in 1..Len(ns), NEW j \in 1..Len(ns),
         ns[i].off = ns[j].off
  PROVE  i = j
<1>1. /\ ns[i].off \in Nat /\ EndOf(ns[i]) \in Nat /\ EndOf(ns[i]) > ns[i].off
      /\ ns[j].off \in Nat /\ EndOf(ns[j]) \in Nat /\ EndOf(ns[j]) > ns[j].off
  BY NodeFacts
<1>2. i < j => EndOf(ns[i]) <= ns[j].off
  BY DEF NodesOK
<1>3. j < i => EndOf(ns[j]) <= ns[i].off
  BY DEF NodesOK
<1>4. i \in Nat /\ j \in Nat
  OBVIOUS
<1>. QED
  BY <1>1, <1>2, <1>3, <1>4

LEMMA SiblingFacts ==
  ASSUME NodesOK(nodes, offset), NEW i \in 1..Len(nodes)
  PROVE  Sibling(i) \in Nat
<1>. DEFINE after == {j \in (i + 1)..Len(nodes) : nodes[j].dir = nodes[i].dir}
           x == CHOOSE j \in after : \A k \in after : j <= k
<1>1. CASE after = {}
  BY <1>1 DEF Sibling
<1>2. CASE after # {}
  <2>1. after \in SUBSET Nat /\ after \subseteq 1..Len(nodes)
    OBVIOUS
  <2>2. Sibling(i) = nodes[x].off
    BY <1>2 DEF Sibling
  <2>. HIDE DEF after
  <2>3. \E j \in after : \A k \in after : j <= k
    BY <1>2, <2>1, LeastElement
  <2>4. x \in after
    BY <2>3
  <2>. HIDE DEF x
  <2>. QED
    BY <2>1, <2>2, <2>4, NodeFacts
<1>. QED
  BY <1>1, <1>2

LEMMA DumpVolumePass ==
  ASSUME PassInv, DumpVolume
  PROVE  PassInv' /\ DumpInv'
<1>. DEFINE v == [node |-> 1, name |-> Volume, next |-> Htonl(0), spec |-> Htonl(0),
                size |-> Htonl(offset), data |-> 0]
<1>1. /\ phase' = "dump" /\ image' = [p \in {0} |-> v] /\ at' = HeaderLen(Volume)
      /\ todo' = Children(1) /\ UNCHANGED <<host, nodes, offset, stack>>
  BY Zenon DEF DumpVolume
<1>2. host \in Hosts /\ NodesOK(nodes, offset) /\ Len(nodes) \in Nat /\ Len(nodes) >= 1
  BY DEF PassInv, NodesOK
<1>3. PassInv'
  BY <1>1, <1>2 DEF PassInv, ScanInv
<1>4. nodes[1].dir = 0 /\ nodes[1].off = 0 /\ nodes[1].size = 0 /\ nodes[1].name = Volume
  BY <1>2 DEF NodesOK
<1>5. EndOf(nodes[1]) = HeaderLen(Volume)
  <2>1. HeaderLen(Volume) \in Nat
    BY HeaderFacts, RomImageAssumption
  <2>. QED
    BY <1>4, <2>1, RoundUpNought DEF EndOf, SpaceNeeded
<1>6. {j \in 1..Len(nodes) : nodes[j].dir = 1} = Pending(1)
  <2>1. \A j \in 2..Len(nodes) : nodes[j].dir \in 1..(j - 1)
    BY <1>2 DEF NodesOK
  <2>2. \A j \in 1..Len(nodes) : j = 1 \/ j \in 2..Len(nodes)
    BY <1>2
  <2>3. \A j \in 2..Len(nodes) : nodes[j].dir = 1 <=> nodes[j].dir <= 1
    BY <2>1
  <2>. QED
    BY <1>2, <1>4, <2>2, <2>3 DEF Pending
<1>7. InOrder(todo', Pending(1)')
  <2>1. InOrder(Children(1), Pending(1))
    BY <1>2, <1>6, ChildrenFacts
  <2>. QED
    BY <1>1, <2>1 DEF Pending
<1>8. v.node = 1 /\ v.name = Volume /\ Ntohl(v.next) \in Nat /\ Ntohl(v.size) = offset
  BY DEF Ntohl, Htonl
<1>. HIDE DEF v
<1>9. DOMAIN image' = {0} /\ image'[0] = v
  BY <1>1
<1>10. 1..1 = {1} /\ 1 \in 1..Len(nodes)
  BY <1>2
<1>11. Written(1)'
  <2>1. at' = EndOf(nodes'[1])
    BY <1>1, <1>5
  <2>2. DOMAIN image' = {nodes'[i].off : i \in 1..1}
    BY <1>1, <1>4, <1>9, <1>10
  <2>3. \A i \in 1..1 : image'[nodes'[i].off].node = i /\ image'[nodes'[i].off].name = nodes'[i].name
    BY <1>1, <1>4, <1>8, <1>9, <1>10
  <2>4. \A p \in DOMAIN image' : Ntohl(image'[p].next) \in Nat
    BY <1>8, <1>9
  <2>5. Ntohl(image'[0].size) = offset'
    BY <1>1, <1>8, <1>9
  <2>6. phase' # "done"
    BY <1>1
  <2>. QED
    BY <1>7, <2>1, <2>2, <2>3, <2>4, <2>5, <2>6 DEF Written
<1>. QED
  BY <1>1, <1>3, <1>10, <1>11 DEF DumpInv

\* The next node to be written is the next that was made.
LEMMA NextInOrder ==
  ASSUME NodesOK(nodes, offset), NEW k \in 1..Len(nodes), InOrder(todo, Pending(k))
  PROVE  /\ todo = <<>> <=> (k = Len(nodes))
         /\ todo # <<>> =>
              /\ todo[1] = k + 1 /\ k + 1 \in 1..Len(nodes)
              /\ InOrder(Children(k + 1) \o Tail(todo), Pending(k + 1))
<1>1. Len(nodes) \in Nat /\ k \in Nat
  BY DEF NodesOK
<1>2. k # Len(nodes) => k + 1 \in Pending(k)
  <2>. SUFFICES ASSUME k # Len(nodes) PROVE k + 1 \in Pending(k)
    OBVIOUS
  <2>1. k + 1 \in 2..Len(nodes)
    BY <1>1
  <2>2. nodes[k + 1].dir \in 1..k
    BY <1>1, <2>1 DEF NodesOK
  <2>. QED
    BY <1>1, <2>1, <2>2 DEF Pending
<1>3. k = Len(nodes) => Pending(k) = {}
  BY <1>1 DEF Pending
<1>4. todo # <<>> => Pending(k) # {}
  <2>. SUFFICES ASSUME todo # <<>> PROVE Pending(k) # {}
    OBVIOUS
  <2>1. todo[1] \in Pending(k)
    BY InOrderTail
  <2>. QED
    BY <2>1
<1>5. todo = <<>> => Pending(k) = {}
  <2>. SUFFICES ASSUME todo = <<>> PROVE Pending(k) = {}
    OBVIOUS
  <2>1. Len(todo) = 0
    OBVIOUS
  <2>. QED
    BY <2>1 DEF InOrder
<1>6. ASSUME todo # <<>>
      PROVE  /\ todo[1] = k + 1 /\ k + 1 \in 1..Len(nodes)
             /\ InOrder(Children(k + 1) \o Tail(todo), Pending(k + 1))
  <2>. DEFINE A == {j \in 1..Len(nodes) : nodes[j].dir = k + 1}
              B == Pending(k) \ {k + 1}
  <2>1. k + 1 \in Pending(k) /\ k + 1 \in 2..Len(nodes)
    BY <1>1, <1>2, <1>3, <1>4, <1>6
  <2>2. todo[1] \in Pending(k) /\ (\A j \in Pending(k) : todo[1] <= j)
        /\ InOrder(Tail(todo), Pending(k) \ {todo[1]})
    BY <1>6, InOrderTail
  <2>3. todo[1] = k + 1
    BY <1>1, <2>1, <2>2 DEF Pending
  <2>4. InOrder(Tail(todo), B) /\ InOrder(Children(k + 1), A)
    BY <1>1, <2>2, <2>3, ChildrenFacts
  <2>5. \A j \in 1..Len(nodes) : nodes[j].dir \in Nat /\ nodes[j].dir < j
    BY NodeFacts
  <2>6. ASSUME NEW j \in A, NEW m \in B PROVE j < m
    <3>1. j \in 1..Len(nodes) /\ nodes[j].dir = k + 1
      OBVIOUS
    <3>2. m \in 1..Len(nodes) /\ nodes[m].dir <= k /\ m > k + 1
      BY <1>1 DEF Pending
    <3>3. nodes[m].dir < nodes[j].dir /\ nodes[j].dir < m
      BY <1>1, <2>5, <3>1, <3>2
    <3>. QED
      BY <3>1, <3>2, <3>3 DEF NodesOK
  <2>7. A \cup B = Pending(k + 1)
    <3>1. \A j \in A : j \in Pending(k + 1)
      BY <1>1, <2>5 DEF Pending
    <3>2. \A j \in B : j \in Pending(k + 1)
      BY <1>1, <2>5 DEF Pending
    <3>3. \A j \in Pending(k + 1) : j \in A \/ j \in B
      BY <1>1, <2>5 DEF Pending
    <3>. QED
      BY <3>1, <3>2, <3>3
  <2>8. InOrder(Children(k + 1) \o Tail(todo), A \cup B)
    <3>. HIDE DEF A, B
    <3>. QED
      BY <2>4, <2>6, InOrderConcat
  <2>9. k + 1 \in 1..Len(nodes)
    BY <1>1, <2>1
  <2>. HIDE DEF A, B
  <2>. QED
    BY <2>3, <2>7, <2>8, <2>9
<1>. QED
  BY <1>1, <1>2, <1>3, <1>4, <1>5, <1>6

LEMMA DumpNodePass ==
  ASSUME PassInv, DumpInv, DumpNode
  PROVE  PassInv' /\ DumpInv'
<1>. DEFINE i == Head(todo)
           n == nodes[i]
           p == at + n.pad
           type == IF n.link # 0 THEN 0 ELSE 1
           h == [node |-> i, name |-> n.name, next |-> Htonl(Sibling(i) + type),
                 spec |-> Htonl(FileSpec(i)), size |-> Htonl(n.size),
                 data |-> HeaderLen(n.name) + p]
<1>1. /\ phase = "dump" /\ todo # <<>> /\ UNCHANGED <<host, phase, nodes, offset, stack>>
      /\ todo' = Children(Head(todo)) \o Tail(todo)
  BY DEF DumpNode
<1>2. /\ image' = [q \in DOMAIN image \cup {p} |-> IF q = p THEN h ELSE image[q]]
      /\ at' = p + SpaceNeeded(n)
  BY Zenon DEF DumpNode, Write
<1>3. host \in Hosts /\ NodesOK(nodes, offset) /\ Len(nodes) \in Nat
  BY DEF PassInv, NodesOK
<1>4. PassInv'
  BY <1>1, <1>3 DEF PassInv, ScanInv
<1>5. PICK k \in 1..Len(nodes) : Written(k)
  BY <1>1 DEF DumpInv
<1>6. InOrder(todo, Pending(k)) /\ k \in Nat
  BY <1>3, <1>5 DEF Written
<1>7. /\ todo[1] = k + 1 /\ k + 1 \in 1..Len(nodes)
      /\ InOrder(Children(k + 1) \o Tail(todo), Pending(k + 1))
  BY <1>1, <1>3, <1>6, NextInOrder
<1>8. i = k + 1
  BY <1>1, <1>6, <1>7 DEF InOrder
<1>9. p = n.off
  <2>1. k + 1 \in 2..Len(nodes) /\ (k + 1) - 1 = k
    BY <1>3, <1>7
  <2>2. n.off = EndOf(nodes[k]) + n.pad
    BY <1>3, <1>8, <2>1 DEF NodesOK
  <2>3. at = EndOf(nodes[k])
    BY <1>1, <1>5 DEF Written
  <2>. QED
    BY <2>2, <2>3
<1>10. at' = EndOf(n)
  BY <1>2, <1>9 DEF EndOf
<1>11. h.node = i /\ h.name = n.name /\ Ntohl(h.next) \in Nat
  <2>1. Sibling(i) \in Nat /\ type \in Nat
    BY <1>3, <1>7, <1>8, SiblingFacts
  <2>2. Ntohl(h.next) = Sibling(i) + type
    BY DEF Ntohl, Htonl
  <2>. HIDE DEF type
  <2>. QED
    BY <2>1, <2>2
<1>. HIDE DEF h, p
<1>12. /\ DOMAIN image' = DOMAIN image \cup {p} /\ image'[p] = h
       /\ \A q \in DOMAIN image : q # p => image'[q] = image[q]
  BY <1>2
<1>13. /\ DOMAIN image = {nodes[j].off : j \in 1..k}
       /\ \A j \in 1..k : image[nodes[j].off].node = j /\ image[nodes[j].off].name = nodes[j].name
       /\ \A q \in DOMAIN image : Ntohl(image[q].next) \in Nat
       /\ Ntohl(image[0].size) = offset
  BY <1>5 DEF Written
<1>14. \A j \in 1..k : j \in 1..Len(nodes) /\ nodes[j].off # p /\ nodes[j].off \in DOMAIN image
  <2>. TAKE j \in 1..k
  <2>1. j \in 1..Len(nodes) /\ j # k + 1
    BY <1>3, <1>6, <1>7
  <2>2. nodes[j].off # nodes[k + 1].off
    BY <1>3, <1>7, <2>1, OffsetsApart
  <2>. QED
    BY <1>8, <1>9, <1>13, <2>1, <2>2
<1>15. \A j \in 1..(k + 1) : j = k + 1 \/ j \in 1..k
  BY <1>6
<1>16. Written(k + 1)'
  <2>1. at' = EndOf(nodes'[k + 1])
    BY <1>1, <1>8, <1>10
  <2>2. InOrder(todo', Pending(k + 1)')
    BY <1>1, <1>7, <1>8 DEF Pending
  <2>3. DOMAIN image' = {nodes'[j].off : j \in 1..(k + 1)}
    <3>1. {nodes[j].off : j \in 1..(k + 1)} = {nodes[j].off : j \in 1..k} \cup {nodes[k + 1].off}
      BY <1>6, <1>15
    <3>. QED
      BY <1>1, <1>8, <1>9, <1>12, <1>13, <3>1
  <2>4. \A j \in 1..(k + 1) :
          image'[nodes'[j].off].node = j /\ image'[nodes'[j].off].name = nodes'[j].name
    <3>. TAKE j \in 1..(k + 1)
    <3>1. CASE j = k + 1
      BY <1>1, <1>8, <1>9, <1>11, <1>12, <3>1
    <3>2. CASE j \in 1..k
      BY <1>1, <1>12, <1>13, <1>14, <3>2
    <3>. QED
      BY <1>15, <3>1, <3>2
  <2>5. \A q \in DOMAIN image' : Ntohl(image'[q].next) \in Nat
    BY <1>11, <1>12, <1>13
  <2>6. Ntohl(image'[0].size) = offset'
    <3>1. 1 \in 1..k /\ nodes[1].off = 0
      BY <1>3, <1>6 DEF NodesOK
    <3>. QED
      BY <1>1, <1>12, <1>13, <1>14, <3>1
  <2>7. phase' # "done"
    BY <1>1
  <2>. QED
    BY <2>1, <2>2, <2>3, <2>4, <2>5, <2>6, <2>7 DEF Written
<1>. QED
  BY <1>1, <1>4, <1>7, <1>16 DEF DumpInv

LEMMA DumpEndPass ==
  ASSUME PassInv, DumpInv, DumpEnd
  PROVE  PassInv' /\ DumpInv'
<1>1. /\ phase = "dump" /\ todo = <<>> /\ phase' = "done"
      /\ at' = at + (RoundUp(offset, Block) - offset)
      /\ UNCHANGED <<host, nodes, offset, stack, todo, image>>
  BY DEF DumpEnd
<1>2. host \in Hosts /\ NodesOK(nodes, offset) /\ Len(nodes) \in Nat /\ Len(nodes) >= 1
  BY DEF PassInv, NodesOK
<1>3. PassInv'
  BY <1>1, <1>2 DEF PassInv, ScanInv
<1>4. PICK k \in 1..Len(nodes) : Written(k)
  BY <1>1 DEF DumpInv
<1>5. k = Len(nodes)
  BY <1>1, <1>2, <1>4, NextInOrder DEF Written
<1>6. at = offset /\ offset \in Nat
  <2>1. Len(nodes) \in 1..Len(nodes)
    BY <1>2
  <2>2. offset = EndOf(nodes[Len(nodes)]) /\ at = EndOf(nodes[k])
    BY <1>1, <1>2, <1>4 DEF NodesOK, Written
  <2>. QED
    BY <1>2, <1>5, <2>1, <2>2, NodeFacts
<1>7. RoundUp(offset, Block) \in Int
  <2>1. Block \in Nat /\ Block > 0
    BY RomImageAssumption
  <2>2. offset + Block - 1 \in Nat
    BY <1>6, <2>1
  <2>3. (offset + Block - 1) \div Block \in Nat
    BY <2>1, <2>2, DivMod
  <2>. QED
    BY <2>1, <2>3 DEF RoundUp
<1>8. at' = RoundUp(offset, Block)
  BY <1>1, <1>6, <1>7
<1>9. Written(k)'
  BY <1>1, <1>4, <1>5, <1>8 DEF Written, Pending
<1>. QED
  BY <1>1, <1>3, <1>4, <1>9 DEF DumpInv

\* Headers say where their data begins, and how much there is.
ImageInv ==
  /\ phase = "scan" => DOMAIN image = {}
  /\ \A p \in DOMAIN image \ {0} :
       /\ image[p].data = HeaderLen(image[p].name) + p
       /\ Ntohl(image[p].size) = nodes[image[p].node].size

LEMMA OnceWritten ==
  ASSUME PassInv, DumpInv
  PROVE  WrittenWhereScanned
<1>1. CASE phase = "scan"
  BY <1>1 DEF PassInv, ScanInv, WrittenWhereScanned
<1>2. CASE phase # "scan"
  <2>1. PICK k \in 1..Len(nodes) : Written(k)
    BY <1>2 DEF DumpInv
  <2>2. \A p \in DOMAIN image : \E i \in 1..k : p = nodes[i].off /\ image[p].node = i
    BY <2>1 DEF Written
  <2>3. \A p \in DOMAIN image : p = nodes[image[p].node].off
    BY <2>2
  <2>4. ASSUME phase = "done"
        PROVE  /\ {image[p].node : p \in DOMAIN image} = 1..Len(nodes)
               /\ at = RoundUp(Ntohl(image[0].size), Block)
    <3>1. k = Len(nodes) /\ at = RoundUp(Ntohl(image[0].size), Block)
      BY <2>1, <2>4 DEF Written
    <3>2. \A i \in 1..k : nodes[i].off \in DOMAIN image /\ image[nodes[i].off].node = i
      BY <2>1 DEF Written
    <3>3. \A p \in DOMAIN image : image[p].node \in 1..Len(nodes)
      BY <2>2, <3>1
    <3>4. \A i \in 1..Len(nodes) : \E p \in DOMAIN image : image[p].node = i
      BY <3>1, <3>2
    <3>. QED
      BY <3>1, <3>3, <3>4
  <2>. QED
    BY <2>3, <2>4 DEF WrittenWhereScanned
<1>. QED
  BY <1>1, <1>2

LEMMA WellAligned ==
  ASSUME PassInv, DumpInv, ImageInv
  PROVE  DataAligned
<1>1. CASE phase = "scan"
  BY <1>1 DEF PassInv, ScanInv, DataAligned
<1>2. CASE phase # "scan"
  <2>1. PICK k \in 1..Len(nodes) : Written(k)
    BY <1>2 DEF DumpInv
  <2>. SUFFICES ASSUME NEW p \in DOMAIN image, p # 0
                PROVE  LET h == image[p]
                           n == nodes[h.node]
                       IN  /\ p % Unit = 0
                           /\ n.kind = "reg" /\ n.link = 0 =>
                                h.data % FindAlign(n.name, "reg") = 0
    BY Zenon DEF DataAligned
  <2>2. PICK i \in 1..k : p = nodes[i].off /\ image[p].node = i /\ image[p].name = nodes[i].name
    BY <2>1 DEF Written
  <2>3. i \in 1..Len(nodes) /\ NodesOK(nodes, offset)
    BY <2>1 DEF PassInv
  <2>4. NodeOK(nodes[i]) /\ p \in Nat
    BY <2>2, <2>3, NodeFacts DEF NodesOK
  <2>5. image[p].data = HeaderLen(nodes[i].name) + p
    BY <2>2 DEF ImageInv
  <2>6. p % Unit = 0
    BY <2>2, <2>4, MultipleFacts DEF NodeOK
  <2>. QED
    BY <2>2, <2>4, <2>5, <2>6 DEF NodeOK
<1>. QED
  BY <1>1, <1>2

-----------------------------------------------------------------------------
(* Lookups. *)

Places == {"idle", "walk", "dir", "found"}
Buffers == [1..NameMax -> Chars \cup {NUL}]

LocalType ==
  /\ pc \in Places
  /\ local = [dir |-> local.dir, name |-> local.name, fname |-> local.fname,
              next |-> local.next, first |-> local.first, tmp |-> local.tmp]
  /\ local.name \in Buffers

\* The rest of a path, which ends as the path does, in the first loop; in the
\* second the buffer holds its end.
CallInv ==
  /\ pc # "idle" => phase = "done" /\ path \in Paths /\ local.fname = path[Len(path)]
  /\ pc = "walk" =>
       /\ local.dir \in Seq(Seq(Chars))
       /\ \A i \in 1..Len(local.dir) : Len(local.dir[i]) < NameMax
       /\ local.dir # <<>> => local.dir[Len(local.dir)] = local.fname
  /\ pc = "dir" => String(local.name) = local.fname
  /\ pc = "found" => Reads(local.tmp) /\ image[local.tmp].name = local.fname

Truth ==
  /\ phase = "done" /\ path \in Paths
  /\ inode.daddr \in DOMAIN image \ {0}
  /\ inode.name = path[Len(path)]
  /\ GetDaddr(inode) = image[inode.daddr].data
  /\ inode.dsize = nodes[image[inode.daddr].node].size

ResultInv ==
  pc = "idle" =>
    /\ held = IF inode = None THEN {} ELSE {"inode", "name"}
    /\ inode # None => Truth

RomInv == ImageInv /\ LocalType /\ CallInv /\ ResultInv

-----------------------------------------------------------------------------
(* The buffer and the addresses. *)

\* The last component is copied with its end, whatever was in the buffer.
LEMMA LastCopied ==
  ASSUME NEW b \in Buffers, NEW c \in Seq(Chars), Len(c) < NameMax
  PROVE  String(Bmap(b, <<c>>)) = c
<1>. DEFINE m == Bmap(b, <<c>>)
            ends == {i \in DOMAIN m : m[i] = NUL}
            e == CHOOSE i \in ends : \A j \in ends : i <= j
<1>1. NameMax \in Nat /\ NUL \notin Chars /\ Len(c) \in Nat
  BY RomfsAssumption
<1>2. DOMAIN m = 1..NameMax
  BY DEF Bmap
<1>3. \A i \in 1..Len(c) : m[i] = c[i] /\ m[i] # NUL
  BY <1>1 DEF Bmap
<1>4. Len(c) + 1 \in 1..NameMax /\ m[Len(c) + 1] = NUL
  BY <1>1 DEF Bmap
<1>. HIDE DEF m
<1>5. Len(c) + 1 \in ends /\ \A j \in ends : Len(c) + 1 <= j
  BY <1>1, <1>2, <1>3, <1>4
<1>6. e \in ends /\ \A j \in ends : e <= j
  BY <1>5, Zenon
<1>7. e = Len(c) + 1
  BY <1>1, <1>2, <1>5, <1>6
<1>. HIDE DEF e
<1>8. String(m) = SubSeq(m, 1, Len(c))
  <2>1. ends # {}
    BY <1>5
  <2>2. String(m) = SubSeq(m, 1, e - 1)
    BY <2>1, Zenon DEF String, e
  <2>3. e - 1 = Len(c)
    BY <1>1, <1>7
  <2>. QED
    BY <2>2, <2>3, Zenon
<1>9. SubSeq(m, 1, Len(c)) = [i \in 1..Len(c) |-> m[i]]
  BY <1>1, <1>2, <1>4
<1>10. [i \in 1..Len(c) |-> m[i]] = c
  BY <1>1, <1>3
<1>. QED
  BY <1>8, <1>9, <1>10 DEF m

LEMMA BmapType ==
  ASSUME NEW b \in Buffers, NEW d \in Seq(Seq(Chars)), d # <<>>
  PROVE  Bmap(b, d) \in Buffers
<1>1. d[1] \in Seq(Chars)
  OBVIOUS
<1>2. \A i \in 1..NameMax : i <= Len(d[1]) => d[1][i] \in Chars
  BY <1>1, RomfsAssumption
<1>3. \A i \in 1..NameMax : b[i] \in Chars \cup {NUL}
  BY DEF Buffers
<1>. QED
  BY <1>2, <1>3 DEF Bmap, Buffers

\* Without its first component a path still ends the same way.
LEMMA Rest ==
  ASSUME NEW d \in Seq(Seq(Chars)), d # <<>>, \A i \in 1..Len(d) : Len(d[i]) < NameMax
  PROVE  /\ Tail(d) \in Seq(Seq(Chars))
         /\ \A i \in 1..Len(Tail(d)) : Len(Tail(d)[i]) < NameMax
         /\ Tail(d) # <<>> => Tail(d)[Len(Tail(d))] = d[Len(d)]
<1>1. Tail(d) \in Seq(Seq(Chars)) /\ Len(Tail(d)) = Len(d) - 1 /\ Len(d) \in Nat \ {0}
  OBVIOUS
<1>2. \A i \in 1..Len(Tail(d)) : Tail(d)[i] = d[i + 1]
  OBVIOUS
<1>3. \A i \in 1..Len(Tail(d)) : Len(Tail(d)[i]) < NameMax
  BY <1>1, <1>2
<1>4. ASSUME Tail(d) # <<>>
      PROVE  Tail(d)[Len(Tail(d))] = d[Len(d)]
  <2>1. Len(Tail(d)) \in 1..Len(Tail(d))
    BY <1>1, <1>4
  <2>. QED
    BY <1>1, <1>2, <2>1
<1>. QED
  BY <1>1, <1>3, <1>4

\* The kernel and genromfs round in different ways to the same place.
LEMMA DataPlace ==
  ASSUME NEW n, n.name \in Seq(Chars)
  PROVE  GetDaddr(n) = HeaderLen(n.name) + n.daddr
<1>. DEFINE L == Len(n.name)
<1>1. Unit \in Nat \ {0} /\ L \in Nat
  BY RomImageAssumption
<1>. HIDE DEF L
<1>2. /\ L + Unit = ((L + Unit) \div Unit) * Unit + ((L + Unit) % Unit)
      /\ (L + Unit) % Unit \in Nat /\ ((L + Unit) \div Unit) * Unit \in Nat
  BY <1>1, Z3
<1>3. Mask(L + Unit) = ((L + Unit) \div Unit) * Unit
  BY <1>1, <1>2 DEF Mask
<1>4. RoundUp(L + 1, Unit) = ((L + Unit) \div Unit) * Unit
  <2>1. (L + 1) + Unit - 1 = L + Unit
    BY <1>1
  <2>. QED
    BY <2>1 DEF RoundUp
<1>5. Mask(L + Unit) + Unit = Unit + RoundUp(L + 1, Unit)
  BY <1>1, <1>2, <1>3, <1>4
<1>. QED
  BY <1>5, Zenon DEF GetDaddr, HeaderLen, L

-----------------------------------------------------------------------------
(* The steps of genromfs. *)

LEMMA ImageSteps ==
  ASSUME RomInv, ImageNext, UNCHANGED romVars
  PROVE  RomInv'
<1>1. phase # "done"
  BY DEF ImageNext, ScanRoot, ScanEntry, ScanLeave, DumpVolume, DumpNode, DumpEnd
<1>2. pc = "idle" /\ inode = None
  BY <1>1 DEF RomInv, CallInv, ResultInv, Truth, LocalType, Places
<1>3. ImageInv'
  <2>1. CASE ScanRoot \/ ScanEntry \/ ScanLeave
    BY <2>1 DEF ScanRoot, ScanEntry, ScanLeave, RomInv, ImageInv
  <2>2. CASE DumpVolume
    BY <2>2 DEF DumpVolume, ImageInv
  <2>3. CASE DumpNode
    <3>. DEFINE i == Head(todo)
                p == at + nodes[i].pad
    <3>1. phase' = phase /\ phase # "scan" /\ nodes' = nodes /\ Write(i)
      BY <2>3 DEF DumpNode
    <3>2. /\ DOMAIN image' = DOMAIN image \cup {p}
          /\ \A q \in DOMAIN image : q # p => image'[q] = image[q]
      BY <3>1, Zenon DEF Write
    <3>3. /\ image'[p].data = HeaderLen(image'[p].name) + p
          /\ Ntohl(image'[p].size) = nodes[image'[p].node].size
      BY <3>1 DEF Write, Ntohl, Htonl
    <3>. HIDE DEF p
    <3>4. \A q \in DOMAIN image' \ {0} :
            /\ image'[q].data = HeaderLen(image'[q].name) + q
            /\ Ntohl(image'[q].size) = nodes'[image'[q].node].size
      <4>. TAKE q \in DOMAIN image' \ {0}
      <4>1. CASE q = p
        BY <3>1, <3>3, <4>1, Zenon
      <4>2. CASE q # p
        BY <3>1, <3>2, <4>2 DEF RomInv, ImageInv
      <4>. QED
        BY <4>1, <4>2
    <3>. QED
      BY <3>1, <3>4, Zenon DEF ImageInv
  <2>4. CASE DumpEnd
    BY <2>4 DEF DumpEnd, RomInv, ImageInv
  <2>. QED
    BY <2>1, <2>2, <2>3, <2>4 DEF ImageNext
<1>4. LocalType' /\ CallInv' /\ ResultInv'
  BY <1>2 DEF RomInv, LocalType, CallInv, ResultInv, romVars, Places
<1>. QED
  BY <1>3, <1>4 DEF RomInv

-----------------------------------------------------------------------------
(* The steps of namei. *)

\* What has been written stays.
LEMMA ImageKept ==
  ASSUME ImageInv, UNCHANGED imageVars
  PROVE  ImageInv'
BY DEF ImageInv, imageVars

\* Every error returns nothing and keeps nothing.
LEMMA Fails ==
  ASSUME RomInv, Fail, UNCHANGED imageVars
  PROVE  RomInv'
<1>1. pc' = "idle" /\ local' = NoLocals /\ inode' = None /\ held' = {}
  BY DEF Fail, Return
<1>2. LocalType'
  BY <1>1 DEF LocalType, NoLocals, Places, Buffers
<1>3. CallInv' /\ ResultInv'
  BY <1>1 DEF CallInv, ResultInv
<1>. QED
  BY <1>2, <1>3, ImageKept DEF RomInv

LEMMA NameiInv ==
  ASSUME RomInv, NEW q \in Paths, Namei(q)
  PROVE  RomInv'
<1>1. CASE Fail
  BY <1>1, Fails DEF Namei
<1>2. ASSUME NEW junk \in Junk,
             LET buf == Bmap(junk, q)
             IN  /\ local' = [dir |-> Tail(q), name |-> buf, fname |-> GetTheFileName(q),
                              next |-> [le |-> GetFirstHeader], first |-> TRUE, tmp |-> 0]
                 /\ pc' = "walk"
      PROVE  RomInv'
  <2>1. q \in Seq(Seq(Chars)) /\ q # <<>> /\ \A i \in 1..Len(q) : Len(q[i]) < NameMax
    BY RomfsAssumption
  <2>2. Bmap(junk, q) \in Buffers
    BY <2>1, BmapType, RomfsAssumption DEF Buffers
  <2>3. ImageInv'
    BY ImageKept DEF RomInv, Namei
  <2>4. LocalType'
    BY <1>2, <2>2 DEF LocalType, Places
  <2>5. path' = q /\ phase' = "done"
    BY DEF Namei, imageVars
  <2>6. /\ Tail(q) \in Seq(Seq(Chars))
        /\ \A i \in 1..Len(Tail(q)) : Len(Tail(q)[i]) < NameMax
        /\ Tail(q) # <<>> => Tail(q)[Len(Tail(q))] = q[Len(q)]
    BY <2>1, Rest
  <2>7. CallInv'
    BY <1>2, <2>5, <2>6 DEF CallInv, GetTheFileName
  <2>8. ResultInv'
    BY <1>2 DEF ResultInv
  <2>. QED
    BY <2>3, <2>4, <2>7, <2>8 DEF RomInv
<1>. QED
  BY <1>1, <1>2 DEF Namei

LEMMA WalkInv ==
  ASSUME RomInv, Walk
  PROVE  RomInv'
<1>. DEFINE t == Mask(IF local.first THEN local.next.le ELSE Ntohl(local.next))
<1>1. pc = "walk" /\ UNCHANGED imageVars /\ path' = path
  BY DEF Walk
<1>2. CASE Fail
  BY <1>1, <1>2, Fails
<1>3. CASE /\ local' = [local EXCEPT !.next = image[t].next, !.first = FALSE, !.tmp = t]
           /\ pc' = pc
  <2>. HIDE DEF t
  <2>1. local'.dir = local.dir /\ local'.name = local.name /\ local'.fname = local.fname
        /\ LocalType'
    BY <1>3 DEF RomInv, LocalType
  <2>2. CallInv' /\ ResultInv'
    BY <1>1, <1>3, <2>1 DEF RomInv, CallInv, ResultInv, imageVars
  <2>. QED
    BY <1>1, <2>1, <2>2, ImageKept DEF RomInv
<1>4. CASE /\ Reads(t) /\ image[t].name = local.fname
           /\ local' = [local EXCEPT !.first = FALSE, !.tmp = t]
           /\ pc' = "found"
  <2>. HIDE DEF t
  <2>1. local'.tmp = t /\ local'.fname = local.fname /\ LocalType'
    BY <1>4 DEF RomInv, LocalType, Places
  <2>2. CallInv'
    BY <1>1, <1>4, <2>1 DEF RomInv, CallInv, imageVars, Reads
  <2>3. ResultInv'
    BY <1>4 DEF ResultInv
  <2>. QED
    BY <1>1, <2>1, <2>2, <2>3, ImageKept DEF RomInv
<1>5. CASE local.dir # <<>> /\ Descend(t)
  <2>. DEFINE buf == Bmap(local.name, local.dir)
  <2>. HIDE DEF t
  <2>1. /\ local.dir \in Seq(Seq(Chars)) /\ local.dir # <<>>
        /\ \A i \in 1..Len(local.dir) : Len(local.dir[i]) < NameMax
        /\ local.dir[Len(local.dir)] = local.fname
    BY <1>1, <1>5 DEF RomInv, CallInv
  <2>2. buf \in Buffers
    BY <2>1, BmapType DEF RomInv, LocalType
  <2>3. /\ local'.dir = Tail(local.dir) /\ local'.name = buf /\ local'.fname = local.fname
        /\ pc' = IF Len(local.dir) = 1 THEN "dir" ELSE "walk"
        /\ LocalType'
    <3>. HIDE DEF buf
    <3>1. local' = [local EXCEPT !.name = buf, !.dir = Tail(local.dir),
                                 !.next = image[t].spec, !.first = FALSE, !.tmp = t]
          /\ pc' = IF Len(local.dir) = 1 THEN "dir" ELSE "walk"
      BY <1>5 DEF Descend, buf
    <3>. QED
      BY <2>2, <3>1 DEF RomInv, LocalType, Places
  <2>4. CASE Len(local.dir) = 1
    <3>1. local.dir = <<local.fname>> /\ local.fname \in Seq(Chars) /\ Len(local.fname) < NameMax
      BY <2>1, <2>4
    <3>2. String(buf) = local.fname
      BY <3>1, LastCopied DEF RomInv, LocalType
    <3>3. CallInv'
      BY <1>1, <2>3, <2>4, <3>2 DEF RomInv, CallInv, imageVars
    <3>4. ResultInv'
      BY <2>3 DEF ResultInv
    <3>. QED
      BY <1>1, <2>3, <3>3, <3>4, ImageKept DEF RomInv
  <2>5. CASE Len(local.dir) # 1
    <3>1. /\ Tail(local.dir) \in Seq(Seq(Chars))
          /\ \A i \in 1..Len(Tail(local.dir)) : Len(Tail(local.dir)[i]) < NameMax
          /\ Tail(local.dir) # <<>> => Tail(local.dir)[Len(Tail(local.dir))] = local.fname
      BY <2>1, Rest
    <3>2. CallInv'
      BY <1>1, <2>3, <2>5, <3>1 DEF RomInv, CallInv, imageVars
    <3>3. ResultInv'
      BY <2>3 DEF ResultInv
    <3>. QED
      BY <1>1, <2>3, <3>2, <3>3, ImageKept DEF RomInv
  <2>. QED
    BY <2>4, <2>5
<1>. QED
  BY <1>2, <1>3, <1>4, <1>5 DEF Walk

LEMMA WalkDirInv ==
  ASSUME RomInv, WalkDir
  PROVE  RomInv'
<1>. DEFINE t == Mask(Ntohl(local.next))
<1>1. pc = "dir" /\ UNCHANGED imageVars /\ path' = path
  BY DEF WalkDir
<1>2. CASE Fail
  BY <1>1, <1>2, Fails
<1>3. CASE /\ Reads(t) /\ Matches(t)
           /\ local' = [local EXCEPT !.tmp = t]
           /\ pc' = "found"
  <2>. HIDE DEF t
  <2>1. local'.tmp = t /\ local'.fname = local.fname /\ LocalType'
    BY <1>3 DEF RomInv, LocalType, Places
  <2>2. CallInv'
    BY <1>1, <1>3, <2>1 DEF RomInv, CallInv, imageVars, Reads, Matches
  <2>3. ResultInv'
    BY <1>3 DEF ResultInv
  <2>. QED
    BY <1>1, <2>1, <2>2, <2>3, ImageKept DEF RomInv
<1>4. CASE /\ local' = [local EXCEPT !.next = image[t].next, !.tmp = t]
           /\ pc' = pc
  <2>. HIDE DEF t
  <2>1. local'.name = local.name /\ local'.fname = local.fname /\ LocalType'
    BY <1>4 DEF RomInv, LocalType
  <2>2. CallInv' /\ ResultInv'
    BY <1>1, <1>4, <2>1 DEF RomInv, CallInv, ResultInv, imageVars
  <2>. QED
    BY <1>1, <2>1, <2>2, ImageKept DEF RomInv
<1>. QED
  BY <1>2, <1>3, <1>4 DEF WalkDir

LEMMA FoundInv ==
  ASSUME RomInv, Found
  PROVE  RomInv'
<1>1. pc = "found" /\ UNCHANGED imageVars /\ path' = path
  BY DEF Found
<1>2. CASE Fail
  BY <1>1, <1>2, Fails
<1>3. CASE Return([name |-> image[local.tmp].name, daddr |-> local.tmp,
                   dsize |-> Ntohl(image[local.tmp].size)], {"inode", "name"})
  <2>. DEFINE t == local.tmp
              n == [name |-> image[t].name, daddr |-> t, dsize |-> Ntohl(image[t].size)]
  <2>1. pc' = "idle" /\ local' = NoLocals /\ inode' = n /\ held' = {"inode", "name"}
    BY <1>3 DEF Return
  <2>2. /\ t \in DOMAIN image \ {0} /\ phase = "done" /\ path \in Paths
        /\ image[t].name = path[Len(path)]
    BY <1>1 DEF RomInv, CallInv, Reads
  <2>3. path[Len(path)] \in Seq(Chars)
    BY <2>2, RomfsAssumption
  <2>4. n.name = path[Len(path)] /\ n.daddr = t /\ n.dsize = nodes[image[t].node].size
    BY <2>2 DEF RomInv, ImageInv
  <2>5. GetDaddr(n) = image[t].data
    BY <2>2, <2>3, <2>4, DataPlace DEF RomInv, ImageInv
  <2>6. n # None
    BY <2>2, <2>4 DEF None
  <2>. HIDE DEF n
  <2>7. Truth'
    BY <1>1, <2>1, <2>2, <2>4, <2>5 DEF Truth, imageVars, GetDaddr, Mask
  <2>8. LocalType' /\ CallInv' /\ ResultInv'
    BY <2>1, <2>6, <2>7 DEF LocalType, NoLocals, Places, Buffers, CallInv, ResultInv
  <2>. QED
    BY <1>1, <2>8, ImageKept DEF RomInv
<1>. QED
  BY <1>2, <1>3 DEF Found

-----------------------------------------------------------------------------
(* The start, and what else a call knows. *)

LEMMA RomfsInitInv ==
  ASSUME RomfsInit
  PROVE  RomInv
<1>1. ImageInv
  BY DEF RomfsInit, Init, ImageInv
<1>2. LocalType /\ CallInv /\ ResultInv
  BY DEF RomfsInit, LocalType, NoLocals, Places, Buffers, CallInv, ResultInv
<1>. QED
  BY <1>1, <1>2 DEF RomInv

\* Of a call: what it holds, its path, and that only the first loop starts at the
\* first header.
HeldInv ==
  /\ held \subseteq {"p", "inode", "name"}
  /\ path = <<>> \/ path \in Paths
  /\ pc \in {"dir", "found"} => ~local.first

LEMMA HeldSteps ==
  ASSUME RomInv, HeldInv, [Next]_vars
  PROVE  HeldInv'
<1>1. CASE UNCHANGED romVars
  BY <1>1 DEF HeldInv, romVars
<1>2. ASSUME NEW q \in Paths, Namei(q)
      PROVE  HeldInv'
  BY <1>2 DEF HeldInv, Namei, Fail, Return
<1>3. ASSUME Fail, path' = path
      PROVE  HeldInv'
  BY <1>3 DEF HeldInv, Fail, Return
<1>4. CASE Walk
  <2>. DEFINE t == Mask(IF local.first THEN local.next.le ELSE Ntohl(local.next))
  <2>1. pc = "walk" /\ path' = path
    BY <1>4 DEF Walk
  <2>2. CASE Fail
    BY <1>3, <2>1, <2>2
  <2>3. CASE pc' = pc /\ held' = held
    BY <2>1, <2>3 DEF HeldInv
  <2>4. CASE local' = [local EXCEPT !.first = FALSE, !.tmp = t] /\ held' = held
    <3>. HIDE DEF t
    <3>1. local'.first = FALSE
      BY <2>4 DEF RomInv, LocalType
    <3>. QED
      BY <2>1, <2>4, <3>1 DEF HeldInv
  <2>5. CASE Descend(t) /\ held' = held
    <3>. HIDE DEF t
    <3>. DEFINE b == Bmap(local.name, local.dir)
                d == Tail(local.dir)
    <3>1. local' = [local EXCEPT !.name = b, !.dir = d, !.next = image[t].spec,
                                 !.first = FALSE, !.tmp = t]
      BY <2>5 DEF Descend
    <3>. HIDE DEF b, d
    <3>2. local'.first = FALSE
      BY <3>1 DEF RomInv, LocalType
    <3>. QED
      BY <2>1, <2>5, <3>2 DEF HeldInv
  <2>. QED
    BY <1>4, <2>2, <2>3, <2>4, <2>5 DEF Walk
<1>5. CASE WalkDir
  <2>. DEFINE t == Mask(Ntohl(local.next))
  <2>1. pc = "dir" /\ path' = path
    BY <1>5 DEF WalkDir
  <2>2. CASE Fail
    BY <1>3, <2>1, <2>2
  <2>3. CASE /\ \/ local' = [local EXCEPT !.tmp = t]
                \/ local' = [local EXCEPT !.next = image[t].next, !.tmp = t]
             /\ held' = held
    <3>. HIDE DEF t
    <3>1. local'.first = local.first
      BY <2>3 DEF RomInv, LocalType
    <3>. QED
      BY <2>1, <2>3, <3>1 DEF HeldInv
  <2>. QED
    BY <1>5, <2>2, <2>3 DEF WalkDir
<1>6. CASE Found
  BY <1>6 DEF HeldInv, Found, Fail, Return
<1>. QED
  BY <1>1, <1>2, <1>4, <1>5, <1>6 DEF Next, RomfsNext, vars

-----------------------------------------------------------------------------
(* The inductive invariant: what the passes of genromfs have done, and what a *)
(* call of namei knows. *)

IInv == PassInv /\ DumpInv /\ RomInv /\ HeldInv

LEMMA PassSteps ==
  ASSUME PassInv, DumpInv, ImageNext
  PROVE  PassInv' /\ DumpInv'
<1>1. ASSUME phase' = phase, phase = "scan", PassInv'
      PROVE  PassInv' /\ DumpInv'
  BY <1>1 DEF DumpInv
<1>2. CASE ScanRoot
  <2>1. phase' = phase /\ phase = "scan"
    BY <1>2 DEF ScanRoot
  <2>. QED
    BY <1>1, <1>2, <2>1, ScanRootPass
<1>3. CASE ScanEntry
  <2>1. phase' = phase /\ phase = "scan"
    BY <1>3 DEF ScanEntry
  <2>. QED
    BY <1>1, <1>3, <2>1, ScanEntryPass
<1>4. CASE ScanLeave
  <2>1. phase' = phase /\ phase = "scan"
    BY <1>4 DEF ScanLeave
  <2>. QED
    BY <1>1, <1>4, <2>1, ScanLeavePass
<1>. QED
  BY <1>2, <1>3, <1>4, DumpVolumePass, DumpNodePass, DumpEndPass DEF ImageNext

LEMMA PassKept ==
  ASSUME PassInv, DumpInv, UNCHANGED imageVars
  PROVE  PassInv' /\ DumpInv'
<1>1. /\ host' = host /\ phase' = phase /\ nodes' = nodes /\ offset' = offset
      /\ stack' = stack /\ todo' = todo /\ at' = at /\ image' = image
  BY DEF imageVars
<1>2. PassInv'
  BY <1>1 DEF PassInv, ScanInv
<1>3. CASE phase = "scan"
  BY <1>1, <1>2, <1>3 DEF DumpInv
<1>4. CASE phase # "scan"
  <2>1. PICK k \in 1..Len(nodes) : Written(k)
    BY <1>4 DEF DumpInv
  <2>2. Written(k)'
    BY <1>1, <2>1 DEF Written, Pending
  <2>. QED
    BY <1>1, <1>2, <2>1, <2>2 DEF DumpInv
<1>. QED
  BY <1>3, <1>4

LEMMA AlwaysIInv == Spec => []IInv
<1>1. RomfsInit => IInv
  <2>. SUFFICES ASSUME RomfsInit
                PROVE  IInv
    OBVIOUS
  <2>1. Init
    BY DEF RomfsInit
  <2>2. DumpInv
    BY <2>1 DEF Init, DumpInv
  <2>3. HeldInv
    BY DEF RomfsInit, HeldInv
  <2>. QED
    BY <2>1, <2>2, <2>3, FirstNode, RomfsInitInv DEF IInv
<1>2. IInv /\ [Next]_vars => IInv'
  <2>. SUFFICES ASSUME IInv, [Next]_vars
                PROVE  IInv'
    OBVIOUS
  <2>1. RomInv'
    <3>1. CASE UNCHANGED vars
      BY <3>1 DEF IInv, RomInv, ImageInv, LocalType, CallInv, ResultInv, Truth, vars, imageVars,
                  romVars, Reads
    <3>. QED
      BY <3>1, ImageSteps, NameiInv, WalkInv, WalkDirInv, FoundInv DEF IInv, Next, RomfsNext
  <2>2. HeldInv'
    BY HeldSteps DEF IInv
  <2>3. PassInv' /\ DumpInv'
    <3>1. CASE ImageNext
      BY <3>1, PassSteps DEF IInv
    <3>2. CASE UNCHANGED imageVars
      BY <3>2, PassKept DEF IInv
    <3>. QED
      BY <3>1, <3>2 DEF Next, RomfsNext, Namei, Walk, WalkDir, Found, vars
  <2>. QED
    BY <2>1, <2>2, <2>3 DEF IInv
<1>. QED
  BY <1>1, <1>2, PTL DEF Spec

-----------------------------------------------------------------------------
(* Where a path leads. *)

\* The list of a directory, those of a name in it, and the first of these: 0 for none.
Kids(ns, i) == {j \in 2..Len(ns) : ns[j].dir = i}
Named(ns, i, c) == {j \in Kids(ns, i) : ns[j].name = c}
Least(S) == CHOOSE j \in S : \A m \in S : j <= m
Below(ns, i, c) == IF i = 0 \/ Named(ns, i, c) = {} THEN 0 ELSE Least(Named(ns, i, c))

\* Resolve, one component after the other.
Steps(ns, q) ==
  LET below(i, c) == {j \in 2..Len(ns) : ns[j].dir = i /\ ns[j].name = c}
      f[k \in 0..Len(q)] ==
        IF k = 0 THEN 1
        ELSE IF f[k - 1] = 0 \/ below(f[k - 1], q[k]) = {} THEN 0
        ELSE CHOOSE j \in below(f[k - 1], q[k]) : \A m \in below(f[k - 1], q[k]) : j <= m
  IN  f

LEMMA ResolveSteps ==
  ASSUME NEW q
  PROVE  Resolve(q) = Steps(nodes, q)[Len(q)]
BY Zenon DEF Resolve, Steps

LEMMA LeastFacts ==
  ASSUME NEW S \in SUBSET Nat, S # {}
  PROVE  Least(S) \in S /\ \A m \in S : Least(S) <= m
<1>1. \E j \in S : \A m \in S : j <= m
  BY LeastElement
<1>. QED
  BY <1>1 DEF Least

LEMMA BelowFacts ==
  ASSUME NEW ns, Len(ns) \in Nat, NEW i, NEW c
  PROVE  /\ Below(ns, i, c) \in Nat
         /\ Below(ns, i, c) # 0 =>
              /\ i # 0 /\ Below(ns, i, c) \in Named(ns, i, c)
              /\ \A m \in Named(ns, i, c) : Below(ns, i, c) <= m
         /\ Below(ns, i, c) = 0 => i = 0 \/ Named(ns, i, c) = {}
<1>. DEFINE S == Named(ns, i, c)
<1>1. S \in SUBSET Nat /\ 0 \notin S
  BY DEF Named, Kids
<1>2. Below(ns, i, c) = IF i = 0 \/ S = {} THEN 0 ELSE Least(S)
  BY DEF Below
<1>. HIDE DEF S
<1>3. S # {} => Least(S) \in S /\ \A m \in S : Least(S) <= m
  BY <1>1, LeastFacts
<1>4. S = Named(ns, i, c)
  BY DEF S
<1>. QED
  BY <1>1, <1>2, <1>3, <1>4

LEMMA StepsFacts ==
  ASSUME NEW ns, Len(ns) \in Nat, NEW q, Len(q) \in Nat
  PROVE  /\ Steps(ns, q)[0] = 1
         /\ \A k \in 0..Len(q) : Steps(ns, q)[k] \in Nat
         /\ \A k \in 1..Len(q) : Steps(ns, q)[k] = Below(ns, Steps(ns, q)[k - 1], q[k])
<1>. DEFINE n == Len(q)
            step == [x \in (1..n) \X Nat |-> Below(ns, x[2], q[x[1]])]
            below(i, c) == {j \in 2..Len(ns) : ns[j].dir = i /\ ns[j].name = c}
            value(g, k) ==
              IF k = 0 THEN 1
              ELSE IF g[k - 1] = 0 \/ below(g[k - 1], q[k]) = {} THEN 0
              ELSE CHOOSE j \in below(g[k - 1], q[k]) : \A m \in below(g[k - 1], q[k]) : j <= m
            Good(g) == g = [k \in 0..n |-> value(g, k)]
<1>1. \A i, c : Named(ns, i, c) = {j \in 2..Len(ns) : ns[j].dir = i /\ ns[j].name = c}
  BY DEF Named, Kids
<1>2. \A g : \A k \in 1..n : value(g, k) = Below(ns, g[k - 1], q[k])
  <2>. SUFFICES ASSUME NEW g, NEW k \in 1..n PROVE value(g, k) = Below(ns, g[k - 1], q[k])
    OBVIOUS
  <2>. DEFINE S == {j \in 2..Len(ns) : ns[j].dir = g[k - 1] /\ ns[j].name = q[k]}
  <2>1. S = Named(ns, g[k - 1], q[k])
    BY <1>1
  <2>2. value(g, k) = IF g[k - 1] = 0 \/ S = {} THEN 0 ELSE CHOOSE j \in S : \A m \in S : j <= m
    OBVIOUS
  <2>. HIDE DEF S, value
  <2>. QED
    BY <2>1, <2>2 DEF Below, Least
<1>3. Stays(step, n, Nat)
  <2>. SUFFICES ASSUME NEW k \in 1..n, NEW x \in Nat PROVE step[<<k, x>>] \in Nat
    BY DEF Stays
  <2>1. Below(ns, x, q[k]) \in Nat
    BY BelowFacts
  <2>. QED
    BY <2>1
<1>4. PICK g : Follows(g, step, n, 1, Nat)
  <2>1. 1 \in Nat /\ n \in Nat
    OBVIOUS
  <2>. HIDE DEF step, n
  <2>. QED
    BY <1>3, <2>1, StepByStep
<1>5. \A k \in 1..n : k - 1 \in 0..n /\ g[k - 1] \in Nat /\ g[k] = Below(ns, g[k - 1], q[k])
  <2>. TAKE k \in 1..n
  <2>1. k - 1 \in 0..n
    OBVIOUS
  <2>2. g[k - 1] \in Nat /\ g[k] = step[<<k, g[k - 1]>>]
    <3>. HIDE DEF step, n
    <3>. QED
      BY <1>4, <2>1 DEF Follows
  <2>. QED
    BY <2>1, <2>2
<1>6. Good(g)
  <2>1. g = [k \in 0..n |-> g[k]] /\ g[0] = 1
    BY <1>4 DEF Follows
  <2>2. \A k \in 0..n : g[k] = value(g, k)
    <3>. TAKE k \in 0..n
    <3>1. CASE k = 0
      BY <2>1, <3>1
    <3>2. CASE k # 0
      <4>1. k \in 1..n
        BY <3>2
      <4>. HIDE DEF value, n
      <4>. QED
        BY <1>2, <1>5, <4>1
    <3>. QED
      BY <3>1, <3>2
  <2>. HIDE DEF value, n
  <2>. QED
    BY <2>1, <2>2
<1>7. Steps(ns, q) = CHOOSE h : Good(h)
  BY Zenon DEF Steps
<1>. DEFINE f == Steps(ns, q)
<1>8. Good(f)
  <2>. HIDE DEF Good
  <2>. QED
    BY <1>6, <1>7
<1>. HIDE DEF f
<1>9. \A k \in 0..n : f[k] = value(f, k)
  <2>. HIDE DEF value
  <2>. QED
    BY <1>8
<1>10. f[0] = 1
  <2>1. 0 \in 0..n
    OBVIOUS
  <2>. QED
    BY <1>9, <2>1
<1>11. \A k \in 1..n : f[k] = Below(ns, f[k - 1], q[k])
  <2>. HIDE DEF value
  <2>. QED
    BY <1>2, <1>9
<1>12. \A k \in 0..n : f[k] \in Nat
  <2>. TAKE k \in 0..n
  <2>1. k = 0 \/ k \in 1..n
    OBVIOUS
  <2>2. \A i, c : Below(ns, i, c) \in Nat
    BY BelowFacts
  <2>. QED
    BY <1>10, <1>11, <2>1, <2>2
<1>. QED
  BY <1>10, <1>11, <1>12 DEF f

\* The way of the beginning of a path is the beginning of its way.
LEMMA StepsPrefix ==
  ASSUME NEW ns, Len(ns) \in Nat, NEW C, NEW q \in Seq(C), NEW k \in 1..Len(q)
  PROVE  Steps(ns, SubSeq(q, 1, k))[Len(SubSeq(q, 1, k))] = Steps(ns, q)[k]
<1>. DEFINE r == SubSeq(q, 1, k)
            f == Steps(ns, q)
            g == Steps(ns, r)
            T == {j \in 0..k : g[j] = f[j]}
<1>1. Len(q) \in Nat /\ k \in Nat /\ k <= Len(q) /\ Len(r) = k /\ \A j \in 1..k : r[j] = q[j]
  OBVIOUS
<1>. HIDE DEF r
<1>2. f[0] = 1 /\ \A j \in 1..Len(q) : f[j] = Below(ns, f[j - 1], q[j])
  BY <1>1, StepsFacts
<1>3. g[0] = 1 /\ \A j \in 1..Len(r) : g[j] = Below(ns, g[j - 1], r[j])
  BY <1>1, StepsFacts
<1>. HIDE DEF f, g
<1>4. ASSUME NEW j \in 0..k, \A i \in 0..(j - 1) : i \in T
      PROVE  j \in T
  <2>1. CASE j = 0
    BY <1>2, <1>3, <2>1
  <2>2. CASE j # 0
    <3>1. j - 1 \in T /\ j \in 1..k /\ j \in 1..Len(q)
      BY <1>1, <1>4, <2>2
    <3>. QED
      BY <1>1, <1>2, <1>3, <3>1
  <2>. QED
    BY <2>1, <2>2
<1>5. k \in T
  <2>1. k \in 0..k
    BY <1>1
  <2>. HIDE DEF T
  <2>. QED
    BY <1>1, <1>4, <2>1, UpTo
<1>. QED
  BY <1>1, <1>5 DEF f, g, r

\* Nothing is below nothing.
LEMMA NowhereOn ==
  ASSUME NEW ns, Len(ns) \in Nat, NEW q, Len(q) \in Nat, NEW m \in 0..Len(q), Steps(ns, q)[m] = 0
  PROVE  Steps(ns, q)[Len(q)] = 0
<1>. DEFINE f == Steps(ns, q)
            n == Len(q)
            T == {k \in 0..n : k >= m => f[k] = 0}
<1>1. \A j \in 1..n : f[j] = Below(ns, f[j - 1], q[j])
  BY StepsFacts
<1>2. f[m] = 0 /\ m \in 0..n /\ n \in Nat
  OBVIOUS
<1>. HIDE DEF f, n
<1>3. ASSUME NEW k \in 0..n, \A i \in 0..(k - 1) : i \in T
      PROVE  k \in T
  <2>1. CASE k <= m
    BY <1>2, <2>1
  <2>2. CASE k > m
    <3>1. k - 1 \in T /\ k - 1 >= m /\ k \in 1..n
      BY <1>2, <1>3, <2>2
    <3>2. f[k] = Below(ns, 0, q[k])
      BY <1>1, <3>1
    <3>. QED
      BY <3>2 DEF Below
  <2>. QED
    BY <1>2, <2>1, <2>2
<1>4. n \in T
  <2>1. n \in 0..n
    BY <1>2
  <2>. HIDE DEF T
  <2>. QED
    BY <1>2, <1>3, <2>1, UpTo
<1>. QED
  BY <1>2, <1>4 DEF f, n

\* Plain, on the way.
Entered(ns, j) == ns[j].link = 0 /\ (ns[j].kind = "dir" => Kids(ns, j) # {})
Straight(ns, q) ==
  \A k \in 1..(Len(q) - 1) :
    q[k] # q[Len(q)] /\ (Steps(ns, q)[k] = 0 \/ Entered(ns, Steps(ns, q)[k]))

LEMMA ChildrenKids ==
  ASSUME NodesOK(nodes, offset), NEW i \in Nat \ {0}
  PROVE  /\ InOrder(Children(i), Kids(nodes, i))
         /\ Children(i) = <<>> <=> (Kids(nodes, i) = {})
         /\ Children(i) # <<>> => Children(i)[1] = Least(Kids(nodes, i))
<1>1. Len(nodes) \in Nat /\ Len(nodes) >= 1 /\ nodes[1].dir = 0
  BY DEF NodesOK
<1>2. {j \in 1..Len(nodes) : nodes[j].dir = i} = Kids(nodes, i)
  <2>1. \A j \in 1..Len(nodes) : nodes[j].dir = i => j \in 2..Len(nodes)
    BY <1>1
  <2>. QED
    BY <1>1, <2>1 DEF Kids
<1>3. InOrder(Children(i), Kids(nodes, i))
  BY <1>1, <1>2, ChildrenFacts
<1>. DEFINE c == Children(i)
            S == Kids(nodes, i)
<1>4. S \in SUBSET Nat
  BY DEF Kids
<1>. HIDE DEF c, S
<1>5. InOrder(c, S)
  BY <1>3 DEF c, S
<1>6. c = <<>> => S = {}
  BY <1>5 DEF InOrder
<1>7. ASSUME c # <<>>
      PROVE  S # {} /\ c[1] = Least(S)
  <2>1. c[1] \in S /\ \A j \in S : c[1] <= j
    BY <1>5, <1>7, InOrderTail
  <2>2. Least(S) \in S /\ \A j \in S : Least(S) <= j
    BY <1>4, <2>1, LeastFacts
  <2>3. c[1] <= Least(S) /\ Least(S) <= c[1]
    BY <2>1, <2>2, Zenon
  <2>4. c[1] \in Nat /\ Least(S) \in Nat
    BY <1>4, <2>1, <2>2
  <2>. QED
    BY <2>1, <2>3, <2>4
<1>. QED
  BY <1>5, <1>6, <1>7 DEF c, S

LEMMA PlainStraight ==
  ASSUME NodesOK(nodes, offset), NEW q \in Seq(Seq(Chars)), q # <<>>, Plain(q)
  PROVE  Straight(nodes, q)
<1>1. Len(nodes) \in Nat /\ Len(q) \in Nat
  BY DEF NodesOK
<1>. SUFFICES ASSUME NEW k \in 1..(Len(q) - 1)
              PROVE  /\ q[k] # q[Len(q)]
                     /\ Steps(nodes, q)[k] = 0 \/ Entered(nodes, Steps(nodes, q)[k])
  BY DEF Straight
<1>. DEFINE j == Resolve(SubSeq(q, 1, k))
<1>2. q[k] # q[Len(q)] /\ (j = 0 \/ (nodes[j].link = 0 /\ (nodes[j].kind = "dir" => Children(j) # <<>>)))
  BY DEF Plain
<1>3. k \in 1..Len(q) /\ k \in 0..Len(q)
  BY <1>1
<1>4. j = Steps(nodes, q)[k] /\ j \in Nat
  <2>1. j = Steps(nodes, SubSeq(q, 1, k))[Len(SubSeq(q, 1, k))]
    BY ResolveSteps
  <2>2. j = Steps(nodes, q)[k]
    BY <1>1, <1>3, <2>1, StepsPrefix
  <2>. QED
    BY <1>1, <1>3, <2>2, StepsFacts
<1>. HIDE DEF j
<1>5. CASE j = 0
  BY <1>2, <1>4, <1>5
<1>6. CASE j # 0
  <2>1. Children(j) # <<>> => Kids(nodes, j) # {}
    BY <1>4, <1>6, ChildrenKids
  <2>. QED
    BY <1>2, <1>4, <1>6, <2>1 DEF Entered
<1>. QED
  BY <1>5, <1>6

-----------------------------------------------------------------------------
(* Where the headers lead. *)

LEMMA SmallMultiple ==
  ASSUME NEW x \in 0..(Unit - 1), Multiple(x)
  PROVE  x = 0
<1>1. PICK c \in Int : x = c * Unit
  BY DEF Multiple
<1>2. Unit \in Nat /\ Unit > 0
  BY UnitFacts
<1>3. ASSUME c >= 1 PROVE FALSE
  <2>1. PICK g \in Nat : c = g + 1
    <3>1. c - 1 \in Nat /\ c = (c - 1) + 1
      BY <1>3
    <3>. QED
      BY <3>1
  <2>2. x = g * Unit + Unit /\ g * Unit >= 0
    BY <1>1, <1>2, <2>1
  <2>. QED
    BY <1>2, <2>2
<1>4. ASSUME c <= -1 PROVE FALSE
  <2>1. PICK g \in Nat : c = -g - 1
    <3>1. -c - 1 \in Nat /\ c = -(-c - 1) - 1
      BY <1>4
    <3>. QED
      BY <3>1
  <2>2. x = -(g * Unit) - Unit /\ g * Unit >= 0
    BY <1>1, <1>2, <2>1
  <2>. QED
    BY <1>2, <2>2
<1>5. c = 0
  BY <1>3, <1>4
<1>. QED
  BY <1>1, <1>2, <1>5

LEMMA RestOf ==
  ASSUME NEW x \in Nat, Multiple(x), NEW t \in 0..(Unit - 1)
  PROVE  (x + t) % Unit = t
<1>. DEFINE e == (x + t) % Unit
            d == (x + t) \div Unit
<1>1. Unit \in Nat /\ Unit > 1 /\ x + t \in Nat
  BY RomImageAssumption
<1>2. d \in Nat /\ e \in 0..(Unit - 1) /\ x + t = d * Unit + e
  BY <1>1, DivMod
<1>. HIDE DEF d, e
<1>4. Multiple((x + t) - e)
  <2>1. (x + t) - e = d * Unit
    BY <1>1, <1>2
  <2>. QED
    BY <1>2, <2>1 DEF Multiple
<1>5. Multiple(t - e)
  <2>1. t - e = ((x + t) - e) - x /\ (x + t) - e \in Int /\ x \in Int
    BY <1>2
  <2>. DEFINE y == (x + t) - e
  <2>2. y \in Int /\ x \in Int /\ Multiple(y) /\ t - e = y - x
    BY <1>4, <2>1
  <2>. HIDE DEF y
  <2>. QED
    BY <2>2, MultipleSum
<1>6. Multiple(e - t)
  <2>1. Multiple(0)
    <3>1. 0 = 0 * Unit /\ 0 \in Int
      BY UnitFacts
    <3>. QED
      BY <3>1, Zenon DEF Multiple
  <2>. DEFINE y == t - e
  <2>2. y \in Int /\ 0 \in Int /\ Multiple(y) /\ e - t = 0 - y
    BY <1>2, <1>5
  <2>. HIDE DEF y
  <2>. QED
    BY <2>1, <2>2, MultipleSum
<1>7. e = t
  <2>1. CASE e >= t
    <3>1. e - t \in 0..(Unit - 1)
      BY <1>1, <1>2, <2>1
    <3>2. e - t = 0
      BY <1>6, <3>1, SmallMultiple
    <3>. QED
      BY <1>2, <3>2
  <2>2. CASE e < t
    <3>1. t - e \in 0..(Unit - 1)
      BY <1>1, <1>2, <2>2
    <3>2. t - e = 0
      BY <1>5, <3>1, SmallMultiple
    <3>. QED
      BY <1>2, <3>2
  <2>. QED
    BY <1>2, <2>1, <2>2
<1>. QED
  BY <1>7 DEF e

\* The type of a file does not disturb the offset it is kept with.
LEMMA MaskTyped ==
  ASSUME NEW x \in Nat, Multiple(x), NEW t \in {0, 1}
  PROVE  Mask(x + t) = x
<1>1. t \in 0..(Unit - 1)
  BY RomImageAssumption
<1>2. (x + t) % Unit = t
  BY <1>1, RestOf
<1>. QED
  BY <1>2 DEF Mask

LEMMA MaskMultiple ==
  ASSUME NEW x \in Nat, Multiple(x)
  PROVE  Mask(x) = x
<1>1. Mask(x + 0) = x /\ x + 0 = x
  BY MaskTyped
<1>. QED
  BY <1>1

\* The next of a list and the first below a node, as Sibling and FileSpec have them.
Later(ns, i) == {j \in (i + 1)..Len(ns) : ns[j].dir = ns[i].dir}
NextOff(ns, i) == IF Later(ns, i) = {} THEN 0 ELSE ns[Least(Later(ns, i))].off
BelowOff(ns, i) ==
  IF ns[i].link # 0 THEN ns[ns[i].link].off
  ELSE IF ns[i].kind # "dir" THEN 0
  ELSE IF Kids(ns, i) = {} THEN ns[i].off ELSE ns[Least(Kids(ns, i))].off

LinksInv ==
  \A p \in DOMAIN image \ {0} :
    LET i == image[p].node
    IN  /\ Mask(Ntohl(image[p].next)) = NextOff(nodes, i)
        /\ Ntohl(image[p].spec) = BelowOff(nodes, i)

LEMMA LaterFacts ==
  ASSUME NEW ns, NEW o, NodesOK(ns, o), NEW i \in 1..Len(ns)
  PROVE  /\ Later(ns, i) \in SUBSET (1..Len(ns))
         /\ Later(ns, i) # {} => /\ Least(Later(ns, i)) \in Later(ns, i)
                                 /\ \A m \in Later(ns, i) : Least(Later(ns, i)) <= m
         /\ NextOff(ns, i) \in Nat /\ Multiple(NextOff(ns, i))
<1>. DEFINE S == Later(ns, i)
<1>1. S \in SUBSET (1..Len(ns)) /\ S \in SUBSET Nat
  BY DEF Later
<1>. HIDE DEF S
<1>2. S # {} => Least(S) \in S /\ \A m \in S : Least(S) <= m
  BY <1>1, LeastFacts
<1>3. NextOff(ns, i) = IF S = {} THEN 0 ELSE ns[Least(S)].off
  BY DEF NextOff, S
<1>4. NextOff(ns, i) \in Nat /\ Multiple(NextOff(ns, i))
  <2>1. CASE S = {}
    <3>1. 0 = 0 * Unit /\ 0 \in Int
      BY UnitFacts
    <3>2. Multiple(0)
      BY <3>1, Zenon DEF Multiple
    <3>. QED
      BY <1>3, <2>1, <3>2
  <2>2. CASE S # {}
    <3>1. Least(S) \in 1..Len(ns)
      BY <1>1, <1>2, <2>2
    <3>. QED
      BY <1>3, <2>2, <3>1, NodeFacts
  <2>. QED
    BY <2>1, <2>2
<1>. QED
  BY <1>1, <1>2, <1>4 DEF S

LEMMA HeaderLinks ==
  ASSUME NodesOK(nodes, offset), NEW i \in 1..Len(nodes)
  PROVE  Sibling(i) = NextOff(nodes, i) /\ FileSpec(i) = BelowOff(nodes, i)
<1>1. Sibling(i) = NextOff(nodes, i)
  BY DEF Sibling, NextOff, Later, Least
<1>2. i \in Nat \ {0}
  OBVIOUS
<1>3. /\ Children(i) = <<>> <=> (Kids(nodes, i) = {})
      /\ Children(i) # <<>> => Children(i)[1] = Least(Kids(nodes, i))
  BY <1>2, ChildrenKids
<1>4. FileSpec(i) = BelowOff(nodes, i)
  BY <1>3 DEF FileSpec, BelowOff
<1>. QED
  BY <1>1, <1>4

LEMMA LinksSteps ==
  ASSUME PassInv, DumpInv, LinksInv, ImageNext
  PROVE  LinksInv'
<1>1. CASE ScanRoot \/ ScanEntry \/ ScanLeave
  <2>1. image' = image /\ phase = "scan"
    BY <1>1 DEF ScanRoot, ScanEntry, ScanLeave
  <2>. QED
    BY <2>1 DEF PassInv, ScanInv, LinksInv
<1>2. CASE DumpVolume
  BY <1>2 DEF DumpVolume, LinksInv
<1>3. CASE DumpNode
  <2>. DEFINE i == Head(todo)
              p == at + nodes[i].pad
              type == IF nodes[i].link # 0 THEN 0 ELSE 1
  <2>1. phase = "dump" /\ todo # <<>> /\ nodes' = nodes /\ Write(i)
    BY <1>3 DEF DumpNode
  <2>2. /\ DOMAIN image' = DOMAIN image \cup {p}
        /\ \A q \in DOMAIN image : q # p => image'[q] = image[q]
    BY <2>1, Zenon DEF Write
  <2>3. /\ image'[p].node = i
        /\ Ntohl(image'[p].next) = Sibling(i) + type
        /\ Ntohl(image'[p].spec) = FileSpec(i)
    BY <2>1 DEF Write, Ntohl, Htonl
  <2>. HIDE DEF p
  <2>4. NodesOK(nodes, offset)
    BY DEF PassInv
  <2>5. i \in 1..Len(nodes)
    <3>1. PICK k \in 1..Len(nodes) : Written(k)
      BY <2>1 DEF DumpInv
    <3>2. InOrder(todo, Pending(k))
      BY <3>1 DEF Written
    <3>3. todo[1] = k + 1 /\ k + 1 \in 1..Len(nodes)
      BY <2>1, <2>4, <3>2, NextInOrder
    <3>4. Head(todo) = todo[1]
      BY <2>1, <3>2 DEF InOrder
    <3>. QED
      BY <3>3, <3>4
  <2>. HIDE DEF i
  <2>6. Mask(Ntohl(image'[p].next)) = NextOff(nodes, i)
    <3>1. NextOff(nodes, i) \in Nat /\ Multiple(NextOff(nodes, i)) /\ Sibling(i) = NextOff(nodes, i)
      BY <2>4, <2>5, LaterFacts, HeaderLinks
    <3>2. type \in {0, 1}
      OBVIOUS
    <3>. HIDE DEF type
    <3>. QED
      BY <2>3, <3>1, <3>2, MaskTyped
  <2>7. Ntohl(image'[p].spec) = BelowOff(nodes, i)
    BY <2>3, <2>4, <2>5, HeaderLinks
  <2>8. \A q \in DOMAIN image' \ {0} :
          /\ Mask(Ntohl(image'[q].next)) = NextOff(nodes, image'[q].node)
          /\ Ntohl(image'[q].spec) = BelowOff(nodes, image'[q].node)
    <3>. TAKE q \in DOMAIN image' \ {0}
    <3>1. CASE q = p
      BY <2>3, <2>6, <2>7, <3>1, Zenon
    <3>2. CASE q # p
      BY <2>2, <3>2 DEF LinksInv
    <3>. QED
      BY <3>1, <3>2
  <2>. QED
    BY <2>1, <2>8 DEF LinksInv, Mask, Ntohl
<1>4. CASE DumpEnd
  BY <1>4 DEF DumpEnd, LinksInv, Mask, Ntohl
<1>. QED
  BY <1>1, <1>2, <1>3, <1>4 DEF ImageNext

\* Nodes are made in directories: the volume, or a node that is no link; so are those
\* the scan is in.
IsDir(ns, i) == i = 1 \/ (ns[i].kind = "dir" /\ ns[i].link = 0)

DirsInv ==
  /\ \A j \in 2..Len(nodes) : IsDir(nodes, nodes[j].dir)
  /\ phase = "scan" => \A s \in 1..Len(stack) : IsDir(nodes, stack[s].dir)

\* The first node after the volume is where the kernel looks for the first header.
FirstInv ==
  /\ Len(nodes) > 1 => nodes[2].off = HeaderLen(Volume) /\ nodes[2].dir = 1
  /\ phase # "scan" \/ stack # <<>> => Len(nodes) > 1

LEMMA FirstHeader ==
  ASSUME host \in Hosts, NEW n, n = NodeAt(HeaderLen(Volume), Dot, Root, 1, 0)
  PROVE  n.off = HeaderLen(Volume) /\ n.dir = 1
<1>. DEFINE o == HeaderLen(Volume)
            wanted == {Unit} \cup {p.align : p \in {q \in Patterns : Dot \in q.names}}
<1>1. o \in Nat /\ Multiple(o)
  BY HeaderFacts, RomImageAssumption
<1>2. host[Root].kind = "dir"
  BY TreeAssumption
<1>. HIDE DEF o
<1>3. wanted = {Unit}
  BY RomImageAssumption
<1>4. FindAlign(Dot, "dir") = Unit
  <2>1. FindAlign(Dot, "dir") = CHOOSE a \in wanted : \A b \in wanted : b <= a
    BY DEF FindAlign
  <2>2. Unit <= Unit
    BY UnitFacts
  <2>. HIDE DEF wanted
  <2>. QED
    BY <1>3, <2>1, <2>2
<1>5. (o % Unit) = 0
  BY <1>1, MultipleFacts
<1>6. Pad(Dot, "dir", o) = 0
  BY <1>4, <1>5 DEF Pad
<1>7. o + 0 = o
  BY <1>1
<1>8. n = Node(o, Pad(Dot, "dir", o + 0), Dot, Root, 1, 0)
  BY <1>2, Zenon DEF NodeAt, o
<1>9. n.off = o + Pad(Dot, "dir", o + 0) /\ n.dir = 1
  BY <1>8 DEF Node
<1>. QED
  BY <1>6, <1>7, <1>9 DEF o

\* One turn of the scan: the entry is left out, or it becomes node n.
LEMMA NodeAtFields ==
  ASSUME NEW o, NEW name, NEW ino, NEW dir, NEW link, NEW n, n = NodeAt(o, name, ino, dir, link)
  PROVE  n.name = name /\ n.ino = ino /\ n.kind = host[ino].kind /\ n.dir = dir /\ n.link = link
BY DEF NodeAt, Node

LEMMA PoppedFacts ==
  ASSUME NEW ns, NEW st, StackOK(host, st, ns), st # <<>>, st[1].left # <<>>
  PROVE  /\ Len(st) \in Nat /\ Len(st) >= 1 /\ Len(Popped(st)) = Len(st)
         /\ Popped(st)[1].dir = st[1].dir /\ Popped(st)[1].left = Tail(st[1].left)
         /\ \A i \in 2..Len(st) : Popped(st)[i] = st[i]
         /\ st[1].dir \in 1..Len(ns)
         /\ st[1].left \in Seq([name : Seq(Chars) \ {<<>>}, ino : DOMAIN host])
<1>. DEFINE E == Seq([name : Seq(Chars) \ {<<>>}, ino : DOMAIN host])
           R == [dir : 1..Len(ns), left : E]
           t == [st[1] EXCEPT !.left = Tail(@)]
<1>1. st \in Seq(R)
  BY DEF StackOK, EntriesOf
<1>. HIDE DEF R
<1>2. Len(st) \in Nat /\ Len(st) >= 1 /\ st[1] \in R
  BY <1>1
<1>3. st[1].left \in E /\ st[1].dir \in 1..Len(ns) /\ t.dir = st[1].dir /\ t.left = Tail(st[1].left)
  <2>. HIDE DEF E
  <2>. QED
    BY <1>2 DEF R
<1>. HIDE DEF t
<1>4. Popped(st) = <<t>> \o Tail(st)
  BY DEF t, Popped
<1>5. /\ Len(Popped(st)) = Len(st) /\ Popped(st)[1] = t
      /\ \A i \in 2..Len(st) : Popped(st)[i] = st[i]
  <2>. DEFINE u == Tail(st)
              Q == R \cup {t}
  <2>1. Len(u) = Len(st) - 1 /\ \A i \in 1..(Len(st) - 1) : u[i] = st[i + 1]
    BY <1>1, <1>2
  <2>2. u \in Seq(Q) /\ t \in Q
    BY <1>1, <1>2
  <2>. HIDE DEF u, Q
  <2>3. Popped(st) = <<t>> \o u
    BY <1>4 DEF u
  <2>4. /\ Len(Popped(st)) = Len(u) + 1 /\ Popped(st)[1] = t
        /\ \A i \in 2..(Len(u) + 1) : Popped(st)[i] = u[i - 1]
    BY <2>2, <2>3, ConsFacts
  <2>5. \A i \in 2..Len(st) : i - 1 \in 1..(Len(st) - 1) /\ Popped(st)[i] = u[i - 1]
    BY <1>2, <2>1, <2>4
  <2>. QED
    BY <1>2, <2>1, <2>4, <2>5
<1>. QED
  BY <1>2, <1>3, <1>5


Top == stack[1].dir
First == Head(stack[1].left)
LinkOf(e, dir) == IF Name(e) = Dot THEN Owner(dir)
                  ELSE IF Name(e) = DotDot THEN Parent(dir)
                  ELSE FindNode(File(e))
EntryNode == NodeAt(offset, Name(First), File(First), Top, LinkOf(First, Top))

LEMMA EntryStep ==
  ASSUME PassInv, ScanEntry
  PROVE  /\ phase = "scan" /\ phase' = "scan" /\ host' = host /\ image' = image
         /\ stack # <<>> /\ stack[1].left # <<>> /\ StackOK(host, stack, nodes)
         /\ First \in [name : Seq(Chars) \ {<<>>}, ino : DOMAIN host]
         /\ ~(Taken(First) /\ ~Again(First)) => nodes' = nodes /\ stack' = Popped(stack)
         /\ Taken(First) /\ ~Again(First) =>
              /\ File(First) \in DOMAIN host
              /\ EntryNode \in Filenodes
              /\ nodes' = Append(nodes, EntryNode)
              /\ stack' = IF EntryNode.kind = "dir" /\ EntryNode.link = 0
                          THEN <<[dir |-> Len(nodes) + 1, left |-> host[EntryNode.ino].entries]>>
                                 \o Popped(stack)
                          ELSE Popped(stack)
<1>1. /\ phase = "scan" /\ stack # <<>> /\ stack[1].left # <<>> /\ UNCHANGED <<host, phase, image>>
  BY DEF ScanEntry
<1>2. host \in Hosts /\ NodesOK(nodes, offset) /\ StackOK(host, stack, nodes)
      /\ nodes \in Seq(Filenodes) /\ Len(nodes) \in Nat /\ Len(nodes) >= 1
  <2>1. host \in Hosts /\ NodesOK(nodes, offset) /\ StackOK(host, stack, nodes)
    BY <1>1 DEF PassInv, ScanInv
  <2>. QED
    BY <2>1 DEF NodesOK
<1>3. First \in [name : Seq(Chars) \ {<<>>}, ino : DOMAIN host] /\ Top \in 1..Len(nodes)
  BY <1>1, <1>2, StackSame DEF First, Top
<1>4. EntryNode.link = LinkOf(First, Top)
  BY NodeAtFields DEF EntryNode
<1>5. ASSUME Taken(First), ~Again(First)
      PROVE  /\ nodes' = Append(nodes, EntryNode)
             /\ stack' = IF EntryNode.kind = "dir" /\ EntryNode.link = 0
                         THEN <<[dir |-> Len(nodes) + 1, left |-> host[EntryNode.ino].entries]>>
                                \o Popped(stack)
                         ELSE Popped(stack)
  BY <1>4, <1>5, Zenon DEF ScanEntry, First, Top, LinkOf, EntryNode, Popped
<1>6. ASSUME ~(Taken(First) /\ ~Again(First))
      PROVE  nodes' = nodes /\ stack' = Popped(stack)
  BY <1>6, Zenon DEF ScanEntry, First, Popped
<1>7. ASSUME Taken(First)
      PROVE  File(First) \in DOMAIN host /\ EntryNode \in Filenodes
  <2>1. Name(First) \in Seq(Chars) /\ File(First) \in DOMAIN host
    BY <1>2, <1>3, <1>7, EntryFacts
  <2>2. offset \in Nat /\ Multiple(offset)
    <3>1. Len(nodes) \in 1..Len(nodes)
      BY <1>2
    <3>. QED
      BY <1>2, <3>1, NodeFacts DEF NodesOK
  <2>3. LinkOf(First, Top) \in Nat /\ Top \in Nat
    <3>1. nodes[Top].dir \in Nat
      BY <1>2, <1>3, NodeFacts
    <3>. QED
      BY <1>2, <1>3, <3>1, FindNodeFacts DEF LinkOf, Parent, Owner
  <2>. QED
    BY <1>2, <2>1, <2>2, <2>3, NodeAtFacts DEF EntryNode
<1>. QED
  BY <1>1, <1>2, <1>3, <1>5, <1>6, <1>7

\* A node more does not change the others.
LEMMA IsDirMore ==
  ASSUME NEW ns \in Seq(Filenodes), NEW n \in Filenodes, NEW i \in 1..Len(ns), IsDir(ns, i)
  PROVE  IsDir(Append(ns, n), i)
<1>1. Append(ns, n)[i] = ns[i]
  BY AppendFacts
<1>. QED
  BY <1>1 DEF IsDir

LEMMA TwoMore ==
  ASSUME NEW R, NEW u \in Seq(R), NEW a, NEW b, NEW v, v = u \o <<a, b>>
  PROVE  /\ Len(v) = Len(u) + 2 /\ v[Len(u) + 1] = a /\ v[Len(u) + 2] = b
         /\ \A i \in 1..Len(u) : v[i] = u[i]
OBVIOUS

LEMMA StackDirs ==
  ASSUME NEW h, NEW st, NEW ns, StackOK(h, st, ns)
  PROVE  Len(st) \in Nat /\ \A s \in 1..Len(st) : st[s].dir \in 1..Len(ns)
<1>. DEFINE E == EntriesOf(h)
            R == [dir : 1..Len(ns), left : E]
<1>1. st \in Seq(R)
  BY DEF StackOK
<1>2. \A r \in R : r.dir \in 1..Len(ns)
  <2>. HIDE DEF E
  <2>. QED
    OBVIOUS
<1>. HIDE DEF R
<1>. QED
  BY <1>1, <1>2

LEMMA DirsSteps ==
  ASSUME PassInv, DirsInv, FirstInv, ImageNext
  PROVE  DirsInv' /\ FirstInv'
<1>0. nodes \in Seq(Filenodes) /\ Len(nodes) \in Nat /\ Len(nodes) >= 1 /\ NodesOK(nodes, offset)
      /\ host \in Hosts
  BY DEF PassInv, NodesOK
<1>1. CASE ScanRoot
  <2>. DEFINE dot == NodeAt(offset, Dot, Root, 1, 0)
              up  == NodeAt(EndOf(dot), DotDot, Outside, 1, 2)
  <2>1. /\ phase = "scan" /\ phase' = "scan" /\ Len(nodes) = 1 /\ nodes' = nodes \o <<dot, up>>
        /\ stack' = <<[dir |-> 1, left |-> host[Root].entries]>>
    BY <1>1 DEF ScanRoot
  <2>2. offset = HeaderLen(Volume)
    <3>1. offset = EndOf(nodes[1]) /\ nodes[1].off = 0 /\ nodes[1].size = 0 /\ nodes[1].name = Volume
      BY <1>0, <2>1 DEF NodesOK
    <3>2. HeaderLen(Volume) \in Nat
      BY HeaderFacts, RomImageAssumption
    <3>. QED
      BY <3>1, <3>2, RoundUpNought DEF EndOf, SpaceNeeded
  <2>3. dot.off = HeaderLen(Volume) /\ dot.dir = 1
    BY <1>0, <2>2, FirstHeader
  <2>4. up.dir = 1
    BY NodeAtFields
  <2>. HIDE DEF dot, up
  <2>5. Len(nodes') = 3 /\ nodes'[2] = dot /\ nodes'[3] = up
    <3>1. /\ Len(nodes') = Len(nodes) + 2 /\ nodes'[Len(nodes) + 1] = dot
          /\ nodes'[Len(nodes) + 2] = up
      <4>. DEFINE v == nodes \o <<dot, up>>
      <4>1. nodes \in Seq(Filenodes) /\ v = nodes \o <<dot, up>>
        BY <1>0
      <4>. HIDE DEF v
      <4>2. Len(v) = Len(nodes) + 2 /\ v[Len(nodes) + 1] = dot /\ v[Len(nodes) + 2] = up
        BY <4>1, TwoMore
      <4>. QED
        BY <2>1, <4>2 DEF v
    <3>. QED
      BY <2>1, <3>1
  <2>6. \A j \in 2..Len(nodes') : j = 2 \/ j = 3
    BY <2>5
  <2>7. \A j \in 2..Len(nodes') : nodes'[j].dir = 1
    BY <2>3, <2>4, <2>5, <2>6
  <2>8. Len(stack') = 1 /\ stack'[1].dir = 1
    BY <2>1
  <2>. QED
    BY <2>1, <2>3, <2>5, <2>7, <2>8 DEF DirsInv, FirstInv, IsDir
<1>2. CASE ScanEntry
  <2>1. /\ phase = "scan" /\ phase' = "scan" /\ stack # <<>> /\ stack[1].left # <<>>
        /\ StackOK(host, stack, nodes)
    BY <1>2, EntryStep
  <2>. DEFINE rest == Popped(stack)
  <2>2. Len(rest) = Len(stack) /\ Len(stack) \in Nat /\ \A s \in 1..Len(stack) : rest[s].dir = stack[s].dir
    <3>1. \A s \in 1..Len(stack) : s = 1 \/ s \in 2..Len(stack)
      BY <2>1, PoppedFacts
    <3>. QED
      BY <2>1, <3>1, PoppedFacts
  <2>3. \A s \in 1..Len(stack) : stack[s].dir \in 1..Len(nodes) /\ IsDir(nodes, stack[s].dir)
    BY <2>1, StackDirs DEF DirsInv
  <2>4. Len(stack) >= 1
    BY <2>1, PoppedFacts
  <2>7. Len(nodes) > 1
    BY <2>1 DEF FirstInv
  <2>5. CASE ~(Taken(First) /\ ~Again(First))
    <3>1. nodes' = nodes /\ stack' = rest
      BY <1>2, <2>5, EntryStep
    <3>. HIDE DEF rest
    <3>. QED
      BY <2>1, <2>2, <2>3, <3>1 DEF DirsInv, FirstInv
  <2>6. CASE Taken(First) /\ ~Again(First)
    <3>. DEFINE n == EntryNode
                L == Len(nodes)
                up == <<[dir |-> L + 1, left |-> host[n.ino].entries]>> \o rest
    <3>1. /\ n \in Filenodes /\ nodes' = Append(nodes, n)
          /\ stack' = IF n.kind = "dir" /\ n.link = 0 THEN up ELSE rest
      BY <1>2, <2>6, EntryStep
    <3>2. n.dir = Top
      BY NodeAtFields DEF EntryNode
    <3>. HIDE DEF n
    <3>3. Len(nodes') = L + 1 /\ nodes'[L + 1] = n /\ \A i \in 1..L : nodes'[i] = nodes[i]
      BY <1>0, <3>1, AppendFacts
    <3>4. \A i \in 1..L : IsDir(nodes, i) => IsDir(nodes', i)
      BY <1>0, <3>1, IsDirMore
    <3>5. \A j \in 2..Len(nodes') : IsDir(nodes', nodes'[j].dir)
      <4>. TAKE j \in 2..Len(nodes')
      <4>1. CASE j = L + 1
        <5>1. 1 \in 1..Len(stack)
          BY <2>2, <2>4
        <5>. QED
          BY <2>3, <3>2, <3>3, <3>4, <4>1, <5>1 DEF Top
      <4>2. CASE j # L + 1
        <5>1. j \in 2..L /\ j \in 1..L
          BY <1>0, <3>3, <4>2
        <5>2. nodes[j].dir \in 1..L
          BY <1>0, <5>1 DEF NodesOK
        <5>. QED
          BY <3>3, <3>4, <5>1, <5>2 DEF DirsInv
      <4>. QED
        BY <4>1, <4>2
    <3>6. \A s \in 1..Len(rest) : IsDir(nodes', rest[s].dir)
      <4>. HIDE DEF rest
      <4>. QED
        BY <2>2, <2>3, <3>4
    <3>7. CASE n.kind = "dir" /\ n.link = 0
      <4>1. stack' = up /\ IsDir(nodes', L + 1)
        BY <3>1, <3>3, <3>7 DEF IsDir
      <4>2. Len(up) = Len(rest) + 1 /\ up[1].dir = L + 1 /\ \A s \in 2..Len(up) : up[s] = rest[s - 1]
        <5>. DEFINE t == [dir |-> L + 1, left |-> host[n.ino].entries]
        <5>1. t.dir = L + 1 /\ up = <<t>> \o rest
          OBVIOUS
        <5>2. StackOK(host, rest, nodes)
          BY <2>1, StackSame
        <5>. DEFINE R == [dir : 1..Len(nodes), left : EntriesOf(host)] \cup {t}
        <5>3. rest \in Seq(R) /\ t \in R
          <6>1. rest \in Seq([dir : 1..Len(nodes), left : EntriesOf(host)])
            BY <5>2 DEF StackOK
          <6>. DEFINE Q == [dir : 1..Len(nodes), left : EntriesOf(host)]
          <6>2. rest \in Seq(Q) /\ R = Q \cup {t}
            BY <6>1
          <6>. HIDE DEF Q, R, rest, t
          <6>. QED
            BY <6>2
        <5>. HIDE DEF t, R, rest, up
        <5>. QED
          BY <2>2, <5>1, <5>3, ConsFacts
      <4>3. \A s \in 1..Len(up) : IsDir(nodes', up[s].dir)
        <5>. TAKE s \in 1..Len(up)
        <5>1. s = 1 \/ (s \in 2..Len(up) /\ s - 1 \in 1..Len(rest))
          <6>. HIDE DEF up, rest
          <6>. QED
            BY <2>2, <4>2
        <5>. HIDE DEF up, rest
        <5>. QED
          BY <3>6, <4>1, <4>2, <5>1
      <4>. HIDE DEF up
      <4>. QED
        BY <1>0, <2>1, <2>7, <3>3, <3>5, <4>1, <4>3 DEF DirsInv, FirstInv
    <3>8. CASE ~(n.kind = "dir" /\ n.link = 0)
      <4>. HIDE DEF rest, up
      <4>. QED
        BY <1>0, <2>1, <2>7, <3>1, <3>3, <3>5, <3>6, <3>8 DEF DirsInv, FirstInv
    <3>. QED
      BY <3>7, <3>8
  <2>. QED
    BY <2>5, <2>6
<1>3. CASE ScanLeave
  <2>1. phase = "scan" /\ stack # <<>> /\ stack' = Tail(stack) /\ phase' = phase /\ nodes' = nodes
    BY <1>3 DEF ScanLeave
  <2>2. StackOK(host, stack, nodes)
    BY <2>1 DEF PassInv, ScanInv
  <2>3. \A s \in 1..Len(Tail(stack)) : s + 1 \in 1..Len(stack) /\ Tail(stack)[s] = stack[s + 1]
    <3>. DEFINE R == [dir : 1..Len(nodes), left : EntriesOf(host)]
    <3>1. stack \in Seq(R)
      BY <2>2 DEF StackOK
    <3>. HIDE DEF R
    <3>. QED
      BY <2>1, <3>1
  <2>. QED
    BY <2>1, <2>3 DEF DirsInv, FirstInv
<1>4. CASE DumpVolume \/ DumpNode \/ DumpEnd
  BY <1>4 DEF DumpVolume, DumpNode, DumpEnd, DirsInv, FirstInv
<1>. QED
  BY <1>1, <1>2, <1>3, <1>4 DEF ImageNext

-----------------------------------------------------------------------------
(* A lookup on its way. *)

\* From t on, a list still has the first node of the name c of directory i; 0 is the
\* end of the list.
Onto(ns, i, c, t) ==
  \/ t = 0 /\ Named(ns, i, c) = {}
  \/ \E j \in Kids(ns, i) : t = ns[j].off /\ \A h \in Named(ns, i, c) : j <= h

LEMMA KidFacts ==
  ASSUME NEW ns, NEW o, NodesOK(ns, o), NEW i \in Nat, NEW j \in Kids(ns, i)
  PROVE  /\ j \in 2..Len(ns) /\ j \in 1..Len(ns) /\ ns[j].dir = i
         /\ ns[j].off \in Nat /\ ns[j].off > 0 /\ Multiple(ns[j].off) /\ ns[j].off < o
<1>1. Len(ns) \in Nat /\ Len(ns) >= 1
  BY DEF NodesOK
<1>2. j \in 2..Len(ns) /\ j \in 1..Len(ns) /\ ns[j].dir = i
  BY <1>1 DEF Kids
<1>3. 1 \in 1..Len(ns) /\ Len(ns) \in 1..Len(ns) /\ 1 < j
  BY <1>1, <1>2
<1>4. ns[j].off \in Nat /\ Multiple(ns[j].off) /\ EndOf(ns[j]) \in Nat /\ EndOf(ns[j]) > ns[j].off
  BY <1>2, NodeFacts
<1>5. EndOf(ns[1]) <= ns[j].off /\ EndOf(ns[1]) \in Nat /\ EndOf(ns[1]) > ns[1].off /\ ns[1].off = 0
  BY <1>2, <1>3, NodeFacts DEF NodesOK
<1>6. o = EndOf(ns[Len(ns)]) /\ o \in Nat
  BY <1>3, NodeFacts DEF NodesOK
<1>7. EndOf(ns[j]) <= o
  <2>1. CASE j = Len(ns)
    BY <1>4, <1>6, <2>1
  <2>2. CASE j # Len(ns)
    <3>1. j < Len(ns)
      BY <1>1, <1>2, <2>2
    <3>2. EndOf(ns[j]) <= ns[Len(ns)].off
      BY <1>2, <1>3, <3>1 DEF NodesOK
    <3>3. ns[Len(ns)].off \in Nat /\ ns[Len(ns)].off < EndOf(ns[Len(ns)])
      BY <1>3, NodeFacts
    <3>. QED
      BY <1>4, <1>6, <3>2, <3>3
  <2>. QED
    BY <2>1, <2>2
<1>. QED
  BY <1>2, <1>4, <1>5, <1>6, <1>7

\* The node at t is the one, or the search goes on with the next.
LEMMA OntoTurn ==
  ASSUME NEW ns, NEW o, NodesOK(ns, o), NEW i \in Nat \ {0}, NEW c,
         NEW j \in Kids(ns, i), \A h \in Named(ns, i, c) : j <= h
  PROVE  /\ ns[j].name = c => Below(ns, i, c) = j
         /\ ns[j].name # c => Onto(ns, i, c, NextOff(ns, j))
<1>1. j \in 1..Len(ns) /\ ns[j].dir = i /\ Len(ns) \in Nat
  BY KidFacts DEF NodesOK
<1>2. ASSUME ns[j].name = c
      PROVE  Below(ns, i, c) = j
  <2>1. j \in Named(ns, i, c)
    BY <1>2 DEF Named
  <2>. DEFINE b == Below(ns, i, c)
  <2>2. b \in Nat /\ (b # 0 => b \in Named(ns, i, c) /\ b <= j) /\ b # 0
    BY <1>1, <2>1, BelowFacts
  <2>3. j <= b
    BY <2>2
  <2>. HIDE DEF b
  <2>. QED
    BY <1>1, <2>2, <2>3 DEF b
<1>3. ASSUME ns[j].name # c
      PROVE  Onto(ns, i, c, NextOff(ns, j))
  <2>1. \A h \in Named(ns, i, c) : h \in Later(ns, j)
    <3>. TAKE h \in Named(ns, i, c)
    <3>1. h \in 2..Len(ns) /\ ns[h].dir = i /\ ns[h].name = c /\ j <= h
      BY DEF Named, Kids
    <3>2. h \in (j + 1)..Len(ns)
      BY <1>1, <1>3, <3>1
    <3>. QED
      BY <1>1, <3>1, <3>2 DEF Later
  <2>2. CASE Later(ns, j) = {}
    BY <2>1, <2>2 DEF Onto, NextOff
  <2>3. CASE Later(ns, j) # {}
    <3>. DEFINE k == Least(Later(ns, j))
    <3>1. k \in Later(ns, j) /\ \A m \in Later(ns, j) : k <= m
      BY <1>1, <2>3, LaterFacts
    <3>2. NextOff(ns, j) = ns[k].off
      BY <2>3 DEF NextOff
    <3>. HIDE DEF k
    <3>3. k \in Kids(ns, i)
      BY <1>1, <3>1 DEF Later, Kids
    <3>. QED
      BY <2>1, <3>1, <3>2, <3>3 DEF Onto
  <2>. QED
    BY <2>2, <2>3
<1>. QED
  BY <1>2, <1>3

\* Where spec leads from a directory that is entered, or from what is none.
LEMMA OntoFirst ==
  ASSUME NEW ns, NEW o, NodesOK(ns, o), NEW i \in 2..Len(ns), NEW c, Entered(ns, i),
         \A j \in 2..Len(ns) : IsDir(ns, ns[j].dir)
  PROVE  Onto(ns, i, c, BelowOff(ns, i)) /\ BelowOff(ns, i) \in Nat /\ Multiple(BelowOff(ns, i))
<1>1. Kids(ns, i) \in SUBSET Nat /\ Named(ns, i, c) \subseteq Kids(ns, i) /\ i \in Nat /\ i # 1
  BY DEF Kids, Named
<1>2. CASE Kids(ns, i) = {}
  <2>1. ns[i].link = 0 /\ ns[i].kind # "dir"
    BY <1>2 DEF Entered
  <2>2. BelowOff(ns, i) = 0
    BY <2>1 DEF BelowOff
  <2>3. Multiple(0)
    <3>1. 0 = 0 * Unit /\ 0 \in Int
      BY UnitFacts
    <3>. QED
      BY <3>1, Zenon DEF Multiple
  <2>. QED
    BY <1>1, <1>2, <2>2, <2>3 DEF Onto
<1>3. CASE Kids(ns, i) # {}
  <2>. DEFINE k == Least(Kids(ns, i))
  <2>1. k \in Kids(ns, i) /\ \A h \in Kids(ns, i) : k <= h
    BY <1>1, <1>3, LeastFacts
  <2>2. ns[i].link = 0 /\ ns[i].kind = "dir"
    <3>1. k \in 2..Len(ns) /\ ns[k].dir = i
      BY <2>1 DEF Kids
    <3>. QED
      BY <1>1, <3>1 DEF IsDir
  <2>3. BelowOff(ns, i) = ns[k].off
    BY <1>3, <2>2 DEF BelowOff
  <2>. HIDE DEF k
  <2>4. ns[k].off \in Nat /\ Multiple(ns[k].off)
    BY <1>1, <2>1, KidFacts
  <2>. QED
    BY <1>1, <2>1, <2>3, <2>4 DEF Onto
<1>. QED
  BY <1>2, <1>3

\* The place of the header at hand, and what a call is after there: the component m of
\* its path, in the directory the components before lead to.
AtOf(l) == Mask(IF l.first THEN l.next.le ELSE Ntohl(l.next))
Sought(ns, q, l, m) ==
  /\ Len(l.dir) = Len(q) - m /\ \A i \in 1..Len(l.dir) : l.dir[i] = q[m + i]
  /\ String(l.name) = q[m]
  /\ Steps(ns, q)[m - 1] # 0
  /\ Onto(ns, Steps(ns, q)[m - 1], q[m], AtOf(l))

\* Where the path leads.
Target(ns, q) == Steps(ns, q)[Len(q)]

SeekInv ==
  /\ path # <<>> => phase = "done"
  /\ path # <<>> /\ exact /\ Straight(nodes, path) =>
       /\ pc \in {"walk", "dir"} => \E m \in 1..Len(path) : Sought(nodes, path, local, m)
       /\ pc = "dir" => local.dir = <<>>
       /\ pc = "found" => Target(nodes, path) # 0 /\ local.tmp = nodes[Target(nodes, path)].off
       /\ pc = "idle" => IF Target(nodes, path) = 0 THEN inode = None
                         ELSE inode # None /\ inode.daddr = nodes[Target(nodes, path)].off

\* The image fits on the RAM disk.
ImageFits == offset <= StorageSize

SeekBase == IInv /\ LinksInv /\ DirsInv /\ FirstInv /\ ImageFits

\* The headers of an image that is written.
LEMMA HeaderOf ==
  ASSUME SeekBase, phase = "done", NEW i \in Nat, NEW j \in Kids(nodes, i), NEW t, t = nodes[j].off
  PROVE  /\ t \in 1..(StorageSize - 1) /\ t \in DOMAIN image \ {0}
         /\ image[t].name = nodes[j].name
         /\ Mask(Ntohl(image[t].next)) = NextOff(nodes, j)
         /\ Ntohl(image[t].spec) = BelowOff(nodes, j)
<1>1. NodesOK(nodes, offset)
  BY DEF SeekBase, IInv, PassInv
<1>2. j \in 1..Len(nodes) /\ t \in Nat /\ t > 0 /\ t < offset
  BY <1>1, KidFacts
<1>3. PICK k \in 1..Len(nodes) : Written(k)
  BY DEF SeekBase, IInv, DumpInv
<1>4. k = Len(nodes)
  BY <1>3 DEF Written
<1>5. t \in DOMAIN image /\ image[t].node = j /\ image[t].name = nodes[j].name
  BY <1>2, <1>3, <1>4 DEF Written
<1>6. t \in 1..(StorageSize - 1)
  <2>1. offset \in Nat /\ offset <= StorageSize /\ StorageSize \in Nat
    <3>1. Len(nodes) \in 1..Len(nodes)
      BY <1>2
    <3>. QED
      BY <1>1, <3>1, NodeFacts, RomfsAssumption DEF NodesOK, SeekBase, ImageFits
  <2>. QED
    BY <1>2, <2>1
<1>. QED
  BY <1>2, <1>5, <1>6 DEF SeekBase, LinksInv

\* The kernel and genromfs agree on where the first header is.
LEMMA VolumePlace == Mask(Len(Volume) + 2 * Unit) = HeaderLen(Volume)
<1>. DEFINE L == Len(Volume)
            a == L + Unit
            e == a % Unit
            d == a \div Unit
<1>1. Unit \in Nat /\ Unit > 1 /\ L \in Nat /\ a \in Nat
  BY RomImageAssumption
<1>2. d \in Nat /\ e \in 0..(Unit - 1) /\ a = d * Unit + e
  BY <1>1, DivMod
<1>3. HeaderLen(Volume) = Unit + d * Unit
  <2>1. (L + 1) + Unit - 1 = a
    BY <1>1
  <2>2. RoundUp(L + 1, Unit) = d * Unit
    BY <2>1 DEF RoundUp
  <2>. QED
    BY <2>2 DEF HeaderLen
<1>4. (a + Unit) % Unit = e
  <2>. DEFINE x == (a + Unit) - e
              r == (a + Unit) % Unit
  <2>1. x = (d + 1) * Unit /\ x \in Nat /\ d + 1 \in Int
    <3>1. (d + 1) * Unit = d * Unit + Unit /\ d * Unit \in Nat
      BY <1>1, <1>2
    <3>. HIDE DEF a, d, e
    <3>. QED
      BY <1>1, <1>2, <3>1
  <2>2. Multiple(x)
    <3>. HIDE DEF x, d
    <3>. QED
      BY <2>1 DEF Multiple
  <2>3. a + Unit = x + e /\ a + Unit \in Nat
    BY <1>1, <1>2
  <2>. QED
    BY <1>1, <1>2, <2>1, <2>2, <2>3, RestOf
<1>5. L + 2 * Unit = a + Unit
  BY <1>1
<1>. HIDE DEF a, d, e
<1>6. Mask(L + 2 * Unit) = (a + Unit) - e
  BY <1>4, <1>5 DEF Mask
<1>. QED
  BY <1>1, <1>2, <1>3, <1>6 DEF L

\* A turn of one of the loops: the search is at the end of a list, and the path leads
\* nowhere, or at a header of the list.
LEMMA AtTurn ==
  ASSUME SeekBase, SeekInv, path # <<>>, exact, Straight(nodes, path), pc \in {"walk", "dir"},
         NEW t, t = AtOf(local)
  PROVE  \E m \in 1..Len(path) :
           /\ Sought(nodes, path, local, m)
           /\ \/ t = 0 /\ Target(nodes, path) = 0
              \/ \E j \in Kids(nodes, Steps(nodes, path)[m - 1]) :
                   /\ t = nodes[j].off /\ t \in 1..(StorageSize - 1) /\ t \in DOMAIN image \ {0}
                   /\ image[t].name = nodes[j].name
                   /\ Mask(Ntohl(image[t].next)) = NextOff(nodes, j)
                   /\ Ntohl(image[t].spec) = BelowOff(nodes, j)
                   /\ nodes[j].name = path[m] => Steps(nodes, path)[m] = j /\ j # 0
                   /\ nodes[j].name # path[m] =>
                        Onto(nodes, Steps(nodes, path)[m - 1], path[m], NextOff(nodes, j))
<1>1. NodesOK(nodes, offset) /\ Len(nodes) \in Nat /\ phase = "done"
  BY DEF SeekBase, IInv, PassInv, NodesOK, SeekInv
<1>2. Len(path) \in Nat
  BY RomfsAssumption DEF SeekBase, IInv, HeldInv
<1>3. PICK m \in 1..Len(path) : Sought(nodes, path, local, m)
  BY DEF SeekInv
<1>. DEFINE f == Steps(nodes, path)
            i == f[m - 1]
            c == path[m]
<1>4. m - 1 \in 0..Len(path) /\ i \in Nat \ {0} /\ Onto(nodes, i, c, t)
  <2>1. m - 1 \in 0..Len(path)
    BY <1>2
  <2>2. f[m - 1] \in Nat
    BY <1>1, <1>2, <2>1, StepsFacts
  <2>. QED
    BY <1>3, <2>1, <2>2 DEF Sought
<1>5. f[m] = Below(nodes, i, c)
  BY <1>1, <1>2, StepsFacts
<1>. HIDE DEF f, i, c
<1>6. CASE t = 0 /\ Named(nodes, i, c) = {}
  <2>1. f[m] = 0
    BY <1>5, <1>6 DEF Below
  <2>2. m \in 0..Len(path)
    BY <1>2
  <2>3. Target(nodes, path) = 0
    BY <1>1, <1>2, <2>1, <2>2, NowhereOn DEF Target, f
  <2>. QED
    BY <1>3, <1>6, <2>3
<1>7. ASSUME NEW j \in Kids(nodes, i), t = nodes[j].off, \A h \in Named(nodes, i, c) : j <= h
      PROVE  /\ t \in 1..(StorageSize - 1) /\ t \in DOMAIN image \ {0}
             /\ image[t].name = nodes[j].name
             /\ Mask(Ntohl(image[t].next)) = NextOff(nodes, j)
             /\ Ntohl(image[t].spec) = BelowOff(nodes, j)
             /\ nodes[j].name = c => f[m] = j /\ j # 0
             /\ nodes[j].name # c => Onto(nodes, i, c, NextOff(nodes, j))
  <2>1. j # 0
    BY DEF Kids
  <2>2. /\ nodes[j].name = c => f[m] = j
        /\ nodes[j].name # c => Onto(nodes, i, c, NextOff(nodes, j))
    BY <1>1, <1>4, <1>5, <1>7, OntoTurn
  <2>3. /\ t \in 1..(StorageSize - 1) /\ t \in DOMAIN image \ {0}
        /\ image[t].name = nodes[j].name
        /\ Mask(Ntohl(image[t].next)) = NextOff(nodes, j)
        /\ Ntohl(image[t].spec) = BelowOff(nodes, j)
    BY <1>1, <1>4, <1>7, HeaderOf
  <2>. QED
    BY <2>1, <2>2, <2>3
<1>8. \/ t = 0 /\ Named(nodes, i, c) = {}
      \/ \E j \in Kids(nodes, i) : t = nodes[j].off /\ \A h \in Named(nodes, i, c) : j <= h
  BY <1>4 DEF Onto
<1>9. CASE \E j \in Kids(nodes, i) : t = nodes[j].off /\ \A h \in Named(nodes, i, c) : j <= h
  <2>1. PICK j \in Kids(nodes, i) : t = nodes[j].off /\ \A h \in Named(nodes, i, c) : j <= h
    BY <1>9
  <2>2. /\ t \in 1..(StorageSize - 1) /\ t \in DOMAIN image \ {0}
        /\ image[t].name = nodes[j].name
        /\ Mask(Ntohl(image[t].next)) = NextOff(nodes, j)
        /\ Ntohl(image[t].spec) = BelowOff(nodes, j)
        /\ nodes[j].name = c => f[m] = j /\ j # 0
        /\ nodes[j].name # c => Onto(nodes, i, c, NextOff(nodes, j))
    BY <1>7, <2>1
  <2>. QED
    BY <1>3, <2>1, <2>2 DEF f, i, c
<1>. QED
  BY <1>6, <1>8, <1>9

\* What a turn leaves of the locals.
LEMMA NextTurn ==
  ASSUME LocalType, NEW t, NEW x,
         \/ local' = [local EXCEPT !.next = x, !.first = FALSE, !.tmp = t]
         \/ local' = [local EXCEPT !.next = x, !.tmp = t] /\ ~local.first
  PROVE  /\ local'.dir = local.dir /\ local'.name = local.name
         /\ AtOf(local') = Mask(Ntohl(x))
<1>1. local'.dir = local.dir /\ local'.name = local.name /\ local'.next = x /\ ~local'.first
  BY DEF LocalType
<1>. QED
  BY <1>1 DEF AtOf

LEMMA SeekFail ==
  ASSUME SeekBase, SeekInv, Fail, path' = path, UNCHANGED imageVars,
         path # <<>> /\ exact' /\ Straight(nodes, path) => Target(nodes, path) = 0
  PROVE  SeekInv'
<1>1. pc' = "idle" /\ inode' = None /\ nodes' = nodes /\ phase' = phase
  BY DEF Fail, Return, imageVars
<1>. QED
  BY <1>1 DEF SeekInv, Target

LEMMA NameiSeek ==
  ASSUME SeekBase, SeekInv, NEW q \in Paths, Namei(q)
  PROVE  SeekInv'
<1>1. nodes' = nodes /\ phase' = "done" /\ phase = "done" /\ path' = q /\ image' = image
  BY DEF Namei, imageVars
<1>2. CASE Fail /\ exact' = FALSE
  BY <1>1, <1>2 DEF SeekInv
<1>3. ASSUME NEW junk \in Junk,
             LET buf == Bmap(junk, q)
             IN  /\ local' = [dir |-> Tail(q), name |-> buf, fname |-> GetTheFileName(q),
                              next |-> [le |-> GetFirstHeader], first |-> TRUE, tmp |-> 0]
                 /\ exact' = (String(buf) = q[1])
                 /\ pc' = "walk"
      PROVE  SeekInv'
  <2>. DEFINE buf == Bmap(junk, q)
  <2>1. q \in Seq(Seq(Chars)) /\ q # <<>> /\ Len(q) \in Nat /\ Len(q) >= 1
    BY RomfsAssumption
  <2>2. NodesOK(nodes, offset) /\ Len(nodes) \in Nat /\ Len(nodes) > 1
    <3>1. NodesOK(nodes, offset) /\ FirstInv
      BY DEF SeekBase, IInv, PassInv
    <3>2. Len(nodes) > 1
      BY <1>1, <3>1 DEF FirstInv
    <3>3. Len(nodes) \in Nat
      BY <3>1 DEF NodesOK
    <3>. QED
      BY <3>1, <3>2, <3>3
  <2>3. local'.dir = Tail(q) /\ local'.name = buf /\ local'.first = TRUE
        /\ local'.next.le = GetFirstHeader /\ exact' = (String(buf) = q[1]) /\ pc' = "walk"
    BY <1>3
  <2>. HIDE DEF buf
  <2>4. Len(Tail(q)) = Len(q) - 1 /\ \A i \in 1..Len(Tail(q)) : Tail(q)[i] = q[1 + i]
    BY <2>1
  <2>5. Steps(nodes, q)[0] = 1
    BY <2>1, <2>2, StepsFacts
  <2>6. GetFirstHeader = HeaderLen(Volume) /\ Mask(HeaderLen(Volume)) = HeaderLen(Volume)
    <3>1. PICK k \in 1..Len(nodes) : Written(k)
      BY <1>1 DEF SeekBase, IInv, DumpInv
    <3>2. image[0].name = Volume
      <4>1. 1 \in 1..k /\ nodes[1].off = 0 /\ nodes[1].name = Volume
        BY <2>2, <3>1 DEF NodesOK
      <4>. QED
        BY <3>1, <4>1 DEF Written
    <3>3. GetFirstHeader = HeaderLen(Volume)
      BY <3>2, VolumePlace DEF GetFirstHeader
    <3>4. HeaderLen(Volume) \in Nat /\ Multiple(HeaderLen(Volume))
      BY HeaderFacts, RomImageAssumption
    <3>. QED
      BY <3>3, <3>4, MaskMultiple
  <2>7. AtOf(local') = nodes[2].off
    BY <2>2, <2>3, <2>6 DEF AtOf, SeekBase, FirstInv
  <2>8. Onto(nodes, 1, q[1], AtOf(local'))
    <3>1. 2 \in Kids(nodes, 1) /\ \A h \in Named(nodes, 1, q[1]) : 2 <= h
      BY <2>2 DEF SeekBase, FirstInv, Kids, Named
    <3>. QED
      BY <2>7, <3>1 DEF Onto
  <2>9. exact' => Sought(nodes, q, local', 1)
    <3>1. Len(local'.dir) = Len(q) - 1 /\ \A i \in 1..Len(local'.dir) : local'.dir[i] = q[1 + i]
      BY <2>3, <2>4
    <3>2. exact' => String(local'.name) = q[1]
      BY <2>3
    <3>3. 1 - 1 = 0 /\ 1 # 0
      OBVIOUS
    <3>. QED
      BY <2>5, <2>8, <3>1, <3>2, <3>3 DEF Sought
  <2>10. 1 \in 1..Len(q)
    BY <2>1
  <2>. QED
    BY <1>1, <2>3, <2>9, <2>10 DEF SeekInv
<1>. QED
  BY <1>2, <1>3 DEF Namei
LEMMA WalkSeek ==
  ASSUME SeekBase, SeekInv, Walk
  PROVE  SeekInv'
<1>. DEFINE t == Mask(IF local.first THEN local.next.le ELSE Ntohl(local.next))
            f == Steps(nodes, path)
            N == Len(path)
<1>1. pc = "walk" /\ UNCHANGED imageVars /\ path' = path /\ nodes' = nodes /\ phase' = phase
      /\ image' = image
  BY DEF Walk, imageVars
<1>2. path \in Paths /\ phase = "done" /\ local.fname = path[N]
  BY <1>1 DEF SeekBase, IInv, RomInv, CallInv
<1>3. path \in Seq(Seq(Chars)) /\ path # <<>> /\ N \in Nat /\ N >= 1
  BY <1>2, RomfsAssumption
<1>4. exact' => exact
  BY DEF Walk, Descend
<1>. SUFFICES ASSUME exact', Straight(nodes, path)
              PROVE  SeekInv'
  BY <1>1, <1>2 DEF SeekInv
<1>5. t = AtOf(local)
  BY DEF AtOf
<1>. HIDE DEF t, f
<1>6. PICK m \in 1..N :
        /\ Sought(nodes, path, local, m)
        /\ \/ t = 0 /\ Target(nodes, path) = 0
           \/ \E j \in Kids(nodes, f[m - 1]) :
                   /\ t = nodes[j].off /\ t \in 1..(StorageSize - 1) /\ t \in DOMAIN image \ {0}
                   /\ image[t].name = nodes[j].name
                   /\ Mask(Ntohl(image[t].next)) = NextOff(nodes, j)
                   /\ Ntohl(image[t].spec) = BelowOff(nodes, j)
                   /\ nodes[j].name = path[m] => f[m] = j /\ j # 0
                   /\ nodes[j].name # path[m] => Onto(nodes, f[m - 1], path[m], NextOff(nodes, j))
  BY <1>1, <1>3, <1>4, <1>5, AtTurn DEF f
<1>7. String(local.name) = path[m] /\ Len(local.dir) = N - m
  BY <1>6 DEF Sought
<1>8. CASE ~InStorage(t)
  <2>1. Target(nodes, path) = 0
    BY <1>6, <1>8 DEF InStorage
  <2>2. Fail
    BY <1>8 DEF Walk, t
  <2>. QED
    BY <1>1, <2>1, <2>2, SeekFail
<1>9. ASSUME InStorage(t)
      PROVE  SeekInv'
  <2>1. PICK j \in Kids(nodes, f[m - 1]) :
                   /\ t = nodes[j].off /\ t \in 1..(StorageSize - 1) /\ t \in DOMAIN image \ {0}
                   /\ image[t].name = nodes[j].name
                   /\ Mask(Ntohl(image[t].next)) = NextOff(nodes, j)
                   /\ Ntohl(image[t].spec) = BelowOff(nodes, j)
                   /\ nodes[j].name = path[m] => f[m] = j /\ j # 0
                   /\ nodes[j].name # path[m] => Onto(nodes, f[m - 1], path[m], NextOff(nodes, j))
    BY <1>6, <1>9 DEF InStorage
  <2>2. CASE /\ ~Matches(t)
             /\ local' = [local EXCEPT !.next = image[t].next, !.first = FALSE, !.tmp = t]
             /\ pc' = pc
    <3>1. local'.dir = local.dir /\ local'.name = local.name /\ AtOf(local') = NextOff(nodes, j)
      BY <2>1, <2>2, NextTurn DEF SeekBase, IInv, RomInv
    <3>2. nodes[j].name # path[m]
      BY <1>7, <2>1, <2>2 DEF Matches
    <3>3. Sought(nodes, path, local', m)
      BY <1>6, <2>1, <3>1, <3>2 DEF Sought, f
    <3>. QED
      BY <1>1, <1>2, <2>2, <3>3 DEF SeekInv
  <2>3. CASE /\ Matches(t) /\ image[t].name = local.fname
             /\ local' = [local EXCEPT !.first = FALSE, !.tmp = t]
             /\ pc' = "found"
    <3>1. local'.tmp = t
      BY <2>3 DEF SeekBase, IInv, RomInv, LocalType
    <3>2. path[m] = path[N]
      BY <1>2, <1>7, <2>3 DEF Matches
    <3>3. m = N
      <4>1. ASSUME m # N PROVE FALSE
        <5>1. m \in 1..(N - 1)
          BY <1>3, <4>1
        <5>. QED
          BY <3>2, <5>1 DEF Straight
      <4>. QED
        BY <4>1
    <3>4. f[m] = j /\ j # 0
      BY <1>7, <2>1, <2>3 DEF Matches
    <3>5. Target(nodes, path) = j
      BY <3>3, <3>4 DEF Target, f
    <3>. QED
      BY <1>1, <1>2, <2>1, <2>3, <3>1, <3>4, <3>5 DEF SeekInv
  <2>4. CASE /\ Matches(t) /\ image[t].name # local.fname /\ local.dir # <<>>
             /\ Descend(t)
    <3>. DEFINE b == Bmap(local.name, local.dir)
                d == Tail(local.dir)
    <3>1. local' = [local EXCEPT !.name = b, !.dir = d, !.next = image[t].spec,
                                 !.first = FALSE, !.tmp = t]
          /\ exact' = (exact /\ String(b) = local.dir[1])
          /\ pc' = IF Len(local.dir) = 1 THEN "dir" ELSE "walk"
      BY <2>4 DEF Descend
    <3>. HIDE DEF b
    <3>2. /\ local.dir \in Seq(Seq(Chars)) /\ Len(local.dir) \in Nat /\ Len(local.dir) >= 1
          /\ Len(d) = Len(local.dir) - 1 /\ \A i \in 1..Len(d) : d[i] = local.dir[i + 1]
      <4>1. local.dir \in Seq(Seq(Chars))
        BY <1>1 DEF SeekBase, IInv, RomInv, CallInv
      <4>. QED
        BY <2>4, <4>1
    <3>. HIDE DEF d
    <3>3. local'.dir = d /\ local'.name = b /\ local'.next = image[t].spec /\ ~local'.first
      BY <3>1 DEF SeekBase, IInv, RomInv, LocalType
    <3>4. m + 1 \in 1..N /\ (m + 1) - 1 = m /\ m \in 1..(N - 1)
      BY <1>3, <1>7, <3>2
    <3>5. f[m] = j /\ j # 0
      BY <1>7, <2>1, <2>4 DEF Matches
    <3>6. Entered(nodes, j)
      BY <3>4, <3>5 DEF Straight, f
    <3>7. Onto(nodes, j, path[m + 1], BelowOff(nodes, j)) /\ Mask(BelowOff(nodes, j)) = BelowOff(nodes, j)
      <4>1. NodesOK(nodes, offset) /\ \A k \in 2..Len(nodes) : IsDir(nodes, nodes[k].dir)
        BY DEF SeekBase, IInv, PassInv, DirsInv
      <4>2. j \in 2..Len(nodes)
        BY DEF Kids
      <4>. QED
        BY <3>6, <4>1, <4>2, OntoFirst, MaskMultiple
    <3>8. AtOf(local') = BelowOff(nodes, j)
      BY <2>1, <3>3, <3>7 DEF AtOf
    <3>9. Len(local'.dir) = N - (m + 1) /\ \A i \in 1..Len(local'.dir) : local'.dir[i] = path[(m + 1) + i]
      <4>1. \A i \in 1..Len(local.dir) : local.dir[i] = path[m + i]
        BY <1>6 DEF Sought
      <4>2. \A i \in 1..Len(d) : i + 1 \in 1..Len(local.dir) /\ m + (i + 1) = (m + 1) + i
        BY <3>2
      <4>3. \A i \in 1..Len(d) : d[i] = path[(m + 1) + i]
        BY <3>2, <4>1, <4>2
      <4>4. Len(d) = N - (m + 1)
        BY <1>3, <1>7, <3>2
      <4>. QED
        BY <3>3, <4>3, <4>4
    <3>10. String(local'.name) = path[m + 1]
      <4>1. \A i \in 1..Len(local.dir) : local.dir[i] = path[m + i]
        BY <1>6 DEF Sought
      <4>2. 1 \in 1..Len(local.dir)
        BY <3>2
      <4>3. local.dir[1] = path[m + 1]
        BY <4>1, <4>2
      <4>. QED
        BY <3>1, <3>3, <4>3
    <3>11. Sought(nodes, path, local', m + 1)
      <4>1. Steps(nodes, path)[(m + 1) - 1] = j
        BY <3>4, <3>5 DEF f
      <4>. QED
        BY <3>5, <3>7, <3>8, <3>9, <3>10, <4>1 DEF Sought
    <3>12. pc' = "dir" => local'.dir = <<>>
      <4>1. ASSUME pc' = "dir" PROVE local'.dir = <<>>
        <5>1. Len(d) = 0 /\ d \in Seq(Seq(Chars))
          BY <2>4, <3>1, <3>2, <4>1 DEF d
        <5>. QED
          BY <3>3, <5>1
      <4>. QED
        BY <4>1
    <3>13. pc' \in {"walk", "dir"}
      BY <3>1
    <3>. QED
      BY <1>1, <1>2, <3>4, <3>11, <3>12, <3>13 DEF SeekInv
  <2>. QED
    BY <1>1, <1>9, <2>2, <2>3, <2>4 DEF Walk, t
<1>. QED
  BY <1>8, <1>9

LEMMA WalkDirSeek ==
  ASSUME SeekBase, SeekInv, WalkDir
  PROVE  SeekInv'
<1>. DEFINE t == Mask(Ntohl(local.next))
            f == Steps(nodes, path)
            N == Len(path)
<1>1. pc = "dir" /\ UNCHANGED imageVars /\ path' = path /\ nodes' = nodes /\ phase' = phase
      /\ image' = image /\ exact' = exact
  BY DEF WalkDir, imageVars
<1>2. path \in Paths /\ phase = "done" /\ ~local.first
  BY <1>1 DEF SeekBase, IInv, RomInv, CallInv, HeldInv
<1>3. path \in Seq(Seq(Chars)) /\ path # <<>> /\ N \in Nat /\ N >= 1
  BY <1>2, RomfsAssumption
<1>. SUFFICES ASSUME exact, Straight(nodes, path)
              PROVE  SeekInv'
  BY <1>1, <1>2 DEF SeekInv
<1>4. local.dir = <<>>
  BY <1>1, <1>3 DEF SeekInv
<1>5. t = AtOf(local)
  BY <1>2 DEF AtOf
<1>. HIDE DEF t, f
<1>6. PICK m \in 1..N :
        /\ Sought(nodes, path, local, m)
        /\ \/ t = 0 /\ Target(nodes, path) = 0
           \/ \E j \in Kids(nodes, f[m - 1]) :
                   /\ t = nodes[j].off /\ t \in 1..(StorageSize - 1) /\ t \in DOMAIN image \ {0}
                   /\ image[t].name = nodes[j].name
                   /\ Mask(Ntohl(image[t].next)) = NextOff(nodes, j)
                   /\ Ntohl(image[t].spec) = BelowOff(nodes, j)
                   /\ nodes[j].name = path[m] => f[m] = j /\ j # 0
                   /\ nodes[j].name # path[m] => Onto(nodes, f[m - 1], path[m], NextOff(nodes, j))
  BY <1>1, <1>3, <1>5, AtTurn DEF f
<1>7. String(local.name) = path[m] /\ m = N
  <2>1. Len(local.dir) = N - m /\ String(local.name) = path[m]
    BY <1>6 DEF Sought
  <2>. QED
    BY <1>3, <1>4, <2>1
<1>8. CASE t = 0 /\ Fail
  <2>1. Target(nodes, path) = 0
    BY <1>6, <1>8
  <2>. QED
    BY <1>1, <1>8, <2>1, SeekFail
<1>9. ASSUME Reads(t)
      PROVE  \E j \in Kids(nodes, f[m - 1]) :
                   /\ t = nodes[j].off
                   /\ image[t].name = nodes[j].name
                   /\ Mask(Ntohl(image[t].next)) = NextOff(nodes, j)
                   /\ nodes[j].name = path[m] => f[m] = j /\ j # 0
                   /\ nodes[j].name # path[m] => Onto(nodes, f[m - 1], path[m], NextOff(nodes, j))
  BY <1>6, <1>9 DEF Reads
<1>10. CASE /\ Reads(t) /\ Matches(t)
            /\ local' = [local EXCEPT !.tmp = t]
            /\ pc' = "found"
  <2>1. PICK j \in Kids(nodes, f[m - 1]) :
                   /\ t = nodes[j].off
                   /\ image[t].name = nodes[j].name
                   /\ nodes[j].name = path[m] => f[m] = j /\ j # 0
    BY <1>9, <1>10
  <2>2. local'.tmp = t
    BY <1>10 DEF SeekBase, IInv, RomInv, LocalType
  <2>3. Target(nodes, path) = j /\ j # 0
    BY <1>7, <1>10, <2>1 DEF Matches, Target, f
  <2>. QED
    BY <1>1, <1>2, <1>10, <2>1, <2>2, <2>3 DEF SeekInv
<1>11. CASE /\ Reads(t) /\ ~Matches(t)
            /\ local' = [local EXCEPT !.next = image[t].next, !.tmp = t]
            /\ pc' = pc
  <2>1. PICK j \in Kids(nodes, f[m - 1]) :
                   /\ t = nodes[j].off
                   /\ image[t].name = nodes[j].name
                   /\ Mask(Ntohl(image[t].next)) = NextOff(nodes, j)
                   /\ nodes[j].name # path[m] => Onto(nodes, f[m - 1], path[m], NextOff(nodes, j))
    BY <1>9, <1>11
  <2>2. local'.dir = local.dir /\ local'.name = local.name /\ AtOf(local') = NextOff(nodes, j)
    BY <1>2, <1>11, <2>1, NextTurn DEF SeekBase, IInv, RomInv
  <2>3. nodes[j].name # path[m]
    BY <1>7, <1>11, <2>1 DEF Matches
  <2>4. Sought(nodes, path, local', m)
    BY <1>6, <2>1, <2>2, <2>3 DEF Sought, f
  <2>. QED
    BY <1>1, <1>2, <1>4, <1>11, <2>2, <2>4 DEF SeekInv
<1>. QED
  BY <1>1, <1>8, <1>10, <1>11 DEF WalkDir, t

LEMMA FoundSeek ==
  ASSUME SeekBase, SeekInv, Found
  PROVE  SeekInv'
<1>1. pc = "found" /\ path' = path /\ nodes' = nodes /\ phase' = phase /\ image' = image
  BY DEF Found, imageVars
<1>2. path # <<>> /\ phase = "done" /\ Reads(local.tmp)
  BY <1>1, RomfsAssumption DEF SeekBase, IInv, RomInv, CallInv
<1>3. CASE Fail /\ exact' = FALSE
  BY <1>1, <1>2, <1>3 DEF SeekInv
<1>4. CASE /\ Return([name |-> image[local.tmp].name, daddr |-> local.tmp,
                      dsize |-> Ntohl(image[local.tmp].size)], {"inode", "name"})
           /\ exact' = exact
  <2>1. pc' = "idle" /\ inode'.daddr = local.tmp
    BY <1>4 DEF Return
  <2>2. inode' # None
    BY <1>2, <2>1 DEF None, Reads
  <2>3. exact /\ Straight(nodes, path) =>
          Target(nodes, path) # 0 /\ local.tmp = nodes[Target(nodes, path)].off
    BY <1>1, <1>2 DEF SeekInv
  <2>. QED
    BY <1>1, <1>2, <1>4, <2>1, <2>2, <2>3 DEF SeekInv
<1>. QED
  BY <1>3, <1>4 DEF Found

LEMMA SeekSteps ==
  ASSUME SeekBase, SeekInv, [Next]_vars
  PROVE  SeekInv'
<1>1. CASE ImageNext /\ UNCHANGED romVars
  <2>1. phase # "done"
    BY <1>1 DEF ImageNext, ScanRoot, ScanEntry, ScanLeave, DumpVolume, DumpNode, DumpEnd
  <2>2. path' = <<>>
    BY <1>1, <2>1 DEF SeekInv, romVars
  <2>. QED
    BY <2>2 DEF SeekInv
<1>2. CASE UNCHANGED vars
  <2>1. /\ path' = path /\ exact' = exact /\ nodes' = nodes /\ pc' = pc /\ local' = local
        /\ inode' = inode /\ phase' = phase
    BY <1>2 DEF vars, imageVars, romVars
  <2>. QED
    BY <2>1 DEF SeekInv
<1>. QED
  BY <1>1, <1>2, NameiSeek, WalkSeek, WalkDirSeek, FoundSeek DEF Next, RomfsNext

LEMMA AlwaysPlaced == Spec => [](IInv /\ LinksInv /\ DirsInv /\ FirstInv)
<1>1. RomfsInit => LinksInv /\ DirsInv /\ FirstInv
  <2>. SUFFICES ASSUME RomfsInit PROVE LinksInv /\ DirsInv /\ FirstInv
    OBVIOUS
  <2>1. image = <<>> /\ stack = <<>> /\ phase = "scan" /\ Len(nodes) = 1
    BY DEF RomfsInit, Init
  <2>2. DOMAIN image = {} /\ 2..Len(nodes) = {} /\ 1..Len(stack) = {}
    BY <2>1
  <2>. QED
    BY <2>1, <2>2 DEF LinksInv, DirsInv, FirstInv
<1>2. ASSUME IInv, LinksInv, DirsInv, FirstInv, [Next]_vars
      PROVE  LinksInv' /\ DirsInv' /\ FirstInv'
  <2>1. CASE ImageNext
    BY <1>2, <2>1, LinksSteps, DirsSteps DEF IInv
  <2>2. CASE UNCHANGED imageVars
    BY <1>2, <2>2 DEF imageVars, LinksInv, DirsInv, FirstInv, Mask, Ntohl
  <2>. QED
    BY <1>2, <2>1, <2>2 DEF Next, RomfsNext, Namei, Walk, WalkDir, Found, vars
<1>. QED
  BY <1>1, <1>2, AlwaysIInv, PTL DEF Spec

-----------------------------------------------------------------------------
(* What the image must show: of a host alone. *)

EntryIn(h) == [name : Seq(Chars) \ {<<>>}, ino : DOMAIN h]
FollowedIn(h, e) == e.name[1] = "@" /\ h[e.ino].kind = "lnk"
NameIn(h, e) == IF FollowedIn(h, e) THEN Tail(e.name) ELSE e.name
FileIn(h, e) == IF FollowedIn(h, e) THEN h[e.ino].to ELSE e.ino
TakenIn(h, e) ==
  /\ e.name \notin Excludes
  /\ FileIn(h, e) # NoFile
  /\ h[FileIn(h, e)].kind = "lnk" \/ h[FileIn(h, e)].readable
KeptIn(h, d, e) == TakenIn(h, e) /\ (d = Root => e.name \notin {Dot, DotDot})

LEMMA InHost ==
  ASSUME NEW e
  PROVE  /\ Name(e) = NameIn(host, e) /\ File(e) = FileIn(host, e)
         /\ Taken(e) <=> TakenIn(host, e)
         /\ Followed(e) <=> FollowedIn(host, e)
BY Zenon DEF Name, NameIn, File, FileIn, Taken, TakenIn, Followed, FollowedIn

\* Listed, entry by entry.
FirstTwo == <<[name |-> Dot, ino |-> Root], [name |-> DotDot, ino |-> Outside]>>
Listing(h, d) ==
  LET list[k \in 0..Len(h[d].entries)] ==
        IF k # 0
        THEN IF TakenIn(h, h[d].entries[k]) /\ (d = Root => h[d].entries[k].name \notin {Dot, DotDot})
             THEN Append(list[k - 1], h[d].entries[k])
             ELSE list[k - 1]
        ELSE IF d = Root THEN <<[name |-> Dot, ino |-> Root], [name |-> DotDot, ino |-> Outside]>>
        ELSE <<>>
  IN  list

LEMMA ListedListing ==
  ASSUME NEW d
  PROVE  Listed(d) = Listing(host, d)[Len(host[d].entries)]
<1>1. \A e : Taken(e) <=> TakenIn(host, e)
  BY InHost
<1>. QED
  BY <1>1, Zenon DEF Listed, Listing

LEMMA EntriesTyped ==
  ASSUME NEW h \in Hosts, NEW d \in DOMAIN h
  PROVE  /\ h[d].entries \in Seq(EntryIn(h)) /\ Len(h[d].entries) \in Nat
         /\ \A k \in 1..Len(h[d].entries) : h[d].entries[k] \in EntryIn(h)
<1>1. h[d].entries \in EntriesOf(h)
  BY HostFacts
<1>2. h[d].entries \in Seq(EntryIn(h))
  BY <1>1 DEF EntriesOf, EntryIn
<1>. QED
  BY <1>2

LEMMA ListingFacts ==
  ASSUME NEW h \in Hosts, NEW d \in DOMAIN h
  PROVE  LET all == h[d].entries
             list == Listing(h, d)
         IN  /\ list[0] = IF d = Root THEN FirstTwo ELSE <<>>
             /\ \A k \in 0..Len(all) : list[k] \in Seq(EntryIn(h))
             /\ \A k \in 1..Len(all) :
                  list[k] = IF KeptIn(h, d, all[k]) THEN Append(list[k - 1], all[k]) ELSE list[k - 1]
<1>. DEFINE all == h[d].entries
            n == Len(all)
            S == Seq(EntryIn(h))
            start == IF d = Root THEN FirstTwo ELSE <<>>
            step == [x \in (1..n) \X S |->
                       IF KeptIn(h, d, all[x[1]]) THEN Append(x[2], all[x[1]]) ELSE x[2]]
            value(g, k) ==
              IF k # 0
              THEN IF TakenIn(h, all[k]) /\ (d = Root => all[k].name \notin {Dot, DotDot})
                   THEN Append(g[k - 1], all[k]) ELSE g[k - 1]
              ELSE IF d = Root THEN <<[name |-> Dot, ino |-> Root], [name |-> DotDot, ino |-> Outside]>>
              ELSE <<>>
            next(g, k) == IF KeptIn(h, d, all[k]) THEN Append(g[k - 1], all[k]) ELSE g[k - 1]
            Good(g) == g = [k \in 0..n |-> value(g, k)]
<1>1. n \in Nat /\ \A k \in 1..n : all[k] \in EntryIn(h)
  BY EntriesTyped
<1>2. start \in S
  <2>1. Root \in DOMAIN h /\ Outside \in DOMAIN h
    BY HostFacts
  <2>2. Dot \in Seq(Chars) \ {<<>>} /\ DotDot \in Seq(Chars) \ {<<>>}
    BY RomImageAssumption DEF Dot, DotDot
  <2>3. [name |-> Dot, ino |-> Root] \in EntryIn(h) /\ [name |-> DotDot, ino |-> Outside] \in EntryIn(h)
    BY <2>1, <2>2 DEF EntryIn
  <2>4. FirstTwo \in S /\ <<>> \in S
    BY <2>3 DEF FirstTwo
  <2>. QED
    BY <2>4
<1>3. \A g : value(g, 0) = start /\ \A k \in 1..n : value(g, k) = next(g, k)
  <2>. SUFFICES ASSUME NEW g PROVE value(g, 0) = start /\ \A k \in 1..n : value(g, k) = next(g, k)
    OBVIOUS
  <2>1. value(g, 0) = start
    BY DEF FirstTwo
  <2>2. \A k \in 1..n : k # 0
    BY <1>1
  <2>3. \A k \in 1..n : value(g, k) = next(g, k)
    BY <2>2, Zenon DEF KeptIn
  <2>. QED
    BY <2>1, <2>3
<1>. HIDE DEF all, start
<1>4. Stays(step, n, S)
  <2>. SUFFICES ASSUME NEW k \in 1..n, NEW x \in S PROVE step[<<k, x>>] \in S
    BY DEF Stays
  <2>. HIDE DEF n
  <2>1. step[<<k, x>>] = IF KeptIn(h, d, all[k]) THEN Append(x, all[k]) ELSE x
    OBVIOUS
  <2>2. all[k] \in EntryIn(h)
    BY <1>1
  <2>. HIDE DEF step
  <2>. QED
    BY <2>1, <2>2
<1>. HIDE DEF n, S, step
<1>5. PICK g : Follows(g, step, n, start, S)
  BY <1>1, <1>2, <1>4, StepByStep
<1>6. g \in [0..n -> S] /\ g[0] = start /\ \A k \in 1..n : g[k] = step[<<k, g[k - 1]>>]
  BY <1>5 DEF Follows
<1>7. \A k \in 1..n : g[k] = next(g, k)
  <2>. TAKE k \in 1..n
  <2>1. k - 1 \in 0..n
    BY <1>1
  <2>2. g[k - 1] \in S
    BY <1>6, <2>1
  <2>3. step[<<k, g[k - 1]>>] = next(g, k)
    BY <2>2 DEF step
  <2>. QED
    BY <1>6, <2>3
<1>8. Good(g)
  <2>1. g = [k \in 0..n |-> g[k]]
    BY <1>6
  <2>2. \A k \in 0..n : g[k] = value(g, k)
    <3>. TAKE k \in 0..n
    <3>1. k = 0 \/ k \in 1..n
      BY <1>1
    <3>. HIDE DEF value, next
    <3>. QED
      BY <1>3, <1>6, <1>7, <3>1
  <2>. HIDE DEF value
  <2>. QED
    BY <2>1, <2>2
<1>. DEFINE list == Listing(h, d)
<1>9. list = CHOOSE f : Good(f)
  BY Zenon DEF Listing, n, all
<1>10. Good(list)
  <2>. HIDE DEF Good, list
  <2>. QED
    BY <1>8, <1>9
<1>. HIDE DEF list
<1>11. \A k \in 0..n : list[k] = value(list, k)
  <2>. HIDE DEF value
  <2>. QED
    BY <1>10
<1>. HIDE DEF value, next
<1>12. list[0] = start /\ \A k \in 1..n : list[k] = next(list, k)
  <2>1. 0 \in 0..n /\ \A k \in 1..n : k \in 0..n
    BY <1>1
  <2>. QED
    BY <1>3, <1>11, <2>1
<1>13. \A k \in 0..n : list[k] \in S
  <2>. DEFINE T == {k \in 0..n : list[k] \in S}
  <2>1. ASSUME NEW k \in 0..n, \A j \in 0..(k - 1) : j \in T
        PROVE  k \in T
    <3>1. CASE k = 0
      BY <1>2, <1>12, <3>1
    <3>2. CASE k # 0
      <4>1. k - 1 \in T /\ k \in 1..n
        BY <1>1, <2>1, <3>2
      <4>2. list[k - 1] \in S /\ all[k] \in EntryIn(h)
        BY <1>1, <4>1
      <4>3. list[k] = IF KeptIn(h, d, all[k]) THEN Append(list[k - 1], all[k]) ELSE list[k - 1]
        BY <1>12, <4>1 DEF next
      <4>. DEFINE E == EntryIn(h)
                  u == list[k - 1]
                  v == all[k]
      <4>4. u \in Seq(E) /\ v \in E
        BY <4>2 DEF S
      <4>. HIDE DEF E, u, v
      <4>5. Append(u, v) \in Seq(E) /\ u \in Seq(E)
        BY <4>4
      <4>6. list[k] \in S
        BY <4>3, <4>5 DEF S, E, u, v
      <4>. QED
        BY <4>6
    <3>. QED
      BY <3>1, <3>2
  <2>. HIDE DEF T
  <2>2. \A k \in 0..n : k \in T
    BY <1>1, <2>1, UpTo
  <2>. QED
    BY <2>2 DEF T
<1>. QED
  BY <1>12, <1>13 DEF list, next, all, n, S, start

-----------------------------------------------------------------------------
(* What the nodes show of the host. *)

\* The nodes with a list of their own, whose directory that is, and where its ".."
\* leads; the root's list is the volume's.
Owns(ns, i) == i = 1 \/ (i >= 4 /\ ns[i].kind = "dir" /\ ns[i].link = 0)
DirOf(ns, i) == IF i = 1 THEN Root ELSE ns[i].ino
Up(ns, i) == IF i = 1 THEN 2 ELSE Owner(ns[i].dir)

\* Where a header leads, followed as a hard link; j is the header of entry e.
Lead(ns, j) == IF ns[j].link = 0 THEN j ELSE ns[j].link
Like(ns, h, i, j, e) ==
  /\ ns[j].name = NameIn(h, e)
  /\ NameIn(h, e) = Dot => Lead(ns, j) = Owner(i)
  /\ NameIn(h, e) = DotDot => Lead(ns, j) = Up(ns, i)
  /\ NameIn(h, e) \notin {Dot, DotDot} =>
       ns[Lead(ns, j)].ino = FileIn(h, e) /\ ns[Lead(ns, j)].link = 0

\* The list of i is that of the first m entries of its directory.
Lists(ns, h, i, s, w) ==
  InOrder(s, Kids(ns, i)) /\ Len(s) = Len(w) /\ \A k \in 1..Len(s) : Like(ns, h, i, s[k], w[k])
Shown(ns, h, i, m) == \E s : Lists(ns, h, i, s, Listing(h, DirOf(ns, i))[m])

\* Links lead back, and to a node with a header of a file.
Back(ns) == \A j \in 2..Len(ns) : ns[j].link \in (0..(j - 1)) \ {1}

\* One node more.
Grown(ns, n, ms) ==
  ns \in Seq(Filenodes) /\ Len(ns) >= 1 /\ n \in Filenodes /\ ms = Append(ns, n)

LEMMA GrownFacts ==
  ASSUME NEW ns, NEW n, NEW ms, Grown(ns, n, ms)
  PROVE  /\ ns \in Seq(Filenodes) /\ Len(ns) \in Nat /\ Len(ns) >= 1 /\ n \in Filenodes
         /\ Len(ms) = Len(ns) + 1 /\ ms[Len(ns) + 1] = n /\ \A j \in 1..Len(ns) : ms[j] = ns[j]
BY AppendFacts DEF Grown

LEMMA KidsMore ==
  ASSUME NEW ns, NEW n, NEW ms, Grown(ns, n, ms), NEW i
  PROVE  /\ n.dir = i => Kids(ms, i) = Kids(ns, i) \cup {Len(ns) + 1}
         /\ n.dir # i => Kids(ms, i) = Kids(ns, i)
<1>1. Len(ns) \in Nat /\ Len(ns) >= 1
  BY GrownFacts
<1>2. Len(ms) = Len(ns) + 1 /\ ms[Len(ns) + 1] = n /\ \A j \in 1..Len(ns) : ms[j] = ns[j]
  BY GrownFacts
<1>3. 2..Len(ms) = (2..Len(ns)) \cup {Len(ns) + 1} /\ \A j \in 2..Len(ns) : j \in 1..Len(ns) /\ j # Len(ns) + 1
  BY <1>1, <1>2
<1>. QED
  BY <1>2, <1>3 DEF Kids

LEMMA LikeMore ==
  ASSUME NEW ns, NEW n, NEW ms, Grown(ns, n, ms), Back(ns),
         NEW h, NEW i \in 1..Len(ns), NEW j \in 2..Len(ns), NEW e, Like(ns, h, i, j, e)
  PROVE  Like(ms, h, i, j, e)
<1>1. Len(ns) \in Nat /\ Len(ms) = Len(ns) + 1 /\ \A k \in 1..Len(ns) : ms[k] = ns[k]
  BY GrownFacts
<1>2. ms[i] = ns[i] /\ ms[j] = ns[j]
  <2>1. j \in 1..Len(ns)
    BY <1>1
  <2>. QED
    BY <1>1, <2>1
<1>3. Lead(ns, j) \in 1..Len(ns)
  <2>1. ns[j].link \in 0..(j - 1)
    BY DEF Back
  <2>. QED
    BY <2>1 DEF Lead
<1>4. Lead(ms, j) = Lead(ns, j) /\ ms[Lead(ms, j)] = ns[Lead(ns, j)] /\ Up(ms, i) = Up(ns, i)
  BY <1>1, <1>2, <1>3 DEF Lead, Up
<1>. QED
  BY <1>2, <1>4 DEF Like

LEMMA DirMore ==
  ASSUME NEW ns, NEW n, NEW ms, Grown(ns, n, ms), NEW i \in 1..Len(ns)
  PROVE  /\ DirOf(ms, i) = DirOf(ns, i) /\ Up(ms, i) = Up(ns, i)
         /\ Owns(ms, i) <=> Owns(ns, i)
<1>1. ms[i] = ns[i]
  BY GrownFacts
<1>. QED
  BY <1>1 DEF DirOf, Up, Owns

\* A node in another list changes nothing.
LEMMA ShownMore ==
  ASSUME NEW ns, NEW n, NEW ms, Grown(ns, n, ms), Back(ns),
         NEW h, NEW i \in 1..Len(ns), n.dir # i, NEW m, Shown(ns, h, i, m)
  PROVE  Shown(ms, h, i, m)
<1>. DEFINE w == Listing(h, DirOf(ns, i))[m]
<1>1. PICK s : Lists(ns, h, i, s, w)
  BY DEF Shown
<1>2. DirOf(ms, i) = DirOf(ns, i)
  BY DirMore
<1>3. Kids(ms, i) = Kids(ns, i)
  BY KidsMore
<1>. HIDE DEF w
<1>4. \A k \in 1..Len(s) : s[k] \in 2..Len(ns)
  BY <1>1 DEF Lists, InOrder, Kids
<1>5. \A k \in 1..Len(s) : Like(ms, h, i, s[k], w[k])
  BY <1>1, <1>4, LikeMore DEF Lists
<1>6. Lists(ms, h, i, s, w)
  BY <1>1, <1>3, <1>5 DEF Lists
<1>. QED
  BY <1>2, <1>6 DEF Shown, w

\* The next entry has got its node.
LEMMA ShownNext ==
  ASSUME NEW ns, NEW n, NEW ms, Grown(ns, n, ms), Back(ns),
         NEW h \in Hosts, NEW i \in 1..Len(ns), n.dir = i, DirOf(ns, i) \in DOMAIN h,
         NEW m \in Nat, m + 1 <= Len(h[DirOf(ns, i)].entries), Shown(ns, h, i, m),
         NEW e, e = h[DirOf(ns, i)].entries[m + 1], KeptIn(h, DirOf(ns, i), e),
         Like(ms, h, i, Len(ns) + 1, e)
  PROVE  Shown(ms, h, i, m + 1)
<1>. DEFINE d == DirOf(ns, i)
            list == Listing(h, d)
            L == Len(ns) + 1
            E == EntryIn(h)
<1>1. PICK s : Lists(ns, h, i, s, list[m])
  BY DEF Shown
<1>2. DirOf(ms, i) = d /\ Len(ns) \in Nat /\ L \in Nat
  BY DirMore, GrownFacts
<1>3. Kids(ms, i) = Kids(ns, i) \cup {L}
  BY KidsMore
<1>4. Len(h[d].entries) \in Nat /\ m \in 0..Len(h[d].entries) /\ m + 1 \in 1..Len(h[d].entries)
      /\ (m + 1) - 1 = m
  BY EntriesTyped
<1>5. /\ list[m] \in Seq(E) /\ e \in E
      /\ list[m + 1] = IF KeptIn(h, d, e) THEN Append(list[m], e) ELSE list[m]
  BY <1>4, ListingFacts, EntriesTyped
<1>. DEFINE w == list[m]
            x == list[m + 1]
            t == Append(s, L)
<1>. HIDE DEF d, list, E
<1>6. w \in Seq(E) /\ x = Append(w, e) /\ e \in E
  BY <1>5 DEF d
<1>7. InOrder(s, Kids(ns, i)) /\ Len(s) = Len(w) /\ \A k \in 1..Len(s) : Like(ns, h, i, s[k], w[k])
  BY <1>1 DEF Lists
<1>. HIDE DEF w, x
<1>8. Len(x) = Len(w) + 1 /\ x[Len(w) + 1] = e /\ \A k \in 1..Len(w) : x[k] = w[k]
  BY <1>6, AppendFacts
<1>9. s \in Seq(Nat) /\ \A k \in 1..Len(s) : s[k] \in 2..Len(ns)
  BY <1>7 DEF InOrder, Kids
<1>. HIDE DEF L
<1>10. Len(t) = Len(s) + 1 /\ t[Len(s) + 1] = L /\ \A k \in 1..Len(s) : t[k] = s[k]
  BY <1>2, <1>9, AppendFacts
<1>11. InOrder(t, Kids(ms, i))
  <2>1. \A j \in Kids(ns, i) : j < L
    BY <1>2 DEF Kids, L
  <2>. QED
    BY <1>2, <1>3, <1>7, <2>1, InOrderAppend
<1>. HIDE DEF t
<1>12. Len(s) \in Nat
  BY <1>9
<1>13. \A k \in 1..Len(t) : Like(ms, h, i, t[k], x[k])
  <2>. TAKE k \in 1..Len(t)
  <2>1. CASE k = Len(s) + 1
    BY <1>7, <1>8, <1>10, <2>1 DEF L
  <2>2. CASE k # Len(s) + 1
    <3>1. k \in 1..Len(s)
      BY <1>10, <1>12, <2>2
    <3>2. Like(ns, h, i, s[k], w[k]) /\ s[k] \in 2..Len(ns) /\ t[k] = s[k] /\ x[k] = w[k]
      BY <1>7, <1>8, <1>9, <1>10, <3>1
    <3>. QED
      BY <3>2, LikeMore
  <2>. QED
    BY <2>1, <2>2
<1>14. Lists(ms, h, i, t, x)
  BY <1>7, <1>8, <1>10, <1>11, <1>13 DEF Lists
<1>. QED
  BY <1>2, <1>14 DEF Shown, x, list, d

\* The next entry gets none.
LEMMA ShownSkip ==
  ASSUME NEW ns, NEW h \in Hosts, NEW i, DirOf(ns, i) \in DOMAIN h,
         NEW m \in Nat, m + 1 <= Len(h[DirOf(ns, i)].entries), Shown(ns, h, i, m),
         ~KeptIn(h, DirOf(ns, i), h[DirOf(ns, i)].entries[m + 1])
  PROVE  Shown(ns, h, i, m + 1)
<1>. DEFINE d == DirOf(ns, i)
            list == Listing(h, d)
<1>1. Len(h[d].entries) \in Nat /\ m + 1 \in 1..Len(h[d].entries) /\ (m + 1) - 1 = m
  BY EntriesTyped
<1>2. list[m + 1] = list[m]
  BY <1>1, ListingFacts
<1>. QED
  BY <1>2 DEF Shown

\* A directory that was just entered.
LEMMA ShownNone ==
  ASSUME NEW ns, NEW h \in Hosts, NEW i, DirOf(ns, i) \in DOMAIN h, DirOf(ns, i) # Root, Kids(ns, i) = {}
  PROVE  Shown(ns, h, i, 0)
<1>. DEFINE d == DirOf(ns, i)
<1>1. Listing(h, d)[0] = <<>>
  BY ListingFacts
<1>2. Lists(ns, h, i, <<>>, <<>>)
  BY InOrderEmpty DEF Lists
<1>. QED
  BY <1>1, <1>2 DEF Shown

-----------------------------------------------------------------------------
(* Which nodes are links, and to what. *)

Has(ns, x) == \E k \in 2..Len(ns) : ns[k].ino = x
Before(ns, j, x) == \E k \in 2..(j - 1) : ns[k].ino = x
UpKnown(ns, h, x) == \A f \in Range(h[x].entries) : f.name = DotDot => Has(ns, f.ino)

RootMade(ns) ==
  /\ Len(ns) >= 3
  /\ ns[2].name = Dot /\ ns[2].ino = Root /\ ns[2].link = 0 /\ ns[2].dir = 1
  /\ ns[3].name = DotDot /\ ns[3].ino = Outside /\ ns[3].link = 2 /\ ns[3].dir = 1

\* The first node of a file is no link, and every other one is; of a directory that is
\* entered, the one it lies in has a node.
Made(ns, h, j) ==
  /\ ns[j].ino \in DOMAIN h
  /\ ns[j].link \in (0..(j - 1)) \ {1}
  /\ (ns[j].link = 0) <=> ~Before(ns, j, ns[j].ino)
  /\ Owns(ns, j) => h[ns[j].ino].kind = "dir" /\ h[ns[j].ino].readable /\ UpKnown(ns, h, ns[j].ino)

AllMade(ns, h) == RootMade(ns) /\ \A j \in 4..Len(ns) : Made(ns, h, j)

LEMMA OwnerFacts ==
  ASSUME NEW ns, NEW h \in Hosts, ns \in Seq(Filenodes), AllMade(ns, h)
  PROVE  /\ Back(ns)
         /\ \A i \in 1..Len(ns) : Owns(ns, i) =>
              /\ DirOf(ns, i) \in DOMAIN h
              /\ (DirOf(ns, i) = Root) <=> (i = 1)
              /\ Owner(i) \in 2..Len(ns) /\ ns[Owner(i)].ino = DirOf(ns, i)
<1>1. Len(ns) \in Nat /\ Len(ns) >= 3
  BY DEF AllMade, RootMade
<1>2. \A j \in 2..Len(ns) : j = 2 \/ j = 3 \/ j \in 4..Len(ns)
  BY <1>1
<1>3. Back(ns)
  <2>. SUFFICES ASSUME NEW j \in 2..Len(ns) PROVE ns[j].link \in (0..(j - 1)) \ {1}
    BY DEF Back
  <2>1. CASE j = 2
    BY <2>1 DEF AllMade, RootMade
  <2>2. CASE j = 3
    BY <2>2 DEF AllMade, RootMade
  <2>3. CASE j \in 4..Len(ns)
    BY <2>3 DEF AllMade, Made
  <2>. QED
    BY <1>2, <2>1, <2>2, <2>3
<1>4. ASSUME NEW i \in 1..Len(ns), Owns(ns, i)
      PROVE  /\ DirOf(ns, i) \in DOMAIN h
             /\ (DirOf(ns, i) = Root) <=> (i = 1)
             /\ Owner(i) \in 2..Len(ns) /\ ns[Owner(i)].ino = DirOf(ns, i)
  <2>1. CASE i = 1
    <3>1. Root \in DOMAIN h
      BY HostFacts
    <3>2. ns[2].ino = Root /\ 2 \in 2..Len(ns)
      BY <1>1 DEF AllMade, RootMade
    <3>. QED
      BY <2>1, <3>1, <3>2 DEF DirOf, Owner
  <2>2. CASE i # 1
    <3>1. i \in 4..Len(ns) /\ ns[i].link = 0 /\ i \in 2..Len(ns)
      BY <1>1, <1>4, <2>2 DEF Owns
    <3>2. ns[i].ino \in DOMAIN h /\ ~Before(ns, i, ns[i].ino)
      BY <3>1 DEF AllMade, Made
    <3>3. ns[i].ino # Root
      <4>1. 2 \in 2..(i - 1) /\ ns[2].ino = Root
        BY <3>1 DEF AllMade, RootMade
      <4>. QED
        BY <3>2, <4>1 DEF Before
    <3>. QED
      BY <2>2, <3>1, <3>2, <3>3 DEF DirOf, Owner
  <2>. QED
    BY <2>1, <2>2
<1>. QED
  BY <1>3, <1>4

\* findnode comes to a node that is no link.
LEMMA FindFirst ==
  ASSUME NEW h, AllMade(nodes, h), Len(nodes) \in Nat, NEW x
  PROVE  /\ (FindNode(x) = 0) <=> ~Has(nodes, x)
         /\ FindNode(x) \in 0..Len(nodes)
         /\ Has(nodes, x) => /\ FindNode(x) \in 2..Len(nodes) /\ nodes[FindNode(x)].ino = x
                             /\ x # Outside => nodes[FindNode(x)].link = 0
<1>. DEFINE found == {i \in 2..Len(nodes) : nodes[i].ino = x}
            k == FindNode(x)
<1>1. k = IF found = {} THEN 0 ELSE Least(found)
  BY DEF FindNode, Least
<1>2. found \in SUBSET Nat /\ (found = {} <=> ~Has(nodes, x))
  BY DEF Has
<1>3. CASE found = {}
  BY <1>1, <1>2, <1>3
<1>4. CASE found # {}
  <2>. HIDE DEF found
  <2>1. k \in found /\ \A j \in found : k <= j
    BY <1>1, <1>2, <1>4, LeastFacts
  <2>. HIDE DEF k
  <2>2. k \in 2..Len(nodes) /\ nodes[k].ino = x /\ k # 0 /\ k \in 0..Len(nodes)
    BY <2>1 DEF found
  <2>3. ASSUME x # Outside
        PROVE  nodes[k].link = 0
    <3>1. k # 3
      BY <2>2, <2>3 DEF AllMade, RootMade
    <3>2. CASE k = 2
      BY <3>2 DEF AllMade, RootMade
    <3>3. CASE k # 2
      <4>1. k \in 4..Len(nodes)
        BY <2>2, <3>1, <3>3
      <4>2. ~Before(nodes, k, x)
        <5>1. \A j \in 2..(k - 1) : nodes[j].ino # x
          <6>. TAKE j \in 2..(k - 1)
          <6>1. j \in 2..Len(nodes) /\ ~(k <= j)
            BY <2>2
          <6>. QED
            BY <2>1, <6>1 DEF found
        <5>. QED
          BY <5>1 DEF Before
      <4>. QED
        BY <2>2, <4>1, <4>2 DEF AllMade, Made
    <3>. QED
      BY <3>2, <3>3
  <2>. QED
    BY <1>2, <1>4, <2>2, <2>3 DEF k
<1>. QED
  BY <1>3, <1>4

LEMMA MadeMore ==
  ASSUME NEW ns, NEW n, NEW ms, Grown(ns, n, ms), NEW h, AllMade(ns, h), Made(ms, h, Len(ns) + 1)
  PROVE  AllMade(ms, h)
<1>. DEFINE L == Len(ns)
<1>1. L \in Nat /\ Len(ms) = L + 1 /\ ms[L + 1] = n /\ \A j \in 1..L : ms[j] = ns[j]
  BY GrownFacts
<1>2. L >= 3
  BY DEF AllMade, RootMade
<1>3. RootMade(ms)
  <2>1. 2 \in 1..L /\ 3 \in 1..L /\ Len(ms) >= 3
    BY <1>1, <1>2
  <2>2. ms[2] = ns[2] /\ ms[3] = ns[3]
    BY <1>1, <2>1
  <2>. QED
    BY <2>1, <2>2 DEF AllMade, RootMade
<1>4. \A x : Has(ns, x) => Has(ms, x)
  <2>1. \A k \in 2..L : k \in 2..Len(ms) /\ ms[k] = ns[k]
    BY <1>1
  <2>. QED
    BY <2>1 DEF Has
<1>5. ASSUME NEW j \in 4..L
      PROVE  Made(ms, h, j)
  <2>1. Made(ns, h, j) /\ ms[j] = ns[j]
    <3>1. j \in 1..L
      BY <1>1
    <3>. QED
      BY <1>1, <3>1 DEF AllMade
  <2>2. \A x : Before(ms, j, x) <=> Before(ns, j, x)
    <3>1. \A k \in 2..(j - 1) : ms[k] = ns[k]
      BY <1>1
    <3>. QED
      BY <3>1 DEF Before
  <2>3. \A x : UpKnown(ns, h, x) => UpKnown(ms, h, x)
    BY <1>4 DEF UpKnown
  <2>4. Owns(ms, j) <=> Owns(ns, j)
    BY <2>1 DEF Owns
  <2>. QED
    BY <2>1, <2>2, <2>3, <2>4 DEF Made
<1>6. \A j \in 4..Len(ms) : j \in 4..L \/ j = L + 1
  BY <1>1
<1>. QED
  BY <1>3, <1>5, <1>6 DEF AllMade

-----------------------------------------------------------------------------
(* An entry that has got its node. *)

\* An "@" entry gives its name to a link that neither "." nor ".." nor the outside is
\* reached by, and to a directory only after the one that lies in.
Late(e) ==
  /\ Name(e) \notin {Dot, DotDot}
  /\ File(e) # Outside
  /\ host[File(e)].kind = "dir" /\ FindNode(File(e)) = 0 =>
       \A f \in Range(host[File(e)].entries) : f.name = DotDot => FindNode(f.ino) # 0

LinksLate ==
  phase = "scan" /\ stack # <<>> /\ stack[1].left # <<>> =>
    LET e == Head(stack[1].left)
    IN  Followed(e) /\ Taken(e) => Late(e)

LEMMA HostTree ==
  ASSUME NEW h \in Hosts, NEW d \in DOMAIN h, NEW e \in Range(h[d].entries)
  PROVE  /\ e.name = Dot => e.ino = d
         /\ e.name \notin {Dot, DotDot} =>
              e.ino # Outside /\ \A f \in Range(h[e.ino].entries) : f.name = DotDot => f.ino = d
BY TreeAssumption

\* The last node is made of a file; before it lie the others.
LEMMA BeforeLast ==
  ASSUME NEW ns, NEW n, NEW ms, Grown(ns, n, ms), NEW x
  PROVE  /\ Before(ms, Len(ns) + 1, x) <=> Has(ns, x)
         /\ Has(ns, x) => Has(ms, x)
<1>1. Len(ns) \in Nat /\ Len(ms) = Len(ns) + 1 /\ \A j \in 1..Len(ns) : ms[j] = ns[j]
  BY GrownFacts
<1>2. (Len(ns) + 1) - 1 = Len(ns) /\ \A k \in 2..Len(ns) : ms[k] = ns[k] /\ k \in 2..Len(ms)
  BY <1>1
<1>. QED
  BY <1>2 DEF Before, Has

\* "." and ".." are links to what was made before.
LEMMA DotNode ==
  ASSUME NEW ns, NEW n, NEW ms, Grown(ns, n, ms), Len(ns) >= 3,
         NEW h, NEW i \in 1..Len(ns), NEW e, n.name = NameIn(h, e),
         n.ino \in DOMAIN h, n.link \in 2..Len(ns), Has(ns, n.ino),
         \/ NameIn(h, e) = Dot /\ n.link = Owner(i)
         \/ NameIn(h, e) = DotDot /\ n.link = Up(ns, i)
  PROVE  Made(ms, h, Len(ns) + 1) /\ Like(ms, h, i, Len(ns) + 1, e)
<1>. DEFINE L == Len(ns)
<1>1. L \in Nat /\ ms[L + 1] = n /\ Up(ms, i) = Up(ns, i)
  BY GrownFacts, DirMore
<1>2. Before(ms, L + 1, n.ino)
  BY BeforeLast
<1>3. n.link # 0 /\ n.link \in (0..((L + 1) - 1)) \ {1} /\ L + 1 # 1
  BY <1>1
<1>4. ~Owns(ms, L + 1) /\ Lead(ms, L + 1) = n.link
  BY <1>1, <1>3 DEF Owns, Lead
<1>5. Made(ms, h, L + 1)
  BY <1>1, <1>2, <1>3, <1>4 DEF Made
<1>6. Dot # DotDot
  BY DEF Dot, DotDot
<1>7. Like(ms, h, i, L + 1, e)
  BY <1>1, <1>4, <1>6 DEF Like
<1>. QED
  BY <1>5, <1>7

\* Any other is its file's first node or a link to that one.
LEMMA FileNode ==
  ASSUME NEW ns, NEW n, NEW ms, Grown(ns, n, ms), Len(ns) >= 3, NEW h, NEW i \in 1..Len(ns),
         NEW e, n.name = NameIn(h, e), n.ino = FileIn(h, e), n.ino \in DOMAIN h, n.kind = h[n.ino].kind,
         NameIn(h, e) \notin {Dot, DotDot}, TakenIn(h, e), n.link \in (0..Len(ns)) \ {1},
         (n.link = 0) <=> ~Has(ns, n.ino),
         n.link # 0 => ns[n.link].ino = n.ino /\ ns[n.link].link = 0,
         n.kind = "dir" /\ n.link = 0 => UpKnown(ns, h, n.ino)
  PROVE  Made(ms, h, Len(ns) + 1) /\ Like(ms, h, i, Len(ns) + 1, e)
<1>. DEFINE L == Len(ns)
<1>1. L \in Nat /\ ms[L + 1] = n /\ (L + 1) - 1 = L /\ L + 1 # 1 /\ \A j \in 1..L : ms[j] = ns[j]
  BY GrownFacts
<1>2. \A x : (Before(ms, L + 1, x) <=> Has(ns, x)) /\ (Has(ns, x) => Has(ms, x))
  BY BeforeLast
<1>3. n.kind = "dir" => h[n.ino].readable
  BY DEF TakenIn
<1>4. UpKnown(ns, h, n.ino) => UpKnown(ms, h, n.ino)
  BY <1>2 DEF UpKnown
<1>5. Owns(ms, L + 1) => n.kind = "dir" /\ n.link = 0
  BY <1>1 DEF Owns
<1>6. Made(ms, h, L + 1)
  BY <1>1, <1>2, <1>3, <1>4, <1>5 DEF Made
<1>7. ms[Lead(ms, L + 1)].ino = n.ino /\ ms[Lead(ms, L + 1)].link = 0
  <2>1. CASE n.link = 0
    BY <1>1, <2>1 DEF Lead
  <2>2. CASE n.link # 0
    <3>1. Lead(ms, L + 1) = n.link /\ n.link \in 1..L
      BY <1>1, <2>2 DEF Lead
    <3>. QED
      BY <1>1, <2>2, <3>1
  <2>. QED
    BY <2>1, <2>2
<1>8. Like(ms, h, i, L + 1, e)
  BY <1>1, <1>7 DEF Like
<1>. QED
  BY <1>6, <1>8

LEMMA NewNode ==
  ASSUME host \in Hosts, NodesOK(nodes, offset), AllMade(nodes, host),
         NEW dir \in 1..Len(nodes), Owns(nodes, dir),
         NEW e \in Range(host[DirOf(nodes, dir)].entries), Taken(e), File(e) \in DOMAIN host,
         dir = 1 => e.name \notin {Dot, DotDot}, Followed(e) => Late(e),
         NEW n, n = NodeAt(offset, Name(e), File(e), dir, LinkOf(e, dir)),
         NEW ms, Grown(nodes, n, ms)
  PROVE  /\ KeptIn(host, DirOf(nodes, dir), e)
         /\ Made(ms, host, Len(nodes) + 1) /\ Like(ms, host, dir, Len(nodes) + 1, e)
<1>. DEFINE d == DirOf(nodes, dir)
            L == Len(nodes)
<1>1. nodes \in Seq(Filenodes) /\ L \in Nat /\ L >= 3
  BY DEF NodesOK, AllMade, RootMade
<1>2. /\ d \in DOMAIN host /\ ((d = Root) <=> (dir = 1))
      /\ Owner(dir) \in 2..L /\ nodes[Owner(dir)].ino = d
  BY <1>1, OwnerFacts
<1>3. n.name = Name(e) /\ n.ino = File(e) /\ n.kind = host[File(e)].kind /\ n.link = LinkOf(e, dir)
      /\ n.dir = dir
  BY NodeAtFields
<1>4. Name(e) = NameIn(host, e) /\ File(e) = FileIn(host, e) /\ TakenIn(host, e)
  BY InHost
<1>5. KeptIn(host, d, e)
  <2>. HIDE DEF d
  <2>. QED
    BY <1>2, <1>4, Zenon DEF KeptIn
<1>6. Has(nodes, d)
  BY <1>2 DEF Has
<1>7. /\ e.name = Dot => e.ino = d
      /\ e.name \notin {Dot, DotDot} =>
           e.ino # Outside /\ \A f \in Range(host[e.ino].entries) : f.name = DotDot => f.ino = d
  <2>1. d \in DOMAIN host /\ e \in Range(host[d].entries)
    BY <1>2
  <2>. HIDE DEF d
  <2>. QED
    BY <2>1, HostTree
<1>8. Followed(e) \/ (Name(e) = e.name /\ File(e) = e.ino)
  BY DEF Name, File
<1>9. Dot # DotDot
  BY DEF Dot, DotDot
<1>. HIDE DEF d
<1>10. CASE Name(e) = Dot
  <2>1. e.name = Dot /\ File(e) = d
    BY <1>7, <1>8, <1>10 DEF Late
  <2>2. n.link = Owner(dir)
    BY <1>3, <1>10 DEF LinkOf
  <2>3. Made(ms, host, L + 1) /\ Like(ms, host, dir, L + 1, e)
    BY <1>1, <1>2, <1>3, <1>4, <1>6, <1>10, <2>1, <2>2, DotNode
  <2>. QED
    BY <1>5, <2>3 DEF d
<1>11. CASE Name(e) = DotDot
  <2>1. e.name = DotDot /\ File(e) = e.ino /\ dir # 1
    BY <1>8, <1>11 DEF Late
  <2>2. n.link = Owner(nodes[dir].dir)
    BY <1>3, <1>9, <1>11, <2>1 DEF LinkOf, Parent
  <2>3. dir \in 4..L /\ dir \in 2..L
    BY <1>1, <2>1 DEF Owns
  <2>4. nodes[dir].dir \in 1..(dir - 1)
    BY <2>3 DEF NodesOK
  <2>5. n.link \in 2..L /\ n.link = Up(nodes, dir)
    <3>1. Owner(nodes[dir].dir) \in 2..L
      BY <1>1, <2>3, <2>4 DEF Owner
    <3>. QED
      BY <2>1, <2>2, <3>1 DEF Up
  <2>6. Has(nodes, n.ino)
    <3>1. UpKnown(nodes, host, nodes[dir].ino)
      BY <2>3 DEF AllMade, Made
    <3>2. d = nodes[dir].ino
      BY <2>1 DEF DirOf, d
    <3>3. e \in Range(host[d].entries)
      BY DEF d
    <3>. QED
      BY <1>3, <2>1, <3>1, <3>2, <3>3 DEF UpKnown
  <2>7. Made(ms, host, L + 1) /\ Like(ms, host, dir, L + 1, e)
    BY <1>1, <1>3, <1>4, <1>11, <2>5, <2>6, DotNode
  <2>. QED
    BY <1>5, <2>7 DEF d
<1>12. CASE Name(e) \notin {Dot, DotDot}
  <2>. DEFINE x == File(e)
  <2>1. n.link = FindNode(x)
    BY <1>3, <1>12 DEF LinkOf
  <2>2. x # Outside
    BY <1>7, <1>8, <1>12 DEF Late
  <2>3. /\ (FindNode(x) = 0) <=> ~Has(nodes, x)
        /\ FindNode(x) \in (0..L) \ {1}
        /\ Has(nodes, x) => nodes[FindNode(x)].ino = x /\ nodes[FindNode(x)].link = 0
    BY <1>1, <2>2, FindFirst
  <2>4. host[x].kind = "dir" /\ FindNode(x) = 0 => UpKnown(nodes, host, x)
    <3>1. ASSUME Followed(e), host[x].kind = "dir", FindNode(x) = 0
          PROVE  UpKnown(nodes, host, x)
      <4>1. \A f \in Range(host[x].entries) : f.name = DotDot => FindNode(f.ino) # 0
        BY <3>1 DEF Late
      <4>2. \A y : FindNode(y) # 0 => Has(nodes, y)
        BY <1>1, FindFirst
      <4>. QED
        BY <4>1, <4>2 DEF UpKnown
    <3>2. ASSUME ~Followed(e) PROVE UpKnown(nodes, host, x)
      <4>1. \A f \in Range(host[x].entries) : f.name = DotDot => f.ino = d
        BY <1>7, <1>8, <1>12, <3>2
      <4>. QED
        BY <1>6, <4>1 DEF UpKnown
    <3>. QED
      BY <3>1, <3>2
  <2>5. Made(ms, host, L + 1) /\ Like(ms, host, dir, L + 1, e)
    BY <1>1, <1>3, <1>4, <1>12, <2>1, <2>3, <2>4, FileNode
  <2>. QED
    BY <1>5, <2>5 DEF d
<1>. QED
  BY <1>10, <1>11, <1>12

-----------------------------------------------------------------------------
(* The directories processdir is in, and those it has left. *)

\* left is what follows the first m of all.
RestFrom(left, all, m) == Len(left) = Len(all) - m /\ \A k \in 1..Len(left) : left[k] = all[m + k]

\* A directory is shown up to where its loop has come; all of it.
Part(ns, h, f) ==
  /\ Owns(ns, f.dir)
  /\ \E m \in 0..Len(h[DirOf(ns, f.dir)].entries) :
       Shown(ns, h, f.dir, m) /\ RestFrom(f.left, h[DirOf(ns, f.dir)].entries, m)
Full(ns, h, i) == Shown(ns, h, i, Len(h[DirOf(ns, i)].entries))

LEMMA PartMore ==
  ASSUME NEW ns, NEW n, NEW ms, Grown(ns, n, ms), Back(ns), NEW h, NEW f, f.dir \in 1..Len(ns),
         n.dir # f.dir, Part(ns, h, f)
  PROVE  Part(ms, h, f)
<1>. DEFINE i == f.dir
<1>1. DirOf(ms, i) = DirOf(ns, i) /\ Owns(ms, i)
  BY DirMore DEF Part
<1>2. \A m : Shown(ns, h, i, m) => Shown(ms, h, i, m)
  BY ShownMore
<1>. QED
  BY <1>1, <1>2 DEF Part

LEMMA FullMore ==
  ASSUME NEW ns, NEW n, NEW ms, Grown(ns, n, ms), Back(ns), NEW h, NEW i \in 1..Len(ns),
         n.dir # i, Full(ns, h, i)
  PROVE  Full(ms, h, i)
<1>1. DirOf(ms, i) = DirOf(ns, i)
  BY DirMore
<1>2. \A m : Shown(ns, h, i, m) => Shown(ms, h, i, m)
  BY ShownMore
<1>. QED
  BY <1>1, <1>2 DEF Full

\* The first of what is left.
LEMMA RestNext ==
  ASSUME NEW R, NEW all \in Seq(R), NEW left \in Seq(R), left # <<>>, NEW m \in 0..Len(all),
         RestFrom(left, all, m)
  PROVE  /\ m + 1 \in 1..Len(all) /\ m + 1 \in 0..Len(all) /\ m \in Nat /\ m + 1 <= Len(all)
         /\ Head(left) = all[m + 1] /\ Head(left) \in Range(all)
         /\ RestFrom(Tail(left), all, m + 1)
<1>1. Len(all) \in Nat /\ Len(left) \in Nat /\ Len(left) >= 1 /\ Len(left) = Len(all) - m
  BY DEF RestFrom
<1>2. m + 1 \in 1..Len(all) /\ m + 1 \in 0..Len(all) /\ m \in Nat /\ m + 1 <= Len(all)
  BY <1>1
<1>3. Head(left) = all[m + 1]
  <2>1. Head(left) = left[1] /\ 1 \in 1..Len(left)
    BY <1>1
  <2>. QED
    BY <2>1 DEF RestFrom
<1>4. Head(left) \in Range(all)
  <2>1. DOMAIN all = 1..Len(all)
    OBVIOUS
  <2>. QED
    BY <1>2, <1>3, <2>1 DEF Range
<1>5. RestFrom(Tail(left), all, m + 1)
  <2>1. Len(Tail(left)) = Len(left) - 1 /\ \A k \in 1..(Len(left) - 1) : Tail(left)[k] = left[k + 1]
    BY <1>1
  <2>2. \A k \in 1..(Len(left) - 1) : left[k + 1] = all[m + (k + 1)]
    BY <1>1 DEF RestFrom
  <2>3. \A k \in 1..(Len(left) - 1) : m + (k + 1) = (m + 1) + k
    BY <1>1
  <2>. QED
    BY <1>1, <2>1, <2>2, <2>3 DEF RestFrom
<1>. QED
  BY <1>2, <1>3, <1>4, <1>5

\* One turn of the loop: the entry gets a node, or none.
LEMMA PartNext ==
  ASSUME NEW ns, NEW n, NEW ms, Grown(ns, n, ms), Back(ns), NEW h \in Hosts,
         NEW f, f.dir \in 1..Len(ns), DirOf(ns, f.dir) \in DOMAIN h, Part(ns, h, f),
         f.left \in Seq(EntryIn(h)), f.left # <<>>, n.dir = f.dir,
         KeptIn(h, DirOf(ns, f.dir), Head(f.left)), Like(ms, h, f.dir, Len(ns) + 1, Head(f.left)),
         NEW g, g.dir = f.dir, g.left = Tail(f.left)
  PROVE  Part(ms, h, g)
<1>. DEFINE i == f.dir
            all == h[DirOf(ns, i)].entries
            left == f.left
            e == Head(left)
            R == EntryIn(h)
<1>1. PICK m \in 0..Len(all) : Shown(ns, h, i, m) /\ RestFrom(left, all, m)
  BY DEF Part
<1>2. all \in Seq(R)
  BY EntriesTyped
<1>3. DirOf(ms, i) = DirOf(ns, i) /\ Owns(ms, i)
  BY DirMore DEF Part
<1>4. left \in Seq(R) /\ left # <<>>
  OBVIOUS
<1>5. m + 1 \in 0..Len(all) /\ m \in Nat /\ m + 1 <= Len(all) /\ e = all[m + 1]
      /\ RestFrom(Tail(left), all, m + 1)
  <2>. HIDE DEF all, left, R
  <2>. QED
    BY <1>1, <1>2, <1>4, RestNext
<1>6. Shown(ms, h, i, m + 1)
  <2>1. i \in 1..Len(ns) /\ n.dir = i /\ DirOf(ns, i) \in DOMAIN h
    OBVIOUS
  <2>2. KeptIn(h, DirOf(ns, i), e) /\ Like(ms, h, i, Len(ns) + 1, e)
    OBVIOUS
  <2>3. m + 1 <= Len(h[DirOf(ns, i)].entries) /\ e = h[DirOf(ns, i)].entries[m + 1]
    BY <1>5
  <2>. HIDE DEF i, e
  <2>. QED
    BY <1>1, <1>5, <2>1, <2>2, <2>3, ShownNext
<1>. QED
  BY <1>3, <1>5, <1>6 DEF Part

LEMMA PartSkip ==
  ASSUME NEW ns, NEW h \in Hosts, NEW f, DirOf(ns, f.dir) \in DOMAIN h, Part(ns, h, f),
         f.left \in Seq(EntryIn(h)), f.left # <<>>, ~KeptIn(h, DirOf(ns, f.dir), Head(f.left)),
         NEW g, g.dir = f.dir, g.left = Tail(f.left)
  PROVE  Part(ns, h, g)
<1>. DEFINE i == f.dir
            all == h[DirOf(ns, i)].entries
            left == f.left
            e == Head(left)
            R == EntryIn(h)
<1>1. PICK m \in 0..Len(all) : Shown(ns, h, i, m) /\ RestFrom(left, all, m)
  BY DEF Part
<1>2. all \in Seq(R)
  BY EntriesTyped
<1>4. left \in Seq(R) /\ left # <<>>
  OBVIOUS
<1>5. m + 1 \in 0..Len(all) /\ m \in Nat /\ m + 1 <= Len(all) /\ e = all[m + 1]
      /\ RestFrom(Tail(left), all, m + 1)
  <2>. HIDE DEF all, left, R
  <2>. QED
    BY <1>1, <1>2, <1>4, RestNext
<1>6. Shown(ns, h, i, m + 1)
  <2>1. DirOf(ns, i) \in DOMAIN h
    OBVIOUS
  <2>2. ~KeptIn(h, DirOf(ns, i), h[DirOf(ns, i)].entries[m + 1])
    BY <1>5
  <2>3. m + 1 <= Len(h[DirOf(ns, i)].entries)
    BY <1>5
  <2>. HIDE DEF i
  <2>. QED
    BY <1>1, <1>5, <2>1, <2>2, <2>3, ShownSkip
<1>. QED
  BY <1>5, <1>6 DEF Part

\* The end of the loop.
LEMMA PartEnd ==
  ASSUME NEW ns, NEW h \in Hosts, NEW f, DirOf(ns, f.dir) \in DOMAIN h, Part(ns, h, f), f.left = <<>>
  PROVE  Full(ns, h, f.dir)
<1>. DEFINE all == h[DirOf(ns, f.dir)].entries
<1>1. PICK m \in 0..Len(all) : Shown(ns, h, f.dir, m) /\ RestFrom(f.left, all, m)
  BY DEF Part
<1>2. Len(all) \in Nat
  BY EntriesTyped
<1>. HIDE DEF all
<1>3. m = Len(all)
  BY <1>1, <1>2 DEF RestFrom
<1>. QED
  BY <1>1, <1>3 DEF Full, all

\* A directory that is entered.
LEMMA PartNew ==
  ASSUME NEW ms, NEW h \in Hosts, NEW f, Owns(ms, f.dir), DirOf(ms, f.dir) \in DOMAIN h,
         DirOf(ms, f.dir) # Root, Kids(ms, f.dir) = {}, f.left = h[DirOf(ms, f.dir)].entries
  PROVE  Part(ms, h, f)
<1>1. Shown(ms, h, f.dir, 0)
  BY ShownNone
<1>2. f.left \in Seq(EntryIn(h))
  BY EntriesTyped
<1>3. RestFrom(f.left, f.left, 0)
  <2>. DEFINE u == f.left
              R == EntryIn(h)
  <2>1. u \in Seq(R)
    BY <1>2
  <2>. HIDE DEF u, R
  <2>2. RestFrom(u, u, 0)
    BY <2>1 DEF RestFrom
  <2>. QED
    BY <2>2 DEF u
<1>4. 0 \in 0..Len(f.left)
  BY <1>2
<1>. QED
  BY <1>1, <1>3, <1>4 DEF Part

-----------------------------------------------------------------------------
(* The scan shows the host. *)

ShowInv ==
  Len(nodes) > 1 =>
    /\ AllMade(nodes, host)
    /\ \A s \in 1..Len(stack) : Part(nodes, host, stack[s])
    /\ \A i \in 1..Len(nodes) : Owns(nodes, i) =>
         (\E s \in 1..Len(stack) : stack[s].dir = i) \/ Full(nodes, host, i)

\* processdir begins and ends with the root.
BottomInv ==
  /\ phase # "scan" => stack = <<>>
  /\ stack # <<>> => stack[Len(stack)].dir = 1

LEMMA PushFacts ==
  ASSUME NEW h, NEW rest, NEW ns, StackOK(h, rest, ns), NEW t, NEW up, up = <<t>> \o rest
  PROVE  /\ Len(rest) \in Nat /\ Len(up) = Len(rest) + 1 /\ up[1] = t
         /\ \A s \in 2..Len(up) : s - 1 \in 1..Len(rest) /\ up[s] = rest[s - 1]
<1>. DEFINE Q == [dir : 1..Len(ns), left : EntriesOf(h)]
            R == Q \cup {t}
<1>1. rest \in Seq(Q)
  BY DEF StackOK
<1>. HIDE DEF Q
<1>2. rest \in Seq(R) /\ t \in R
  BY <1>1
<1>. HIDE DEF R
<1>3. Len(rest) \in Nat
  BY <1>2
<1>4. /\ Len(up) = Len(rest) + 1 /\ up[1] = t
      /\ \A i \in 2..(Len(rest) + 1) : up[i] = rest[i - 1]
  BY <1>2, ConsFacts
<1>. QED
  BY <1>3, <1>4

LEMMA PartHead ==
  ASSUME NEW ns, NEW h \in Hosts, NEW f, DirOf(ns, f.dir) \in DOMAIN h, Part(ns, h, f),
         f.left \in Seq(EntryIn(h)), f.left # <<>>
  PROVE  Head(f.left) \in Range(h[DirOf(ns, f.dir)].entries)
<1>. DEFINE all == h[DirOf(ns, f.dir)].entries
            left == f.left
            R == EntryIn(h)
<1>1. PICK m \in 0..Len(all) : RestFrom(left, all, m)
  BY DEF Part
<1>2. all \in Seq(R) /\ left \in Seq(R) /\ left # <<>>
  BY EntriesTyped
<1>. HIDE DEF all, left, R
<1>3. Head(left) \in Range(all)
  BY <1>1, <1>2, RestNext
<1>. QED
  BY <1>3 DEF all, left

LEMMA RootShown ==
  ASSUME PassInv, ScanRoot
  PROVE  ShowInv' /\ BottomInv'
<1>. DEFINE dot == NodeAt(offset, Dot, Root, 1, 0)
            up  == NodeAt(EndOf(dot), DotDot, Outside, 1, 2)
            ms == nodes'
            f == [dir |-> 1, left |-> host[Root].entries]
<1>0. nodes \in Seq(Filenodes) /\ host \in Hosts
  BY DEF PassInv, NodesOK
<1>1. /\ phase' = "scan" /\ Len(nodes) = 1 /\ nodes' = nodes \o <<dot, up>> /\ host' = host
      /\ stack' = <<f>>
  BY DEF ScanRoot
<1>2. /\ dot.name = Dot /\ dot.ino = Root /\ dot.dir = 1 /\ dot.link = 0
      /\ up.name = DotDot /\ up.ino = Outside /\ up.dir = 1 /\ up.link = 2
  BY NodeAtFields
<1>. HIDE DEF dot, up
<1>3. Len(ms) = 3 /\ ms[2] = dot /\ ms[3] = up
  <2>. DEFINE v == nodes \o <<dot, up>>
  <2>1. nodes \in Seq(Filenodes) /\ v = nodes \o <<dot, up>>
    BY <1>0
  <2>. HIDE DEF v
  <2>2. Len(v) = Len(nodes) + 2 /\ v[Len(nodes) + 1] = dot /\ v[Len(nodes) + 2] = up
    BY <2>1, TwoMore
  <2>. QED
    BY <1>1, <2>2 DEF v
<1>. HIDE DEF ms
<1>4. AllMade(ms, host)
  BY <1>2, <1>3 DEF AllMade, RootMade
<1>5. Shown(ms, host, 1, 0)
  <2>. DEFINE a == [name |-> Dot, ino |-> Root]
              b == [name |-> DotDot, ino |-> Outside]
              s == <<2, 3>>
              w == <<a, b>>
  <2>1. Root \in DOMAIN host /\ DirOf(ms, 1) = Root
    BY <1>0, HostFacts DEF DirOf
  <2>2. Listing(host, Root)[0] = w
    BY <1>0, <2>1, ListingFacts DEF FirstTwo
  <2>3. Kids(ms, 1) = {2, 3}
    BY <1>2, <1>3 DEF Kids
  <2>4. InOrder(s, Kids(ms, 1))
    BY <2>3 DEF InOrder
  <2>5. NameIn(host, a) = Dot /\ NameIn(host, b) = DotDot /\ Dot # DotDot
    BY DEF NameIn, FollowedIn, Dot, DotDot
  <2>6. Like(ms, host, 1, 2, a)
    BY <1>2, <1>3, <2>5 DEF Like, Lead, Owner
  <2>7. Like(ms, host, 1, 3, b)
    BY <1>2, <1>3, <2>5 DEF Like, Lead, Up
  <2>8. Len(s) = 2 /\ Len(w) = 2 /\ s[1] = 2 /\ s[2] = 3 /\ w[1] = a /\ w[2] = b
    OBVIOUS
  <2>. HIDE DEF s, w, a, b
  <2>9. Lists(ms, host, 1, s, w)
    <3>1. \A k \in 1..Len(s) : k = 1 \/ k = 2
      BY <2>8
    <3>2. \A k \in 1..Len(s) : Like(ms, host, 1, s[k], w[k])
      BY <2>6, <2>7, <2>8, <3>1
    <3>. QED
      BY <2>4, <2>8, <3>2 DEF Lists
  <2>. QED
    BY <2>1, <2>2, <2>9 DEF Shown
<1>6. f.dir = 1 /\ f.left = host[Root].entries
  OBVIOUS
<1>. HIDE DEF f
<1>7. Part(ms, host, f)
  <2>. DEFINE all == host[Root].entries
              R == EntryIn(host)
  <2>1. DirOf(ms, f.dir) = Root /\ Owns(ms, f.dir)
    BY <1>6 DEF DirOf, Owns
  <2>2. all \in Seq(R)
    <3>1. Root \in DOMAIN host
      BY <1>0, HostFacts
    <3>. QED
      BY <1>0, <3>1, EntriesTyped
  <2>3. f.left = all
    BY <1>6
  <2>. HIDE DEF all, R
  <2>4. RestFrom(all, all, 0) /\ 0 \in 0..Len(all)
    BY <2>2 DEF RestFrom
  <2>. QED
    BY <1>5, <1>6, <2>1, <2>3, <2>4 DEF Part, all
<1>8. Len(stack') = 1 /\ stack'[1] = f
  BY <1>1
<1>9. ASSUME NEW i \in 1..Len(ms), Owns(ms, i) PROVE stack'[1].dir = i
  BY <1>3, <1>6, <1>8, <1>9 DEF Owns
<1>10. /\ AllMade(nodes', host')
       /\ \A s \in 1..Len(stack') : s = 1 /\ Part(nodes', host', stack'[s])
       /\ \A i \in 1..Len(nodes') : Owns(nodes', i) => stack'[1].dir = i /\ 1 \in 1..Len(stack')
  <2>1. \A s \in 1..Len(stack') : s = 1
    BY <1>8
  <2>2. host' = host /\ 1 \in 1..Len(stack')
    BY <1>1, <1>8
  <2>. QED
    BY <1>4, <1>7, <1>8, <1>9, <2>1, <2>2 DEF ms
<1>11. ShowInv'
  BY <1>10, Zenon DEF ShowInv
<1>12. BottomInv'
  BY <1>1, <1>6, <1>8 DEF BottomInv
<1>. QED
  BY <1>11, <1>12

LEMMA LeaveShown ==
  ASSUME PassInv, FirstInv, BottomInv, ShowInv, ScanLeave
  PROVE  ShowInv' /\ BottomInv'
<1>1. /\ phase = "scan" /\ stack # <<>> /\ stack[1].left = <<>> /\ stack' = Tail(stack)
      /\ phase' = phase /\ nodes' = nodes /\ host' = host
  BY DEF ScanLeave
<1>2. StackOK(host, stack, nodes) /\ host \in Hosts /\ nodes \in Seq(Filenodes)
  BY <1>1 DEF PassInv, ScanInv, NodesOK
<1>3. Len(nodes) > 1
  BY <1>1 DEF FirstInv
<1>4. /\ AllMade(nodes, host)
      /\ \A s \in 1..Len(stack) : Part(nodes, host, stack[s])
      /\ \A i \in 1..Len(nodes) : Owns(nodes, i) =>
           (\E s \in 1..Len(stack) : stack[s].dir = i) \/ Full(nodes, host, i)
  BY <1>3 DEF ShowInv
<1>. DEFINE st == Tail(stack)
<1>5. /\ Len(stack) \in Nat /\ Len(stack) >= 1 /\ Len(st) = Len(stack) - 1
      /\ \A s \in 1..Len(st) : s + 1 \in 1..Len(stack) /\ st[s] = stack[s + 1]
  <2>. DEFINE R == [dir : 1..Len(nodes), left : EntriesOf(host)]
  <2>1. stack \in Seq(R)
    BY <1>2 DEF StackOK
  <2>. HIDE DEF R
  <2>. QED
    BY <1>1, <2>1
<1>. HIDE DEF st
<1>6. Full(nodes, host, stack[1].dir)
  <2>1. 1 \in 1..Len(stack)
    BY <1>5
  <2>2. Part(nodes, host, stack[1]) /\ stack[1].dir \in 1..Len(nodes)
    BY <1>2, <1>4, <2>1, StackDirs
  <2>3. DirOf(nodes, stack[1].dir) \in DOMAIN host
    BY <1>2, <1>4, <2>2, OwnerFacts DEF Part
  <2>. QED
    BY <1>1, <1>2, <2>2, <2>3, PartEnd
<1>7. \A s \in 1..Len(st) : Part(nodes, host, st[s])
  BY <1>4, <1>5
<1>8. ASSUME NEW i \in 1..Len(nodes), Owns(nodes, i)
      PROVE  (\E s \in 1..Len(st) : st[s].dir = i) \/ Full(nodes, host, i)
  <2>1. ASSUME NEW s \in 1..Len(stack), stack[s].dir = i, s # 1
        PROVE  \E k \in 1..Len(st) : st[k].dir = i
    <3>1. s - 1 \in 1..Len(st) /\ (s - 1) + 1 = s
      BY <1>5, <2>1
    <3>2. st[s - 1] = stack[s]
      BY <1>5, <3>1
    <3>. QED
      BY <2>1, <3>1, <3>2
  <2>. QED
    BY <1>4, <1>6, <1>8, <2>1
<1>9. st # <<>> => st[Len(st)].dir = 1
  <2>. SUFFICES ASSUME st # <<>> PROVE st[Len(st)].dir = 1
    OBVIOUS
  <2>1. Len(st) \in 1..Len(st)
    <3>. DEFINE R == [dir : 1..Len(nodes), left : EntriesOf(host)]
    <3>1. StackOK(host, st, nodes)
      BY <1>1, <1>2, StackLess DEF st
    <3>2. st \in Seq(R)
      BY <3>1 DEF StackOK
    <3>. HIDE DEF R
    <3>. QED
      BY <3>2
  <2>2. st[Len(st)] = stack[Len(stack)]
    BY <1>5, <2>1
  <2>. QED
    BY <1>1, <2>2 DEF BottomInv
<1>. QED
  BY <1>1, <1>4, <1>7, <1>8, <1>9 DEF ShowInv, BottomInv, st

LEMMA EntryShown ==
  ASSUME PassInv, PassInv', FirstInv, BottomInv, ShowInv, LinksLate, ScanEntry
  PROVE  ShowInv' /\ BottomInv'
<1>. DEFINE rest == Popped(stack)
            L == Len(nodes)
            d == DirOf(nodes, Top)
<1>1. /\ phase = "scan" /\ phase' = "scan" /\ host' = host
      /\ stack # <<>> /\ stack[1].left # <<>> /\ StackOK(host, stack, nodes)
      /\ First \in EntryIn(host)
  BY EntryStep DEF EntryIn
<1>2. /\ host \in Hosts /\ NodesOK(nodes, offset) /\ nodes \in Seq(Filenodes) /\ L \in Nat /\ L >= 1
      /\ L > 1
  <2>1. host \in Hosts /\ NodesOK(nodes, offset) /\ L > 1
    BY <1>1 DEF PassInv, FirstInv
  <2>. QED
    BY <2>1 DEF NodesOK
<1>3. /\ AllMade(nodes, host)
      /\ \A s \in 1..Len(stack) : Part(nodes, host, stack[s])
      /\ \A i \in 1..L : Owns(nodes, i) =>
           (\E s \in 1..Len(stack) : stack[s].dir = i) \/ Full(nodes, host, i)
  BY <1>2 DEF ShowInv
<1>4. /\ Len(stack) \in Nat /\ Len(stack) >= 1 /\ Len(rest) = Len(stack)
      /\ rest[1].dir = Top /\ rest[1].left = Tail(stack[1].left)
      /\ \A s \in 2..Len(stack) : rest[s] = stack[s]
      /\ stack[1].left \in Seq(EntryIn(host)) /\ StackOK(host, rest, nodes)
  <2>1. rest = Popped(stack)
    OBVIOUS
  <2>. HIDE DEF rest
  <2>2. StackOK(host, rest, nodes)
    BY <1>1, <2>1, StackSame
  <2>. QED
    BY <1>1, <2>1, <2>2, PoppedFacts DEF EntryIn, Top
<1>. HIDE DEF rest
<1>5. /\ 1 \in 1..Len(stack) /\ \A s \in 1..Len(stack) : s = 1 \/ s \in 2..Len(stack)
      /\ \A s \in 1..Len(stack) : stack[s].dir \in 1..L /\ rest[s].dir = stack[s].dir
  <2>1. 1 \in 1..Len(stack) /\ \A s \in 1..Len(stack) : s = 1 \/ s \in 2..Len(stack)
    BY <1>4
  <2>2. \A s \in 1..Len(stack) : stack[s].dir \in 1..L
    BY <1>1, StackDirs
  <2>. QED
    BY <1>4, <2>1, <2>2 DEF Top
<1>6. (Len(stack) = 1) <=> (Top = 1)
  <2>1. stack[Len(stack)].dir = 1
    BY <1>1 DEF BottomInv
  <2>2. Len(stack) # 1 => stack[Len(stack)].dir < stack[1].dir
    <3>1. Len(stack) \in 1..Len(stack) /\ (Len(stack) # 1 => 1 < Len(stack))
      BY <1>4
    <3>. QED
      BY <1>1, <1>5, <3>1 DEF StackOK
  <2>. QED
    BY <2>1, <2>2 DEF Top
<1>7. rest[Len(rest)].dir = 1
  <2>1. Len(stack) \in 1..Len(stack)
    BY <1>4
  <2>. QED
    BY <1>1, <1>4, <1>5, <2>1 DEF BottomInv
<1>8. Top \in 1..L /\ Owns(nodes, Top) /\ Part(nodes, host, stack[1]) /\ Top = stack[1].dir
  BY <1>3, <1>5 DEF Top, Part
<1>9. Back(nodes) /\ d \in DOMAIN host /\ ((d = Root) <=> (Top = 1))
  BY <1>2, <1>3, <1>8, OwnerFacts
<1>10. First = Head(stack[1].left) /\ First \in Range(host[d].entries)
  <2>1. First = Head(stack[1].left)
    BY DEF First
  <2>2. Head(stack[1].left) \in Range(host[DirOf(nodes, stack[1].dir)].entries)
    BY <1>1, <1>2, <1>4, <1>8, <1>9, PartHead
  <2>. QED
    BY <1>8, <2>1, <2>2
<1>11. CASE ~(Taken(First) /\ ~Again(First))
  <2>1. nodes' = nodes /\ stack' = rest
    BY <1>11, EntryStep DEF rest
  <2>2. ~KeptIn(host, d, First)
    <3>1. Taken(First) <=> TakenIn(host, First)
      BY InHost
    <3>. QED
      BY <1>6, <1>9, <1>11, <3>1 DEF KeptIn, Again
  <2>3. Part(nodes, host, rest[1])
    BY <1>1, <1>2, <1>4, <1>8, <1>9, <1>10, <2>2, PartSkip
  <2>4. \A s \in 1..Len(rest) : Part(nodes, host, rest[s])
    BY <1>3, <1>4, <1>5, <2>3
  <2>5. \A i \in 1..L : Owns(nodes, i) =>
          (\E s \in 1..Len(rest) : rest[s].dir = i) \/ Full(nodes, host, i)
    BY <1>3, <1>4, <1>5
  <2>6. ShowInv'
    BY <1>1, <1>3, <2>1, <2>4, <2>5 DEF ShowInv
  <2>. QED
    BY <1>1, <1>7, <2>1, <2>6 DEF BottomInv
<1>12. CASE Taken(First) /\ ~Again(First)
  <2>. DEFINE n == EntryNode
              ms == nodes'
              t == [dir |-> L + 1, left |-> host[n.ino].entries]
              up == <<t>> \o rest
  <2>1. /\ File(First) \in DOMAIN host /\ n \in Filenodes /\ ms = Append(nodes, n)
        /\ stack' = IF n.kind = "dir" /\ n.link = 0 THEN up ELSE rest
    BY <1>12, EntryStep DEF rest
  <2>2. Grown(nodes, n, ms)
    BY <1>2, <2>1 DEF Grown
  <2>3. n = NodeAt(offset, Name(First), File(First), Top, LinkOf(First, Top)) /\ n.dir = Top
        /\ n.ino = File(First)
    BY NodeAtFields DEF EntryNode
  <2>4. t.dir = L + 1 /\ t.left = host[n.ino].entries /\ up = <<t>> \o rest
    OBVIOUS
  <2>. HIDE DEF n, ms, t, up
  <2>5. /\ KeptIn(host, d, First) /\ Made(ms, host, L + 1) /\ Like(ms, host, Top, L + 1, First)
    <3>1. Followed(First) => Late(First)
      BY <1>1, <1>10, <1>12 DEF LinksLate
    <3>2. Top = 1 => First.name \notin {Dot, DotDot}
      BY <1>6, <1>12 DEF Again
    <3>. QED
      BY <1>2, <1>3, <1>8, <1>10, <1>12, <2>1, <2>2, <2>3, <3>1, <3>2, NewNode
  <2>6. AllMade(ms, host)
    BY <1>3, <2>2, <2>5, MadeMore
  <2>7. /\ Len(ms) = L + 1 /\ ms[L + 1] = n
        /\ \A i \in 1..L : Owns(ms, i) => Owns(nodes, i)
    BY <2>2, GrownFacts, DirMore
  <2>8. Part(ms, host, rest[1])
    BY <1>1, <1>2, <1>4, <1>8, <1>9, <1>10, <2>2, <2>3, <2>5, PartNext
  <2>9. ASSUME NEW s \in 2..Len(stack) PROVE Part(ms, host, rest[s])
    <3>1. s \in 1..Len(stack) /\ 1 < s
      BY <1>4
    <3>2. stack[s].dir < stack[1].dir
      BY <1>1, <1>5, <3>1 DEF StackOK
    <3>3. stack[s].dir \in 1..L /\ Part(nodes, host, stack[s]) /\ n.dir # stack[s].dir
      BY <1>3, <1>5, <1>8, <2>3, <3>1, <3>2
    <3>4. Part(ms, host, stack[s])
      BY <1>9, <2>2, <3>3, PartMore
    <3>. QED
      BY <1>4, <3>4
  <2>10. \A s \in 1..Len(rest) : Part(ms, host, rest[s])
    BY <1>4, <1>5, <2>8, <2>9
  <2>11. ASSUME NEW i \in 1..L, Owns(ms, i)
         PROVE  (\E s \in 1..Len(rest) : rest[s].dir = i) \/ Full(ms, host, i)
    <3>1. CASE \E s \in 1..Len(stack) : stack[s].dir = i
      BY <1>4, <1>5, <3>1
    <3>2. CASE ~\E s \in 1..Len(stack) : stack[s].dir = i
      <4>1. Full(nodes, host, i) /\ i # Top
        BY <1>3, <1>5, <1>8, <2>7, <2>11, <3>2
      <4>2. n.dir # i
        BY <2>3, <4>1
      <4>. QED
        BY <1>9, <2>2, <4>1, <4>2, FullMore
    <3>. QED
      BY <3>1, <3>2
  <2>12. \A i \in 1..Len(ms) : i \in 1..L \/ i = L + 1
    BY <1>2, <2>7
  <2>13. CASE n.kind = "dir" /\ n.link = 0
    <3>1. stack' = up
      BY <2>1, <2>13
    <3>2. /\ Len(rest) \in Nat /\ Len(up) = Len(rest) + 1 /\ up[1] = t
          /\ \A s \in 2..Len(up) : s - 1 \in 1..Len(rest) /\ up[s] = rest[s - 1]
      BY <1>4, <2>4, PushFacts
    <3>3. Part(ms, host, t)
      <4>1. Owns(ms, L + 1) /\ DirOf(ms, L + 1) = n.ino
        <5>1. L + 1 >= 4 /\ L + 1 # 1
          BY <1>2, <1>3 DEF AllMade, RootMade
        <5>. QED
          BY <2>7, <2>13, <5>1 DEF Owns, DirOf
      <4>2. ms \in Seq(Filenodes) /\ L + 1 \in 1..Len(ms)
        BY <1>2, <2>7 DEF PassInv, NodesOK, ms
      <4>3. n.ino \in DOMAIN host /\ n.ino # Root
        <5>1. ((n.ino = Root) <=> (L + 1 = 1)) /\ n.ino \in DOMAIN host
          BY <1>2, <2>6, <4>1, <4>2, OwnerFacts
        <5>. QED
          BY <1>2, <5>1
      <4>4. Kids(ms, L + 1) = {}
        <5>1. NodesOK(ms, offset')
          BY DEF PassInv, ms
        <5>2. \A j \in 2..Len(ms) : ms[j].dir # L + 1
          <6>. TAKE j \in 2..Len(ms)
          <6>1. ms[j].dir \in 1..(j - 1) /\ j <= L + 1
            BY <2>7, <5>1 DEF NodesOK
          <6>. QED
            BY <1>2, <6>1
        <5>. QED
          BY <5>2 DEF Kids
      <4>. QED
        BY <1>2, <2>4, <4>1, <4>3, <4>4, PartNew
    <3>4. \A s \in 1..Len(up) : Part(ms, host, up[s])
      <4>. TAKE s \in 1..Len(up)
      <4>1. s = 1 \/ s \in 2..Len(up)
        BY <3>2
      <4>. QED
        BY <2>10, <3>2, <3>3, <4>1
    <3>5. ASSUME NEW i \in 1..Len(ms), Owns(ms, i)
          PROVE  (\E s \in 1..Len(up) : up[s].dir = i) \/ Full(ms, host, i)
      <4>1. CASE i = L + 1
        <5>1. 1 \in 1..Len(up)
          BY <3>2
        <5>. QED
          BY <2>4, <3>2, <4>1, <5>1
      <4>2. CASE i # L + 1
        <5>1. ASSUME NEW s \in 1..Len(rest), rest[s].dir = i PROVE \E k \in 1..Len(up) : up[k].dir = i
          <6>1. s + 1 \in 2..Len(up) /\ s + 1 \in 1..Len(up) /\ (s + 1) - 1 = s
            BY <3>2
          <6>2. up[s + 1] = rest[s]
            BY <3>2, <6>1
          <6>. QED
            BY <5>1, <6>1, <6>2
        <5>. QED
          BY <2>11, <2>12, <3>5, <4>2, <5>1
      <4>. QED
        BY <4>1, <4>2
    <3>6. up[Len(up)].dir = 1
      <4>1. Len(up) \in 2..Len(up) /\ Len(up) - 1 = Len(rest)
        BY <1>4, <3>2
      <4>. QED
        BY <1>7, <3>2, <4>1
    <3>7. ShowInv'
      BY <1>1, <2>6, <3>1, <3>4, <3>5 DEF ShowInv, ms
    <3>. QED
      BY <1>1, <3>1, <3>6, <3>7 DEF BottomInv
  <2>14. CASE ~(n.kind = "dir" /\ n.link = 0)
    <3>1. stack' = rest
      BY <2>1, <2>14
    <3>2. \A i \in 1..Len(ms) : Owns(ms, i) =>
            (\E s \in 1..Len(rest) : rest[s].dir = i) \/ Full(ms, host, i)
      <4>1. ~Owns(ms, L + 1)
        <5>1. L + 1 # 1
          BY <1>2
        <5>. QED
          BY <2>7, <2>14, <5>1 DEF Owns
      <4>. QED
        BY <2>11, <2>12, <4>1
    <3>3. ShowInv'
      BY <1>1, <2>6, <2>10, <3>1, <3>2 DEF ShowInv, ms
    <3>. QED
      BY <1>1, <1>7, <3>1, <3>3 DEF BottomInv
  <2>. QED
    BY <2>13, <2>14
<1>. QED
  BY <1>11, <1>12

LEMMA ShowSteps ==
  ASSUME PassInv, PassInv', FirstInv, BottomInv, ShowInv, LinksLate, ImageNext
  PROVE  ShowInv' /\ BottomInv'
<1>1. CASE ScanRoot
  BY <1>1, RootShown
<1>2. CASE ScanEntry
  BY <1>2, EntryShown
<1>3. CASE ScanLeave
  BY <1>3, LeaveShown
<1>4. CASE DumpVolume \/ DumpNode \/ DumpEnd
  <2>1. nodes' = nodes /\ host' = host /\ stack' = stack /\ stack = <<>>
    BY <1>4 DEF DumpVolume, DumpNode, DumpEnd, BottomInv
  <2>. QED
    BY <2>1 DEF ShowInv, BottomInv
<1>. QED
  BY <1>1, <1>2, <1>3, <1>4 DEF ImageNext

-----------------------------------------------------------------------------
(* The image shows the host. *)

\* What is listed up to an entry that is kept stays listed.
LEMMA Nonempty ==
  ASSUME NEW h \in Hosts, NEW d \in DOMAIN h, NEW e \in Range(h[d].entries), KeptIn(h, d, e)
  PROVE  Len(Listing(h, d)[Len(h[d].entries)]) >= 1
<1>. DEFINE all == h[d].entries
            n == Len(all)
            list == Listing(h, d)
            R == EntryIn(h)
<1>1. all \in Seq(R) /\ n \in Nat /\ \A k \in 1..n : all[k] \in R
  BY EntriesTyped
<1>2. PICK k \in 1..n : all[k] = e
  <2>. HIDE DEF R, all
  <2>1. DOMAIN all = 1..Len(all)
    BY <1>1
  <2>2. e \in Range(all)
    BY DEF all
  <2>. QED
    BY <2>1, <2>2 DEF Range
<1>3. /\ \A m \in 0..n : list[m] \in Seq(R)
      /\ \A m \in 1..n : list[m] = IF KeptIn(h, d, all[m]) THEN Append(list[m - 1], all[m]) ELSE list[m - 1]
  BY ListingFacts
<1>. HIDE DEF all, n, list, R
<1>. DEFINE T == {m \in 0..n : m >= k => Len(list[m]) >= 1}
<1>4. ASSUME NEW m \in 0..n, \A j \in 0..(m - 1) : j \in T
      PROVE  m \in T
  <2>1. CASE m < k
    BY <1>2, <2>1
  <2>2. CASE m >= k
    <3>1. m \in 1..n /\ m - 1 \in 0..n /\ m - 1 \in 0..(m - 1)
      BY <1>1, <1>2, <2>2
    <3>. DEFINE u == list[m - 1]
                v == list[m]
                a == all[m]
    <3>2. u \in Seq(R) /\ a \in R /\ (v = IF KeptIn(h, d, a) THEN Append(u, a) ELSE u)
      BY <1>1, <1>3, <3>1
    <3>3. m # k => Len(u) >= 1
      <4>1. m # k => m - 1 >= k
        BY <1>2, <2>2
      <4>. QED
        BY <1>4, <3>1, <4>1
    <3>4. m = k => KeptIn(h, d, a)
      BY <1>2
    <3>. HIDE DEF u, v, a
    <3>5. Len(v) >= 1
      <4>1. Len(u) \in Nat /\ Len(Append(u, a)) = Len(u) + 1
        BY <3>2
      <4>. QED
        BY <3>2, <3>3, <3>4, <4>1
    <3>. QED
      BY <3>5 DEF v
  <2>. QED
    BY <1>2, <2>1, <2>2
<1>. HIDE DEF T
<1>5. \A m \in 0..n : m \in T
  BY <1>1, <1>4, UpTo
<1>6. n \in T /\ n >= k
  BY <1>1, <1>2, <1>5
<1>. QED
  BY <1>6 DEF T, n, list, all

\* Following next, one after the other.
LEMMA NthFacts ==
  ASSUME NEW N \in Nat, NEW u, u[N + 1] = 0,
         \A j \in 1..N : u[j] \in DOMAIN image /\ Mask(Ntohl(image[u[j]].next)) = u[j + 1],
         NEW k \in 1..(N + 1)
  PROVE  NthHeader(u[1], k) = u[k]
<1>. DEFINE value(g, j) ==
              IF j = 1 THEN u[1]
              ELSE IF g[j - 1] \in DOMAIN image THEN Mask(Ntohl(image[g[j - 1]].next)) ELSE 0
            Good(g) == g = [j \in 1..k |-> value(g, j)]
            c == CHOOSE g : Good(g)
            G == [j \in 1..k |-> u[j]]
<1>1. \A j \in 2..k : j - 1 \in 1..N /\ (j - 1) + 1 = j /\ j - 1 \in 1..k
  OBVIOUS
<1>2. Good(G)
  <2>1. \A j \in 1..k : G[j] = value(G, j)
    <3>. TAKE j \in 1..k
    <3>1. CASE j = 1
      BY <3>1
    <3>2. CASE j # 1
      <4>1. j \in 2..k
        BY <3>2
      <4>2. G[j - 1] = u[j - 1] /\ G[j] = u[j]
        BY <1>1, <4>1
      <4>3. u[j - 1] \in DOMAIN image /\ Mask(Ntohl(image[u[j - 1]].next)) = u[j]
        BY <1>1, <4>1
      <4>. HIDE DEF G
      <4>. QED
        BY <3>2, <4>2, <4>3
    <3>. QED
      BY <3>1, <3>2
  <2>2. G = [j \in 1..k |-> G[j]]
    OBVIOUS
  <2>. HIDE DEF G, value
  <2>. QED
    BY <2>1, <2>2
<1>3. Good(c)
  <2>. HIDE DEF Good, G
  <2>. QED
    BY <1>2
<1>4. NthHeader(u[1], k) = c[k]
  BY Zenon DEF NthHeader
<1>5. \A j \in 1..k : c[j] = value(c, j)
  <2>. HIDE DEF c, value
  <2>. QED
    BY <1>3
<1>. HIDE DEF c, Good, G
<1>. DEFINE T == {j \in 0..k : j # 0 => c[j] = u[j]}
<1>6. ASSUME NEW j \in 0..k, \A m \in 0..(j - 1) : m \in T
      PROVE  j \in T
  <2>1. CASE j = 0
    BY <2>1
  <2>2. CASE j = 1
    <3>1. 1 \in 1..k
      BY <2>2
    <3>. QED
      BY <1>5, <2>2, <3>1
  <2>3. CASE j \notin {0, 1}
    <3>1. j \in 2..k /\ j \in 1..k /\ j - 1 # 0
      BY <2>3
    <3>2. c[j - 1] = u[j - 1]
      BY <1>6, <3>1
    <3>3. u[j - 1] \in DOMAIN image /\ Mask(Ntohl(image[u[j - 1]].next)) = u[j]
      BY <1>1, <3>1
    <3>4. c[j] = u[j]
      BY <1>5, <3>1, <3>2, <3>3
    <3>. QED
      BY <3>4
  <2>. QED
    BY <2>1, <2>2, <2>3
<1>. HIDE DEF T
<1>7. k \in T
  <2>1. k \in Nat /\ k \in 0..k
    OBVIOUS
  <2>2. \A j \in 0..k : j \in T
    BY <1>6, <2>1, UpTo
  <2>. QED
    BY <2>1, <2>2
<1>. QED
  BY <1>4, <1>7 DEF T

\* The sibling of a header is the next of the list.
LEMMA NextKid ==
  ASSUME NEW ns, Len(ns) \in Nat, NEW i, NEW s, InOrder(s, Kids(ns, i)), NEW k \in 1..Len(s)
  PROVE  NextOff(ns, s[k]) = IF k = Len(s) THEN 0 ELSE ns[s[k + 1]].off
<1>1. /\ s \in Seq(Nat) /\ Len(s) \in Nat
      /\ \A m \in 1..Len(s) : s[m] \in 2..Len(ns) /\ ns[s[m]].dir = i
      /\ \A j \in 2..Len(ns) : ns[j].dir = i => \E m \in 1..Len(s) : s[m] = j
      /\ \A a, b \in 1..Len(s) : a < b => s[a] < s[b]
  BY DEF InOrder, Kids
<1>2. \A j \in Later(ns, s[k]) : \E m \in 1..Len(s) : s[m] = j /\ k < m
  <2>. SUFFICES ASSUME NEW j \in Later(ns, s[k]) PROVE \E m \in 1..Len(s) : s[m] = j /\ k < m
    OBVIOUS
  <2>1. s[k] \in 2..Len(ns) /\ ns[s[k]].dir = i
    BY <1>1
  <2>2. j \in 2..Len(ns) /\ ns[j].dir = i /\ s[k] < j
    BY <2>1 DEF Later
  <2>3. PICK m \in 1..Len(s) : s[m] = j
    BY <1>1, <2>2
  <2>4. ~(m < k) /\ m # k
    <3>1. m < k => s[m] < s[k]
      BY <1>1
    <3>. QED
      BY <2>1, <2>2, <2>3, <3>1
  <2>. QED
    BY <1>1, <2>3, <2>4
<1>3. CASE k = Len(s)
  <2>1. Later(ns, s[k]) = {}
    BY <1>1, <1>2, <1>3
  <2>. QED
    BY <1>3, <2>1 DEF NextOff
<1>4. CASE k # Len(s)
  <2>. DEFINE j == s[k + 1]
              S == Later(ns, s[k])
  <2>1. k + 1 \in 1..Len(s) /\ k < k + 1
    BY <1>1, <1>4
  <2>2. j \in S
    <3>1. s[k] < s[k + 1] /\ s[k] \in 2..Len(ns) /\ s[k + 1] \in 2..Len(ns)
          /\ ns[s[k]].dir = i /\ ns[s[k + 1]].dir = i
      BY <1>1, <2>1
    <3>. QED
      BY <3>1 DEF Later
  <2>3. \A m \in S : j <= m
    <3>. TAKE m \in S
    <3>1. PICK l \in 1..Len(s) : s[l] = m /\ k < l
      BY <1>2
    <3>2. l = k + 1 \/ k + 1 < l
      BY <3>1
    <3>3. k + 1 < l => s[k + 1] < s[l]
      BY <1>1, <2>1
    <3>4. s[k + 1] \in Nat /\ s[l] \in Nat
      BY <1>1, <2>1
    <3>. QED
      BY <3>1, <3>2, <3>3, <3>4
  <2>4. S \in SUBSET Nat
    <3>1. s[k] \in Nat
      BY <1>1
    <3>. QED
      BY <3>1 DEF Later
  <2>. HIDE DEF S, j
  <2>5. Least(S) \in S /\ \A m \in S : Least(S) <= m
    BY <2>2, <2>4, LeastFacts
  <2>6. Least(S) = j
    <3>1. Least(S) <= j /\ j <= Least(S) /\ j \in Nat /\ Least(S) \in Nat
      BY <2>2, <2>3, <2>4, <2>5
    <3>. QED
      BY <3>1
  <2>. QED
    BY <1>4, <2>2, <2>6 DEF NextOff, S, j
<1>. QED
  BY <1>3, <1>4

\* A header of the finished image.
LEMMA HeaderAt ==
  ASSUME PassInv, DumpInv, LinksInv, phase = "done", NEW j \in 2..Len(nodes), NEW t, t = nodes[j].off
  PROVE  /\ t \in DOMAIN image /\ image[t].node = j /\ image[t].name = nodes[j].name
         /\ Mask(Ntohl(image[t].next)) = NextOff(nodes, j)
         /\ Ntohl(image[t].spec) = BelowOff(nodes, j)
<1>1. NodesOK(nodes, offset)
  BY DEF PassInv
<1>2. j \in 1..Len(nodes) /\ t > 0 /\ t \in Nat
  <2>1. j \in Kids(nodes, nodes[j].dir) /\ j \in 1..Len(nodes)
    BY DEF Kids
  <2>2. nodes[j].dir \in Nat
    BY <1>1, <2>1, NodeFacts
  <2>. QED
    BY <1>1, <2>1, <2>2, KidFacts
<1>3. PICK k \in 1..Len(nodes) : Written(k)
  BY DEF DumpInv
<1>4. k = Len(nodes)
  BY <1>3 DEF Written
<1>5. t \in DOMAIN image /\ image[t].node = j /\ image[t].name = nodes[j].name
  BY <1>2, <1>3, <1>4 DEF Written
<1>6. t \in DOMAIN image \ {0}
  BY <1>2, <1>5
<1>. QED
  BY <1>5, <1>6 DEF LinksInv

\* A directory with a header has a "." in its list.
LEMMA HasDot ==
  ASSUME NEW h \in Hosts, NEW d \in DOMAIN h, d # Outside, d # Root, h[d].kind = "dir", h[d].readable,
         Dot \notin Excludes
  PROVE  Len(Listing(h, d)[Len(h[d].entries)]) >= 1
<1>1. PICK e \in Range(h[d].entries) : e.name = Dot
  BY TreeAssumption
<1>2. e.ino = d
  BY <1>1, HostTree
<1>3. FileIn(h, e) = d
  BY <1>1, <1>2 DEF FileIn, FollowedIn, Dot
<1>4. d # NoFile
  BY HostFacts DEF NoFile
<1>5. KeptIn(h, d, e)
  BY <1>1, <1>3, <1>4 DEF KeptIn, TakenIn
<1>. QED
  BY <1>5, Nonempty

\* What is at a directory's headers.
LEMMA HeadersShow ==
  ASSUME PassInv, DumpInv, LinksInv, phase = "done", NEW o, NEW s, InOrder(s, Kids(nodes, o)),
         NEW N \in Nat, Len(s) = N, N >= 1, NEW first, first = nodes[s[1]].off
  PROVE  /\ NthHeader(first, N + 1) = 0
         /\ \A k \in 1..N :
              LET p == NthHeader(first, k)
              IN  /\ s[k] \in 2..Len(nodes)
                  /\ p \in DOMAIN image /\ image[p].node = s[k] /\ image[p].name = nodes[s[k]].name
                  /\ Ntohl(image[p].spec) = BelowOff(nodes, s[k])
<1>0. NodesOK(nodes, offset) /\ Len(nodes) \in Nat
  BY DEF PassInv, NodesOK
<1>. DEFINE u == [k \in 1..(N + 1) |-> IF k = N + 1 THEN 0 ELSE nodes[s[k]].off]
<1>1. \A k \in 1..N : s[k] \in 2..Len(nodes)
  BY DEF InOrder, Kids
<1>2. u[N + 1] = 0 /\ \A k \in 1..N : u[k] = nodes[s[k]].off
  OBVIOUS
<1>3. u[1] = first
  BY <1>2
<1>. HIDE DEF u
<1>4. ASSUME NEW k \in 1..N
      PROVE  /\ u[k] \in DOMAIN image /\ image[u[k]].node = s[k] /\ image[u[k]].name = nodes[s[k]].name
             /\ Mask(Ntohl(image[u[k]].next)) = u[k + 1]
             /\ Ntohl(image[u[k]].spec) = BelowOff(nodes, s[k])
  <2>1. s[k] \in 2..Len(nodes) /\ u[k] = nodes[s[k]].off
    BY <1>1, <1>2
  <2>. DEFINE j == s[k]
  <2>2. j \in 2..Len(nodes) /\ u[k] = nodes[j].off
    BY <2>1
  <2>. HIDE DEF j
  <2>3. /\ u[k] \in DOMAIN image /\ image[u[k]].node = j /\ image[u[k]].name = nodes[j].name
        /\ Mask(Ntohl(image[u[k]].next)) = NextOff(nodes, j)
        /\ Ntohl(image[u[k]].spec) = BelowOff(nodes, j)
    BY <2>2, HeaderAt
  <2>4. NextOff(nodes, s[k]) = IF k = Len(s) THEN 0 ELSE nodes[s[k + 1]].off
    BY <1>0, NextKid
  <2>5. NextOff(nodes, s[k]) = u[k + 1]
    <3>1. CASE k = N
      BY <1>2, <2>4, <3>1
    <3>2. CASE k # N
      <4>1. k + 1 \in 1..N
        BY <3>2
      <4>. QED
        BY <1>2, <2>4, <3>2, <4>1
    <3>. QED
      BY <3>1, <3>2
  <2>. QED
    BY <2>3, <2>5 DEF j
<1>5. \A k \in 1..(N + 1) : NthHeader(u[1], k) = u[k]
  <2>1. \A k \in 1..N : u[k] \in DOMAIN image /\ Mask(Ntohl(image[u[k]].next)) = u[k + 1]
    BY <1>4
  <2>. QED
    BY <1>2, <2>1, NthFacts
<1>6. N + 1 \in 1..(N + 1) /\ \A k \in 1..N : k \in 1..(N + 1)
  OBVIOUS
<1>7. NthHeader(first, N + 1) = 0
  BY <1>2, <1>3, <1>5, <1>6
<1>8. \A k \in 1..N : NthHeader(first, k) = u[k]
  BY <1>3, <1>5, <1>6
<1>. QED
  BY <1>1, <1>4, <1>7, <1>8

\* Where a list begins.
LEMMA FirstOf ==
  ASSUME PassInv, DumpInv, LinksInv, FirstInv, phase = "done", AllMade(nodes, host),
         NEW o \in 1..Len(nodes), Owns(nodes, o), NEW s, InOrder(s, Kids(nodes, o)), Len(s) >= 1
  PROVE  nodes[s[1]].off = IF o = 1 THEN HeaderLen(Volume) ELSE Ntohl(image[nodes[o].off].spec)
<1>0. NodesOK(nodes, offset) /\ Len(nodes) \in Nat
  BY DEF PassInv, NodesOK
<1>1. /\ s \in Seq(Nat) /\ Len(s) \in Nat /\ 1 \in 1..Len(s)
      /\ \A j \in Kids(nodes, o) : \E k \in 1..Len(s) : s[k] = j
      /\ \A k \in 1..Len(s) : s[k] \in Kids(nodes, o)
      /\ \A k, l \in 1..Len(s) : k < l => s[k] < s[l]
  BY DEF InOrder
<1>2. s[1] \in Kids(nodes, o) /\ \A j \in Kids(nodes, o) : s[1] <= j
  <2>1. \A k \in 1..Len(s) : s[1] <= s[k]
    <3>. TAKE k \in 1..Len(s)
    <3>1. k = 1 \/ 1 < k
      OBVIOUS
    <3>2. s[1] \in Nat /\ s[k] \in Nat
      BY <1>1
    <3>. QED
      BY <1>1, <3>1, <3>2
  <2>. QED
    BY <1>1, <2>1
<1>3. CASE o = 1
  <2>1. 2 \in Kids(nodes, o) /\ nodes[2].off = HeaderLen(Volume)
    BY <1>0, <1>3 DEF FirstInv, AllMade, RootMade, Kids
  <2>2. s[1] = 2
    BY <1>2, <2>1 DEF Kids
  <2>. QED
    BY <1>3, <2>1, <2>2
<1>4. CASE o # 1
  <2>1. o \in 2..Len(nodes) /\ nodes[o].kind = "dir" /\ nodes[o].link = 0
    BY <1>4 DEF Owns
  <2>2. Ntohl(image[nodes[o].off].spec) = BelowOff(nodes, o)
    BY <2>1, HeaderAt
  <2>3. Least(Kids(nodes, o)) = s[1] /\ Kids(nodes, o) # {}
    <3>. DEFINE S == Kids(nodes, o)
    <3>1. S \in SUBSET Nat
      BY DEF Kids
    <3>2. s[1] \in S /\ \A j \in S : s[1] <= j
      BY <1>2
    <3>. HIDE DEF S
    <3>3. Least(S) \in S /\ \A j \in S : Least(S) <= j
      BY <3>1, <3>2, LeastFacts
    <3>4. Least(S) \in Nat /\ s[1] \in Nat /\ Least(S) <= s[1] /\ s[1] <= Least(S)
      BY <3>1, <3>2, <3>3
    <3>5. Least(S) = s[1]
      BY <3>4
    <3>. QED
      BY <3>2, <3>5 DEF S
  <2>. QED
    BY <1>4, <2>1, <2>2, <2>3 DEF BelowOff
<1>. QED
  BY <1>3, <1>4

LEMMA HostShown ==
  ASSUME PassInv, DumpInv, LinksInv, FirstInv, ShowInv, BottomInv, Dot \notin Excludes
  PROVE  ImageIsHost
<1>. SUFFICES ASSUME phase = "done", NEW i \in 2..Len(nodes), nodes[i].kind = "dir", nodes[i].link = 0
              PROVE
      LET d     == nodes[i].ino
          list  == Listed(d)
          first == IF d = Root THEN HeaderLen(Volume) ELSE Ntohl(image[nodes[i].off].spec)
          head(k) == image[NthHeader(first, k)]
          leads(k) == LET n == nodes[head(k).node]
                      IN  IF n.link = 0 THEN n.off ELSE Ntohl(head(k).spec)
      IN  /\ \A k \in 1..Len(list) :
               /\ NthHeader(first, k) \in DOMAIN image
               /\ head(k).name = Name(list[k])
               /\ Name(list[k]) = Dot => leads(k) = nodes[i].off
               /\ Name(list[k]) = DotDot =>
                    leads(k) = nodes[IF nodes[i].dir \in {0, 1} THEN 2 ELSE nodes[i].dir].off
               /\ Name(list[k]) \notin {Dot, DotDot} =>
                    LET n == nodes[image[leads(k)].node]
                    IN  n.ino = File(list[k]) /\ n.link = 0
          /\ NthHeader(first, Len(list) + 1) = 0
  BY DEF ImageIsHost
<1>. DEFINE d == nodes[i].ino
            list == Listed(d)
            first == IF d = Root THEN HeaderLen(Volume) ELSE Ntohl(image[nodes[i].off].spec)
            head(k) == image[NthHeader(first, k)]
            leads(k) == LET n == nodes[head(k).node]
                        IN  IF n.link = 0 THEN n.off ELSE Ntohl(head(k).spec)
            o == IF i = 2 THEN 1 ELSE i
            N == Len(list)
<1>1. /\ host \in Hosts /\ NodesOK(nodes, offset) /\ nodes \in Seq(Filenodes) /\ Len(nodes) \in Nat
      /\ Len(nodes) > 1 /\ stack = <<>>
  BY DEF PassInv, NodesOK, BottomInv
<1>2. AllMade(nodes, host) /\ \A j \in 1..Len(nodes) : Owns(nodes, j) => Full(nodes, host, j)
  BY <1>1 DEF ShowInv
<1>3. /\ Len(nodes) >= 3 /\ nodes[2].ino = Root /\ nodes[2].dir = 1 /\ nodes[2].link = 0
      /\ nodes[3].link = 2 /\ nodes[3].ino = Outside
  BY <1>2 DEF AllMade, RootMade
<1>4. i = 2 \/ i \in 4..Len(nodes)
  <2>1. i # 3
    BY <1>3
  <2>. QED
    BY <1>1, <2>1
<1>5. /\ o \in 1..Len(nodes) /\ Owns(nodes, o) /\ DirOf(nodes, o) = d /\ Owner(o) = i
  BY <1>1, <1>3, <1>4 DEF Owns, DirOf, Owner
<1>6. Back(nodes) /\ d \in DOMAIN host /\ ((d = Root) <=> (o = 1))
  <2>1. Back(nodes) /\ DirOf(nodes, o) \in DOMAIN host /\ ((DirOf(nodes, o) = Root) <=> (o = 1))
    BY <1>1, <1>2, <1>5, OwnerFacts
  <2>. QED
    BY <1>5, <2>1
<1>7. PICK s : Lists(nodes, host, o, s, list)
  <2>1. list = Listing(host, d)[Len(host[d].entries)]
    BY ListedListing
  <2>2. Full(nodes, host, o)
    BY <1>2, <1>5
  <2>. QED
    BY <1>5, <2>1, <2>2 DEF Full, Shown
<1>8. /\ InOrder(s, Kids(nodes, o)) /\ Len(s) = N /\ N \in Nat
      /\ \A k \in 1..N : Like(nodes, host, o, s[k], list[k])
  BY <1>7 DEF Lists, InOrder
<1>9. N >= 1
  <2>1. CASE i = 2
    <3>1. 2 \in Kids(nodes, o)
      BY <1>1, <1>3, <2>1 DEF Kids
    <3>2. \E k \in 1..Len(s) : s[k] = 2
      BY <1>8, <3>1 DEF InOrder
    <3>. HIDE DEF list
    <3>. QED
      BY <1>8, <3>2
  <2>2. CASE i # 2
    <3>1. i \in 4..Len(nodes) /\ o = i /\ Owns(nodes, i)
      BY <1>4, <1>5, <2>2
    <3>2. Made(nodes, host, i)
      BY <1>2, <3>1 DEF AllMade
    <3>3. host[d].kind = "dir" /\ host[d].readable
      BY <3>1, <3>2 DEF Made
    <3>4. d # Outside
      <4>1. 3 \in 2..(i - 1)
        BY <3>1
      <4>2. ~Before(nodes, i, d)
        BY <3>2 DEF Made
      <4>. QED
        BY <1>3, <4>1, <4>2 DEF Before
    <3>5. d # Root
      BY <1>6, <3>1
    <3>6. list = Listing(host, d)[Len(host[d].entries)]
      BY ListedListing
    <3>. HIDE DEF d, list
    <3>. QED
      BY <1>1, <1>6, <3>3, <3>4, <3>5, <3>6, HasDot
  <2>. QED
    BY <2>1, <2>2
<1>10. first = nodes[s[1]].off
  <2>1. Len(s) >= 1
    BY <1>8, <1>9
  <2>2. nodes[s[1]].off = IF o = 1 THEN HeaderLen(Volume) ELSE Ntohl(image[nodes[o].off].spec)
    BY <1>2, <1>5, <1>8, <2>1, FirstOf
  <2>3. o # 1 => o = i
    OBVIOUS
  <2>. HIDE DEF d, o
  <2>. QED
    BY <1>6, <2>2, <2>3
<1>. HIDE DEF first, list, N, o, d
<1>11. /\ NthHeader(first, N + 1) = 0
       /\ \A k \in 1..N :
            /\ s[k] \in 2..Len(nodes)
            /\ NthHeader(first, k) \in DOMAIN image
            /\ head(k).node = s[k] /\ head(k).name = nodes[s[k]].name
            /\ Ntohl(head(k).spec) = BelowOff(nodes, s[k])
  BY <1>8, <1>9, <1>10, HeadersShow
<1>12. ASSUME NEW k \in 1..N
       PROVE  /\ leads(k) = nodes[Lead(nodes, s[k])].off
              /\ Lead(nodes, s[k]) \in 2..Len(nodes)
              /\ image[leads(k)].node = Lead(nodes, s[k])
  <2>. DEFINE j == s[k]
  <2>1. j \in 2..Len(nodes) /\ head(k).node = j /\ Ntohl(head(k).spec) = BelowOff(nodes, j)
    BY <1>11
  <2>2. leads(k) = IF nodes[j].link = 0 THEN nodes[j].off ELSE BelowOff(nodes, j)
    BY <2>1
  <2>. HIDE DEF leads, head, j
  <2>3. leads(k) = nodes[Lead(nodes, j)].off
    BY <2>2 DEF Lead, BelowOff
  <2>4. Lead(nodes, j) \in 2..Len(nodes)
    <3>1. nodes[j].link \in (0..(j - 1)) \ {1}
      BY <1>6, <2>1 DEF Back
    <3>. QED
      BY <1>1, <2>1, <3>1 DEF Lead
  <2>5. image[leads(k)].node = Lead(nodes, j)
    BY <2>3, <2>4, HeaderAt
  <2>. QED
    BY <2>3, <2>4, <2>5 DEF j
<1>13. ASSUME NEW k \in 1..N
       PROVE  /\ NthHeader(first, k) \in DOMAIN image
              /\ head(k).name = Name(list[k])
              /\ Name(list[k]) = Dot => leads(k) = nodes[i].off
              /\ Name(list[k]) = DotDot =>
                   leads(k) = nodes[IF nodes[i].dir \in {0, 1} THEN 2 ELSE nodes[i].dir].off
              /\ Name(list[k]) \notin {Dot, DotDot} =>
                   LET n == nodes[image[leads(k)].node]
                   IN  n.ino = File(list[k]) /\ n.link = 0
  <2>1. NthHeader(first, k) \in DOMAIN image /\ head(k).name = nodes[s[k]].name
    BY <1>11
  <2>2. /\ leads(k) = nodes[Lead(nodes, s[k])].off /\ image[leads(k)].node = Lead(nodes, s[k])
    BY <1>12
  <2>3. Like(nodes, host, o, s[k], list[k])
    BY <1>8
  <2>4. NameIn(host, list[k]) = Name(list[k]) /\ FileIn(host, list[k]) = File(list[k])
    BY InHost
  <2>. HIDE DEF head, leads
  <2>5. head(k).name = Name(list[k])
    BY <2>1, <2>3, <2>4 DEF Like
  <2>6. Name(list[k]) = Dot => leads(k) = nodes[i].off
    BY <1>5, <2>2, <2>3, <2>4 DEF Like
  <2>7. ASSUME Name(list[k]) = DotDot
        PROVE  leads(k) = nodes[IF nodes[i].dir \in {0, 1} THEN 2 ELSE nodes[i].dir].off
    <3>1. Lead(nodes, s[k]) = Up(nodes, o)
      BY <2>3, <2>4, <2>7 DEF Like
    <3>2. Up(nodes, o) = IF nodes[i].dir \in {0, 1} THEN 2 ELSE nodes[i].dir
      <4>1. CASE i = 2
        BY <1>3, <4>1 DEF Up, o
      <4>2. CASE i # 2
        <5>1. o = i /\ o # 1 /\ nodes[i].dir \in 1..(i - 1)
          BY <1>1, <4>2 DEF o, NodesOK
        <5>. QED
          BY <5>1 DEF Up, Owner
      <4>. QED
        BY <4>1, <4>2
    <3>. QED
      BY <2>2, <3>1, <3>2
  <2>8. Name(list[k]) \notin {Dot, DotDot} =>
          /\ nodes[image[leads(k)].node].ino = File(list[k])
          /\ nodes[image[leads(k)].node].link = 0
    BY <2>2, <2>3, <2>4 DEF Like
  <2>. QED
    BY <2>1, <2>5, <2>6, <2>7, <2>8
<1>. HIDE DEF leads, head
<1>14. /\ \A k \in 1..N :
              /\ NthHeader(first, k) \in DOMAIN image
              /\ head(k).name = Name(list[k])
              /\ Name(list[k]) = Dot => leads(k) = nodes[i].off
              /\ Name(list[k]) = DotDot =>
                   leads(k) = nodes[IF nodes[i].dir \in {0, 1} THEN 2 ELSE nodes[i].dir].off
              /\ Name(list[k]) \notin {Dot, DotDot} =>
                   LET n == nodes[image[leads(k)].node]
                   IN  n.ino = File(list[k]) /\ n.link = 0
       /\ NthHeader(first, N + 1) = 0
  BY <1>11, <1>13
<1>. QED
  BY <1>14, Zenon DEF leads, head, first, list, N, d

LEMMA AlwaysShown == Spec /\ []LinksLate => [](ShowInv /\ BottomInv)
<1>1. RomfsInit => ShowInv /\ BottomInv
  <2>. SUFFICES ASSUME RomfsInit PROVE ShowInv /\ BottomInv
    OBVIOUS
  <2>1. stack = <<>> /\ Len(nodes) = 1
    BY DEF RomfsInit, Init
  <2>. QED
    BY <2>1 DEF ShowInv, BottomInv
<1>2. ASSUME IInv, IInv', FirstInv, ShowInv, BottomInv, LinksLate, [Next]_vars
      PROVE  ShowInv' /\ BottomInv'
  <2>1. CASE ImageNext
    BY <1>2, <2>1, ShowSteps DEF IInv
  <2>2. CASE UNCHANGED imageVars
    BY <1>2, <2>2 DEF imageVars, ShowInv, BottomInv
  <2>. QED
    BY <1>2, <2>1, <2>2 DEF Next, RomfsNext, Namei, Walk, WalkDir, Found, vars
<1>. QED
  BY <1>1, <1>2, AlwaysPlaced, PTL DEF Spec

-----------------------------------------------------------------------------
(* The theorems. *)

\* The two passes of genromfs agree for every directory tree and all options: every
\* header is written where the scan said it would be, each node exactly once, and
\* the image is as long as the header of the volume says, in whole blocks.
THEOREM PassesAgree == Spec => []WrittenWhereScanned
<1>1. IInv => WrittenWhereScanned
  BY OnceWritten DEF IInv
<1>. QED
  BY <1>1, AlwaysIInv, PTL

\* Headers lie at multiples of 16 and data of regular files where the -a and -A
\* options ask for it, in every image.
THEOREM DataInPlace == Spec => []DataAligned
<1>1. IInv => DataAligned
  BY WellAligned DEF IInv, RomInv
<1>. QED
  BY <1>1, AlwaysIInv, PTL

\* Every header belongs to a node of the scan, and a call of namei stays within its
\* buffer and its states and knows the end of its path in the second loop.
THEOREM TypesHold == Spec => []TypeOK
<1>1. ASSUME IInv
      PROVE  TypeOK
  <2>1. phase \in {"scan", "dump", "done"}
    BY <1>1 DEF IInv, DumpInv
  <2>2. \A p \in DOMAIN image : image[p].node \in 1..Len(nodes) /\ Ntohl(image[p].next) \in Nat
    <3>1. CASE phase = "scan"
      BY <1>1, <3>1 DEF IInv, RomInv, ImageInv
    <3>2. CASE phase # "scan"
      <4>1. PICK k \in 1..Len(nodes) : Written(k)
        BY <1>1, <3>2 DEF IInv, DumpInv
      <4>2. \A p \in DOMAIN image : \E i \in 1..k : p = nodes[i].off
        BY <4>1 DEF Written
      <4>3. \A p \in DOMAIN image : image[p].node \in 1..Len(nodes)
        BY <4>1, <4>2 DEF Written
      <4>. QED
        BY <4>1, <4>3 DEF Written
    <3>. QED
      BY <3>1, <3>2
  <2>3. pc \in Places /\ DOMAIN local.name = 1..NameMax
    BY <1>1 DEF IInv, RomInv, LocalType, Buffers
  <2>4. pc \in {"dir", "found"} => ~local.first /\ local.fname = path[Len(path)]
    BY <1>1 DEF IInv, RomInv, CallInv, HeldInv
  <2>5. held \subseteq {"p", "inode", "name"} /\ (path = <<>> \/ path \in Paths)
    BY <1>1 DEF IInv, HeldInv
  <2>. QED
    BY <2>1, <2>2, <2>3, <2>4, <2>5 DEF TypeOK, Places
<1>. QED
  BY <1>1, AlwaysIInv, PTL

\* A lookup leaves nothing behind but what it returns, however many of its
\* allocations are denied and wherever it ends.
THEOREM NoLeak == Spec => []NothingLeaks
<1>1. IInv => NothingLeaks
  BY DEF IInv, RomInv, ResultInv, NothingLeaks
<1>. QED
  BY <1>1, AlwaysIInv, PTL

\* An inode has the name that was asked for, and the place and size of its data, in
\* every image of genromfs and whatever was in the buffer before.
THEOREM InodesTrue == Spec => []InodeTellsTruth
<1>1. IInv => InodeTellsTruth
  BY DEF IInv, RomInv, ResultInv, Truth, InodeTellsTruth
<1>. QED
  BY <1>1, AlwaysIInv, PTL

\* On a RAM disk that has room for the image, a lookup whose buffer held the components
\* asked for finds what the host has there and nothing else, for every host and every
\* path the code is made for.
THEOREM LookupsExact == Spec /\ []ImageFits => []LookupExact
<1>1. RomfsInit => SeekInv
  BY DEF RomfsInit, SeekInv
<1>2. SeekBase /\ SeekInv /\ [Next]_vars => SeekInv'
  BY SeekSteps
<1>3. IInv /\ LinksInv /\ DirsInv /\ FirstInv /\ ImageFits => SeekBase
  BY DEF SeekBase
<1>4. SeekBase /\ SeekInv => LookupExact
  <2>. SUFFICES ASSUME SeekBase, SeekInv, pc = "idle", path # <<>>, exact, Plain(path)
                PROVE  IF Resolve(path) = 0 THEN inode = None
                       ELSE inode # None /\ inode.daddr = nodes[Resolve(path)].off
    BY DEF LookupExact
  <2>1. NodesOK(nodes, offset)
    BY DEF SeekBase, IInv, PassInv
  <2>2. path \in Seq(Seq(Chars))
    BY RomfsAssumption DEF SeekBase, IInv, HeldInv
  <2>3. Straight(nodes, path)
    BY <2>1, <2>2, PlainStraight
  <2>4. Resolve(path) = Target(nodes, path)
    BY ResolveSteps DEF Target
  <2>. QED
    BY <2>3, <2>4 DEF SeekInv
<1>. QED
  BY <1>1, <1>2, <1>3, <1>4, AlwaysPlaced, PTL DEF Spec

\* Once genromfs has ended, the image shows the directories of the host: the list of
\* each, followed from its header through spec and next, has a header for every entry
\* that is to be in it, in the order of readdir, and no other; "." leads to the
\* directory, ".." to the one it lies in, every other to the first header of the same
\* file.  The -x options must not take "." away, for a directory without entries is
\* its own first header; and an "@" link must not come before the directory around
\* the one it leads to, for then genromfs takes the ".." of the latter for the former.
THEOREM ImageShowsHost ==
  ASSUME Dot \notin Excludes
  PROVE  Spec /\ []LinksLate => []ImageIsHost
<1>1. IInv /\ LinksInv /\ FirstInv /\ ShowInv /\ BottomInv => ImageIsHost
  BY HostShown DEF IInv
<1>. QED
  BY <1>1, AlwaysPlaced, AlwaysShown, PTL
=============================================================================
