------------------------------- MODULE Chains -------------------------------
(***************************************************************************)
(* Lists along links, as the object caches have them twice: the free       *)
(* objects through their first word, the slabs of a cache through          *)
(* list.next of their last page.  What a list holds is said by a function  *)
(* from an interval of integers, so that it can grow and shrink at both    *)
(* ends without renumbering.                                               *)
(*                                                                         *)
(* LeastElement is what the proofs use instead of induction over Nat: the  *)
(* first place at which something fails.  UpTo and StepByStep, what holds  *)
(* and what is defined from one place to the next, follow from it.         *)
(***************************************************************************)
EXTENDS Integers, FiniteSetTheorems, TLAPS

\* f lists the members of S from lo on, n of them, each once, and nxt leads from
\* each to the one behind it.
Enumerates(f, lo, n, S, nxt) ==
  /\ \A i \in lo..(lo + n - 1) : f[i] \in S
  /\ \A s \in S : \E i \in lo..(lo + n - 1) : f[i] = s
  /\ \A i, j \in lo..(lo + n - 1) : f[i] = f[j] => i = j
  /\ \A i \in lo..(lo + n - 2) : nxt[f[i]] = f[i + 1]

\* S is a list of n members, in the order of nxt, that starts at first.
IsList(S, first, n, nxt) ==
  \E f : \E lo \in Int : Enumerates(f, lo, n, S, nxt) /\ (n > 0 => f[lo] = first)

\* A set of natural numbers that is not empty has a least member.
LEMMA LeastElement ==
  ASSUME NEW T \in SUBSET Nat, T # {}
  PROVE  \E x \in T : \A y \in T : x <= y
<1>1. PICK n \in T : TRUE
  OBVIOUS
<1> DEFINE Upto == {0..m : m \in {t \in T : t <= n}}
           R == StrictSubsetOrdering(0..n)
<1>2. Upto \subseteq SUBSET (0..n) /\ Upto # {}
  BY <1>1
<1>3. IsWellFoundedOn(R, SUBSET (0..n))
  <2>1. IsFiniteSet(0..n)
    BY <1>1, FS_Interval
  <2> QED
    BY <2>1, FS_StrictSubsetOrderingWellFounded, FS_FiniteSubsetsOfFinite
<1>4. PICK U \in Upto : \A V \in Upto : <<V, U>> \notin R
  <2> HIDE DEF Upto, R
  <2> QED
    BY <1>2, <1>3, WFMin
<1>5. PICK x \in T : x <= n /\ U = 0..x
  BY <1>4
<1>6. ASSUME NEW y \in T, y < x PROVE FALSE
  <2>1. 0..y \in Upto
    BY <1>5, <1>6
  <2>2. 0..y \subseteq U /\ 0..y # U
    BY <1>5, <1>6
  <2> QED
    BY <2>1, <2>2, <1>2, <1>4 DEF StrictSubsetOrdering
<1> QED
  BY <1>5, <1>6

\* What holds at k when it holds below k holds up to n.
LEMMA UpTo ==
  ASSUME NEW n \in Nat, NEW T, \A k \in 0..n : (\A j \in 0..(k - 1) : j \in T) => k \in T
  PROVE  \A k \in 0..n : k \in T
<1> DEFINE U == {k \in 0..n : k \notin T}
<1>1. SUFFICES ASSUME U # {} PROVE FALSE
  OBVIOUS
<1>2. PICK x \in U : \A y \in U : x <= y
  <2>1. U \in SUBSET Nat
    OBVIOUS
  <2> HIDE DEF U
  <2> QED
    BY <1>1, <2>1, LeastElement
<1>3. \A j \in 0..(x - 1) : j \in T
  BY <1>2
<1> QED
  BY <1>2, <1>3

\* A function can be defined from each place to the next.
Stays(step, n, S) == \A k \in 1..n : \A x \in S : step[<<k, x>>] \in S
Follows(f, step, n, a, S) ==
  /\ f \in [0..n -> S] /\ f[0] = a
  /\ \A k \in 1..n : f[k] = step[<<k, f[k - 1]>>]

LEMMA StepByStep ==
  ASSUME NEW n \in Nat, NEW S, NEW a \in S, NEW step, Stays(step, n, S)
  PROVE  \E f : Follows(f, step, n, a, S)
<1> DEFINE Good(f, m) == f[0] = a /\ \A k \in 1..m : f[k] = step[<<k, f[k - 1]>>]
           T == {m \in 0..n : \E f \in [0..m -> S] : Good(f, m)}
<1>1. ASSUME NEW m \in 0..n, \A j \in 0..(m - 1) : j \in T
      PROVE  m \in T
  <2>1. CASE m = 0
    <3>1. [k \in 0..0 |-> a] \in [0..0 -> S] /\ Good([k \in 0..0 |-> a], 0)
      OBVIOUS
    <3> QED
      BY <2>1, <3>1
  <2>2. CASE m # 0
    <3>1. m - 1 \in 0..(m - 1) /\ m - 1 \in 0..n
      BY <2>2
    <3>2. PICK f \in [0..(m - 1) -> S] : Good(f, m - 1)
      BY <1>1, <3>1
    <3> DEFINE x == step[<<m, f[m - 1]>>]
               g == [k \in 0..m |-> IF k = m THEN x ELSE f[k]]
    <3>3. x \in S
      <4>1. m \in 1..n /\ f[m - 1] \in S
        BY <2>2, <3>1
      <4> QED
        BY <4>1 DEF Stays
    <3>4. g \in [0..m -> S] /\ g[m] = x /\ \A k \in 0..(m - 1) : g[k] = f[k]
      <4> HIDE DEF x
      <4> QED
        BY <3>3
    <3> HIDE DEF g
    <3>5. g[0] = a
      BY <2>2, <3>2, <3>4
    <3>6. ASSUME NEW k \in 1..m
          PROVE  g[k] = step[<<k, g[k - 1]>>]
      <4>1. k - 1 \in 0..(m - 1) /\ g[k - 1] = f[k - 1]
        BY <3>4
      <4>2. CASE k = m
        BY <3>4, <4>1, <4>2
      <4>3. CASE k # m
        <5>1. k \in 1..(m - 1) /\ g[k] = f[k]
          BY <3>4, <4>3
        <5> HIDE DEF x
        <5> QED
          BY <3>2, <4>1, <5>1
      <4> QED
        BY <4>2, <4>3
    <3> QED
      BY <3>4, <3>5, <3>6
  <2> QED
    BY <2>1, <2>2
<1>2. n \in T
  <2>1. \A k \in 0..n : k \in T
    <3> HIDE DEF T
    <3> QED
      BY <1>1, UpTo
  <2> HIDE DEF T
  <2> QED
    BY <2>1
<1> QED
  BY <1>2 DEF Follows

\* The empty list.
LEMMA NoList ==
  ASSUME NEW first, NEW nxt
  PROVE  IsList({}, first, 0, nxt)
<1>1. Enumerates([i \in Int |-> 0], 0, 0, {}, nxt)
  BY DEF Enumerates
<1> QED
  BY <1>1 DEF IsList

LEMMA ListEmpty ==
  ASSUME NEW S, NEW first, NEW nxt, IsList(S, first, 0, nxt)
  PROVE  S = {}
<1>1. PICK f : \E lo \in Int : Enumerates(f, lo, 0, S, nxt)
  BY DEF IsList
<1>2. PICK lo \in Int : Enumerates(f, lo, 0, S, nxt)
  BY <1>1
<1>3. lo..(lo + 0 - 1) = {}
  OBVIOUS
<1> QED
  BY <1>2, <1>3 DEF Enumerates

\* Only the links of the members matter.
LEMMA ListStays ==
  ASSUME NEW S, NEW first, NEW n \in Nat, NEW nxt, NEW nxt2,
         IsList(S, first, n, nxt), \A s \in S : nxt2[s] = nxt[s]
  PROVE  IsList(S, first, n, nxt2)
<1>1. PICK f : \E lo \in Int : Enumerates(f, lo, n, S, nxt) /\ (n > 0 => f[lo] = first)
  BY DEF IsList
<1>2. PICK lo \in Int : Enumerates(f, lo, n, S, nxt) /\ (n > 0 => f[lo] = first)
  BY <1>1
<1>3. Enumerates(f, lo, n, S, nxt2)
  BY <1>2 DEF Enumerates
<1> QED
  BY <1>2, <1>3 DEF IsList

\* A member put before the first.
LEMMA ListPush ==
  ASSUME NEW S, NEW first, NEW n \in Nat, NEW nxt, NEW a,
         IsList(S, first, n, nxt), a \notin S, n > 0 => nxt[a] = first
  PROVE  IsList(S \cup {a}, a, n + 1, nxt)
<1>1. PICK f : \E lo \in Int : Enumerates(f, lo, n, S, nxt) /\ (n > 0 => f[lo] = first)
  BY DEF IsList
<1>2. PICK lo \in Int : Enumerates(f, lo, n, S, nxt) /\ (n > 0 => f[lo] = first)
  BY <1>1
<1> DEFINE g == [i \in Int |-> IF i = lo - 1 THEN a ELSE f[i]]
<1>3. g[lo - 1] = a /\ \A i \in lo..(lo + n - 1) : g[i] = f[i] /\ i # lo - 1 /\ i \in Int
  OBVIOUS
<1>4. \A i \in (lo - 1)..(lo + n - 1) : i = lo - 1 \/ i \in lo..(lo + n - 1)
  OBVIOUS
<1> HIDE DEF g
<1>5. (lo - 1) + (n + 1) - 1 = lo + n - 1 /\ (lo - 1) + (n + 1) - 2 = lo + n - 2
  OBVIOUS
<1>6. \A i \in (lo - 1)..(lo + n - 1) : g[i] \in S \cup {a}
  BY <1>2, <1>3, <1>4 DEF Enumerates
<1>7. \A s \in S \cup {a} : \E i \in (lo - 1)..(lo + n - 1) : g[i] = s
  <2>1. ASSUME NEW s \in S PROVE \E i \in (lo - 1)..(lo + n - 1) : g[i] = s
    <3>1. PICK i \in lo..(lo + n - 1) : f[i] = s
      BY <1>2 DEF Enumerates
    <3> QED
      BY <3>1, <1>3
  <2>2. lo - 1 \in (lo - 1)..(lo + n - 1)
    OBVIOUS
  <2> QED
    BY <2>1, <2>2, <1>3
<1>8. \A i, j \in (lo - 1)..(lo + n - 1) : g[i] = g[j] => i = j
  BY <1>2, <1>3, <1>4 DEF Enumerates
<1>9. ASSUME NEW i \in (lo - 1)..(lo + n - 2) PROVE nxt[g[i]] = g[i + 1]
  <2>1. CASE i = lo - 1
    BY <2>1, <1>2, <1>3
  <2>2. CASE i # lo - 1
    <3>1. i \in lo..(lo + n - 2) /\ i \in lo..(lo + n - 1) /\ i + 1 \in lo..(lo + n - 1)
      BY <2>2
    <3> QED
      BY <3>1, <1>2, <1>3 DEF Enumerates
  <2> QED
    BY <2>1, <2>2
<1>10. Enumerates(g, lo - 1, n + 1, S \cup {a}, nxt)
  BY <1>5, <1>6, <1>7, <1>8, <1>9 DEF Enumerates
<1> QED
  BY <1>3, <1>10 DEF IsList

\* The first taken away.
LEMMA ListPop ==
  ASSUME NEW S, NEW first, NEW n \in Nat, NEW nxt, IsList(S, first, n, nxt), n > 0
  PROVE  first \in S /\ IsList(S \ {first}, nxt[first], n - 1, nxt)
<1>1. PICK f : \E lo \in Int : Enumerates(f, lo, n, S, nxt) /\ (n > 0 => f[lo] = first)
  BY DEF IsList
<1>2. PICK lo \in Int : Enumerates(f, lo, n, S, nxt) /\ f[lo] = first
  BY <1>1
<1>3. lo \in lo..(lo + n - 1)
  OBVIOUS
<1>4. (lo + 1) + (n - 1) - 1 = lo + n - 1 /\ (lo + 1) + (n - 1) - 2 = lo + n - 2
  OBVIOUS
<1>5. \A i \in (lo + 1)..(lo + n - 1) : i \in lo..(lo + n - 1) /\ i # lo
  OBVIOUS
<1>6. \A i \in lo..(lo + n - 1) : i = lo \/ i \in (lo + 1)..(lo + n - 1)
  OBVIOUS
<1>7. \A i \in (lo + 1)..(lo + n - 1) : f[i] \in S \ {first}
  BY <1>2, <1>3, <1>5 DEF Enumerates
<1>8. \A s \in S \ {first} : \E i \in (lo + 1)..(lo + n - 1) : f[i] = s
  BY <1>2, <1>6 DEF Enumerates
<1>9. \A i \in (lo + 1)..(lo + n - 2) : nxt[f[i]] = f[i + 1]
  BY <1>2 DEF Enumerates
<1>10. Enumerates(f, lo + 1, n - 1, S \ {first}, nxt)
  BY <1>2, <1>4, <1>5, <1>7, <1>8, <1>9 DEF Enumerates
<1>11. n - 1 > 0 => f[lo + 1] = nxt[first]
  BY <1>2 DEF Enumerates
<1>12. first \in S
  BY <1>2, <1>3 DEF Enumerates
<1>13. n - 1 \in Nat
  OBVIOUS
<1> QED
  BY <1>10, <1>11, <1>12, <1>13 DEF IsList

\* A member put behind the last, the one whose link leaves the list.
LEMMA ListAppend ==
  ASSUME NEW S, NEW first, NEW n \in Nat, NEW nxt, NEW nxt2, NEW a, NEW last \in S,
         IsList(S, first, n, nxt), a \notin S,
         nxt[last] \notin S, nxt2[last] = a, \A s \in S \ {last} : nxt2[s] = nxt[s]
  PROVE  IsList(S \cup {a}, first, n + 1, nxt2)
<1>1. PICK f : \E lo \in Int : Enumerates(f, lo, n, S, nxt) /\ (n > 0 => f[lo] = first)
  BY DEF IsList
<1>2. PICK lo \in Int : Enumerates(f, lo, n, S, nxt) /\ (n > 0 => f[lo] = first)
  BY <1>1
<1> DEFINE h == lo + n
           g == [i \in Int |-> IF i = h THEN a ELSE f[i]]
<1>3. g[h] = a /\ \A i \in lo..(lo + n - 1) : g[i] = f[i] /\ i # h /\ i \in Int
  OBVIOUS
<1>4. \A i \in lo..h : i = h \/ i \in lo..(lo + n - 1)
  OBVIOUS
<1>5. PICK m \in lo..(lo + n - 1) : f[m] = last
  BY <1>2 DEF Enumerates
<1>6. m = lo + n - 1
  <2>1. ASSUME m # lo + n - 1 PROVE FALSE
    <3>1. m \in lo..(lo + n - 2) /\ m + 1 \in lo..(lo + n - 1)
      BY <2>1
    <3> QED
      BY <3>1, <1>2, <1>5 DEF Enumerates
  <2> QED
    BY <2>1
<1>7. n > 0 /\ lo + (n + 1) - 1 = h /\ lo + (n + 1) - 2 = lo + n - 1 /\ h \in lo..h
      /\ h = (lo + n - 1) + 1
  BY <1>5
<1> HIDE DEF g, h
<1>8. \A i \in lo..h : g[i] \in S \cup {a}
  BY <1>2, <1>3, <1>4 DEF Enumerates
<1>9. \A s \in S \cup {a} : \E i \in lo..h : g[i] = s
  <2>1. ASSUME NEW s \in S PROVE \E i \in lo..h : g[i] = s
    <3>1. PICK i \in lo..(lo + n - 1) : f[i] = s
      BY <1>2 DEF Enumerates
    <3>2. i \in lo..h
      BY <1>7
    <3> QED
      BY <3>1, <3>2, <1>3
  <2> QED
    BY <2>1, <1>3, <1>7
<1>10. \A i, j \in lo..h : g[i] = g[j] => i = j
  BY <1>2, <1>3, <1>4 DEF Enumerates
<1>11. ASSUME NEW i \in lo..(lo + n - 1) PROVE nxt2[g[i]] = g[i + 1]
  <2>1. CASE i = m
    BY <2>1, <1>3, <1>5, <1>6, <1>7
  <2>2. CASE i # m
    <3>1. i \in lo..(lo + n - 2) /\ i + 1 \in lo..(lo + n - 1)
      BY <2>2, <1>6
    <3>2. f[i] \in S \ {last}
      BY <2>2, <1>2, <1>5 DEF Enumerates
    <3> QED
      BY <3>1, <3>2, <1>2, <1>3 DEF Enumerates
  <2> QED
    BY <2>1, <2>2
<1>12. Enumerates(g, lo, n + 1, S \cup {a}, nxt2)
  BY <1>7, <1>8, <1>9, <1>10, <1>11 DEF Enumerates
<1>13. g[lo] = first
  BY <1>2, <1>3, <1>7
<1> QED
  BY <1>12, <1>13 DEF IsList

\* The links of a list stay in it, but for that of its last member.
LEMMA ListLinks ==
  ASSUME NEW S, NEW first, NEW n \in Nat, NEW nxt, NEW last \in S,
         IsList(S, first, n, nxt), nxt[last] \notin S
  PROVE  first \in S /\ n > 0 /\ \A s \in S \ {last} : nxt[s] \in S
<1>1. PICK f : \E lo \in Int : Enumerates(f, lo, n, S, nxt) /\ (n > 0 => f[lo] = first)
  BY DEF IsList
<1>2. PICK lo \in Int : Enumerates(f, lo, n, S, nxt) /\ (n > 0 => f[lo] = first)
  BY <1>1
<1>3. PICK m \in lo..(lo + n - 1) : f[m] = last
  BY <1>2 DEF Enumerates
<1>4. n > 0 /\ lo \in lo..(lo + n - 1)
  BY <1>3
<1>5. m = lo + n - 1
  <2>1. ASSUME m # lo + n - 1 PROVE FALSE
    <3>1. m \in lo..(lo + n - 2) /\ m + 1 \in lo..(lo + n - 1)
      BY <2>1
    <3> QED
      BY <3>1, <1>2, <1>3 DEF Enumerates
  <2> QED
    BY <2>1
<1>6. ASSUME NEW s \in S \ {last} PROVE nxt[s] \in S
  <2>1. PICK i \in lo..(lo + n - 1) : f[i] = s
    BY <1>2 DEF Enumerates
  <2>2. i \in lo..(lo + n - 2) /\ i + 1 \in lo..(lo + n - 1)
    BY <2>1, <1>3, <1>5
  <2> QED
    BY <2>1, <2>2, <1>2 DEF Enumerates
<1> QED
  BY <1>2, <1>4, <1>6 DEF Enumerates

\* A list has as many members as it says, and they are finitely many.
LEMMA ListCardinality ==
  ASSUME NEW S, NEW first, NEW n \in Nat, NEW nxt, IsList(S, first, n, nxt)
  PROVE  IsFiniteSet(S) /\ Cardinality(S) = n
<1>1. PICK f : \E lo \in Int : Enumerates(f, lo, n, S, nxt)
  BY DEF IsList
<1>2. PICK lo \in Int : Enumerates(f, lo, n, S, nxt)
  BY <1>1
<1> DEFINE I == lo..(lo + n - 1)
           g == [i \in I |-> f[i]]
<1>3. g \in Bijection(I, S)
  BY <1>2 DEF Enumerates, Bijection, Injection, Surjection, IsInjective
<1>4. IsFiniteSet(I) /\ Cardinality(I) = n
  BY FS_Interval
<1>5. ExistsBijection(I, S)
  BY <1>3 DEF ExistsBijection
<1> HIDE DEF I, g
<1> QED
  BY <1>4, <1>5, FS_Bijection

\* v numbers the members from 1 on.
Numbers(v, S, first, n, nxt) ==
  /\ v \in [1..n -> S]
  /\ n > 0 => v[1] = first
  /\ \A i \in 2..n : v[i] = nxt[v[i - 1]]
  /\ \A s \in S : \E i \in 1..n : v[i] = s
  /\ \A i, j \in 1..n : v[i] = v[j] => i = j

LEMMA ListNumbered ==
  ASSUME NEW S, NEW first, NEW n \in Nat, NEW nxt, IsList(S, first, n, nxt)
  PROVE  \E v : Numbers(v, S, first, n, nxt)
<1>1. PICK f : \E lo \in Int : Enumerates(f, lo, n, S, nxt) /\ (n > 0 => f[lo] = first)
  BY DEF IsList
<1>2. PICK lo \in Int : Enumerates(f, lo, n, S, nxt) /\ (n > 0 => f[lo] = first)
  BY <1>1
<1> DEFINE v == [i \in 1..n |-> f[lo + i - 1]]
<1>3. \A i \in 1..n : lo + i - 1 \in lo..(lo + n - 1) /\ v[i] = f[lo + i - 1]
  OBVIOUS
<1>4. v \in [1..n -> S]
  BY <1>2 DEF Enumerates
<1> HIDE DEF v
<1>5. n > 0 => v[1] = first
  BY <1>2, <1>3
<1>6. ASSUME NEW i \in 2..n PROVE v[i] = nxt[v[i - 1]]
  <2>1. /\ i \in 1..n /\ i - 1 \in 1..n /\ lo + (i - 1) - 1 \in lo..(lo + n - 2)
        /\ (lo + (i - 1) - 1) + 1 = lo + i - 1
    OBVIOUS
  <2> QED
    BY <2>1, <1>2, <1>3 DEF Enumerates
<1>7. ASSUME NEW s \in S PROVE \E i \in 1..n : v[i] = s
  <2>1. PICK j \in lo..(lo + n - 1) : f[j] = s
    BY <1>2 DEF Enumerates
  <2>2. j - lo + 1 \in 1..n /\ lo + (j - lo + 1) - 1 = j
    OBVIOUS
  <2> QED
    BY <2>1, <2>2, <1>3
<1>8. ASSUME NEW i \in 1..n, NEW j \in 1..n, v[i] = v[j] PROVE i = j
  <2>1. lo + i - 1 = lo + j - 1
    BY <1>2, <1>3, <1>8 DEF Enumerates
  <2> QED
    BY <2>1
<1> QED
  BY <1>4, <1>5, <1>6, <1>7, <1>8 DEF Numbers

\* Two walks that agree wherever they agreed one step before agree everywhere.
StepsAlike(n, v, w) == \A i \in 1..n : (i = 1 \/ v[i - 1] = w[i - 1]) => v[i] = w[i]

LEMMA SameWalk ==
  ASSUME NEW n \in Nat, NEW v, NEW w, StepsAlike(n, v, w)
  PROVE  \A i \in 1..n : v[i] = w[i]
<1> DEFINE T == {i \in 1..n : v[i] # w[i]}
<1>1. SUFFICES ASSUME T # {} PROVE FALSE
  OBVIOUS
<1>2. PICK x \in T : \A y \in T : x <= y
  <2>1. T \in SUBSET Nat
    OBVIOUS
  <2> HIDE DEF T
  <2> QED
    BY <1>1, <2>1, LeastElement
<1>3. x = 1 \/ (x - 1 \in 1..n /\ x - 1 \notin T)
  BY <1>2
<1> QED
  BY <1>2, <1>3 DEF StepsAlike

\* The first n members from first on, and off behind a member that is not in A.
Along(first, n, A, nxt, off) ==
  LET walk[i \in 1..n] ==
        IF i = 1 THEN first
        ELSE IF walk[i - 1] \in A THEN nxt[walk[i - 1]] ELSE off
  IN  walk
AllAlong(first, n, A, nxt, off) == {Along(first, n, A, nxt, off)[i] : i \in 1..n}

\* What is met from first on until the links lead to off, m of it at most.
ToEnd(first, m, nxt, off) ==
  LET walk[i \in 1..m] ==
        IF i = 1 THEN first
        ELSE IF walk[i - 1] = off THEN off ELSE nxt[walk[i - 1]]
  IN  {walk[i] : i \in DOMAIN walk} \ {off}

\* The walk along the links, from the first, meets the members of the list.
LEMMA WalkList ==
  ASSUME NEW S, NEW first, NEW n \in Nat, NEW nxt, NEW A, NEW off,
         IsList(S, first, n, nxt), S \subseteq A
  PROVE  AllAlong(first, n, A, nxt, off) = S
<1> DEFINE body(w) == [i \in 1..n |->
                         IF i = 1 THEN first
                         ELSE IF w[i - 1] \in A THEN nxt[w[i - 1]] ELSE off]
           walk == CHOOSE w : w = body(w)
<1>0. PICK v : Numbers(v, S, first, n, nxt)
  BY ListNumbered
<1>1. /\ v \in [1..n -> S]
      /\ n > 0 => v[1] = first
      /\ \A i \in 2..n : v[i] = nxt[v[i - 1]]
      /\ \A s \in S : \E i \in 1..n : v[i] = s
      /\ \A i, j \in 1..n : v[i] = v[j] => i = j
  BY <1>0 DEF Numbers
<1>2. v = body(v)
  BY <1>1
<1>3. walk = body(walk)
  <2> HIDE DEF body
  <2> QED
    BY <1>2
<1> HIDE DEF walk
<1>4. StepsAlike(n, v, walk)
  <2> SUFFICES ASSUME NEW i \in 1..n, i = 1 \/ v[i - 1] = walk[i - 1]
               PROVE  v[i] = walk[i]
    BY DEF StepsAlike
  <2>1. v[i] = body(v)[i] /\ walk[i] = body(walk)[i]
    BY <1>2, <1>3
  <2> QED
    BY <2>1
<1>5. \A i \in 1..n : v[i] = walk[i]
  <2> HIDE DEF body
  <2> QED
    BY <1>4, SameWalk
<1>6. {walk[i] : i \in 1..n} = S
  BY <1>1, <1>5
<1> QED
  BY <1>6 DEF walk, Along, AllAlong

\* The same when the walk goes on behind the last, where there is nothing.
LEMMA WalkToEnd ==
  ASSUME NEW S, NEW first, NEW n \in Nat, NEW m \in Nat, NEW nxt, NEW off,
         IsList(S, first, n, nxt), 0 < n, n <= m, off \notin S,
         \A s \in S : nxt[s] \in S \cup {off}, \E s \in S : nxt[s] = off
  PROVE  ToEnd(first, m, nxt, off) = S
<1> DEFINE body(w) == [i \in 1..m |->
                         IF i = 1 THEN first
                         ELSE IF w[i - 1] = off THEN off ELSE nxt[w[i - 1]]]
           walk == CHOOSE w : w = body(w)
<1>0. PICK u : Numbers(u, S, first, n, nxt)
  BY ListNumbered
<1>1. /\ u \in [1..n -> S]
      /\ n > 0 => u[1] = first
      /\ \A i \in 2..n : u[i] = nxt[u[i - 1]]
      /\ \A s \in S : \E i \in 1..n : u[i] = s
      /\ \A i, j \in 1..n : u[i] = u[j] => i = j
  BY <1>0 DEF Numbers
<1> DEFINE v == [i \in 1..m |-> IF i <= n THEN u[i] ELSE off]
<1>2. nxt[u[n]] = off
  <2>1. PICK s \in S : nxt[s] = off
    OBVIOUS
  <2>2. PICK i \in 1..n : u[i] = s
    BY <1>1
  <2>3. ASSUME i # n PROVE FALSE
    <3>1. i + 1 \in 2..n /\ i + 1 \in 1..n /\ (i + 1) - 1 = i
      BY <2>3
    <3>2. u[i + 1] = off
      BY <3>1, <2>1, <2>2, <1>1
    <3>3. u[i + 1] \in S
      BY <3>1, <1>1
    <3> QED
      BY <3>2, <3>3
  <2> QED
    BY <2>1, <2>2, <2>3
<1>3. v = body(v)
  <2> SUFFICES ASSUME NEW i \in 1..m PROVE v[i] = body(v)[i]
    OBVIOUS
  <2>1. CASE i = 1
    BY <2>1, <1>1
  <2>2. CASE i # 1 /\ i <= n
    <3>1. i \in 2..n /\ i - 1 \in 1..n /\ i - 1 \in 1..m /\ i - 1 <= n
      BY <2>2
    <3>2. v[i] = u[i] /\ v[i - 1] = u[i - 1] /\ u[i - 1] # off
      BY <3>1, <1>1
    <3> QED
      BY <3>1, <3>2, <2>2, <1>1
  <2>3. CASE i = n + 1
    <3>1. i - 1 = n /\ n \in 1..m /\ v[n] = u[n] /\ u[n] # off /\ i # 1
      BY <2>3, <1>1
    <3> QED
      BY <3>1, <2>3, <1>2
  <2>4. CASE i > n + 1
    <3>1. i - 1 \in 1..m /\ ~(i - 1 <= n) /\ ~(i <= n) /\ i # 1
      BY <2>4
    <3> QED
      BY <3>1
  <2> QED
    BY <2>1, <2>2, <2>3, <2>4
<1>4. walk = body(walk)
  <2> HIDE DEF body, v
  <2> QED
    BY <1>3
<1> HIDE DEF walk
<1>5. StepsAlike(m, v, walk)
  <2> SUFFICES ASSUME NEW i \in 1..m, i = 1 \/ v[i - 1] = walk[i - 1]
               PROVE  v[i] = walk[i]
    BY DEF StepsAlike
  <2>1. v[i] = body(v)[i] /\ walk[i] = body(walk)[i]
    BY <1>3, <1>4
  <2> HIDE DEF v
  <2> QED
    BY <2>1
<1>6. \A i \in 1..m : v[i] = walk[i]
  <2> HIDE DEF body, v
  <2> QED
    BY <1>5, SameWalk
<1>7. {walk[i] : i \in 1..m} \ {off} = S
  <2>1. \A i \in 1..n : i \in 1..m /\ walk[i] = u[i]
    BY <1>6
  <2>2. \A i \in 1..m : i \in 1..n \/ walk[i] = off
    BY <1>6
  <2>3. \A i \in 1..n : u[i] \in S /\ u[i] # off
    BY <1>1
  <2>4. \A s \in S : \E i \in 1..m : walk[i] = s /\ s # off
    BY <2>1, <1>1
  <2> HIDE DEF v, body
  <2> QED
    BY <2>1, <2>2, <2>3, <2>4
<1>8. DOMAIN walk = 1..m
  BY <1>4
<1> QED
  BY <1>7, <1>8 DEF walk, ToEnd

\* From nothing nothing is met.
LEMMA WalkNowhere ==
  ASSUME NEW m \in Nat, NEW nxt, NEW off
  PROVE  ToEnd(off, m, nxt, off) = {}
<1> DEFINE body(w) == [i \in 1..m |->
                         IF i = 1 THEN off
                         ELSE IF w[i - 1] = off THEN off ELSE nxt[w[i - 1]]]
           walk == CHOOSE w : w = body(w)
           v == [i \in 1..m |-> off]
<1>1. v = body(v)
  <2> SUFFICES ASSUME NEW i \in 1..m PROVE v[i] = body(v)[i]
    OBVIOUS
  <2>1. CASE i # 1
    <3>1. i - 1 \in 1..m
      BY <2>1
    <3> QED
      BY <3>1
  <2> QED
    BY <2>1
<1>2. walk = body(walk)
  <2> HIDE DEF body, v
  <2> QED
    BY <1>1
<1> HIDE DEF walk
<1>3. StepsAlike(m, v, walk)
  <2> SUFFICES ASSUME NEW i \in 1..m, i = 1 \/ v[i - 1] = walk[i - 1]
               PROVE  v[i] = walk[i]
    BY DEF StepsAlike
  <2>1. v[i] = body(v)[i] /\ walk[i] = body(walk)[i]
    BY <1>1, <1>2
  <2> HIDE DEF v
  <2> QED
    BY <2>1
<1>4. \A i \in 1..m : v[i] = walk[i]
  <2> HIDE DEF body, v
  <2> QED
    BY <1>3, SameWalk
<1>5. DOMAIN walk = 1..m /\ \A i \in 1..m : walk[i] = off
  BY <1>2, <1>4
<1> HIDE DEF v, body
<1>6. {walk[i] : i \in DOMAIN walk} \ {off} = {}
  BY <1>5
<1> QED
  BY <1>6 DEF walk, body, ToEnd
=============================================================================
