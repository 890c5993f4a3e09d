---------------------------- MODULE ConsoleProof ----------------------------
(***************************************************************************)
(* The console, for every buffer, every width of an int, every text and    *)
(* every set of programs that print.                                       *)
(***************************************************************************)
EXTENDS Console, Chains

-----------------------------------------------------------------------------
(* Texts put together from parts. *)

\* The constants, apart from the scenarios.
LEMMA Constants ==
  /\ Bits \in Nat /\ Bits > 0 /\ Size \in Nat /\ Size > 0 /\ MaxTyped \in Nat
  /\ Letters \cup {"s", "d", "i", "u", "-", "%", "\n", "\r"} \subseteq Chars
  /\ Hint \in Seq(Chars) /\ Typed \subseteq Chars
<1>1. Bits \in Nat \ {0} /\ Size \in Nat \ {0} /\ MaxTyped \in Nat
  BY ConsoleAssumption, Zenon
<1>2. /\ Letters \cup {"s", "d", "i", "u", "-", "%", "\n", "\r"} \subseteq Chars
      /\ Hint \in Seq(Chars) /\ Typed \subseteq Chars
  BY ConsoleAssumption, Zenon
<1>. QED
  BY <1>1, <1>2

LEMMA SeqOf ==
  ASSUME NEW S, NEW x \in S, NEW y \in S
  PROVE  <<>> \in Seq(S) /\ <<x>> \in Seq(S) /\ <<x, y>> \in Seq(S)
OBVIOUS

LEMMA SeqIn ==
  ASSUME NEW S, NEW T, S \subseteq T, NEW s \in Seq(S)
  PROVE  s \in Seq(T)
OBVIOUS

LEMMA Joined ==
  ASSUME NEW S, NEW a \in Seq(S), NEW b \in Seq(S)
  PROVE  /\ a \o b \in Seq(S) /\ Len(a \o b) = Len(a) + Len(b)
         /\ <<>> \o a = a /\ a \o <<>> = a
OBVIOUS

LEMMA JoinedAt ==
  ASSUME NEW S, NEW a \in Seq(S), NEW b \in Seq(S)
  PROVE  /\ Len(a) \in Nat /\ Len(b) \in Nat /\ DOMAIN (a \o b) = 1..(Len(a) + Len(b))
         /\ \A i \in 1..Len(a) : (a \o b)[i] = a[i]
         /\ \A i \in 1..Len(b) : (a \o b)[Len(a) + i] = b[i]
OBVIOUS

LEMMA Assoc ==
  ASSUME NEW S
  PROVE  \A a, b, c \in Seq(S) : (a \o b) \o c = a \o (b \o c)
OBVIOUS

Alike(s, t) == Len(s) = Len(t) /\ \A i \in 1..Len(s) : s[i] = t[i]

LEMMA SameSeq ==
  ASSUME NEW S, NEW s \in Seq(S), NEW t \in Seq(S), Alike(s, t)
  PROVE  s = t
BY DEF Alike

Flats(f) == CHOOSE g : g = [i \in 0..Len(f) |-> IF i = 0 THEN <<>> ELSE g[i - 1] \o f[i]]

LEMMA FlatSteps ==
  ASSUME NEW C, NEW f \in Seq(Seq(C))
  PROVE  /\ Flat(f) = Flats(f)[Len(f)]
         /\ Flats(f)[0] = <<>>
         /\ \A k \in 0..Len(f) : Flats(f)[k] \in Seq(C)
         /\ \A k \in 1..Len(f) : Flats(f)[k] = Flats(f)[k - 1] \o f[k]
<1>. DEFINE n == Len(f)
            S == Seq(C)
            step == [x \in (1..n) \X S |-> x[2] \o f[x[1]]]
            Good(g) == g = [i \in 0..n |-> IF i = 0 THEN <<>> ELSE g[i - 1] \o f[i]]
<1>1. n \in Nat /\ <<>> \in S /\ \A k \in 1..n : f[k] \in S
  OBVIOUS
<1>2. Stays(step, n, S)
  <2>. SUFFICES ASSUME NEW k \in 1..n, NEW x \in S
                PROVE  step[<<k, x>>] \in S
    BY DEF Stays
  <2>1. <<k, x>> \in (1..n) \X S /\ f[k] \in S
    BY <1>1
  <2>2. step[<<k, x>>] = x \o f[k]
    BY <2>1
  <2>. QED
    BY <2>1, <2>2
<1>3. PICK g : Follows(g, step, n, <<>>, S)
  <2>. HIDE DEF step, S, n
  <2>. QED
    BY <1>1, <1>2, StepByStep
<1>4. ASSUME NEW k \in 1..n
      PROVE  k - 1 \in 0..n /\ g[k - 1] \in S /\ g[k] = g[k - 1] \o f[k]
  <2>. DEFINE y == g[k - 1]
  <2>1. k - 1 \in 0..n /\ y \in S /\ g[k] = step[<<k, y>>]
    <3>. HIDE DEF S, step, n
    <3>1. n \in Nat => k - 1 \in 0..n
      OBVIOUS
    <3>. QED
      BY <1>1, <1>3, <3>1 DEF Follows
  <2>. HIDE DEF y, S
  <2>2. step[<<k, y>>] = y \o f[k]
    <3>1. <<k, y>> \in (1..n) \X S
      BY <2>1
    <3>. QED
      BY <3>1
  <2>. QED
    BY <2>1, <2>2 DEF y
<1>5. Good(g)
  <2>1. g = [i \in 0..n |-> g[i]]
    BY <1>3 DEF Follows
  <2>2. \A i \in 0..n : g[i] = IF i = 0 THEN <<>> ELSE g[i - 1] \o f[i]
    <3>. TAKE i \in 0..n
    <3>1. i = 0 \/ i \in 1..n
      OBVIOUS
    <3>. HIDE DEF S, step, n
    <3>. QED
      BY <1>3, <1>4, <3>1 DEF Follows
  <2>. HIDE DEF S, step
  <2>. QED
    BY <2>1, <2>2
<1>6. Good(Flats(f))
  <2>. HIDE DEF Good
  <2>1. Flats(f) = CHOOSE h : Good(h)
    BY Zenon DEF Flats, Good
  <2>. QED
    BY <1>5, <2>1
<1>7. Flat(f) = Flats(f)[n]
  BY Zenon DEF Flat, Flats
<1>. DEFINE w == Flats(f)
<1>. HIDE DEF w
<1>8. w[0] = <<>> /\ \A k \in 1..n : w[k] = w[k - 1] \o f[k]
  <2>1. Good(w)
    BY <1>6, Zenon DEF w
  <2>2. \A i \in 0..n : w[i] = IF i = 0 THEN <<>> ELSE w[i - 1] \o f[i]
    <3>. HIDE DEF n
    <3>. QED
      BY <2>1
  <2>3. 0 \in 0..n /\ \A k \in 1..n : k \in 0..n /\ k # 0
    OBVIOUS
  <2>. HIDE DEF n
  <2>. QED
    BY <2>2, <2>3, Zenon
<1>. DEFINE T == {k \in 0..n : w[k] \in S}
<1>9. ASSUME NEW k \in 0..n, \A j \in 0..(k - 1) : j \in T
      PROVE  k \in T
  <2>1. CASE k = 0
    BY <1>1, <1>8, <2>1
  <2>2. CASE k # 0
    <3>1. k - 1 \in T /\ k \in 1..n
      BY <1>9, <2>2
    <3>. DEFINE a == w[k - 1]
                b == f[k]
    <3>2. a \in Seq(C) /\ b \in Seq(C) /\ w[k] = a \o b
      BY <1>1, <1>8, <3>1
    <3>3. a \o b \in Seq(C)
      <4>. HIDE DEF a, b
      <4>. QED
        BY <3>2
    <3>. QED
      BY <3>2, <3>3
  <2>. QED
    BY <2>1, <2>2
<1>10. \A k \in 0..n : k \in T
  <2>. HIDE DEF T
  <2>. QED
    BY <1>1, <1>9, UpTo
<1>. QED
  BY <1>7, <1>8, <1>10 DEF w

LEMMA FlatType ==
  ASSUME NEW C, NEW f \in Seq(Seq(C))
  PROVE  Flat(f) \in Seq(C)
<1>1. Len(f) \in 0..Len(f)
  OBVIOUS
<1>. QED
  BY <1>1, FlatSteps

LEMMA FlatNone == Flat(<<>>) = <<>>
<1>1. <<>> \in Seq(Seq({})) /\ Len(<<>>) = 0
  OBVIOUS
<1>2. Flat(<<>>) = Flats(<<>>)[Len(<<>>)] /\ Flats(<<>>)[0] = <<>>
  BY <1>1, FlatSteps, Zenon
<1>. QED
  BY <1>1, <1>2, Zenon

\* One more part at the end.
LEMMA FlatAppend ==
  ASSUME NEW C, NEW f \in Seq(Seq(C)), NEW x \in Seq(C)
  PROVE  Flat(Append(f, x)) = Flat(f) \o x
<1>. DEFINE n == Len(f)
            g == Append(f, x)
            v == Flats(g)
            w == Flats(f)
            T == {k \in 0..n : v[k] = w[k]}
<1>1. n \in Nat /\ g \in Seq(Seq(C)) /\ Len(g) = n + 1 /\ g[n + 1] = x
  OBVIOUS
<1>2. \A k \in 1..n : g[k] = f[k]
  OBVIOUS
<1>. HIDE DEF g
<1>3. /\ Flat(g) = v[n + 1] /\ v[0] = <<>>
      /\ \A k \in 1..(n + 1) : v[k] = v[k - 1] \o g[k]
  BY <1>1, FlatSteps
<1>4. Flat(f) = w[n] /\ w[0] = <<>> /\ \A k \in 1..n : w[k] = w[k - 1] \o f[k]
  BY FlatSteps
<1>. HIDE DEF v, w
<1>5. ASSUME NEW k \in 0..n, \A j \in 0..(k - 1) : j \in T
      PROVE  k \in T
  <2>1. CASE k = 0
    BY <1>3, <1>4, <2>1
  <2>2. CASE k # 0
    <3>1. k - 1 \in T /\ k \in 1..n /\ k \in 1..(n + 1)
      BY <1>1, <1>5, <2>2
    <3>. QED
      BY <1>2, <1>3, <1>4, <3>1
  <2>. QED
    BY <2>1, <2>2
<1>6. v[n] = w[n]
  <2>1. n \in T
    <3>1. n \in 0..n
      BY <1>1
    <3>. HIDE DEF T
    <3>. QED
      BY <1>1, <1>5, <3>1, UpTo
  <2>. QED
    BY <2>1
<1>7. v[n + 1] = v[n] \o x
  <2>1. n + 1 \in 1..(n + 1) /\ (n + 1) - 1 = n
    BY <1>1
  <2>. QED
    BY <1>1, <1>3, <2>1
<1>. QED
  BY <1>3, <1>4, <1>6, <1>7 DEF g

\* The first part, and those after it.
LEMMA FlatCons ==
  ASSUME NEW C, NEW f \in Seq(Seq(C)), f # <<>>
  PROVE  Flat(f) = f[1] \o Flat(Tail(f))
<1>0. \A x, y, z \in Seq(C) : (x \o y) \o z = x \o (y \o z)
  BY Assoc
<1>. DEFINE n == Len(f)
            g == Tail(f)
            v == Flats(f)
            w == Flats(g)
            T == {k \in 0..(n - 1) : v[k + 1] = f[1] \o w[k]}
<1>1. n \in Nat /\ n > 0 /\ g \in Seq(Seq(C)) /\ Len(g) = n - 1
  OBVIOUS
<1>2. \A k \in 1..(n - 1) : g[k] = f[k + 1]
  OBVIOUS
<1>3. \A k \in 1..n : f[k] \in Seq(C)
  OBVIOUS
<1>. HIDE DEF g
<1>4. /\ Flat(f) = v[n] /\ v[0] = <<>> /\ \A k \in 1..n : v[k] = v[k - 1] \o f[k]
  BY FlatSteps
<1>5. /\ Flat(g) = w[n - 1] /\ w[0] = <<>>
      /\ \A k \in 1..(n - 1) : w[k] = w[k - 1] \o g[k]
      /\ \A k \in 0..(n - 1) : w[k] \in Seq(C)
  BY <1>1, FlatSteps
<1>. HIDE DEF v, w
<1>6. ASSUME NEW k \in 0..(n - 1), \A j \in 0..(k - 1) : j \in T
      PROVE  k \in T
  <2>1. CASE k = 0
    <3>1. 1 \in 1..n /\ f[1] \in Seq(C)
      BY <1>1, <1>3
    <3>2. v[1] = v[1 - 1] \o f[1]
      BY <1>4, <3>1
    <3>3. v[1] = <<>> \o f[1]
      <4>1. 1 - 1 = 0
        OBVIOUS
      <4>. QED
        BY <1>4, <3>2, <4>1, Zenon
    <3>. DEFINE a == f[1]
    <3>4. <<>> \o a = a \o <<>>
      <4>1. a \in Seq(C)
        BY <3>1
      <4>. HIDE DEF a
      <4>. QED
        BY <4>1
    <3>5. v[0 + 1] = a \o w[0]
      <4>1. 0 + 1 = 1
        OBVIOUS
      <4>. QED
        BY <1>5, <3>3, <3>4, <4>1, Zenon
    <3>. HIDE DEF a
    <3>. QED
      BY <2>1, <3>5 DEF a
  <2>2. CASE k # 0
    <3>. DEFINE a == f[1]
                b == w[k - 1]
                c == f[k + 1]
    <3>0. /\ k \in 1..(n - 1) /\ k + 1 \in 1..n /\ (k + 1) - 1 = k /\ k - 1 \in 0..(n - 1)
          /\ (k - 1) + 1 = k /\ 1 \in 1..n /\ k - 1 \in 0..(k - 1)
      <4>. HIDE DEF n
      <4>. QED
        BY <1>1, <2>2
    <3>1. /\ k \in 1..(n - 1) /\ k + 1 \in 1..n /\ (k + 1) - 1 = k /\ k - 1 \in 0..(n - 1)
          /\ (k - 1) + 1 = k /\ 1 \in 1..n /\ k - 1 \in T
      <4>. HIDE DEF T
      <4>. QED
        BY <1>6, <3>0
    <3>2. v[k] = a \o b
      BY <3>1
    <3>3. v[k + 1] = v[k] \o c
      BY <1>4, <3>1
    <3>4. w[k] = b \o c
      BY <1>2, <1>5, <3>1
    <3>5. a \in Seq(C) /\ b \in Seq(C) /\ c \in Seq(C)
      BY <1>3, <1>5, <3>1
    <3>. HIDE DEF a, b, c
    <3>6. (a \o b) \o c = a \o (b \o c)
      BY <1>0, <3>5, Zenon
    <3>. QED
      BY <3>2, <3>3, <3>4, <3>6 DEF a
  <2>. QED
    BY <2>1, <2>2
<1>7. n - 1 \in T
  <2>1. n - 1 \in 0..(n - 1) /\ n - 1 \in Nat
    BY <1>1
  <2>. HIDE DEF T
  <2>. QED
    BY <1>6, <2>1, UpTo
<1>8. v[n] = f[1] \o w[n - 1]
  <2>1. (n - 1) + 1 = n
    BY <1>1
  <2>2. v[(n - 1) + 1] = f[1] \o w[n - 1]
    BY <1>7
  <2>. QED
    BY <2>1, <2>2, Zenon
<1>. QED
  BY <1>4, <1>5, <1>8 DEF g

-----------------------------------------------------------------------------
(* Numbers. *)

LEMMA DivMod ==
  ASSUME NEW a \in Nat, NEW b \in Nat, b > 0
  PROVE  /\ a \div b \in Nat /\ a % b \in 0..(b - 1)
         /\ a = (a \div b) * b + (a % b)
OBVIOUS

LEMMA Smaller ==
  ASSUME NEW n \in Nat, n > 0, NEW base \in Nat, base > 1
  PROVE  n \div base \in 0..(n - 1)
<1>. DEFINE q == n \div base
            r == n % base
            p == q * base
<1>1. q \in Nat /\ r \in Nat /\ n = q * base + r
  BY DivMod
<1>. HIDE DEF q, r
<1>2. q > 0 => q * base >= q * 2
  BY <1>1
<1>3. p \in Int /\ n = p + r /\ (q > 0 => p >= q * 2)
  BY <1>1, <1>2
<1>. HIDE DEF p
<1>4. q < n
  <2>1. CASE q = 0
    BY <2>1
  <2>2. CASE q > 0
    BY <1>1, <1>3, <2>2
  <2>. QED
    BY <1>1, <2>1, <2>2
<1>. QED
  BY <1>1, <1>4 DEF q

LEMMA PowerFacts ==
  /\ Power[0] = 1
  /\ \A k \in 1..Bits : Power[k] = 2 * Power[k - 1]
  /\ \A k \in 0..Bits : Power[k] \in Nat /\ Power[k] > 0
<1>. DEFINE step == [x \in (1..Bits) \X Nat |-> 2 * x[2]]
            Good(g) == g = [k \in 0..Bits |-> IF k = 0 THEN 1 ELSE 2 * g[k - 1]]
<1>1. Bits \in Nat
  BY Constants
<1>2. Stays(step, Bits, Nat)
  BY DEF Stays
<1>3. PICK g : Follows(g, step, Bits, 1, Nat)
  <2>. HIDE DEF step
  <2>. QED
    BY <1>1, <1>2, StepByStep
<1>4. Good(g)
  <2>1. g = [k \in 0..Bits |-> g[k]]
    BY <1>3 DEF Follows
  <2>2. \A k \in 0..Bits : g[k] = IF k = 0 THEN 1 ELSE 2 * g[k - 1]
    <3>. TAKE k \in 0..Bits
    <3>1. CASE k = 0
      BY <1>3, <3>1 DEF Follows
    <3>2. CASE k # 0
      <4>1. k \in 1..Bits /\ k - 1 \in 0..Bits
        BY <1>1, <3>2
      <4>2. g[k - 1] \in Nat /\ g[k] = step[<<k, g[k - 1]>>]
        <5>. HIDE DEF step
        <5>. QED
          BY <1>3, <4>1 DEF Follows
      <4>. QED
        BY <3>2, <4>1, <4>2
    <3>. QED
      BY <3>1, <3>2
  <2>. QED
    BY <2>1, <2>2
<1>5. Good(Power)
  <2>. HIDE DEF Good
  <2>1. Power = CHOOSE h : Good(h)
    BY Zenon DEF Power, Good
  <2>. QED
    BY <1>4, <2>1
<1>6. Power[0] = 1 /\ \A k \in 1..Bits : Power[k] = 2 * Power[k - 1]
  <2>1. \A k \in 0..Bits : Power[k] = IF k = 0 THEN 1 ELSE 2 * Power[k - 1]
    BY <1>5
  <2>2. 0 \in 0..Bits /\ \A k \in 1..Bits : k \in 0..Bits /\ k # 0
    BY <1>1
  <2>. QED
    BY <2>1, <2>2, Zenon
<1>. DEFINE T == {k \in 0..Bits : Power[k] \in Nat /\ Power[k] > 0}
<1>7. ASSUME NEW k \in 0..Bits, \A j \in 0..(k - 1) : j \in T
      PROVE  k \in T
  <2>1. CASE k = 0
    BY <1>1, <1>6, <2>1
  <2>2. CASE k # 0
    <3>1. k - 1 \in T /\ k \in 1..Bits
      BY <1>1, <1>7, <2>2
    <3>. QED
      BY <1>6, <3>1
  <2>. QED
    BY <2>1, <2>2
<1>8. \A k \in 0..Bits : k \in T
  <2>. HIDE DEF T
  <2>. QED
    BY <1>1, <1>7, UpTo
<1>. QED
  BY <1>6, <1>8

LEMMA IntsFacts ==
  Half \in Nat /\ Half > 0 /\ Ints = 2 * Half
<1>1. Bits \in 1..Bits /\ Bits - 1 \in 0..Bits
  BY Constants
<1>. QED
  BY <1>1, PowerFacts DEF Half, Ints

Bases == {8, 10, 16}

\* One digit, or the digits of what is left and one more.
LEMMA SpellSteps ==
  ASSUME NEW base \in Bases
  PROVE  \A n \in 0..(Ints - 1) :
           Spell(base)[n] = IF n < base THEN <<Digits[n + 1]>>
                            ELSE Append(Spell(base)[n \div base], Digits[(n % base) + 1])
<1>. DEFINE N == Ints - 1
            body(g, n) == IF n < base THEN <<Digits[n + 1]>>
                          ELSE Append(g[n \div base], Digits[(n % base) + 1])
            Good(g, m) == g = [n \in 0..m |-> body(g, n)]
            T == {m \in 0..N : \E g : Good(g, m)}
<1>1. N \in Nat /\ base \in Nat /\ base > 1
  BY IntsFacts DEF Bases
<1>3. ASSUME NEW m \in 0..N, \A j \in 0..(m - 1) : j \in T
      PROVE  m \in T
  <2>1. CASE m = 0
    <3>1. Good([n \in 0..0 |-> <<Digits[0 + 1]>>], 0)
      <4>1. 0 < base
        BY <1>1
      <4>. QED
        BY <4>1
    <3>. QED
      BY <2>1, <3>1
  <2>2. CASE m # 0
    <3>1. m - 1 \in 0..(m - 1) /\ m \in Nat /\ m > 0
      BY <1>1, <2>2
    <3>2. PICK g : Good(g, m - 1)
      <4>. HIDE DEF Good
      <4>. QED
        BY <1>3, <3>1
    <3>. DEFINE h == [n \in 0..m |-> IF n = m THEN body(g, m) ELSE g[n]]
    <3>3. \A n \in 0..(m - 1) : g[n] = body(g, n)
      <4>. HIDE DEF body
      <4>. QED
        BY <3>2
    <3>4. \A n \in 0..m : h[n] = body(h, n)
      <4>. TAKE n \in 0..m
      <4>1. n >= base => n \div base \in 0..(n - 1)
        <5>1. n \in Nat /\ (n >= base => n > 0)
          BY <1>1, <3>1
        <5>. QED
          BY <1>1, <5>1, Smaller, Zenon
      <4>2. n >= base => h[n \div base] = g[n \div base]
        <5>. DEFINE k == n \div base
        <5>. SUFFICES ASSUME n >= base
                      PROVE  h[k] = g[k]
          OBVIOUS
        <5>1. k \in 0..(n - 1)
          BY <4>1
        <5>. HIDE DEF k
        <5>2. k \in 0..m /\ k # m
          BY <3>1, <5>1
        <5>. HIDE DEF body
        <5>. QED
          BY <5>2
      <4>3. body(h, n) = body(g, n)
        <5>. HIDE DEF h
        <5>1. n < base \/ n >= base
          BY <1>1, <3>1
        <5>. QED
          BY <4>2, <5>1, Zenon
      <4>4. h[n] = body(g, n)
        <5>. HIDE DEF body
        <5>. QED
          BY <3>1, <3>3
      <4>. QED
        BY <4>3, <4>4
    <3>5. h = [n \in 0..m |-> body(h, n)]
      <4>1. h = [n \in 0..m |-> h[n]]
        BY Zenon
      <4>. HIDE DEF h, body
      <4>. QED
        BY <3>4, <4>1
    <3>. QED
      BY <3>5
  <2>. QED
    BY <2>1, <2>2
<1>4. \E g : Good(g, N)
  <2>1. \A m \in 0..N : m \in T
    <3>. HIDE DEF T, N
    <3>. QED
      BY <1>1, <1>3, UpTo
  <2>2. N \in 0..N
    BY <1>1
  <2>. HIDE DEF Good, N
  <2>. QED
    BY <2>1, <2>2
<1>5. Good(Spell(base), N)
  <2>. HIDE DEF Good
  <2>1. Spell(base) = CHOOSE g : Good(g, N)
    BY Zenon DEF Spell, Good
  <2>. QED
    BY <1>4, <2>1
<1>6. \A n \in 0..N : Spell(base)[n] = body(Spell(base), n)
  <2>. HIDE DEF body, N
  <2>. QED
    BY <1>5
<1>. QED
  BY <1>6

\* What a digit counts for, and the value of its first digits, place by place.
DigitSet == {Digits[i] : i \in 1..16}
DigitOf(c) == CHOOSE d \in 0..15 : Digits[d + 1] = c

LEMMA DigitsDiffer ==
  ASSUME NEW d \in 0..15
  PROVE  /\ Digits[d + 1] \in DigitSet /\ DigitOf(Digits[d + 1]) = d
         /\ Digits[d + 1] # "-" /\ (d # 0 => Digits[d + 1] # "0")
<1>1. \A e \in 0..15 : Digits[e + 1] = Digits[d + 1] => e = d
  BY SMTT(60) DEF Digits
<1>2. Digits[d + 1] # "-" /\ (d # 0 => Digits[d + 1] # "0")
  BY SMTT(60) DEF Digits
<1>3. d + 1 \in 1..16
  OBVIOUS
<1>. QED
  BY <1>1, <1>2, <1>3 DEF DigitSet, DigitOf

Values(s, base) ==
  CHOOSE g : g = [i \in 0..Len(s) |-> IF i = 0 THEN 0
                                      ELSE g[i - 1] * base + (CHOOSE d \in 0..15 : Digits[d + 1] = s[i])]

LEMMA ValueSteps ==
  ASSUME NEW base \in Bases, NEW s \in Seq(DigitSet)
  PROVE  /\ Value(s, base) = Values(s, base)[Len(s)]
         /\ Values(s, base)[0] = 0
         /\ \A i \in 1..Len(s) : Values(s, base)[i] = Values(s, base)[i - 1] * base + DigitOf(s[i])
<1>. DEFINE n == Len(s)
            step == [x \in (1..n) \X Nat |-> x[2] * base + DigitOf(s[x[1]])]
            Good(g) == g = [i \in 0..n |-> IF i = 0 THEN 0 ELSE g[i - 1] * base + DigitOf(s[i])]
<1>1. n \in Nat /\ base \in Nat
  BY DEF Bases
<1>2. \A i \in 1..n : DigitOf(s[i]) \in Nat
  <2>. TAKE i \in 1..n
  <2>1. s[i] \in DigitSet
    OBVIOUS
  <2>2. PICK j \in 1..16 : s[i] = Digits[j]
    BY <2>1 DEF DigitSet
  <2>3. j - 1 \in 0..15 /\ (j - 1) + 1 = j /\ j - 1 \in Nat
    OBVIOUS
  <2>4. \A d \in 0..15 : DigitOf(Digits[d + 1]) = d
    BY DigitsDiffer, Zenon
  <2>5. DigitOf(Digits[(j - 1) + 1]) = j - 1
    BY <2>3, <2>4, Zenon
  <2>. QED
    BY <2>2, <2>3, <2>5, Zenon
<1>3. Stays(step, n, Nat)
  <2>. SUFFICES ASSUME NEW k \in 1..n, NEW x \in Nat
                PROVE  step[<<k, x>>] \in Nat
    BY DEF Stays
  <2>1. <<k, x>> \in (1..n) \X Nat
    OBVIOUS
  <2>2. step[<<k, x>>] = x * base + DigitOf(s[k])
    BY <2>1
  <2>3. x * base \in Nat
    BY <1>1
  <2>. HIDE DEF step
  <2>. QED
    BY <1>2, <2>2, <2>3
<1>4. PICK g : Follows(g, step, n, 0, Nat)
  <2>. HIDE DEF step, n
  <2>. QED
    BY <1>1, <1>3, StepByStep
<1>5. Good(g)
  <2>1. g = [i \in 0..n |-> g[i]]
    BY <1>4 DEF Follows
  <2>2. \A i \in 0..n : g[i] = IF i = 0 THEN 0 ELSE g[i - 1] * base + DigitOf(s[i])
    <3>. TAKE i \in 0..n
    <3>1. CASE i = 0
      BY <1>4, <3>1 DEF Follows
    <3>2. CASE i # 0
      <4>1. i \in 1..n /\ i - 1 \in 0..n
        BY <1>1, <3>2
      <4>. DEFINE y == g[i - 1]
      <4>2. y \in Nat /\ g[i] = step[<<i, y>>]
        <5>. HIDE DEF step, n
        <5>. QED
          BY <1>4, <4>1 DEF Follows
      <4>. HIDE DEF y
      <4>3. step[<<i, y>>] = y * base + DigitOf(s[i])
        BY <4>1, <4>2
      <4>. QED
        BY <3>2, <4>2, <4>3 DEF y
    <3>. QED
      BY <3>1, <3>2
  <2>. HIDE DEF step
  <2>. QED
    BY <2>1, <2>2
<1>. DEFINE w == Values(s, base)
<1>6. Good(w)
  <2>. HIDE DEF Good
  <2>1. Values(s, base) = CHOOSE h : Good(h)
    BY Zenon DEF Values, Good, DigitOf
  <2>. QED
    BY <1>5, <2>1
<1>7. Value(s, base) = w[n]
  BY Zenon DEF Value, Values
<1>8. \A i \in 0..n : w[i] = IF i = 0 THEN 0 ELSE w[i - 1] * base + DigitOf(s[i])
  <2>. HIDE DEF w, n
  <2>. QED
    BY <1>6
<1>9. 0 \in 0..n /\ \A i \in 1..n : i \in 0..n /\ i # 0
  BY <1>1
<1>. HIDE DEF w, n
<1>10. w[0] = 0 /\ \A i \in 1..n : w[i] = w[i - 1] * base + DigitOf(s[i])
  BY <1>8, <1>9, Zenon
<1>. QED
  BY <1>7, <1>10 DEF w, n

\* One more digit.
LEMMA ValueAppend ==
  ASSUME NEW base \in Bases, NEW s \in Seq(DigitSet), NEW d \in 0..15
  PROVE  Value(Append(s, Digits[d + 1]), base) = Value(s, base) * base + d
<1>. DEFINE n == Len(s)
            g == Append(s, Digits[d + 1])
            v == Values(g, base)
            w == Values(s, base)
            T == {k \in 0..n : v[k] = w[k]}
<1>1. n \in Nat /\ g \in Seq(DigitSet) /\ Len(g) = n + 1 /\ g[n + 1] = Digits[d + 1]
  <2>. DEFINE c == Digits[d + 1]
  <2>1. c \in DigitSet
    BY DigitsDiffer
  <2>. HIDE DEF c
  <2>2. /\ Append(s, c) \in Seq(DigitSet) /\ Len(Append(s, c)) = Len(s) + 1
        /\ Append(s, c)[Len(s) + 1] = c
    BY <2>1
  <2>. QED
    BY <2>2 DEF c
<1>2. \A k \in 1..n : g[k] = s[k]
  OBVIOUS
<1>. HIDE DEF g
<1>3. /\ Value(g, base) = v[n + 1] /\ v[0] = 0
      /\ \A k \in 1..(n + 1) : v[k] = v[k - 1] * base + DigitOf(g[k])
  BY <1>1, ValueSteps
<1>4. Value(s, base) = w[n] /\ w[0] = 0 /\ \A k \in 1..n : w[k] = w[k - 1] * base + DigitOf(s[k])
  BY ValueSteps
<1>. HIDE DEF v, w
<1>5. ASSUME NEW k \in 0..n, \A j \in 0..(k - 1) : j \in T
      PROVE  k \in T
  <2>1. CASE k = 0
    BY <1>3, <1>4, <2>1
  <2>2. CASE k # 0
    <3>1. k - 1 \in T /\ k \in 1..n /\ k \in 1..(n + 1)
      BY <1>1, <1>5, <2>2
    <3>2. v[k - 1] = w[k - 1] /\ g[k] = s[k]
      BY <1>2, <3>1
    <3>. QED
      BY <1>3, <1>4, <3>1, <3>2
  <2>. QED
    BY <2>1, <2>2
<1>6. v[n] = w[n]
  <2>1. n \in 0..n
    BY <1>1
  <2>2. n \in T
    <3>. HIDE DEF T
    <3>. QED
      BY <1>1, <1>5, <2>1, UpTo
  <2>. QED
    BY <2>2
<1>7. v[n + 1] = v[n] * base + d
  <2>1. n + 1 \in 1..(n + 1) /\ (n + 1) - 1 = n
    BY <1>1
  <2>2. v[n + 1] = v[(n + 1) - 1] * base + DigitOf(g[n + 1])
    BY <1>3, <2>1
  <2>. QED
    BY <1>1, <2>1, <2>2, DigitsDiffer, Zenon
<1>. QED
  BY <1>3, <1>4, <1>6, <1>7 DEF g


\* What the digits of a number are: as many as they may be, no needless zeros, and
\* its value.
Spelled(text, n, base) ==
  /\ text \in Seq(DigitSet) /\ Len(text) > 0
  /\ n > 0 => text[1] # "0"
  /\ Value(text, base) = n
  /\ n < base => Len(text) = 1

LEMMA OneDigit ==
  ASSUME NEW base \in Bases, NEW d \in 0..15
  PROVE  Spelled(<<Digits[d + 1]>>, d, base)
<1>. DEFINE c == Digits[d + 1]
<1>1. c \in DigitSet /\ (d > 0 => c # "0")
  BY DigitsDiffer
<1>2. Value(<<>>, base) = 0
  <2>1. <<>> \in Seq(DigitSet) /\ Len(<<>>) = 0
    OBVIOUS
  <2>2. Value(<<>>, base) = Values(<<>>, base)[Len(<<>>)] /\ Values(<<>>, base)[0] = 0
    BY <2>1, ValueSteps, Zenon
  <2>. QED
    BY <2>1, <2>2, Zenon
<1>3. Value(Append(<<>>, Digits[d + 1]), base) = Value(<<>>, base) * base + d
  <2>1. <<>> \in Seq(DigitSet)
    OBVIOUS
  <2>. QED
    BY <2>1, ValueAppend, Zenon
<1>. HIDE DEF c
<1>4. Append(<<>>, c) = <<c>> /\ <<c>> \in Seq(DigitSet) /\ Len(<<c>>) = 1 /\ <<c>>[1] = c
  BY <1>1
<1>5. Value(<<c>>, base) = d
  <2>1. Value(<<c>>, base) = 0 * base + d
    BY <1>2, <1>3, <1>4, Zenon DEF c
  <2>. QED
    BY <2>1 DEF Bases
<1>. QED
  BY <1>1, <1>4, <1>5 DEF Spelled, c

LEMMA MoreDigits ==
  ASSUME NEW base \in Bases, NEW n \in Nat, n >= base, NEW text,
         Spelled(text, n \div base, base)
  PROVE  Spelled(Append(text, Digits[(n % base) + 1]), n, base)
<1>. DEFINE q == n \div base
            r == n % base
            c == Digits[r + 1]
<1>1. q \in Nat /\ r \in 0..15 /\ n = q * base + r /\ base \in Nat /\ base > 0
  <2>1. base \in Nat /\ base > 0 /\ base <= 16
    BY DEF Bases
  <2>2. q \in Nat /\ r \in 0..(base - 1) /\ n = q * base + r
    BY <2>1, DivMod
  <2>. QED
    BY <2>1, <2>2
<1>2. q > 0
  <2>1. r < base
    BY DivMod DEF Bases
  <2>. HIDE DEF q, r
  <2>2. q = 0 => q * base = 0
    BY <1>1
  <2>. QED
    BY <1>1, <2>1, <2>2
<1>3. c \in DigitSet
  <2>. HIDE DEF r
  <2>. QED
    BY <1>1, DigitsDiffer
<1>4. text \in Seq(DigitSet) /\ Len(text) > 0 /\ text[1] # "0" /\ Value(text, base) = q
  BY <1>2 DEF Spelled
<1>5. Value(Append(text, c), base) = n
  <2>. HIDE DEF q, r
  <2>1. Value(Append(text, Digits[r + 1]), base) = Value(text, base) * base + r
    BY <1>1, <1>4, ValueAppend
  <2>. QED
    BY <1>1, <1>4, <2>1
<1>. HIDE DEF q, c
<1>6. Append(text, c) \in Seq(DigitSet) /\ Len(Append(text, c)) > 0 /\ Append(text, c)[1] = text[1]
  BY <1>3, <1>4
<1>7. Spelled(Append(text, c), n, base)
  BY <1>4, <1>5, <1>6, <1>1 DEF Spelled
<1>. QED
  BY <1>7 DEF c

LEMMA SpellRight ==
  ASSUME NEW base \in Bases, NEW n \in 0..(Ints - 1)
  PROVE  Spelled(Spell(base)[n], n, base)
<1>. DEFINE N == Ints - 1
            w == Spell(base)
            T == {k \in 0..N : Spelled(w[k], k, base)}
<1>1. N \in Nat /\ base \in Nat /\ base > 1 /\ base <= 16
  BY IntsFacts DEF Bases
<1>2. \A k \in 0..N : w[k] = IF k < base THEN <<Digits[k + 1]>>
                             ELSE Append(w[k \div base], Digits[(k % base) + 1])
  BY SpellSteps
<1>. HIDE DEF w
<1>3. ASSUME NEW k \in 0..N, \A j \in 0..(k - 1) : j \in T
      PROVE  k \in T
  <2>1. CASE k < base
    <3>1. k \in 0..15
      BY <1>1, <2>1
    <3>2. w[k] = <<Digits[k + 1]>>
      BY <1>2, <2>1, Zenon
    <3>. QED
      BY <3>1, <3>2, OneDigit
  <2>2. CASE ~(k < base)
    <3>1. k \in Nat /\ k > 0 /\ k >= base
      BY <1>1, <2>2
    <3>2. k \div base \in 0..(k - 1)
      BY <1>1, <3>1, Smaller, Zenon
    <3>. DEFINE q == k \div base
    <3>. HIDE DEF q
    <3>3. Spelled(w[q], q, base)
      BY <1>3, <3>2 DEF q
    <3>4. w[k] = Append(w[q], Digits[(k % base) + 1])
      BY <1>2, <2>2, Zenon DEF q
    <3>5. Spelled(Append(w[q], Digits[(k % base) + 1]), k, base)
      BY <3>1, <3>3, MoreDigits, Zenon DEF q
    <3>. QED
      BY <3>4, <3>5, Zenon
  <2>. QED
    BY <2>1, <2>2
<1>4. n \in T
  <2>1. n \in 0..N
    OBVIOUS
  <2>. HIDE DEF T, N
  <2>. QED
    BY <1>1, <1>3, <2>1, UpTo
<1>. QED
  BY <1>4 DEF w

\* A number below 2^k has at most k digits.
LEMMA SpellShort ==
  ASSUME NEW base \in Bases, NEW k \in 1..Bits, NEW n \in 0..(Power[k] - 1), n < Ints
  PROVE  Len(Spell(base)[n]) <= k
<1>. DEFINE w == Spell(base)
            Short(j) == \A m \in 0..(Power[j] - 1) : m < Ints => Len(w[m]) <= j
            T == {j \in 0..Bits : j > 0 => Short(j)}
<1>1. Bits \in Nat /\ base \in Nat /\ base > 1 /\ Ints \in Nat
  BY Constants, IntsFacts DEF Bases
<1>2. \A m \in 0..(Ints - 1) :
        /\ w[m] \in Seq(DigitSet)
        /\ m < base => Len(w[m]) = 1
        /\ m >= base => w[m] = Append(w[m \div base], Digits[(m % base) + 1])
  <2>. TAKE m \in 0..(Ints - 1)
  <2>1. w[m] \in Seq(DigitSet) /\ (m < base => Len(w[m]) = 1)
    <3>1. Spelled(Spell(base)[m], m, base)
      BY SpellRight
    <3>. QED
      BY <3>1 DEF Spelled
  <2>2. m >= base => w[m] = Append(w[m \div base], Digits[(m % base) + 1])
    <3>1. m >= base => ~(m < base)
      BY <1>1
    <3>. QED
      BY <3>1, SpellSteps, Zenon
  <2>. QED
    BY <2>1, <2>2
<1>. HIDE DEF w
<1>3. ASSUME NEW j \in 0..Bits, \A i \in 0..(j - 1) : i \in T, j > 0
      PROVE  Short(j)
  <2>. SUFFICES ASSUME NEW m \in 0..(Power[j] - 1), m < Ints
                PROVE  Len(w[m]) <= j
    OBVIOUS
  <2>1. Power[j] \in Nat /\ m \in Nat /\ m \in 0..(Ints - 1)
    BY <1>1, PowerFacts
  <2>2. CASE m < base
    <3>1. j >= 1
      BY <1>1, <1>3
    <3>2. Len(w[m]) = 1
      BY <1>2, <2>1, <2>2
    <3>. QED
      BY <3>1, <3>2
  <2>3. CASE ~(m < base)
    <3>. DEFINE q == m \div base
                p == q * base
    <3>1. q \in 0..(m - 1) /\ m > 0
      <4>1. m > 0
        BY <1>1, <2>1, <2>3
      <4>. QED
        BY <1>1, <2>1, <4>1, Smaller, Zenon
    <3>2. q \in Nat /\ p \in Nat /\ p <= m /\ p >= q * 2
      <4>. DEFINE r == m % base
      <4>1. q \in Nat /\ r \in Nat /\ m = q * base + r
        BY <1>1, <2>1, DivMod
      <4>. HIDE DEF q, r
      <4>2. q * base \in Nat /\ q * base >= q * 2
        BY <1>1, <4>1
      <4>. QED
        BY <2>1, <4>1, <4>2
    <3>3. w[m] = Append(w[q], Digits[(m % base) + 1]) /\ m >= base
      <4>1. m >= base
        BY <1>1, <2>1, <2>3
      <4>. QED
        BY <1>2, <2>1, <4>1, Zenon
    <3>. HIDE DEF q, p
    <3>4. w[q] \in Seq(DigitSet) /\ Len(w[m]) = Len(w[q]) + 1
      <4>1. q \in 0..(Ints - 1)
        BY <1>1, <2>1, <3>1
      <4>2. w[q] \in Seq(DigitSet)
        BY <1>2, <4>1
      <4>. QED
        BY <3>3, <4>2
    <3>5. j \in 1..Bits /\ Power[j] = 2 * Power[j - 1] /\ Power[j - 1] \in Nat
      <4>1. j \in 1..Bits /\ j - 1 \in 0..Bits
        BY <1>1, <1>3
      <4>. QED
        BY <4>1, PowerFacts
    <3>6. q <= Power[j - 1] - 1
      BY <2>1, <3>2, <3>5
    <3>7. CASE j = 1
      <4>1. Power[j - 1] = 1
        BY <3>7, PowerFacts
      <4>2. q = 0
        BY <3>2, <3>6, <4>1
      <4>. QED
        BY <2>1, <3>2, <3>5, <4>1, <1>1, <2>3, <3>1, <3>3
    <3>8. CASE j # 1
      <4>1. j - 1 \in T /\ j - 1 > 0
        BY <1>3, <3>5, <3>8
      <4>2. q < Ints /\ q \in 0..(Power[j - 1] - 1)
        BY <1>1, <2>1, <3>1, <3>2, <3>5, <3>6
      <4>3. Len(w[q]) <= j - 1
        BY <4>1, <4>2
      <4>. QED
        BY <3>4, <3>5, <4>3
    <3>. QED
      BY <3>7, <3>8
  <2>. QED
    BY <2>2, <2>3
<1>4. k \in T
  <2>1. \A j \in 0..Bits : (\A i \in 0..(j - 1) : i \in T) => j \in T
    <3>. HIDE DEF Short
    <3>. QED
      BY <1>3
  <2>2. k \in 0..Bits
    BY <1>1
  <2>. HIDE DEF T
  <2>. QED
    BY <1>1, <2>1, <2>2, UpTo
<1>. QED
  BY <1>4 DEF w

LEMMA DigitSetChars == DigitSet \subseteq Chars
  BY ConsoleAssumption DEF DigitSet

\* What number() writes: a sign, a prefix and digits.
Sign(num, type) == IF type = "int" /\ num >= Half THEN <<"-">> ELSE <<>>
Prefix(base) == CASE base = 8 -> <<"0">> [] base = 16 -> <<"0", "x">> [] OTHER -> <<>>
Magnitude(num, type) == IF type = "int" /\ num >= Half THEN Ints - num ELSE num

LEMMA NumberParts ==
  ASSUME NEW num \in 0..(Ints - 1), NEW type \in {"int", "uint"}, NEW base \in Bases
  PROVE  /\ Number(num, type, base) = (Sign(num, type) \o Prefix(base))
                                        \o Spell(base)[Magnitude(num, type)]
         /\ Magnitude(num, type) \in 0..(Ints - 1)
         /\ Spelled(Spell(base)[Magnitude(num, type)], Magnitude(num, type), base)
         /\ Len(Spell(base)[Magnitude(num, type)]) <= Bits
<1>1. Magnitude(num, type) \in 0..(Ints - 1)
  BY IntsFacts DEF Magnitude
<1>2. Number(num, type, base) = (Sign(num, type) \o Prefix(base))
                                  \o Spell(base)[Magnitude(num, type)]
  BY Zenon DEF Number, Sign, Prefix, Magnitude
<1>. DEFINE m == Magnitude(num, type)
<1>. HIDE DEF m
<1>3. Spelled(Spell(base)[m], m, base)
  BY <1>1, SpellRight DEF m
<1>4. Len(Spell(base)[m]) <= Bits
  <2>1. Bits \in 1..Bits /\ Power[Bits] = Ints
    BY Constants DEF Ints
  <2>2. Ints \in Nat
    BY IntsFacts
  <2>3. m \in 0..(Power[Bits] - 1) /\ m < Ints
    BY <1>1, <2>1, <2>2 DEF m
  <2>. QED
    BY <2>1, <2>3, SpellShort
<1>. QED
  BY <1>1, <1>2, <1>3, <1>4 DEF m

LEMMA NumberType ==
  ASSUME NEW num \in 0..(Ints - 1), NEW type \in {"int", "uint"}, NEW base \in Bases
  PROVE  /\ Number(num, type, base) \in Seq(Chars)
         /\ Len(Number(num, type, base)) \in 1..MaxNumber
<1>. DEFINE a == Sign(num, type)
            b == Prefix(base)
            c == Spell(base)[Magnitude(num, type)]
<1>1. a \in Seq(Chars) /\ Len(a) <= 1
  <2>1. "-" \in Chars
    BY Constants
  <2>. QED
    BY <2>1 DEF Sign
<1>2. b \in Seq(Chars) /\ Len(b) <= 2
  <2>1. "0" \in Chars /\ "x" \in Chars
    <3>1. Digits[1] \in Chars /\ Digits[1] = "0"
      BY ConsoleAssumption DEF Digits
    <3>. QED
      BY <3>1, Constants DEF Letters
  <2>. QED
    BY <2>1 DEF Prefix
<1>3. c \in Seq(Chars) /\ Len(c) > 0 /\ Len(c) <= Bits /\ Number(num, type, base) = (a \o b) \o c
  <2>1. Spelled(c, Magnitude(num, type), base) /\ Len(c) <= Bits
    BY NumberParts
  <2>2. Number(num, type, base) = (a \o b) \o c
    BY NumberParts
  <2>. HIDE DEF c
  <2>3. c \in Seq(DigitSet) /\ Len(c) > 0
    BY <2>1 DEF Spelled
  <2>4. c \in Seq(Chars)
    BY <2>3, DigitSetChars
  <2>. QED
    BY <2>1, <2>2, <2>3, <2>4
<1>. HIDE DEF a, b, c
<1>4. Bits \in Nat
  BY Constants
<1>5. (a \o b) \o c \in Seq(Chars) /\ Len((a \o b) \o c) = Len(a) + Len(b) + Len(c)
  BY <1>1, <1>2, <1>3
<1>. QED
  BY <1>1, <1>2, <1>3, <1>4, <1>5 DEF MaxNumber

\* The number of a text with its sign, its prefix and its digits taken apart.
LEMMA Reads ==
  ASSUME NEW num \in 0..(Ints - 1), NEW type \in {"int", "uint"}, NEW base \in Bases
  PROVE  LET text == Number(num, type, base)
             minus == text[1] = "-"
             from == (IF minus THEN 1 ELSE 0) + (CASE base = 8 -> 1 [] base = 16 -> 2 [] OTHER -> 0)
             digits == SubSeq(text, from + 1, Len(text))
             v == IF minus THEN -Value(digits, base) ELSE Value(digits, base)
         IN  /\ v = IF type = "int" /\ num >= Half THEN num - Ints ELSE num
             /\ Len(digits) > 1 => digits[1] # "0"
             /\ Len(text) <= MaxNumber
<1>. DEFINE text == Number(num, type, base)
            negative == type = "int" /\ num >= Half
            a == Sign(num, type)
            b == Prefix(base)
            m == Magnitude(num, type)
            c == Spell(base)[m]
            from == (IF text[1] = "-" THEN 1 ELSE 0)
                      + (CASE base = 8 -> 1 [] base = 16 -> 2 [] OTHER -> 0)
            digits == SubSeq(text, from + 1, Len(text))
<1>1. text = (a \o b) \o c /\ Spelled(c, m, base) /\ m \in 0..(Ints - 1)
  BY NumberParts
<1>2. Len(text) <= MaxNumber
  BY NumberType DEF MaxNumber
<1>3. a = IF negative THEN <<"-">> ELSE <<>>
  BY DEF Sign
<1>4. b = IF base = 8 THEN <<"0">> ELSE IF base = 16 THEN <<"0", "x">> ELSE <<>>
  BY DEF Prefix
<1>5. m = IF negative THEN Ints - num ELSE num
  BY DEF Magnitude
<1>6. /\ c \in Seq(DigitSet) /\ Len(c) > 0 /\ (m > 0 => c[1] # "0")
      /\ Value(c, base) = m /\ (m < base => Len(c) = 1)
  BY <1>1 DEF Spelled
<1>7. c[1] # "-"
  <2>1. c[1] \in DigitSet
    BY <1>6
  <2>. HIDE DEF c
  <2>2. PICK j \in 1..16 : c[1] = Digits[j]
    BY <2>1 DEF DigitSet
  <2>3. j - 1 \in 0..15 /\ (j - 1) + 1 = j
    OBVIOUS
  <2>. QED
    BY <2>2, <2>3, DigitsDiffer
<1>. HIDE DEF a, b, c, m, text
<1>. DEFINE S == DigitSet \cup {"-", "0", "x"}
<1>8. a \in Seq(S) /\ b \in Seq(S) /\ c \in Seq(S)
  <2>1. "-" \in S /\ "0" \in S /\ "x" \in S /\ DigitSet \subseteq S
    OBVIOUS
  <2>. HIDE DEF S
  <2>2. a \in Seq(S)
    BY <1>3, <2>1
  <2>3. b \in Seq(S)
    BY <1>4, <2>1
  <2>4. c \in Seq(S)
    BY <1>6, <2>1
  <2>. QED
    BY <2>2, <2>3, <2>4
<1>9. Len(a) = (IF negative THEN 1 ELSE 0) /\ Len(b) = (IF base = 8 THEN 1 ELSE IF base = 16 THEN 2 ELSE 0)
  BY <1>3, <1>4
<1>10. (text[1] = "-") <=> negative
  <2>1. CASE negative
    <3>1. a[1] = "-" /\ Len(a) = 1
      BY <1>3, <2>1
    <3>2. text[1] = a[1]
      <4>. HIDE DEF S, from
      <4>1. a \o b \in Seq(S) /\ Len(a \o b) = Len(a) + Len(b) /\ (a \o b)[1] = a[1]
        <5>1. Len(a) \in Nat /\ Len(b) \in Nat /\ Len(a) = 1
          BY <1>8, <3>1
        <5>2. a \o b \in Seq(S) /\ Len(a \o b) = Len(a) + Len(b)
          BY <1>8
        <5>3. \A i \in 1..Len(a) : (a \o b)[i] = a[i]
          BY <1>8
        <5>. QED
          BY <5>1, <5>2, <5>3
      <4>. DEFINE d == a \o b
      <4>2. d \in Seq(S) /\ Len(d) >= 1 /\ d[1] = a[1] /\ text = d \o c
        BY <1>1, <1>8, <3>1, <4>1
      <4>. HIDE DEF d
      <4>. QED
        BY <1>8, <4>2
    <3>. QED
      BY <2>1, <3>1, <3>2
  <2>2. CASE ~negative
    <3>1. Len(a) = 0
      BY <1>9, <2>2
    <3>2. Len(b) > 0 => b[1] = "0"
      BY <1>4
    <3>3. text[1] = IF Len(b) > 0 THEN b[1] ELSE c[1]
      <4>. HIDE DEF S
      <4>. QED
        BY <1>1, <1>6, <1>8, <3>1
    <3>. QED
      BY <1>7, <2>2, <3>2, <3>3
  <2>. QED
    BY <2>1, <2>2
<1>11. from = Len(a) + Len(b)
  BY <1>9, <1>10
<1>12. digits = c
  <2>. HIDE DEF S, from
  <2>1. Len(text) = Len(a) + Len(b) + Len(c) /\ text \in Seq(S)
    BY <1>1, <1>8
  <2>2. \A i \in 1..Len(c) : text[from + i] = c[i]
    BY <1>1, <1>8, <1>11
  <2>3. digits \in Seq(S) /\ Len(digits) = Len(c) /\ \A i \in 1..Len(c) : digits[i] = text[from + i]
    BY <1>8, <1>11, <2>1
  <2>. HIDE DEF digits
  <2>. QED
    BY <1>8, <2>2, <2>3, SMTT(30)
<1>13. Ints \in Nat /\ (negative => Ints - num > 0)
  BY IntsFacts
<1>14. /\ (IF text[1] = "-" THEN -Value(digits, base) ELSE Value(digits, base))
             = IF negative THEN num - Ints ELSE num
       /\ Len(digits) > 1 => digits[1] # "0"
  <2>1. CASE negative
    <3>1. Value(digits, base) = Ints - num /\ m > 0
      BY <1>5, <1>6, <1>12, <1>13, <2>1
    <3>. HIDE DEF digits, from
    <3>2. -Value(digits, base) = num - Ints
      BY <1>13, <3>1
    <3>. QED
      BY <1>6, <1>10, <1>12, <2>1, <3>1, <3>2
  <2>2. CASE ~negative
    <3>1. Value(digits, base) = num /\ m = num
      BY <1>5, <1>6, <1>12, <2>2
    <3>2. Len(digits) > 1 => m > 0
      <4>1. m < base => Len(digits) = 1
        BY <1>6, <1>12
      <4>2. m \in Nat /\ base > 0 /\ base \in Nat
        BY <3>1 DEF Bases
      <4>. HIDE DEF digits
      <4>. DEFINE l == Len(digits)
      <4>3. m < base => l = 1
        BY <4>1
      <4>. HIDE DEF l
      <4>4. l > 1 => m > 0
        BY <4>2, <4>3
      <4>. QED
        BY <4>4 DEF l
    <3>. HIDE DEF digits, from
    <3>. QED
      BY <1>6, <1>10, <1>12, <2>2, <3>1, <3>2
  <2>. QED
    BY <2>1, <2>2
<1>. QED
  BY <1>2, <1>14, Zenon DEF text

-----------------------------------------------------------------------------
(* A call of printk part by part. *)

\* What is still to come behind the first k parts, and what they come to.
Rest(f, k) == Flat(SubSeq(f, k + 1, Len(f)))
Before(f, k) == Flat(SubSeq(f, 1, k))

LEMMA RestSteps ==
  ASSUME NEW C, NEW f \in Seq(Seq(C))
  PROVE  /\ Rest(f, 0) = Flat(f) /\ Rest(f, Len(f)) = <<>>
         /\ \A k \in 0..Len(f) : Rest(f, k) \in Seq(C)
         /\ \A k \in 1..Len(f) : Rest(f, k - 1) = f[k] \o Rest(f, k)
<1>. DEFINE n == Len(f)
            g(k) == SubSeq(f, k + 1, n)
<1>1. n \in Nat
  OBVIOUS
<1>2. \A k \in 0..n : g(k) \in Seq(Seq(C)) /\ Len(g(k)) = n - k
  <2>. TAKE k \in 0..n
  <2>. QED
    BY <1>1
<1>3. g(0) = f
  <2>1. Len(g(0)) = n /\ \A i \in 1..n : g(0)[i] = f[i]
    BY <1>1
  <2>2. g(0) \in Seq(Seq(C))
    BY <1>1, <1>2
  <2>3. Len(f) = n
    OBVIOUS
  <2>. HIDE DEF g, n
  <2>4. Alike(g(0), f)
    BY <2>1, <2>3 DEF Alike
  <2>. QED
    BY <2>2, <2>4, SameSeq
<1>4. g(n) = <<>>
  <2>1. n \in 0..n /\ n - n = 0
    BY <1>1
  <2>2. g(n) \in Seq(Seq(C)) /\ Len(g(n)) = 0
    BY <1>2, <2>1
  <2>. HIDE DEF g
  <2>. QED
    BY <2>2
<1>5. ASSUME NEW k \in 1..n
      PROVE  g(k - 1) # <<>> /\ g(k - 1)[1] = f[k] /\ Tail(g(k - 1)) = g(k)
  <2>1. k - 1 \in 0..n /\ k \in 0..n
    BY <1>1
  <2>2. g(k - 1) \in Seq(Seq(C)) /\ Len(g(k - 1)) = n - (k - 1)
    BY <1>2, <2>1
  <2>3. g(k) \in Seq(Seq(C)) /\ Len(g(k)) = n - k
    BY <1>2, <2>1
  <2>4. \A i \in 1..(n - (k - 1)) : g(k - 1)[i] = f[((k - 1) + 1) + (i - 1)]
    BY <1>1, <2>1
  <2>5. \A i \in 1..(n - k) : g(k)[i] = f[(k + 1) + (i - 1)]
    BY <1>1, <2>1
  <2>. DEFINE a == g(k - 1)
              b == g(k)
  <2>6. \A i \in 1..(n - k) : b[i] = a[i + 1]
    <3>. TAKE i \in 1..(n - k)
    <3>1. i + 1 \in 1..(n - (k - 1)) /\ ((k - 1) + 1) + ((i + 1) - 1) = (k + 1) + (i - 1)
      BY <1>1
    <3>. HIDE DEF g
    <3>. QED
      BY <2>4, <2>5, <3>1
  <2>7. a[1] = f[k]
    <3>1. 1 \in 1..(n - (k - 1)) /\ ((k - 1) + 1) + (1 - 1) = k
      BY <1>1
    <3>. HIDE DEF g
    <3>. QED
      BY <2>4, <3>1
  <2>. HIDE DEF g
  <2>8. a \in Seq(Seq(C)) /\ Len(a) = n - (k - 1) /\ b \in Seq(Seq(C)) /\ Len(b) = n - k
    BY <2>2, <2>3
  <2>. HIDE DEF a, b
  <2>9. a # <<>> /\ Tail(a) \in Seq(Seq(C)) /\ Len(Tail(a)) = n - k
    BY <1>1, <2>8
  <2>10. \A i \in 1..(n - k) : Tail(a)[i] = b[i]
    BY <1>1, <2>6, <2>8
  <2>11. Tail(a) = b
    <3>. DEFINE c == Tail(a)
    <3>1. c \in Seq(Seq(C)) /\ Len(c) = n - k /\ \A i \in 1..(n - k) : c[i] = b[i]
      BY <2>9, <2>10
    <3>. HIDE DEF c
    <3>2. c = b
      <4>1. Alike(c, b)
        BY <2>8, <3>1 DEF Alike
      <4>. QED
        BY <2>8, <3>1, <4>1, SameSeq
    <3>. QED
      BY <3>2 DEF c
  <2>. QED
    BY <2>7, <2>9, <2>11 DEF a, b
<1>6. \A k \in 0..n : Rest(f, k) = Flat(g(k))
  BY Zenon DEF Rest
<1>. HIDE DEF g
<1>7. \A k \in 0..n : Rest(f, k) \in Seq(C)
  BY <1>2, <1>6, FlatType
<1>8. ASSUME NEW k \in 1..n
      PROVE  Rest(f, k - 1) = f[k] \o Rest(f, k)
  <2>1. k - 1 \in 0..n /\ k \in 0..n
    BY <1>1
  <2>2. Flat(g(k - 1)) = g(k - 1)[1] \o Flat(Tail(g(k - 1)))
    BY <1>2, <1>5, <2>1, FlatCons
  <2>. QED
    BY <1>5, <1>6, <2>1, <2>2
<1>. QED
  BY <1>1, <1>3, <1>4, <1>6, <1>7, <1>8, FlatNone

LEMMA BeforeSteps ==
  ASSUME NEW C, NEW f \in Seq(Seq(C))
  PROVE  /\ Before(f, 0) = <<>> /\ Before(f, Len(f)) = Flat(f)
         /\ \A k \in 0..Len(f) : Before(f, k) \in Seq(C)
         /\ \A k \in 1..Len(f) : Before(f, k) = Before(f, k - 1) \o f[k]
<1>. DEFINE n == Len(f)
            g(k) == SubSeq(f, 1, k)
<1>1. n \in Nat
  OBVIOUS
<1>2. ASSUME NEW k \in 0..n
      PROVE  g(k) \in Seq(Seq(C)) /\ Len(g(k)) = k /\ \A i \in 1..k : g(k)[i] = f[i]
  BY <1>1
<1>. HIDE DEF g
<1>3. g(0) = <<>>
  <2>1. 0 \in 0..n
    BY <1>1
  <2>. QED
    BY <1>2, <2>1
<1>4. g(n) = f
  <2>1. n \in 0..n
    BY <1>1
  <2>. QED
    BY <1>2, <2>1
<1>5. ASSUME NEW k \in 1..n
      PROVE  g(k) = Append(g(k - 1), f[k])
  <2>. DEFINE a == g(k - 1)
              b == g(k)
              x == f[k]
  <2>1. k - 1 \in 0..n /\ k \in 0..n /\ x \in Seq(C)
    BY <1>1
  <2>2. a \in Seq(Seq(C)) /\ Len(a) = k - 1 /\ \A i \in 1..(k - 1) : a[i] = f[i]
    BY <1>2, <2>1
  <2>3. b \in Seq(Seq(C)) /\ Len(b) = k /\ \A i \in 1..k : b[i] = f[i]
    BY <1>2, <2>1
  <2>4. b[k] = x /\ \A i \in 1..(k - 1) : b[i] = a[i]
    <3>1. k \in 1..k /\ \A i \in 1..(k - 1) : i \in 1..k
      BY <1>1
    <3>. HIDE DEF a, b
    <3>. QED
      BY <2>2, <2>3, <3>1
  <2>. HIDE DEF a, b, x
  <2>5. b = Append(a, x)
    <3>. DEFINE c == Append(a, x)
    <3>1. c \in Seq(Seq(C)) /\ Len(c) = k /\ c[k] = x /\ \A i \in 1..(k - 1) : c[i] = a[i]
      BY <1>1, <2>1, <2>2
    <3>. HIDE DEF c
    <3>2. b = c
      BY <1>1, <2>3, <2>4, <3>1
    <3>. QED
      BY <3>2 DEF c
  <2>. QED
    BY <2>5 DEF a, b, x
<1>6. \A k \in 0..n : Before(f, k) = Flat(g(k))
  BY Zenon DEF Before, g
<1>7. \A k \in 0..n : Before(f, k) \in Seq(C)
  BY <1>2, <1>6, FlatType
<1>8. ASSUME NEW k \in 1..n
      PROVE  Before(f, k) = Before(f, k - 1) \o f[k]
  <2>1. k - 1 \in 0..n /\ k \in 0..n /\ f[k] \in Seq(C)
    BY <1>1
  <2>2. Flat(Append(g(k - 1), f[k])) = Flat(g(k - 1)) \o f[k]
    BY <1>2, <2>1, FlatAppend
  <2>. QED
    BY <1>5, <1>6, <2>1, <2>2
<1>9. 0 \in 0..n /\ n \in 0..n
  BY <1>1
<1>. QED
  BY <1>3, <1>4, <1>6, <1>7, <1>8, <1>9, FlatNone

\* Text has no "%".
Unsigned == Chars \ {"%"}

\* What a part is in the format, in the arguments, and what it stands for.
FmtOf(p) == IF p.conv = "" THEN p.arg ELSE <<"%", p.conv>>
ArgsOf(p) == IF p.conv \in {"", "l"} THEN <<>> ELSE <<p.arg>>
TextOf(p) == CASE p.conv = "c" -> <<p.arg>>
               [] p.conv \in {"d", "i"} -> Number(p.arg, "int", 10)
               [] p.conv = "u" -> Number(p.arg, "uint", 10)
               [] p.conv \in {"x", "X"} -> Number(p.arg, "uint", 16)
               [] p.conv = "o" -> Number(p.arg, "uint", 8)
               [] OTHER -> p.arg
KnownText(p) == IF p.conv = "l" THEN <<>> ELSE TextOf(p)
ArgSet(call) == {call[i].arg : i \in DOMAIN call}

Fmts(call) == [i \in DOMAIN call |-> FmtOf(call[i])]
Argss(call) == [i \in DOMAIN call |-> ArgsOf(call[i])]
Texts(call) == [i \in DOMAIN call |-> KnownText(call[i])]

LEMMA PartTypes ==
  ASSUME NEW p, Fits(p)
  PROVE  FmtOf(p) \in Seq(Chars) /\ KnownText(p) \in Seq(Chars)
<1>. DEFINE a == p.arg
            c == p.conv
<1>1. Letters \cup {"s", "d", "i", "u", "%"} \subseteq Chars
  BY Constants
<1>2. CASE c = "" /\ a \in Seq(Chars \ {"%"})
  <2>1. a \in Seq(Chars)
    <3>1. Unsigned \subseteq Chars /\ a \in Seq(Unsigned)
      BY <1>2 DEF Unsigned
    <3>. QED
      BY <3>1, SeqIn
  <2>2. FmtOf(p) = a /\ KnownText(p) = a
    BY <1>2 DEF FmtOf, KnownText, TextOf
  <2>. QED
    BY <2>1, <2>2
<1>3. ASSUME c # "", c \in Chars
      PROVE  FmtOf(p) \in Seq(Chars)
  <2>1. FmtOf(p) = <<"%", c>> /\ "%" \in Chars
    BY <1>1, <1>3 DEF FmtOf
  <2>2. <<"%", c>> \in Seq(Chars)
    BY <1>3, <2>1, SeqOf
  <2>. QED
    BY <2>1, <2>2
<1>4. CASE c = "c" /\ a \in Chars
  <2>1. c # "" /\ c \in Chars
    BY <1>1, <1>4 DEF Letters
  <2>2. KnownText(p) = <<a>>
    BY <1>4 DEF KnownText, TextOf
  <2>. HIDE DEF a, c
  <2>. QED
    BY <1>3, <1>4, <2>1, <2>2
<1>5. CASE c = "s" /\ a \in Seq(Chars)
  <2>1. c # "" /\ c \in Chars
    BY <1>1, <1>5
  <2>2. KnownText(p) = a
    BY <1>5 DEF KnownText, TextOf
  <2>. HIDE DEF a, c
  <2>. QED
    BY <1>3, <1>5, <2>1, <2>2
<1>6. CASE c \in {"d", "i", "o", "u", "x", "X"} /\ a \in 0..(Ints - 1)
  <2>1. c # "" /\ c \in Chars
    BY <1>1, <1>6 DEF Letters
  <2>2. /\ Number(a, "int", 10) \in Seq(Chars) /\ Number(a, "uint", 10) \in Seq(Chars)
        /\ Number(a, "uint", 16) \in Seq(Chars) /\ Number(a, "uint", 8) \in Seq(Chars)
    <3>1. "int" \in {"int", "uint"} /\ "uint" \in {"int", "uint"}
          /\ 8 \in Bases /\ 10 \in Bases /\ 16 \in Bases
      BY DEF Bases
    <3>. QED
      BY <1>6, <3>1, NumberType
  <2>3. \/ KnownText(p) = Number(a, "int", 10) \/ KnownText(p) = Number(a, "uint", 10)
        \/ KnownText(p) = Number(a, "uint", 16) \/ KnownText(p) = Number(a, "uint", 8)
    BY <1>6 DEF KnownText, TextOf
  <2>. HIDE DEF a, c
  <2>. QED
    BY <1>3, <2>1, <2>2, <2>3
<1>7. CASE c = "l"
  <2>1. c # "" /\ c \in Chars
    BY <1>1, <1>7 DEF Letters
  <2>2. KnownText(p) = <<>> /\ <<>> \in Seq(Chars)
    BY <1>7 DEF KnownText
  <2>. QED
    BY <1>3, <2>1, <2>2
<1>. QED
  BY <1>2, <1>4, <1>5, <1>6, <1>7 DEF Fits

LEMMA Pieces ==
  ASSUME NEW call, WellFormed(call)
  PROVE  /\ Len(call) \in Nat /\ DOMAIN call = 1..Len(call)
         /\ Fmts(call) \in Seq(Seq(Chars)) /\ Len(Fmts(call)) = Len(call)
         /\ Argss(call) \in Seq(Seq(ArgSet(call))) /\ Len(Argss(call)) = Len(call)
         /\ Texts(call) \in Seq(Seq(Chars)) /\ Len(Texts(call)) = Len(call)
<1>1. Len(call) \in Nat /\ DOMAIN call = 1..Len(call)
  <2>. DEFINE S == {call[i] : i \in DOMAIN call}
  <2>1. call \in Seq(S)
    BY DEF WellFormed, IsSequence
  <2>. HIDE DEF S
  <2>. QED
    BY <2>1
<1>2. \A i \in DOMAIN call : Fits(call[i])
  BY DEF WellFormed
<1>3. \A i \in 1..Len(call) : FmtOf(call[i]) \in Seq(Chars) /\ KnownText(call[i]) \in Seq(Chars)
  BY <1>1, <1>2, PartTypes
<1>4. \A i \in 1..Len(call) : ArgsOf(call[i]) \in Seq(ArgSet(call))
  <2>. TAKE i \in 1..Len(call)
  <2>. DEFINE a == call[i].arg
  <2>1. a \in ArgSet(call)
    BY <1>1 DEF ArgSet
  <2>2. ArgsOf(call[i]) = <<>> \/ ArgsOf(call[i]) = <<a>>
    BY DEF ArgsOf
  <2>. HIDE DEF a
  <2>. QED
    BY <2>1, <2>2, SeqOf
<1>5. Fmts(call) \in Seq(Seq(Chars)) /\ Len(Fmts(call)) = Len(call)
  BY <1>1, <1>3 DEF Fmts
<1>6. Argss(call) \in Seq(Seq(ArgSet(call))) /\ Len(Argss(call)) = Len(call)
  BY <1>1, <1>4 DEF Argss
<1>7. Texts(call) \in Seq(Seq(Chars)) /\ Len(Texts(call)) = Len(call)
  BY <1>1, <1>3 DEF Texts
<1>. QED
  BY <1>1, <1>5, <1>6, <1>7

\* The format, the arguments behind part k, and the text up to it.
FmtFrom(call, k) == Rest(Fmts(call), k)
ArgsFrom(call, k) == Rest(Argss(call), k)
TextTo(call, k) == Before(Texts(call), k)

LEMMA Parts ==
  ASSUME NEW call, WellFormed(call)
  PROVE  /\ FmtFrom(call, 0) = Fmt(call) /\ FmtFrom(call, Len(call)) = <<>>
         /\ ArgsFrom(call, 0) = Args(call)
         /\ TextTo(call, 0) = <<>>
         /\ Plain(call) => TextTo(call, Len(call)) = Expected(call)
         /\ \A k \in 0..Len(call) :
              /\ FmtFrom(call, k) \in Seq(Chars)
              /\ ArgsFrom(call, k) \in Seq(ArgSet(call))
              /\ TextTo(call, k) \in Seq(Chars)
         /\ \A k \in 1..Len(call) :
              /\ FmtFrom(call, k - 1) = FmtOf(call[k]) \o FmtFrom(call, k)
              /\ ArgsFrom(call, k - 1) = ArgsOf(call[k]) \o ArgsFrom(call, k)
              /\ TextTo(call, k) = TextTo(call, k - 1) \o KnownText(call[k])
<1>. DEFINE n == Len(call)
<1>1. n \in Nat /\ DOMAIN call = 1..n
  BY Pieces
<1>2. /\ Fmts(call) \in Seq(Seq(Chars)) /\ Len(Fmts(call)) = n
      /\ Argss(call) \in Seq(Seq(ArgSet(call))) /\ Len(Argss(call)) = n
      /\ Texts(call) \in Seq(Seq(Chars)) /\ Len(Texts(call)) = n
  BY Pieces
<1>3. \A k \in 1..n : /\ Fmts(call)[k] = FmtOf(call[k]) /\ Argss(call)[k] = ArgsOf(call[k])
                      /\ Texts(call)[k] = KnownText(call[k])
  BY <1>1 DEF Fmts, Argss, Texts
<1>4. Flat(Fmts(call)) = Fmt(call) /\ Flat(Argss(call)) = Args(call)
  BY Zenon DEF Fmts, Argss, Fmt, Args, FmtOf, ArgsOf
<1>5. Plain(call) => Flat(Texts(call)) = Expected(call)
  <2>. HAVE Plain(call)
  <2>1. \A i \in DOMAIN call : KnownText(call[i]) = TextOf(call[i])
    BY DEF Plain, KnownText
  <2>2. Texts(call) = [i \in DOMAIN call |-> TextOf(call[i])]
    BY <2>1, Zenon DEF Texts
  <2>3. Expected(call) = Flat([i \in DOMAIN call |-> TextOf(call[i])])
    BY Zenon DEF Expected, TextOf
  <2>. QED
    BY <2>2, <2>3
<1>. HIDE DEF n
<1>6. /\ FmtFrom(call, 0) = Fmt(call) /\ FmtFrom(call, n) = <<>>
      /\ \A k \in 0..n : FmtFrom(call, k) \in Seq(Chars)
      /\ \A k \in 1..n : FmtFrom(call, k - 1) = FmtOf(call[k]) \o FmtFrom(call, k)
  BY <1>2, <1>3, <1>4, RestSteps DEF FmtFrom
<1>7. /\ ArgsFrom(call, 0) = Args(call)
      /\ \A k \in 0..n : ArgsFrom(call, k) \in Seq(ArgSet(call))
      /\ \A k \in 1..n : ArgsFrom(call, k - 1) = ArgsOf(call[k]) \o ArgsFrom(call, k)
  BY <1>2, <1>3, <1>4, RestSteps DEF ArgsFrom
<1>8. /\ TextTo(call, 0) = <<>> /\ TextTo(call, n) = Flat(Texts(call))
      /\ \A k \in 0..n : TextTo(call, k) \in Seq(Chars)
      /\ \A k \in 1..n : TextTo(call, k) = TextTo(call, k - 1) \o KnownText(call[k])
  BY <1>2, <1>3, BeforeSteps DEF TextTo
<1>. QED
  BY <1>5, <1>6, <1>7, <1>8 DEF n

\* Parts that are text, if any, then a conversion or the end: what one look at the
\* format finds first.
Ahead(call, k, j, text) ==
  /\ j \in k..Len(call) /\ text \in Seq(Unsigned)
  /\ FmtFrom(call, k) = text \o FmtFrom(call, j)
  /\ ArgsFrom(call, k) = ArgsFrom(call, j)
  /\ TextTo(call, j) = TextTo(call, k) \o text
  /\ j = Len(call) \/ call[j + 1].conv # ""

LEMMA LookAhead ==
  ASSUME NEW call, WellFormed(call), NEW k \in 0..Len(call)
  PROVE  \E j, text : Ahead(call, k, j, text)
<1>. DEFINE n == Len(call)
            T == {m \in 0..n : \E j, text : Ahead(call, n - m, j, text)}
<1>1. n \in Nat /\ DOMAIN call = 1..n
  BY Pieces
<1>2. \A i \in 0..n : /\ FmtFrom(call, i) \in Seq(Chars)
                      /\ ArgsFrom(call, i) \in Seq(ArgSet(call))
                      /\ TextTo(call, i) \in Seq(Chars)
  BY Parts
<1>3. \A i \in 1..n :
        /\ FmtFrom(call, i - 1) = FmtOf(call[i]) \o FmtFrom(call, i)
        /\ ArgsFrom(call, i - 1) = ArgsOf(call[i]) \o ArgsFrom(call, i)
        /\ TextTo(call, i) = TextTo(call, i - 1) \o KnownText(call[i])
  BY Parts
<1>4. ASSUME NEW i \in 0..n, i = n \/ call[i + 1].conv # ""
      PROVE  Ahead(call, i, i, <<>>)
  <2>. DEFINE a == FmtFrom(call, i)
              b == TextTo(call, i)
  <2>1. a \in Seq(Chars) /\ b \in Seq(Chars)
    BY <1>2
  <2>. HIDE DEF a, b
  <2>2. a = <<>> \o a /\ b = b \o <<>> /\ <<>> \in Seq(Unsigned)
    BY <2>1, Joined
  <2>3. i \in i..n
    BY <1>1
  <2>. QED
    BY <1>4, <2>2, <2>3, Zenon DEF Ahead, a, b
<1>5. ASSUME NEW i \in 1..n, call[i].conv = "", NEW j, NEW text, Ahead(call, i, j, text)
      PROVE  \E t : Ahead(call, i - 1, j, t)
  <2>. DEFINE p == call[i].arg
              f == FmtFrom(call, i)
              g == FmtFrom(call, j)
              v == ArgsFrom(call, i)
              x == TextTo(call, i - 1)
              t == p \o text
  <2>1. p \in Seq(Unsigned)
    <3>1. Fits(call[i])
      BY <1>1 DEF WellFormed
    <3>. QED
      BY <1>5, <3>1 DEF Fits, Unsigned
  <2>2. FmtOf(call[i]) = p /\ ArgsOf(call[i]) = <<>> /\ KnownText(call[i]) = p
    BY <1>5 DEF FmtOf, ArgsOf, KnownText, TextOf
  <2>3. i \in 0..n /\ i - 1 \in 0..n /\ j \in 0..n /\ j \in (i - 1)..n /\ j \in i..n
    <3>1. j \in i..n
      BY <1>5, Zenon DEF Ahead
    <3>. HIDE DEF n
    <3>. QED
      BY <1>1, <3>1
  <2>4. f \in Seq(Chars) /\ g \in Seq(Chars) /\ x \in Seq(Chars) /\ v \in Seq(ArgSet(call))
    BY <1>2, <2>3
  <2>5. text \in Seq(Unsigned) /\ f = text \o g /\ TextTo(call, j) = TextTo(call, i) \o text
        /\ v = ArgsFrom(call, j) /\ (j = n \/ call[j + 1].conv # "")
    BY <1>5 DEF Ahead
  <2>6. FmtFrom(call, i - 1) = p \o f /\ TextTo(call, i) = x \o p
        /\ ArgsFrom(call, i - 1) = <<>> \o v
    BY <1>3, <2>2
  <2>7. TextTo(call, j) = (x \o p) \o text /\ FmtFrom(call, i - 1) = p \o (text \o g)
    BY <2>5, <2>6, Zenon
  <2>. HIDE DEF p, f, g, v, x
  <2>8. t \in Seq(Unsigned)
    BY <2>1, <2>5, Joined DEF t
  <2>9. (x \o p) \o text = x \o t /\ p \o (text \o g) = t \o g /\ <<>> \o v = v
    <3>1. p \in Seq(Chars) /\ text \in Seq(Chars)
      <4>1. Unsigned \subseteq Chars
        BY DEF Unsigned
      <4>. QED
        BY <2>1, <2>5, <4>1, SeqIn
    <3>. HIDE DEF t
    <3>2. \A a, b, c \in Seq(Chars) : (a \o b) \o c = a \o (b \o c)
      BY Assoc
    <3>3. (x \o p) \o text = x \o (p \o text) /\ (p \o text) \o g = p \o (text \o g)
      BY <2>4, <3>1, <3>2, Zenon
    <3>4. <<>> \o v = v
      BY <2>4, Joined
    <3>. QED
      BY <3>2, <3>3, <3>4, Zenon DEF t
  <2>. HIDE DEF t
  <2>10. Ahead(call, i - 1, j, t)
    BY <2>3, <2>5, <2>6, <2>7, <2>8, <2>9, Zenon DEF Ahead, g, x
  <2>. QED
    BY <2>10
<1>6. ASSUME NEW m \in 0..n, \A l \in 0..(m - 1) : l \in T
      PROVE  m \in T
  <2>1. n - m \in 0..n
    BY <1>1
  <2>2. CASE n - m = n \/ call[(n - m) + 1].conv # ""
    <3>1. Ahead(call, n - m, n - m, <<>>)
      BY <1>4, <2>1, <2>2
    <3>. QED
      BY <3>1
  <2>3. CASE n - m # n /\ call[(n - m) + 1].conv = ""
    <3>. DEFINE i == (n - m) + 1
    <3>1. CASE m = 0
      <4>1. Ahead(call, n, n, <<>>)
        <5>1. n \in 0..n
          BY <1>1
        <5>. QED
          BY <1>4, <5>1
      <4>2. n - m = n
        BY <1>1, <3>1
      <4>. QED
        BY <2>3, <4>2
    <3>2. CASE m # 0
      <4>1. i \in 1..n /\ m - 1 \in 0..(m - 1) /\ n - (m - 1) = i /\ i - 1 = n - m
        BY <1>1, <3>2
      <4>2. m - 1 \in T
        <5>. HIDE DEF T
        <5>. QED
          BY <1>6, <4>1
      <4>3. PICK j, text : Ahead(call, n - (m - 1), j, text)
        BY <4>2
      <4>4. Ahead(call, i, j, text) /\ call[i].conv = ""
        BY <2>3, <4>1, <4>3, Zenon
      <4>5. \E t : Ahead(call, i - 1, j, t)
        <5>. HIDE DEF i
        <5>. QED
          BY <1>5, <4>1, <4>4
      <4>. QED
        BY <4>1, <4>5, Zenon
    <3>. QED
      BY <3>1, <3>2
  <2>. QED
    BY <2>2, <2>3
<1>7. n - k \in T
  <2>1. n - k \in 0..n
    BY <1>1
  <2>. HIDE DEF T
  <2>. QED
    BY <1>1, <1>6, <2>1, UpTo
<1>8. n - (n - k) = k
  BY <1>1
<1>. QED
  BY <1>7, <1>8

-----------------------------------------------------------------------------
(* One look at the format. *)

Specs == [read : Nat, width : BOOLEAN, type : {"none", "char", "str", "int", "uint"}, base : Bases]

LEMMA Cut ==
  ASSUME NEW S, NEW a \in Seq(S), NEW b \in Seq(S)
  PROVE  /\ SubSeq(a \o b, 1, Len(a)) = a
         /\ SubSeq(a \o b, Len(a) + 1, Len(a \o b)) = b
<1>. DEFINE m == Len(a)
            n == Len(b)
            s == a \o b
            x == SubSeq(s, 1, m)
            y == SubSeq(s, m + 1, Len(s))
<1>1. m \in Nat /\ n \in Nat /\ s \in Seq(S) /\ Len(s) = m + n
  OBVIOUS
<1>2. (\A i \in 1..m : s[i] = a[i]) /\ (\A i \in 1..n : s[m + i] = b[i])
  OBVIOUS
<1>3. a \in Seq(S) /\ b \in Seq(S) /\ Len(a) = m /\ Len(b) = n
  OBVIOUS
<1>. HIDE DEF s, m, n
<1>4. x \in Seq(S) /\ Len(x) = m /\ \A i \in 1..m : x[i] = s[i]
  BY <1>1
<1>5. y \in Seq(S) /\ Len(y) = n /\ \A i \in 1..n : y[i] = s[m + i]
  BY <1>1
<1>. HIDE DEF x, y
<1>6. Alike(x, a)
  BY <1>2, <1>3, <1>4 DEF Alike
<1>7. Alike(y, b)
  BY <1>2, <1>3, <1>5 DEF Alike
<1>8. x = a /\ y = b
  BY <1>3, <1>4, <1>5, <1>6, <1>7, SameSeq
<1>. QED
  BY <1>8 DEF x, y, s, m, n

Conversion(c, flags) ==
  [read |-> 2,
   width |-> flags.width \/ c = "l",
   type |-> CASE c = "c" -> "char" [] c = "s" -> "str" [] c \in {"d", "i"} -> "int"
              [] c \in {"o", "x", "X", "u"} -> "uint" [] OTHER -> "none",
   base |-> CASE c = "o" -> 8 [] c \in {"x", "X"} -> 16 [] OTHER -> 10]

LEMMA Decode ==
  ASSUME NEW fmt, NEW flags
  PROVE  LET signs == {i \in DOMAIN fmt : fmt[i] = "%"}
             read == IF signs = {} THEN Len(fmt)
                     ELSE (CHOOSE i \in signs : \A j \in signs : i <= j) - 1
         IN  FormatDecode(fmt, flags) = IF read > 0
                                        THEN [flags EXCEPT !.type = "none", !.read = read]
                                        ELSE Conversion(fmt[2], flags)
  BY Zenon DEF FormatDecode, Conversion

LEMMA DecodeText ==
  ASSUME NEW text \in Seq(Unsigned), text # <<>>, NEW rest \in Seq(Chars),
         rest = <<>> \/ rest[1] = "%", NEW flags
  PROVE  FormatDecode(text \o rest, flags) = [flags EXCEPT !.type = "none", !.read = Len(text)]
<1>. DEFINE fmt == text \o rest
            n == Len(text)
            signs == {i \in DOMAIN fmt : fmt[i] = "%"}
            first == CHOOSE i \in signs : \A j \in signs : i <= j
            read == IF signs = {} THEN Len(fmt) ELSE first - 1
<1>1. n \in Nat /\ n > 0 /\ Len(rest) \in Nat
  OBVIOUS
<1>2. DOMAIN fmt = 1..(n + Len(rest)) /\ Len(fmt) = n + Len(rest)
  <2>1. text \in Seq(Chars)
    <3>1. Unsigned \subseteq Chars
      BY DEF Unsigned
    <3>. QED
      BY <3>1, SeqIn
  <2>. QED
    BY <2>1
<1>3. \A i \in 1..n : fmt[i] # "%"
  <2>. TAKE i \in 1..n
  <2>1. text[i] \in Unsigned /\ fmt[i] = text[i]
    OBVIOUS
  <2>. QED
    BY <2>1 DEF Unsigned
<1>4. Len(rest) > 0 => fmt[n + 1] = "%"
  <2>1. Len(rest) > 0 => fmt[n + 1] = rest[1]
    BY <1>1
  <2>. QED
    BY <2>1
<1>. HIDE DEF fmt, n
<1>5. \A i \in signs : i > n
  BY <1>1, <1>2, <1>3
<1>6. read = n
  <2>1. CASE Len(rest) = 0
    <3>1. signs = {}
      BY <1>1, <1>2, <1>5, <2>1
    <3>. QED
      BY <1>1, <1>2, <2>1, <3>1
  <2>2. CASE Len(rest) # 0
    <3>1. n + 1 \in signs
      BY <1>1, <1>2, <1>4, <2>2
    <3>2. \A i \in signs : i \in Nat /\ n + 1 <= i
      BY <1>1, <1>2, <1>5
    <3>. HIDE DEF signs
    <3>3. first \in signs /\ \A j \in signs : first <= j
      BY <3>1, <3>2
    <3>4. first = n + 1
      <4>. HIDE DEF first
      <4>. QED
        BY <1>1, <3>1, <3>2, <3>3
    <3>. HIDE DEF first
    <3>. QED
      BY <1>1, <3>1, <3>4
  <2>. QED
    BY <2>1, <2>2
<1>7. read > 0
  BY <1>1, <1>6
<1>8. FormatDecode(fmt, flags) = IF read > 0 THEN [flags EXCEPT !.type = "none", !.read = read]
                                 ELSE Conversion(fmt[2], flags)
  BY Decode, Zenon
<1>. HIDE DEF read
<1>. QED
  BY <1>6, <1>7, <1>8, Zenon DEF fmt, n

LEMMA DecodeConversion ==
  ASSUME NEW c \in Chars, NEW rest \in Seq(Chars), NEW flags
  PROVE  FormatDecode(<<"%", c>> \o rest, flags) = Conversion(c, flags)
<1>. DEFINE head == <<"%", c>>
            fmt == head \o rest
            signs == {i \in DOMAIN fmt : fmt[i] = "%"}
            first == CHOOSE i \in signs : \A j \in signs : i <= j
            read == IF signs = {} THEN Len(fmt) ELSE first - 1
<1>1. head \in Seq(Chars) /\ Len(head) = 2 /\ head[1] = "%" /\ head[2] = c
  <2>1. "%" \in Chars
    BY Constants
  <2>2. <<"%", c>> \in Seq(Chars)
    BY <2>1, SeqOf
  <2>. QED
    BY <2>2
<1>. HIDE DEF head
<1>2. /\ fmt[1] = "%" /\ fmt[2] = c
      /\ DOMAIN fmt = 1..(2 + Len(rest)) /\ Len(rest) \in Nat
  <2>1. /\ DOMAIN fmt = 1..(Len(head) + Len(rest)) /\ Len(rest) \in Nat
        /\ \A i \in 1..Len(head) : fmt[i] = head[i]
    BY <1>1, JoinedAt
  <2>2. 1 \in 1..2 /\ 2 \in 1..2
    OBVIOUS
  <2>. HIDE DEF fmt
  <2>. QED
    BY <1>1, <2>1, <2>2
<1>. HIDE DEF fmt
<1>3. 1 \in signs /\ \A i \in signs : i \in Nat /\ 1 <= i
  BY <1>2
<1>4. read = 0
  <2>. HIDE DEF signs
  <2>1. first \in signs /\ \A j \in signs : first <= j
    BY <1>3
  <2>2. first = 1
    <3>. HIDE DEF first
    <3>. QED
      BY <1>3, <2>1
  <2>. HIDE DEF first
  <2>. QED
    BY <1>3, <2>2
<1>5. ~(read > 0)
  <2>. HIDE DEF read
  <2>. QED
    BY <1>4
<1>6. FormatDecode(fmt, flags) = IF read > 0 THEN [flags EXCEPT !.type = "none", !.read = read]
                                 ELSE Conversion(fmt[2], flags)
  BY Decode, Zenon
<1>. HIDE DEF read
<1>. QED
  BY <1>2, <1>5, <1>6, Zenon DEF fmt, head

-----------------------------------------------------------------------------
(* The buffer. *)

Cells == Chars \cup {NUL}

\* The text is in the buffer as far as that goes, and str is behind it.
Printed(b, str, text) ==
  /\ IF Len(text) < Size THEN str = Len(text) ELSE str >= Size
  /\ \A i \in 1..Len(text) : i <= Size => b[i - 1] = text[i]

LEMMA SizeFacts == Size \in Nat /\ Size > 0 /\ Beyond \in Nat /\ Beyond > Size
  BY Constants DEF Beyond, MaxNumber

LEMMA StoreType ==
  ASSUME buf \in [0..(Beyond - 1) -> Cells], NEW at \in Nat, NEW text \in Seq(Chars), NEW end
  PROVE  Store(at, text, end) \in [0..(Beyond - 1) -> Cells]
<1>1. \A i \in 0..(Beyond - 1) :
        i \in at..(at + Len(text) - 1) => text[i - at + 1] \in Chars
  <2>1. Len(text) \in Nat
    OBVIOUS
  <2>. QED
    BY <2>1, SizeFacts
<1>. QED
  BY <1>1 DEF Store, Cells

LEMMA StoreRight ==
  ASSUME buf \in [0..(Beyond - 1) -> Cells], NEW str \in Nat,
         NEW x \in Seq(Chars), Printed(buf, str, x), NEW t \in Seq(Chars),
         NEW end \in Nat, end >= Size, NEW n \in Nat,
         str < Size => IF str + Len(t) < Size THEN n = Len(t) ELSE str + n >= Size
  PROVE  Printed(Store(str, t, end), str + n, x \o t)
<1>. DEFINE b == Store(str, t, end)
            y == x \o t
            lx == Len(x)
            lt == Len(t)
<1>1. lx \in Nat /\ lt \in Nat /\ Len(y) = lx + lt
  OBVIOUS
<1>2. (\A i \in 1..lx : y[i] = x[i]) /\ (\A i \in 1..lt : y[lx + i] = t[i])
  OBVIOUS
<1>3. \A i \in 0..(Beyond - 1) :
        b[i] = IF i \in str..(str + lt - 1) /\ i < end THEN t[(i - str) + 1] ELSE buf[i]
  BY DEF Store
<1>4. /\ IF lx < Size THEN str = lx ELSE str >= Size
      /\ \A i \in 1..lx : i <= Size => buf[i - 1] = x[i]
  BY DEF Printed
<1>5. str < Size => IF str + lt < Size THEN n = lt ELSE str + n >= Size
  OBVIOUS
<1>. HIDE DEF b, y, lx, lt
<1>6. IF Len(y) < Size THEN str + n = Len(y) ELSE str + n >= Size
  BY <1>1, <1>4, <1>5, SizeFacts
<1>7. ASSUME NEW i \in 1..(lx + lt), i <= Size
      PROVE  b[i - 1] = y[i]
  <2>1. i - 1 \in 0..(Beyond - 1) /\ i - 1 < end /\ i \in Nat
    BY <1>1, <1>7, SizeFacts
  <2>2. CASE i <= lx
    <3>1. i \in 1..lx /\ ~(i - 1 \in str..(str + lt - 1))
      BY <1>1, <1>4, <1>7, <2>1, <2>2, SizeFacts
    <3>. QED
      BY <1>2, <1>3, <1>4, <1>7, <2>1, <3>1
  <2>3. CASE i > lx
    <3>. DEFINE j == i - lx
    <3>1. j \in 1..lt /\ lx + j = i /\ i - 1 \in str..(str + lt - 1) /\ ((i - 1) - str) + 1 = j
      BY <1>1, <1>4, <1>7, <2>1, <2>3, SizeFacts
    <3>2. b[i - 1] = t[((i - 1) - str) + 1]
      BY <1>3, <2>1, <3>1
    <3>. HIDE DEF j
    <3>3. b[i - 1] = t[j] /\ y[lx + j] = t[j]
      BY <1>2, <3>1, <3>2
    <3>. QED
      BY <3>1, <3>3
  <2>. QED
    BY <1>1, <1>7, <2>1, <2>2, <2>3
<1>. QED
  BY <1>1, <1>6, <1>7 DEF Printed, b, y

-----------------------------------------------------------------------------
(* vsnprintf, one turn of its loop after the other. *)

BufType == buf \in [0..(Beyond - 1) -> Cells]

\* The first k parts of the call are done: the text they stand for is in the buffer,
\* unless there was one vsnprintf does not know.
Doing(k) ==
  /\ va.fmt = FmtFrom(va.call, k)
  /\ va.spec.width => ~Plain(va.call)
  /\ ~va.spec.width => /\ va.args = ArgsFrom(va.call, k)
                       /\ Printed(buf, va.str, TextTo(va.call, k))

VaType ==
  /\ WellFormed(va.call) /\ va.spec \in Specs /\ va.str \in Nat

InCall == VaType /\ BufType /\ \E k \in 0..Len(va.call) : Doing(k)

VaInv == VaType /\ (pc[Swapper] = "printk" => \E k \in 0..Len(va.call) : Doing(k))

\* What a turn does with b for the buffer, n characters and args for what is left.
Turn(spec, b, n, args) ==
  /\ buf' = b
  /\ va' = [call |-> va.call, fmt |-> SubSeq(va.fmt, spec.read + 1, Len(va.fmt)),
            args |-> args, spec |-> spec, str |-> va.str + n]

LEMMA Turns ==
  ASSUME Format
  PROVE  LET spec == FormatDecode(va.fmt, va.spec)
             text == SubSeq(va.fmt, 1, spec.read)
             arg  == Head(va.args)
             room == IF va.str < Size THEN Size - va.str ELSE 0
             digits == Number(arg, spec.type, spec.base)
         IN  /\ pc[Swapper] = "printk" /\ va.fmt # <<>>
             /\ UNCHANGED <<pc, out, calls, tx, rx, typed, wire, said, raced>>
             /\ \/ /\ spec.type = "none"
                   /\ Turn(spec, Store(va.str, text, Size), Len(text), va.args)
                \/ /\ spec.type # "none" /\ spec.width
                   /\ Turn(spec, buf, 0, va.args)
                \/ /\ spec.type = "char" /\ ~spec.width
                   /\ Turn(spec, Store(va.str, <<arg>>, Size), 1, Tail(va.args))
                \/ /\ spec.type = "str" /\ ~spec.width
                   /\ Turn(spec, Store(va.str, arg, Size),
                           IF Len(arg) < room THEN Len(arg) ELSE room, Tail(va.args))
                \/ /\ spec.type \in {"int", "uint"} /\ ~spec.width
                   /\ Turn(spec, Store(va.str, digits, Beyond), Len(digits), Tail(va.args))
BY Zenon DEF Format, Turn

\* A turn that comes to index j with what it has written there.
LEMMA TurnTo ==
  ASSUME VaType, BufType, NEW spec \in Specs, NEW b \in [0..(Beyond - 1) -> Cells], NEW n \in Nat,
         NEW args, Turn(spec, b, n, args), NEW j \in 0..Len(va.call),
         SubSeq(va.fmt, spec.read + 1, Len(va.fmt)) = FmtFrom(va.call, j),
         spec.width => ~Plain(va.call),
         ~spec.width => args = ArgsFrom(va.call, j) /\ Printed(b, va.str + n, TextTo(va.call, j))
  PROVE  InCall' /\ va'.call = va.call
<1>1. /\ va'.call = va.call /\ va'.fmt = FmtFrom(va.call, j) /\ va'.args = args
      /\ va'.spec = spec /\ va'.str = va.str + n /\ buf' = b
  BY DEF Turn
<1>2. VaType' /\ BufType'
  BY <1>1 DEF VaType, BufType
<1>3. Doing(j)'
  BY <1>1 DEF Doing
<1>4. (\E k \in 0..Len(va.call) : Doing(k))'
  BY <1>1, <1>3
<1>. QED
  BY <1>1, <1>2, <1>4 DEF InCall

\* The loop meets text first ...
LEMMA TurnText ==
  ASSUME VaType, BufType, Format, NEW k \in 0..Len(va.call), Doing(k),
         NEW j, NEW text, Ahead(va.call, k, j, text), text # <<>>
  PROVE  InCall' /\ va'.call = va.call
<1>. DEFINE spec == FormatDecode(va.fmt, va.spec)
            rest == FmtFrom(va.call, j)
            n == Len(text)
<1>1. WellFormed(va.call) /\ va.spec \in Specs /\ va.str \in Nat
  BY DEF VaType
<1>2. Len(va.call) \in Nat /\ DOMAIN va.call = 1..Len(va.call)
  BY <1>1, Pieces
<1>3. /\ j \in 0..Len(va.call) /\ text \in Seq(Unsigned) /\ text \in Seq(Chars) /\ n \in Nat
      /\ rest \in Seq(Chars) /\ va.fmt = text \o rest
  <2>1. j \in k..Len(va.call) /\ text \in Seq(Unsigned) /\ FmtFrom(va.call, k) = text \o rest
    BY Zenon DEF Ahead
  <2>2. j \in 0..Len(va.call)
    BY <1>2, <2>1
  <2>3. Unsigned \subseteq Chars
    BY DEF Unsigned
  <2>4. text \in Seq(Chars)
    BY <2>1, <2>3, SeqIn
  <2>5. rest \in Seq(Chars)
    BY <1>1, <2>2, Parts
  <2>6. n \in Nat
    BY <2>1
  <2>. QED
    BY <2>1, <2>2, <2>4, <2>5, <2>6, Zenon DEF Doing
<1>4. rest = <<>> \/ rest[1] = "%"
  <2>1. CASE j = Len(va.call)
    BY <1>1, <2>1, Parts
  <2>2. CASE j # Len(va.call)
    <3>1. j + 1 \in 1..Len(va.call) /\ (j + 1) - 1 = j /\ j + 1 \in 0..Len(va.call)
      BY <1>2, <1>3, <2>2
    <3>. DEFINE p == va.call[j + 1]
                more == FmtFrom(va.call, j + 1)
    <3>2. p.conv # "" /\ Fits(p)
      BY <1>1, <1>2, <2>2, <3>1 DEF Ahead, WellFormed
    <3>3. more \in Seq(Chars) /\ rest = FmtOf(p) \o more
      BY <1>1, <3>1, Parts
    <3>4. FmtOf(p) \in Seq(Chars)
      BY <3>2, PartTypes
    <3>5. FmtOf(p) = <<"%", p.conv>>
      BY <3>2 DEF FmtOf
    <3>. DEFINE h == FmtOf(p)
    <3>6. Len(h) = 2 /\ h[1] = "%"
      BY <3>5
    <3>. HIDE DEF p, more, h, rest
    <3>7. \A i \in 1..Len(h) : (h \o more)[i] = h[i]
      BY <3>3, <3>4, JoinedAt DEF h
    <3>8. rest[1] = h[1]
      <4>1. 1 \in 1..2
        OBVIOUS
      <4>. QED
        BY <3>3, <3>6, <3>7, <4>1, Zenon DEF h
    <3>. QED
      BY <3>6, <3>8
  <2>. QED
    BY <2>1, <2>2
<1>5. spec = [va.spec EXCEPT !.type = "none", !.read = n]
  <2>. HIDE DEF rest
  <2>1. FormatDecode(text \o rest, va.spec) = [va.spec EXCEPT !.type = "none", !.read = n]
    BY <1>3, <1>4, DecodeText
  <2>. QED
    BY <1>3, <2>1, Zenon
<1>6. spec \in Specs /\ spec.type = "none" /\ spec.read = n /\ (spec.width <=> va.spec.width)
  <2>. HIDE DEF spec
  <2>. QED
    BY <1>1, <1>3, <1>5 DEF Specs
<1>7. SubSeq(va.fmt, 1, n) = text /\ SubSeq(va.fmt, n + 1, Len(va.fmt)) = rest
  <2>. HIDE DEF rest
  <2>1. SubSeq(text \o rest, 1, Len(text)) = text
        /\ SubSeq(text \o rest, Len(text) + 1, Len(text \o rest)) = rest
    BY <1>3, Cut
  <2>. QED
    BY <1>3, <2>1, Zenon
<1>8. Turn(spec, Store(va.str, text, Size), n, va.args)
  <2>1. spec.type = "none" => Turn(spec, Store(va.str, SubSeq(va.fmt, 1, spec.read), Size),
                                   Len(SubSeq(va.fmt, 1, spec.read)), va.args)
    <3>. HIDE DEF spec
    <3>1. spec.type = "none" => ~(spec.type \in {"int", "uint"}) /\ spec.type # "char" /\ spec.type # "str"
      OBVIOUS
    <3>. QED
      BY <3>1, Turns, Zenon DEF spec
  <2>. HIDE DEF spec
  <2>. QED
    BY <1>6, <1>7, <2>1, Zenon
<1>9. ~spec.width => /\ va.args = ArgsFrom(va.call, j)
                     /\ Printed(Store(va.str, text, Size), va.str + n, TextTo(va.call, j))
  <2>. SUFFICES ASSUME ~va.spec.width
                PROVE  /\ va.args = ArgsFrom(va.call, j)
                       /\ Printed(Store(va.str, text, Size), va.str + n, TextTo(va.call, j))
    BY <1>6
  <2>. DEFINE x == TextTo(va.call, k)
  <2>1. va.args = ArgsFrom(va.call, k) /\ Printed(buf, va.str, x)
    BY DEF Doing
  <2>2. ArgsFrom(va.call, k) = ArgsFrom(va.call, j) /\ TextTo(va.call, j) = x \o text
    BY Zenon DEF Ahead
  <2>3. x \in Seq(Chars)
    BY <1>1, Parts
  <2>4. Size \in Nat /\ Size >= Size
    BY SizeFacts
  <2>5. va.str < Size => IF va.str + Len(text) < Size THEN n = Len(text) ELSE va.str + n >= Size
    BY <1>1, <1>3, SizeFacts
  <2>. DEFINE str == va.str
  <2>. HIDE DEF x, n, str
  <2>6. Printed(Store(str, text, Size), str + n, x \o text)
    BY <1>1, <1>3, <2>1, <2>3, <2>4, <2>5, StoreRight DEF BufType, str
  <2>. QED
    BY <2>1, <2>2, <2>6, Zenon DEF str
<1>10. Store(va.str, text, Size) \in [0..(Beyond - 1) -> Cells]
  BY <1>1, <1>3, StoreType DEF BufType
<1>11. spec.width => ~Plain(va.call)
  <2>. HIDE DEF spec
  <2>. QED
    BY <1>6 DEF Doing
<1>12. SubSeq(va.fmt, spec.read + 1, Len(va.fmt)) = rest
  BY <1>6, <1>7, Zenon
<1>. DEFINE b == Store(va.str, text, Size)
            args == va.args
<1>. HIDE DEF spec, n, b, args
<1>13. InCall' /\ va'.call = va.call
  BY <1>3, <1>6, <1>8, <1>9, <1>10, <1>11, <1>12, TurnTo DEF b, args
<1>. QED
  BY <1>13

\* ... or a conversion.
LEMMA TurnConversion ==
  ASSUME VaType, BufType, Format, NEW k \in 0..Len(va.call), Doing(k),
         NEW j, Ahead(va.call, k, j, <<>>)
  PROVE  InCall' /\ va'.call = va.call
<1>. DEFINE spec == FormatDecode(va.fmt, va.spec)
            p == va.call[j + 1]
            c == p.conv
            rest == FmtFrom(va.call, j + 1)
            x == TextTo(va.call, j)
            str == va.str
            digits == Number(p.arg, spec.type, spec.base)
            room == IF str < Size THEN Size - str ELSE 0
<1>1. WellFormed(va.call) /\ va.spec \in Specs /\ str \in Nat
  BY DEF VaType
<1>2. Len(va.call) \in Nat /\ DOMAIN va.call = 1..Len(va.call)
  BY <1>1, Pieces
<1>3. /\ j \in 0..Len(va.call) /\ va.fmt = FmtFrom(va.call, j) /\ va.fmt # <<>>
      /\ TextTo(va.call, k) = x /\ ArgsFrom(va.call, k) = ArgsFrom(va.call, j)
  <2>1. j \in k..Len(va.call) /\ FmtFrom(va.call, k) = <<>> \o FmtFrom(va.call, j)
        /\ x = TextTo(va.call, k) \o <<>> /\ ArgsFrom(va.call, k) = ArgsFrom(va.call, j)
    BY Zenon DEF Ahead
  <2>2. j \in 0..Len(va.call)
    BY <1>2, <2>1
  <2>. DEFINE f == FmtFrom(va.call, j)
              y == TextTo(va.call, k)
  <2>3. f \in Seq(Chars) /\ y \in Seq(Chars)
    BY <1>1, <2>2, Parts
  <2>. HIDE DEF f, y
  <2>4. <<>> \o f = f /\ y \o <<>> = y
    BY <2>3, Joined
  <2>5. va.fmt = FmtFrom(va.call, k) /\ va.fmt # <<>>
    BY Turns, Zenon DEF Doing
  <2>. QED
    BY <2>1, <2>2, <2>4, <2>5, Zenon DEF f, y
<1>4. j + 1 \in 1..Len(va.call) /\ (j + 1) - 1 = j /\ j + 1 \in 0..Len(va.call) /\ c # "" /\ Fits(p)
  <2>1. j # Len(va.call)
    BY <1>1, <1>3, Parts
  <2>2. j + 1 \in 1..Len(va.call) /\ (j + 1) - 1 = j /\ j + 1 \in 0..Len(va.call)
    BY <1>2, <1>3, <2>1
  <2>3. c # ""
    BY <2>1, Zenon DEF Ahead
  <2>4. Fits(p)
    BY <1>1, <1>2, <2>2 DEF WellFormed
  <2>. QED
    BY <2>2, <2>3, <2>4
<1>5. /\ va.fmt = <<"%", c>> \o rest /\ rest \in Seq(Chars)
      /\ ArgsFrom(va.call, j) = ArgsOf(p) \o ArgsFrom(va.call, j + 1)
      /\ TextTo(va.call, j + 1) = x \o KnownText(p)
      /\ x \in Seq(Chars) /\ KnownText(p) \in Seq(Chars)
      /\ ArgsFrom(va.call, j + 1) \in Seq(ArgSet(va.call)) /\ p.arg \in ArgSet(va.call)
  <2>1. FmtOf(p) = <<"%", c>>
    BY <1>4 DEF FmtOf
  <2>2. /\ FmtFrom(va.call, j) = FmtOf(p) \o rest
        /\ ArgsFrom(va.call, j) = ArgsOf(p) \o ArgsFrom(va.call, j + 1)
        /\ TextTo(va.call, j + 1) = x \o KnownText(p)
        /\ rest \in Seq(Chars) /\ x \in Seq(Chars)
        /\ ArgsFrom(va.call, j + 1) \in Seq(ArgSet(va.call))
    BY <1>1, <1>3, <1>4, Parts
  <2>3. p.arg \in ArgSet(va.call)
    BY <1>2, <1>4 DEF ArgSet
  <2>. QED
    BY <1>3, <1>4, <2>1, <2>2, <2>3, PartTypes
<1>6. c \in {"c", "s", "d", "i", "o", "u", "x", "X", "l"} /\ c \in Chars
  <2>1. c \in {"c", "s", "d", "i", "o", "u", "x", "X", "l"}
    BY <1>4 DEF Fits
  <2>2. Letters \cup {"s", "d", "i", "u"} \subseteq Chars
    BY Constants
  <2>. QED
    BY <2>1, <2>2 DEF Letters
<1>7. spec = Conversion(c, va.spec)
  <2>. HIDE DEF rest, c
  <2>1. FormatDecode(<<"%", c>> \o rest, va.spec) = Conversion(c, va.spec)
    BY <1>5, <1>6, DecodeConversion
  <2>. QED
    BY <1>5, <2>1, Zenon
<1>. HIDE DEF c, spec, digits, room, str
<1>8. /\ spec \in Specs /\ spec.read = 2 /\ (spec.width <=> (va.spec.width \/ c = "l"))
      /\ spec.type = "none" <=> c = "l"
      /\ spec.type = "char" <=> c = "c"
      /\ spec.type = "str" <=> c = "s"
      /\ spec.type = "int" <=> c \in {"d", "i"}
      /\ spec.type = "uint" <=> c \in {"o", "x", "X", "u"}
      /\ spec.base = IF c = "o" THEN 8 ELSE IF c \in {"x", "X"} THEN 16 ELSE 10
  BY <1>1, <1>6, <1>7 DEF Specs, Bases, Conversion
<1>9. /\ SubSeq(va.fmt, spec.read + 1, Len(va.fmt)) = rest
      /\ SubSeq(va.fmt, 1, spec.read) \in Seq(Chars)
  <2>. DEFINE h == <<"%", c>>
  <2>1. "%" \in Chars
    BY Constants
  <2>2. <<"%", c>> \in Seq(Chars) /\ Len(h) = 2
    BY <1>6, <2>1, SeqOf
  <2>3. h \in Seq(Chars) /\ rest \in Seq(Chars)
    BY <1>5, <2>2
  <2>. HIDE DEF h, rest
  <2>4. SubSeq(h \o rest, 1, Len(h)) = h /\ SubSeq(h \o rest, Len(h) + 1, Len(h \o rest)) = rest
    BY <2>3, Cut
  <2>5. va.fmt = h \o rest
    BY <1>5 DEF h
  <2>. QED
    BY <1>8, <2>2, <2>3, <2>4, <2>5, Zenon
<1>10. spec.width => ~Plain(va.call)
  <2>1. c = "l" => ~Plain(va.call)
    BY <1>2, <1>4 DEF Plain, c
  <2>. QED
    BY <1>8, <2>1 DEF Doing
<1>. DEFINE Done == InCall' /\ va'.call = va.call
            Ends(b, n, args) ==
              /\ b \in [0..(Beyond - 1) -> Cells] /\ n \in Nat /\ Turn(spec, b, n, args)
              /\ ~spec.width => /\ args = ArgsFrom(va.call, j + 1)
                                /\ Printed(b, str + n, TextTo(va.call, j + 1))
<1>11. ASSUME NEW b, NEW n, NEW args, Ends(b, n, args)
       PROVE  Done
  <2>. DEFINE m == j + 1
  <2>1. b \in [0..(Beyond - 1) -> Cells] /\ n \in Nat /\ Turn(spec, b, n, args)
    BY <1>11
  <2>2. m \in 0..Len(va.call) /\ SubSeq(va.fmt, spec.read + 1, Len(va.fmt)) = FmtFrom(va.call, m)
    BY <1>4, <1>9
  <2>3. ~spec.width => args = ArgsFrom(va.call, m) /\ Printed(b, va.str + n, TextTo(va.call, m))
    BY <1>11 DEF str
  <2>. HIDE DEF m
  <2>. QED
    BY <1>8, <1>10, <2>1, <2>2, <2>3, TurnTo
<1>12. ~spec.width => /\ va.args = <<p.arg>> \o ArgsFrom(va.call, j + 1)
                      /\ Head(va.args) = p.arg /\ Tail(va.args) = ArgsFrom(va.call, j + 1)
                      /\ Printed(buf, str, x)
  <2>. HAVE ~spec.width
  <2>1. ~va.spec.width /\ c # "l"
    BY <1>8
  <2>2. va.args = ArgsFrom(va.call, k) /\ Printed(buf, va.str, TextTo(va.call, k))
    BY <2>1 DEF Doing
  <2>3. ArgsOf(p) = <<p.arg>>
    BY <1>4, <2>1 DEF ArgsOf, c
  <2>. DEFINE a == p.arg
              v == ArgsFrom(va.call, j + 1)
              S == ArgSet(va.call)
  <2>4. v \in Seq(S) /\ a \in S
    BY <1>5
  <2>. HIDE DEF a, v, S
  <2>5. Head(<<a>> \o v) = a /\ Tail(<<a>> \o v) = v
    BY <2>4
  <2>. QED
    BY <1>3, <1>5, <2>2, <2>3, <2>5, Zenon DEF a, v, str
<1>13. ASSUME NEW end \in Nat, end >= Size, NEW n \in Nat, ~spec.width,
              str < Size => IF str + Len(KnownText(p)) < Size THEN n = Len(KnownText(p)) ELSE str + n >= Size
       PROVE  /\ Printed(Store(str, KnownText(p), end), str + n, TextTo(va.call, j + 1))
              /\ Store(str, KnownText(p), end) \in [0..(Beyond - 1) -> Cells]
  <2>. DEFINE t == KnownText(p)
  <2>1. t \in Seq(Chars) /\ x \in Seq(Chars) /\ Printed(buf, str, x) /\ TextTo(va.call, j + 1) = x \o t
    BY <1>5, <1>12, <1>13
  <2>2. str \in Nat /\ (str < Size => IF str + Len(t) < Size THEN n = Len(t) ELSE str + n >= Size)
    BY <1>1, <1>13 DEF str
  <2>. HIDE DEF t, x
  <2>3. Printed(Store(str, t, end), str + n, x \o t)
    BY <1>13, <2>1, <2>2, StoreRight DEF BufType
  <2>4. Store(str, t, end) \in [0..(Beyond - 1) -> Cells]
    BY <2>1, <2>2, StoreType DEF BufType
  <2>. QED
    BY <2>1, <2>3, <2>4, Zenon DEF t
<1>14. CASE spec.type = "none"
  <2>. DEFINE text == SubSeq(va.fmt, 1, spec.read)
  <2>1. Turn(spec, Store(str, text, Size), Len(text), va.args)
    <3>1. ~(spec.type \in {"int", "uint"}) /\ spec.type # "char" /\ spec.type # "str"
      BY <1>14
    <3>. QED
      BY <1>14, <3>1, Turns, Zenon DEF spec, str
  <2>2. spec.width
    BY <1>8, <1>14
  <2>. HIDE DEF text
  <2>3. text \in Seq(Chars)
    BY <1>9 DEF text
  <2>4. Store(str, text, Size) \in [0..(Beyond - 1) -> Cells] /\ Len(text) \in Nat
    BY <1>1, <2>3, StoreType DEF BufType
  <2>5. Ends(Store(str, text, Size), Len(text), va.args)
    BY <2>1, <2>2, <2>4
  <2>. HIDE DEF Ends
  <2>. QED
    BY <1>11, <2>5
<1>15. CASE spec.type # "none" /\ spec.width
  <2>1. Turn(spec, buf, 0, va.args)
    BY <1>15, Turns, Zenon DEF spec
  <2>2. buf \in [0..(Beyond - 1) -> Cells]
    BY DEF BufType
  <2>3. Ends(buf, 0, va.args)
    BY <1>15, <2>1, <2>2
  <2>. HIDE DEF Ends
  <2>. QED
    BY <1>11, <2>3
<1>16. CASE spec.type = "char" /\ ~spec.width
  <2>1. Turn(spec, Store(str, <<Head(va.args)>>, Size), 1, Tail(va.args))
    <3>1. ~(spec.type \in {"int", "uint"}) /\ spec.type # "none" /\ spec.type # "str"
      BY <1>16
    <3>. QED
      BY <1>16, <3>1, Turns, Zenon DEF spec, str
  <2>2. KnownText(p) = <<p.arg>>
    BY <1>8, <1>16 DEF KnownText, TextOf, c
  <2>3. Turn(spec, Store(str, KnownText(p), Size), 1, Tail(va.args))
    BY <1>12, <1>16, <2>1, <2>2, Zenon
  <2>4. Len(KnownText(p)) = 1
    BY <2>2
  <2>5. str < Size => IF str + Len(KnownText(p)) < Size THEN 1 = Len(KnownText(p)) ELSE str + 1 >= Size
    <3>. DEFINE l == Len(KnownText(p))
    <3>. HIDE DEF l
    <3>1. l = 1
      BY <2>4 DEF l
    <3>2. str < Size => IF str + l < Size THEN 1 = l ELSE str + 1 >= Size
      BY <1>1, <3>1, SizeFacts
    <3>. QED
      BY <3>2 DEF l
  <2>6. Size \in Nat /\ Size >= Size /\ 1 \in Nat
    BY SizeFacts
  <2>. DEFINE b == Store(str, KnownText(p), Size)
  <2>7. b \in [0..(Beyond - 1) -> Cells] /\ Printed(b, str + 1, TextTo(va.call, j + 1))
    BY <1>13, <1>16, <2>5, <2>6
  <2>8. Ends(b, 1, Tail(va.args))
    <3>. HIDE DEF b
    <3>. QED
      BY <1>12, <1>16, <2>3, <2>6, <2>7 DEF b
  <2>. HIDE DEF Ends
  <2>. QED
    BY <1>11, <2>8
<1>17. CASE spec.type = "str" /\ ~spec.width
  <2>. DEFINE n == IF Len(p.arg) < room THEN Len(p.arg) ELSE room
  <2>1. Turn(spec, Store(str, Head(va.args), Size),
             IF Len(Head(va.args)) < room THEN Len(Head(va.args)) ELSE room, Tail(va.args))
    <3>1. ~(spec.type \in {"int", "uint"}) /\ spec.type # "none" /\ spec.type # "char"
      BY <1>17
    <3>. QED
      BY <1>17, <3>1, Turns, Zenon DEF spec, str, room
  <2>2. KnownText(p) = p.arg
    BY <1>8, <1>17 DEF KnownText, TextOf, c
  <2>3. Turn(spec, Store(str, KnownText(p), Size), n, Tail(va.args))
    BY <1>12, <1>17, <2>1, <2>2, Zenon
  <2>4. Len(p.arg) \in Nat
    BY <1>5, <2>2
  <2>5. n \in Nat /\ (str < Size => IF str + Len(p.arg) < Size THEN n = Len(p.arg) ELSE str + n >= Size)
    <3>. DEFINE l == Len(p.arg)
    <3>1. l \in Nat
      BY <2>4
    <3>. HIDE DEF l
    <3>. QED
      BY <1>1, <3>1, SizeFacts DEF room, l
  <2>6. Size \in Nat /\ Size >= Size
    BY SizeFacts
  <2>. DEFINE b == Store(str, KnownText(p), Size)
  <2>. HIDE DEF n
  <2>7. b \in [0..(Beyond - 1) -> Cells] /\ Printed(b, str + n, TextTo(va.call, j + 1))
    BY <1>13, <1>17, <2>2, <2>5, <2>6
  <2>8. Ends(b, n, Tail(va.args))
    <3>. HIDE DEF b
    <3>. QED
      BY <1>12, <1>17, <2>3, <2>5, <2>7 DEF b
  <2>. HIDE DEF Ends
  <2>. QED
    BY <1>11, <2>8
<1>18. CASE spec.type \in {"int", "uint"} /\ ~spec.width
  <2>1. Turn(spec, Store(str, Number(Head(va.args), spec.type, spec.base), Beyond),
             Len(Number(Head(va.args), spec.type, spec.base)), Tail(va.args))
    <3>1. spec.type # "str" /\ spec.type # "none" /\ spec.type # "char"
      BY <1>18
    <3>. QED
      BY <1>18, <3>1, Turns, Zenon DEF spec, str
  <2>2. KnownText(p) = digits
    BY <1>6, <1>8, <1>18 DEF KnownText, TextOf, c, digits
  <2>3. Turn(spec, Store(str, KnownText(p), Beyond), Len(KnownText(p)), Tail(va.args))
    BY <1>12, <1>18, <2>1, <2>2, Zenon DEF digits
  <2>. DEFINE n == Len(KnownText(p))
  <2>4. n \in Nat
    BY <1>5
  <2>. HIDE DEF n
  <2>5. str < Size => IF str + n < Size THEN n = n ELSE str + n >= Size
    BY <1>1, <2>4, SizeFacts
  <2>6. Beyond \in Nat /\ Beyond >= Size
    BY SizeFacts
  <2>. DEFINE b == Store(str, KnownText(p), Beyond)
  <2>7. b \in [0..(Beyond - 1) -> Cells] /\ Printed(b, str + n, TextTo(va.call, j + 1))
    <3>1. str < Size => IF str + Len(KnownText(p)) < Size THEN n = Len(KnownText(p)) ELSE str + n >= Size
      BY <2>5 DEF n
    <3>. QED
      BY <1>13, <1>18, <2>4, <2>6, <3>1
  <2>8. Ends(b, n, Tail(va.args))
    <3>1. Turn(spec, b, n, Tail(va.args))
      BY <2>3 DEF n
    <3>. HIDE DEF b
    <3>. QED
      BY <1>12, <1>18, <2>4, <2>7, <3>1
  <2>. HIDE DEF Ends
  <2>. QED
    BY <1>11, <2>8
<1>19. spec.type \in {"none", "char", "str", "int", "uint"}
  BY <1>8 DEF Specs
<1>. QED
  BY <1>14, <1>15, <1>16, <1>17, <1>18, <1>19

LEMMA FormatKeeps ==
  ASSUME VaInv, BufType, Format
  PROVE  VaInv' /\ BufType' /\ va'.call = va.call
<1>1. VaType /\ pc[Swapper] = "printk"
  <2>1. pc[Swapper] = "printk"
    BY Turns, Zenon
  <2>. QED
    BY <2>1 DEF VaInv
<1>2. PICK k \in 0..Len(va.call) : Doing(k)
  BY <1>1 DEF VaInv
<1>3. PICK j, text : Ahead(va.call, k, j, text)
  BY <1>1, LookAhead DEF VaType
<1>4. InCall' /\ va'.call = va.call
  <2>1. CASE text = <<>>
    <3>1. Ahead(va.call, k, j, <<>>)
      BY <1>3, <2>1, Zenon
    <3>. QED
      BY <1>1, <1>2, <3>1, TurnConversion
  <2>2. CASE text # <<>>
    BY <1>1, <1>2, <1>3, <2>2, TurnText
  <2>. QED
    BY <2>1, <2>2
<1>. QED
  BY <1>4 DEF VaInv, InCall

\* At the end of the format everything is there.
LEMMA AllPrinted ==
  ASSUME VaInv, pc[Swapper] = "printk", va.fmt = <<>>, Plain(va.call)
  PROVE  Printed(buf, va.str, Expected(va.call))
<1>1. WellFormed(va.call)
  BY DEF VaInv, VaType
<1>2. PICK k \in 0..Len(va.call) : Doing(k)
  BY DEF VaInv
<1>3. PICK j, text : Ahead(va.call, k, j, text)
  BY <1>1, LookAhead
<1>4. Len(va.call) \in Nat /\ DOMAIN va.call = 1..Len(va.call)
  BY <1>1, Pieces
<1>. DEFINE rest == FmtFrom(va.call, j)
            x == TextTo(va.call, k)
<1>5. /\ j \in k..Len(va.call) /\ text \in Seq(Unsigned) /\ FmtFrom(va.call, k) = text \o rest
      /\ TextTo(va.call, j) = x \o text /\ (j = Len(va.call) \/ va.call[j + 1].conv # "")
  BY <1>3, Zenon DEF Ahead
<1>6. j \in 0..Len(va.call)
  <2>. DEFINE n == Len(va.call)
  <2>1. n \in Nat /\ k \in 0..n /\ j \in k..n
    BY <1>4, <1>5
  <2>. HIDE DEF n
  <2>2. j \in 0..n
    BY <2>1
  <2>. QED
    BY <2>2 DEF n
<1>7. rest \in Seq(Chars) /\ x \in Seq(Chars) /\ text \in Seq(Chars)
  <2>1. Unsigned \subseteq Chars
    BY DEF Unsigned
  <2>. QED
    BY <1>1, <1>5, <1>6, <2>1, Parts, SeqIn
<1>8. text = <<>> /\ rest = <<>>
  <2>1. text \o rest = <<>>
    BY <1>2, <1>5, Zenon DEF Doing
  <2>. HIDE DEF rest
  <2>. QED
    BY <1>7, <2>1
<1>9. j = Len(va.call)
  <2>. SUFFICES ASSUME j # Len(va.call)
                PROVE  FALSE
    OBVIOUS
  <2>1. j + 1 \in 1..Len(va.call) /\ (j + 1) - 1 = j /\ j + 1 \in 0..Len(va.call)
    BY <1>4, <1>6
  <2>. DEFINE p == va.call[j + 1]
              more == FmtFrom(va.call, j + 1)
  <2>2. more \in Seq(Chars) /\ rest = FmtOf(p) \o more /\ p.conv # ""
    BY <1>1, <1>5, <2>1, Parts
  <2>3. FmtOf(p) = <<"%", p.conv>> /\ FmtOf(p) \in Seq(Chars)
    <3>1. Fits(p)
      BY <1>1, <1>4, <2>1 DEF WellFormed
    <3>. QED
      BY <2>2, <3>1, PartTypes DEF FmtOf
  <2>. DEFINE h == FmtOf(p)
  <2>4. Len(h) = 2
    BY <2>3
  <2>. HIDE DEF h, more, rest, p
  <2>5. Len(h \o more) = Len(h) + Len(more) /\ Len(more) \in Nat
    BY <2>2, <2>3, Joined, JoinedAt DEF h
  <2>6. h \o more = <<>>
    BY <1>8, <2>2 DEF h
  <2>7. Len(h \o more) = 0
    BY <2>6
  <2>. QED
    BY <2>4, <2>5, <2>7
<1>10. Expected(va.call) = x
  <2>1. TextTo(va.call, Len(va.call)) = Expected(va.call)
    BY <1>1, Parts
  <2>. HIDE DEF x
  <2>2. x \o <<>> = x
    BY <1>7, Joined
  <2>. QED
    BY <1>5, <1>8, <1>9, <2>1, <2>2, Zenon
<1>11. Printed(buf, va.str, x)
  BY <1>2 DEF Doing, VaInv
<1>. QED
  BY <1>10, <1>11

-----------------------------------------------------------------------------
(* What is given to putc. *)

LEMMA StringType ==
  ASSUME NEW b \in [0..(Beyond - 1) -> Cells], NEW e \in 0..(Beyond - 1), b[e] = NUL
  PROVE  String(b) \in Seq(Chars)
<1>. DEFINE ends == {i \in DOMAIN b : b[i] = NUL}
            n == CHOOSE i \in ends : \A j \in ends : i <= j
<1>1. PICK m \in ends : \A j \in ends : m <= j
  <2>1. ends \in SUBSET Nat /\ ends # {}
    BY SizeFacts
  <2>. HIDE DEF ends
  <2>. QED
    BY <2>1, LeastElement
<1>2. n \in ends /\ \A j \in ends : n <= j
  <2>. HIDE DEF ends
  <2>. QED
    BY <1>1
<1>3. n \in 0..(Beyond - 1)
  BY <1>2
<1>. HIDE DEF n
<1>4. \A i \in 1..n : b[i - 1] \in Chars
  <2>. TAKE i \in 1..n
  <2>1. i - 1 \in 0..(Beyond - 1) /\ ~(n <= i - 1)
    BY <1>3, SizeFacts
  <2>2. b[i - 1] # NUL
    BY <1>2, <2>1
  <2>. QED
    BY <2>1, <2>2 DEF Cells
<1>5. n \in Nat
  BY <1>3, SizeFacts
<1>6. String(b) = [i \in 1..n |-> b[i - 1]]
  BY Zenon DEF String, n
<1>7. [i \in 1..n |-> b[i - 1]] \in Seq(Chars)
  BY <1>4, <1>5
<1>. QED
  BY <1>6, <1>7

LEMMA PutCharType ==
  ASSUME NEW text \in Seq(Chars)
  PROVE  PutChar(text) \in Seq(Chars)
<1>. DEFINE piece(i) == IF text[i] = "\n" THEN <<"\r", "\n">> ELSE <<text[i]>>
            f == [i \in DOMAIN text |-> piece(i)]
<1>1. Len(text) \in Nat /\ DOMAIN text = 1..Len(text)
  OBVIOUS
<1>2. \A i \in 1..Len(text) : piece(i) \in Seq(Chars)
  <2>. TAKE i \in 1..Len(text)
  <2>1. "\r" \in Chars /\ "\n" \in Chars
    BY Constants
  <2>2. text[i] \in Chars
    OBVIOUS
  <2>. DEFINE c == text[i]
  <2>3. <<"\r", "\n">> \in Seq(Chars) /\ <<c>> \in Seq(Chars)
    <3>. HIDE DEF c
    <3>. QED
      BY <2>1, <2>2, SeqOf DEF c
  <2>. QED
    BY <2>3
<1>. HIDE DEF piece
<1>3. f \in Seq(Seq(Chars))
  BY <1>1, <1>2
<1>4. PutChar(text) = Flat(f)
  BY Zenon DEF PutChar, piece
<1>. HIDE DEF f
<1>. QED
  BY <1>3, <1>4, FlatType

LEMMA EchoType ==
  ASSUME NEW c \in Chars
  PROVE  Echo(c) \in Seq(Chars)
<1>1. "n" \in Chars /\ "\n" \in Chars /\ "\r" \in Chars /\ Hint \in Seq(Chars)
  BY Constants DEF Letters
<1>2. <<c>> \in Seq(Chars) /\ <<"n">> \in Seq(Chars) /\ <<>> \in Seq(Chars)
      /\ <<"\n", "\r">> \in Seq(Chars)
  BY <1>1, SeqOf
<1>3. <<"\n", "\r">> \o Hint \in Seq(Chars)
  <2>. DEFINE h == <<"\n", "\r">>
  <2>. HIDE DEF h
  <2>1. h \in Seq(Chars)
    BY <1>2 DEF h
  <2>2. h \o Hint \in Seq(Chars)
    BY <1>1, <2>1
  <2>. QED
    BY <2>2 DEF h
<1>. QED
  BY <1>2, <1>3, Zenon DEF Echo

-----------------------------------------------------------------------------
(* What went over the line. *)

Chunk == [by : Tasks, c : Chars]
Sent(all, t) == Flat([i \in DOMAIN all |-> IF all[i].by = t THEN <<all[i].c>> ELSE <<>>])
OnLine == wire \o (IF tx = None THEN <<>> ELSE <<tx>>)

LEMMA SentNone == ASSUME NEW t PROVE Sent(<<>>, t) = <<>>
<1>1. [i \in DOMAIN <<>> |-> IF <<>>[i].by = t THEN <<(<<>>[i]).c>> ELSE <<>>] = <<>>
  OBVIOUS
<1>2. Sent(<<>>, t) = Flat(<<>>)
  BY <1>1 DEF Sent
<1>. QED
  BY <1>2, FlatNone

LEMMA SentMore ==
  ASSUME NEW all \in Seq(Chunk), NEW e \in Chunk, NEW t
  PROVE  /\ Sent(all, t) \in Seq(Chars)
         /\ Sent(Append(all, e), t) = Sent(all, t) \o (IF e.by = t THEN <<e.c>> ELSE <<>>)
<1>. DEFINE piece(x) == IF x.by = t THEN <<x.c>> ELSE <<>>
            f == [i \in DOMAIN all |-> piece(all[i])]
            more == Append(all, e)
            g == [i \in DOMAIN more |-> piece(more[i])]
            n == Len(all)
<1>1. n \in Nat /\ DOMAIN all = 1..n /\ DOMAIN more = 1..(n + 1)
      /\ more[n + 1] = e /\ \A i \in 1..n : more[i] = all[i]
  OBVIOUS
<1>2. ASSUME NEW x \in Chunk
      PROVE  piece(x) \in Seq(Chars)
  <2>. DEFINE c == x.c
  <2>1. c \in Chars
    BY DEF Chunk
  <2>. HIDE DEF c
  <2>2. <<c>> \in Seq(Chars) /\ <<>> \in Seq(Chars)
    BY <2>1, SeqOf
  <2>. QED
    BY <2>2 DEF c
<1>3. \A i \in 1..n : all[i] \in Chunk
  BY <1>1
<1>. HIDE DEF piece, more, n
<1>4. f \in Seq(Seq(Chars)) /\ Len(f) = n /\ \A i \in 1..n : f[i] = piece(all[i])
  BY <1>1, <1>2, <1>3
<1>5. g = Append(f, piece(e))
  <2>. DEFINE h == Append(f, piece(e))
  <2>1. h \in Seq(Seq(Chars)) /\ Len(h) = n + 1 /\ h[n + 1] = piece(e) /\ \A i \in 1..n : h[i] = f[i]
    <3>. HIDE DEF f
    <3>1. piece(e) \in Seq(Chars)
      BY <1>2
    <3>. QED
      BY <1>4, <3>1
  <2>2. \A i \in 1..(n + 1) : more[i] \in Chunk
    BY <1>1, <1>3
  <2>3. g \in Seq(Seq(Chars)) /\ Len(g) = n + 1 /\ \A i \in 1..(n + 1) : g[i] = piece(more[i])
    BY <1>1, <1>2, <2>2
  <2>4. \A i \in 1..(n + 1) : g[i] = h[i]
    <3>. TAKE i \in 1..(n + 1)
    <3>. HIDE DEF g, h, f
    <3>1. CASE i = n + 1
      BY <1>1, <2>1, <2>3, <3>1
    <3>2. CASE i # n + 1
      <4>1. i \in 1..n
        BY <1>1, <3>2
      <4>. QED
        BY <1>1, <1>4, <2>1, <2>3, <4>1
    <3>. QED
      BY <3>1, <3>2
  <2>. HIDE DEF g, h
  <2>5. Alike(g, h)
    BY <2>1, <2>3, <2>4 DEF Alike
  <2>6. g = h
    BY <2>1, <2>3, <2>5, SameSeq
  <2>. QED
    BY <2>6 DEF h
<1>6. Sent(all, t) = Flat(f) /\ Sent(more, t) = Flat(g)
  BY Zenon DEF Sent, piece
<1>. HIDE DEF f, g
<1>7. Flat(Append(f, piece(e))) = Flat(f) \o piece(e) /\ Flat(f) \in Seq(Chars)
  BY <1>2, <1>4, FlatAppend, FlatType
<1>. QED
  BY <1>5, <1>6, <1>7 DEF piece, more

-----------------------------------------------------------------------------
(* The invariant of the console. *)

CallSet == UNION {{s.calls[i] : i \in DOMAIN s.calls} : s \in Scenarios}
States == {"boot", "done", "printk", "wait", "write", "getc"}

TaskType ==
  /\ pc \in [Tasks -> States]
  /\ out \in [Tasks -> Seq(Chars)] /\ said \in [Tasks -> Seq(Chars)]
  /\ \A t \in Tasks : out[t] # <<>> <=> pc[t] \in {"wait", "write"}
  /\ calls \in Seq(CallSet)

LineType ==
  /\ wire \in Seq(Chunk) /\ tx \in Chunk \cup {None} /\ rx \in Chars \cup {None}
  /\ typed \in 0..MaxTyped

\* One task at most is behind its look at the status, and finds the transmitter empty.
Alone ==
  /\ \A t, u \in Tasks : pc[t] = "write" /\ pc[u] = "write" => t = u
  /\ \A t \in Tasks : pc[t] = "write" => tx = None

AllSaid == \A t \in Tasks : Sent(OnLine, t) \o out[t] = said[t]

ConsoleInv ==
  /\ TaskType /\ LineType /\ BufType /\ VaInv
  /\ ~raced => Alone /\ AllSaid

\* Before start_kernel comes to its messages.
Quiet ==
  /\ pc = [t \in Tasks |-> IF t = Swapper THEN "boot" ELSE "done"]
  /\ tx = None /\ wire = <<>>

LEMMA CallsAreWell ==
  ASSUME NEW c \in CallSet
  PROVE  WellFormed(c)
  BY ConsoleAssumption DEF CallSet

LEMMA ScenarioFacts ==
  ASSUME NEW s \in Scenarios
  PROVE  /\ s.calls \in Seq(CallSet) /\ s.calls # <<>>
         /\ \A t \in Programs : s.text[t] \in Seq(Chars)
<1>. DEFINE S == {s.calls[i] : i \in DOMAIN s.calls}
            q == s.calls
<1>1. q \in Seq(S) /\ q # <<>>
  BY ConsoleAssumption DEF IsSequence
<1>2. S \subseteq CallSet
  BY DEF CallSet
<1>3. \A t \in Programs : s.text[t] \in Seq(Chars)
  BY ConsoleAssumption
<1>. HIDE DEF S, q
<1>4. q \in Seq(CallSet)
  BY <1>1, <1>2, SeqIn
<1>. QED
  BY <1>1, <1>3, <1>4 DEF q

\* The next call of printk.
LEMMA Starts ==
  ASSUME NEW c, WellFormed(c), va' = Start(c)
  PROVE  VaInv'
<1>1. /\ va'.call = c /\ va'.fmt = Fmt(c) /\ va'.args = Args(c)
      /\ va'.spec = NoFlags /\ va'.str = 0
  BY DEF Start
<1>2. NoFlags \in Specs /\ ~NoFlags.width
  BY DEF NoFlags, Specs, Bases
<1>3. VaType'
  BY <1>1, <1>2 DEF VaType
<1>4. Printed(buf', 0, <<>>)
  BY SizeFacts DEF Printed
<1>5. FmtFrom(c, 0) = Fmt(c) /\ ArgsFrom(c, 0) = Args(c) /\ TextTo(c, 0) = <<>>
  BY Parts
<1>6. Doing(0)'
  BY <1>1, <1>2, <1>4, <1>5 DEF Doing
<1>7. 0 \in 0..Len(va'.call)
  BY <1>1, Pieces
<1>8. (\E k \in 0..Len(va.call) : Doing(k))'
  BY <1>6, <1>7
<1>. QED
  BY <1>3, <1>8 DEF VaInv

LEMMA ConsoleStarts ==
  ASSUME ConsoleInit
  PROVE  ConsoleInv /\ Quiet
<1>. USE DEF ConsoleInit
<1>1. TaskType
  <2>1. calls \in Seq(CallSet)
    OBVIOUS
  <2>2. <<>> \in Seq(Chars)
    OBVIOUS
  <2>3. pc \in [Tasks -> States]
    BY DEF States
  <2>4. \A t \in Tasks : out[t] # <<>> <=> pc[t] \in {"wait", "write"}
    OBVIOUS
  <2>. QED
    BY <2>1, <2>2, <2>3, <2>4 DEF TaskType
<1>2. LineType
  BY ConsoleAssumption DEF LineType
<1>3. BufType
  BY DEF BufType, Cells
<1>4. VaInv
  <2>1. WellFormed(<<>>)
    BY DEF WellFormed, IsSequence
  <2>2. va.call = <<>> /\ va.spec = NoFlags /\ va.str = 0 /\ pc[Swapper] # "printk"
    BY DEF Start, Tasks
  <2>3. NoFlags \in Specs
    BY DEF NoFlags, Specs, Bases
  <2>. QED
    BY <2>1, <2>2, <2>3 DEF VaInv, VaType
<1>5. Alone
  BY DEF Alone
<1>6. AllSaid
  <2>1. OnLine = <<>>
    BY DEF OnLine
  <2>. SUFFICES ASSUME NEW t \in Tasks
                PROVE  Sent(OnLine, t) \o out[t] = said[t]
    BY DEF AllSaid
  <2>2. Sent(OnLine, t) = <<>> /\ out[t] = <<>> /\ said[t] = <<>>
    BY <2>1, SentNone
  <2>3. <<>> \o <<>> = <<>>
    OBVIOUS
  <2>. QED
    BY <2>2, <2>3
<1>7. Quiet
  BY DEF Quiet
<1>. QED
  BY <1>1, <1>2, <1>3, <1>4, <1>5, <1>6, <1>7 DEF ConsoleInv

LEMMA QuietStays ==
  ASSUME Quiet
  PROVE  ~ConsoleNext
<1>1. Swapper \in Tasks /\ pc[Swapper] = "boot"
  BY DEF Quiet, Tasks
<1>2. \A t \in Tasks : pc[t] \in {"boot", "done"}
  BY DEF Quiet
<1>3. ~Printk /\ ~Getc
  BY <1>1 DEF Printk, Format, FormatEnd, Getc
<1>4. ~Transmit
  BY DEF Quiet, Transmit
<1>5. \A t \in Tasks : ~Putc(t)
  BY <1>2 DEF Putc, PutcWait, PutcWrite
<1>6. \A c \in Typed : ~Receive(c)
  BY <1>1 DEF Receive
<1>. QED
  BY <1>3, <1>4, <1>5, <1>6, Zenon DEF ConsoleNext

LEMMA TalkKeeps ==
  ASSUME ConsoleInv, Quiet, Talk
  PROVE  ConsoleInv'
<1>1. PICK s \in Scenarios :
        /\ calls' = Tail(s.calls) /\ va' = Start(Head(s.calls))
        /\ pc' = [t \in Tasks |-> IF t = Swapper THEN "printk"
                                  ELSE IF s.text[t] = <<>> THEN "done" ELSE "wait"]
        /\ out' = [t \in Tasks |-> IF t = Swapper THEN <<>> ELSE s.text[t]]
        /\ said' = [t \in Tasks |-> IF t = Swapper THEN <<>> ELSE s.text[t]]
        /\ UNCHANGED <<buf, tx, rx, typed, wire, raced>>
  BY Zenon DEF Talk
<1>2. s.calls \in Seq(CallSet) /\ s.calls # <<>> /\ \A t \in Programs : s.text[t] \in Seq(Chars)
  BY ScenarioFacts
<1>3. Tail(s.calls) \in Seq(CallSet) /\ Head(s.calls) \in CallSet
  <2>. DEFINE q == s.calls
  <2>1. q \in Seq(CallSet) /\ q # <<>>
    BY <1>2
  <2>. HIDE DEF q
  <2>2. Tail(q) \in Seq(CallSet) /\ Head(q) \in CallSet
    BY <2>1
  <2>. QED
    BY <2>2 DEF q
<1>. DEFINE o(t) == IF t = Swapper THEN <<>> ELSE s.text[t]
<1>4. \A t \in Tasks : o(t) \in Seq(Chars)
  BY <1>2 DEF Tasks
<1>5. TaskType'
  <2>1. pc' \in [Tasks -> States]
    BY <1>1 DEF States
  <2>2. \A t \in Tasks : out'[t] # <<>> <=> pc'[t] \in {"wait", "write"}
    BY <1>1
  <2>3. out' = [t \in Tasks |-> o(t)] /\ said' = [t \in Tasks |-> o(t)]
    BY <1>1
  <2>. HIDE DEF o
  <2>4. out' \in [Tasks -> Seq(Chars)] /\ said' \in [Tasks -> Seq(Chars)]
    BY <1>4, <2>3
  <2>. QED
    BY <1>1, <1>3, <2>1, <2>2, <2>4 DEF TaskType
<1>6. LineType' /\ BufType'
  BY <1>1 DEF ConsoleInv, LineType, BufType
<1>7. VaInv'
  BY <1>1, <1>3, CallsAreWell, Starts
<1>8. Alone'
  BY <1>1 DEF Alone
<1>9. AllSaid'
  <2>1. wire' = <<>> /\ tx' = None
    BY <1>1 DEF Quiet
  <2>2. OnLine' = <<>>
    BY <2>1 DEF OnLine
  <2>. SUFFICES ASSUME NEW t \in Tasks
                PROVE  Sent(OnLine', t) \o out'[t] = said'[t]
    BY DEF AllSaid
  <2>3. Sent(OnLine', t) = <<>> /\ out'[t] = o(t) /\ said'[t] = o(t)
    BY <1>1, <2>2, SentNone
  <2>4. o(t) \in Seq(Chars)
    BY <1>4
  <2>. HIDE DEF o
  <2>5. <<>> \o o(t) = o(t)
    BY <2>4, Joined
  <2>. QED
    BY <2>3, <2>5
<1>. QED
  BY <1>5, <1>6, <1>7, <1>8, <1>9 DEF ConsoleInv

\* A task that goes on, with text or without.
LEMMA GoesOn ==
  ASSUME TaskType, VaInv, NEW t \in Tasks, NEW text \in Seq(Chars), GoOn(t, text),
         said' \in [Tasks -> Seq(Chars)], t = Swapper \/ buf' = buf
  PROVE  /\ TaskType' /\ VaInv'
         /\ out' = [out EXCEPT ![t] = text]
         /\ \A u \in Tasks : pc'[u] = "write" => u # t /\ pc[u] = "write"
<1>. DEFINE more == text = <<>> /\ t = Swapper /\ calls # <<>>
            next == IF text # <<>> THEN "wait" ELSE IF t # Swapper THEN "done"
                    ELSE IF more THEN "printk" ELSE "getc"
<1>1. /\ out' = [out EXCEPT ![t] = text] /\ pc' = [pc EXCEPT ![t] = next]
      /\ calls' = IF more THEN Tail(calls) ELSE calls
      /\ va' = IF more THEN Start(Head(calls)) ELSE va
  BY Zenon DEF GoOn
<1>2. /\ pc \in [Tasks -> States] /\ out \in [Tasks -> Seq(Chars)] /\ calls \in Seq(CallSet)
      /\ \A u \in Tasks : out[u] # <<>> <=> pc[u] \in {"wait", "write"}
  BY DEF TaskType
<1>3. next \in States /\ next # "write" /\ (next = "wait" <=> text # <<>>)
      /\ (next = "printk" <=> more)
  BY DEF States
<1>4. more => Tail(calls) \in Seq(CallSet) /\ Head(calls) \in CallSet
  BY <1>2
<1>5. Swapper \in Tasks
  BY DEF Tasks
<1>. HIDE DEF next
<1>6. TaskType'
  <2>1. pc' \in [Tasks -> States] /\ out' \in [Tasks -> Seq(Chars)] /\ calls' \in Seq(CallSet)
    BY <1>1, <1>2, <1>3, <1>4
  <2>2. ASSUME NEW u \in Tasks
        PROVE  out'[u] # <<>> <=> pc'[u] \in {"wait", "write"}
    <3>1. CASE u = t
      BY <1>1, <1>2, <1>3, <3>1
    <3>2. CASE u # t
      BY <1>1, <1>2, <3>2
    <3>. QED
      BY <3>1, <3>2
  <2>. QED
    BY <2>1, <2>2 DEF TaskType
<1>7. VaInv'
  <2>1. CASE more
    <3>1. va' = Start(Head(calls)) /\ WellFormed(Head(calls))
      BY <1>1, <1>4, <2>1, CallsAreWell
    <3>. QED
      BY <3>1, Starts
  <2>2. CASE ~more
    <3>1. va' = va
      BY <1>1, <2>2
    <3>2. VaType'
      BY <3>1 DEF VaInv, VaType
    <3>3. CASE t = Swapper
      <4>1. pc'[Swapper] # "printk"
        BY <1>1, <1>2, <1>3, <1>5, <2>2, <3>3
      <4>. QED
        BY <3>2, <4>1 DEF VaInv
    <3>4. CASE t # Swapper
      <4>1. pc'[Swapper] = pc[Swapper] /\ buf' = buf
        BY <1>1, <1>2, <1>5, <3>4
      <4>2. \A k : Doing(k)' <=> Doing(k)
        BY <3>1, <4>1 DEF Doing
      <4>. QED
        BY <3>1, <3>2, <4>1, <4>2 DEF VaInv
    <3>. QED
      BY <3>3, <3>4
  <2>. QED
    BY <2>1, <2>2
<1>8. \A u \in Tasks : pc'[u] = "write" => u # t /\ pc[u] = "write"
  BY <1>1, <1>2, <1>3
<1>. QED
  BY <1>1, <1>6, <1>7, <1>8

LEMMA SameLine ==
  ASSUME UNCHANGED <<wire, tx>>
  PROVE  OnLine' = OnLine
  BY DEF OnLine

\* The line has a place for every character, and what it carries is typed.
LEMMA OnLineType ==
  ASSUME LineType
  PROVE  OnLine \in Seq(Chunk) /\ (tx = None => OnLine = wire)
         /\ (tx # None => tx \in Chunk /\ OnLine = Append(wire, tx))
<1>1. wire \in Seq(Chunk) /\ tx \in Chunk \cup {None}
  BY DEF LineType
<1>2. CASE tx = None
  <2>1. OnLine = wire \o <<>>
    BY <1>2 DEF OnLine
  <2>2. wire \o <<>> = wire
    BY <1>1, Joined
  <2>. QED
    BY <1>1, <1>2, <2>1, <2>2
<1>3. CASE tx # None
  <2>1. OnLine = wire \o <<tx>> /\ tx \in Chunk
    BY <1>1, <1>3 DEF OnLine
  <2>2. wire \o <<tx>> = Append(wire, tx) /\ Append(wire, tx) \in Seq(Chunk)
    BY <1>1, <2>1
  <2>. QED
    BY <1>3, <2>1, <2>2
<1>. QED
  BY <1>2, <1>3

LEMMA SentType ==
  ASSUME LineType, NEW t
  PROVE  Sent(OnLine, t) \in Seq(Chars)
<1>1. wire \in Seq(Chunk) /\ OnLine \in Seq(Chunk)
  BY OnLineType DEF LineType
<1>2. CASE OnLine = <<>>
  <2>1. Sent(OnLine, t) = <<>>
    BY <1>2, SentNone
  <2>. QED
    BY <2>1
<1>3. CASE OnLine # <<>>
  <2>. DEFINE e == OnLine[1]
              all == OnLine
  <2>1. e \in Chunk
    BY <1>1, <1>3
  <2>2. all \in Seq(Chunk)
    BY <1>1
  <2>. HIDE DEF e, all
  <2>3. Sent(all, t) \in Seq(Chars)
    BY <2>1, <2>2, SentMore
  <2>. QED
    BY <2>3 DEF all
<1>. QED
  BY <1>2, <1>3

\* The swapper has nothing for putc and comes to a text.
LEMMA SwapperSays ==
  ASSUME ConsoleInv, NEW text \in Seq(Chars), GoOn(Swapper, text),
         said' = [said EXCEPT ![Swapper] = @ \o text],
         pc[Swapper] \notin {"wait", "write"}, UNCHANGED <<tx, wire, typed, raced>>,
         rx' \in {rx, None}, BufType'
  PROVE  ConsoleInv'
<1>1. TaskType /\ LineType /\ VaInv /\ Swapper \in Tasks
  BY DEF ConsoleInv, Tasks
<1>2. out[Swapper] = <<>> /\ said[Swapper] \in Seq(Chars) /\ said \in [Tasks -> Seq(Chars)]
      /\ out \in [Tasks -> Seq(Chars)]
  BY <1>1 DEF TaskType
<1>. DEFINE s == said[Swapper]
<1>3. s \in Seq(Chars) /\ said' = [said EXCEPT ![Swapper] = s \o text]
  BY <1>2
<1>4. said' \in [Tasks -> Seq(Chars)]
  <2>. HIDE DEF s
  <2>1. s \o text \in Seq(Chars)
    BY <1>3, Joined
  <2>. QED
    BY <1>2, <1>3, <2>1
<1>5. /\ TaskType' /\ VaInv' /\ out' = [out EXCEPT ![Swapper] = text]
      /\ \A u \in Tasks : pc'[u] = "write" => u # Swapper /\ pc[u] = "write"
  BY <1>1, <1>4, GoesOn
<1>6. LineType'
  BY <1>1 DEF LineType
<1>7. ~raced' => Alone' /\ AllSaid'
  <2>. HAVE ~raced'
  <2>1. Alone /\ AllSaid
    BY DEF ConsoleInv
  <2>2. Alone'
    BY <1>5, <2>1 DEF Alone
  <2>3. OnLine' = OnLine
    BY SameLine
  <2>4. ASSUME NEW u \in Tasks
        PROVE  Sent(OnLine', u) \o out'[u] = said'[u]
    <3>1. CASE u = Swapper
      <4>1. Sent(OnLine, Swapper) \o <<>> = s
        BY <1>1, <1>2, <2>1 DEF AllSaid
      <4>. DEFINE z == Sent(OnLine, Swapper)
      <4>2. z \in Seq(Chars)
        BY <1>1, SentType
      <4>. HIDE DEF z
      <4>3. z \o <<>> = z
        BY <4>2, Joined
      <4>4. out'[u] = text /\ said'[u] = s \o text
        BY <1>1, <1>2, <1>3, <1>5, <3>1
      <4>. QED
        BY <2>3, <3>1, <4>1, <4>3, <4>4, Zenon DEF z
    <3>2. CASE u # Swapper
      <4>1. out'[u] = out[u] /\ said'[u] = said[u]
        BY <1>2, <1>3, <1>5, <3>2
      <4>2. Sent(OnLine, u) \o out[u] = said[u]
        BY <2>1, Zenon DEF AllSaid
      <4>. QED
        BY <2>3, <4>1, <4>2, Zenon
    <3>. QED
      BY <3>1, <3>2
  <2>5. AllSaid'
    BY <2>4, Zenon DEF AllSaid
  <2>. QED
    BY <2>2, <2>5
<1>. QED
  BY <1>5, <1>6, <1>7 DEF ConsoleInv

LEMMA FormatStep ==
  ASSUME ConsoleInv, Format
  PROVE  ConsoleInv'
<1>1. TaskType /\ LineType /\ VaInv /\ BufType
  BY DEF ConsoleInv
<1>2. VaInv' /\ BufType'
  BY <1>1, FormatKeeps
<1>3. UNCHANGED <<pc, out, calls, tx, rx, typed, wire, said, raced>>
  BY Turns, Zenon
<1>4. TaskType' /\ LineType'
  BY <1>1, <1>3 DEF TaskType, LineType
<1>5. Alone' <=> Alone
  BY <1>3 DEF Alone
<1>6. AllSaid' <=> AllSaid
  <2>1. OnLine' = OnLine
    BY <1>3, SameLine
  <2>. QED
    BY <1>3, <2>1 DEF AllSaid
<1>. QED
  BY <1>2, <1>3, <1>4, <1>5, <1>6 DEF ConsoleInv

LEMMA FormatEndStep ==
  ASSUME ConsoleInv, FormatEnd
  PROVE  ConsoleInv'
<1>. DEFINE e == TextEnd(va.str)
            b == [buf EXCEPT ![e] = NUL]
            text == PutChar(String(b))
<1>1. TaskType /\ LineType /\ VaInv /\ buf \in [0..(Beyond - 1) -> Cells] /\ va.str \in Nat
  BY DEF ConsoleInv, VaInv, VaType, BufType
<1>2. /\ pc[Swapper] = "printk" /\ buf' = b /\ said' = [said EXCEPT ![Swapper] = @ \o text]
      /\ GoOn(Swapper, text) /\ UNCHANGED <<tx, rx, typed, wire, raced>>
  BY Zenon DEF FormatEnd
<1>3. e \in 0..(Beyond - 1)
  BY <1>1, SizeFacts DEF TextEnd
<1>. HIDE DEF e
<1>4. b \in [0..(Beyond - 1) -> Cells] /\ b[e] = NUL
  BY <1>1, <1>3 DEF Cells
<1>. HIDE DEF b
<1>5. text \in Seq(Chars)
  BY <1>3, <1>4, StringType, PutCharType
<1>6. BufType'
  BY <1>2, <1>4 DEF BufType
<1>. HIDE DEF text
<1>7. /\ pc[Swapper] \notin {"wait", "write"} /\ UNCHANGED <<tx, wire, typed, raced>>
      /\ rx' \in {rx, None}
  BY <1>2
<1>8. GoOn(Swapper, text) /\ said' = [said EXCEPT ![Swapper] = @ \o text]
  BY <1>2
<1>. QED
  BY <1>5, <1>6, <1>7, <1>8, SwapperSays

LEMMA GetcStep ==
  ASSUME ConsoleInv, Getc
  PROVE  ConsoleInv'
<1>. DEFINE text == Echo(rx)
<1>1. /\ pc[Swapper] = "getc" /\ rx # None /\ rx' = None
      /\ said' = [said EXCEPT ![Swapper] = @ \o text]
      /\ GoOn(Swapper, text) /\ UNCHANGED <<buf, tx, typed, wire, raced>>
  BY Zenon DEF Getc
<1>2. rx \in Chars
  BY <1>1 DEF ConsoleInv, LineType
<1>3. text \in Seq(Chars)
  BY <1>2, EchoType
<1>4. BufType'
  BY <1>1 DEF ConsoleInv, BufType
<1>. HIDE DEF text
<1>5. /\ pc[Swapper] \notin {"wait", "write"} /\ UNCHANGED <<tx, wire, typed, raced>>
      /\ rx' \in {rx, None}
  BY <1>1
<1>6. GoOn(Swapper, text) /\ said' = [said EXCEPT ![Swapper] = @ \o text]
  BY <1>1
<1>. QED
  BY <1>3, <1>4, <1>5, <1>6, SwapperSays

LEMMA TransmitStep ==
  ASSUME ConsoleInv, Transmit
  PROVE  ConsoleInv'
<1>1. /\ tx # None /\ wire' = Append(wire, tx) /\ tx' = None
      /\ UNCHANGED <<pc, out, calls, va, buf, rx, typed, said, raced>>
  BY DEF Transmit
<1>2. TaskType /\ LineType /\ VaInv /\ BufType
  BY DEF ConsoleInv
<1>3. TaskType' /\ BufType' /\ VaInv'
  <2>1. \A k : Doing(k)' <=> Doing(k)
    BY <1>1 DEF Doing
  <2>. QED
    BY <1>1, <1>2, <2>1 DEF TaskType, BufType, VaInv, VaType
<1>4. LineType'
  BY <1>1, <1>2 DEF LineType
<1>5. OnLine' = OnLine
  <2>1. OnLine = Append(wire, tx)
    BY <1>1, <1>2, OnLineType
  <2>2. OnLine' = wire'
    <3>1. wire' \in Seq(Chunk)
      BY <1>4 DEF LineType
    <3>2. OnLine' = wire' \o <<>>
      BY <1>1 DEF OnLine
    <3>. DEFINE w == wire'
    <3>. HIDE DEF w
    <3>3. w \o <<>> = w
      BY <3>1, Joined DEF w
    <3>. QED
      BY <3>2, <3>3 DEF w
  <2>. QED
    BY <1>1, <2>1, <2>2
<1>6. Alone => Alone'
  BY <1>1 DEF Alone
<1>7. AllSaid => AllSaid'
  BY <1>1, <1>5 DEF AllSaid
<1>. QED
  BY <1>1, <1>3, <1>4, <1>6, <1>7 DEF ConsoleInv

LEMMA ReceiveStep ==
  ASSUME ConsoleInv, NEW c \in Typed, Receive(c)
  PROVE  ConsoleInv'
<1>1. /\ typed < MaxTyped /\ typed' = typed + 1 /\ rx' = c
      /\ UNCHANGED <<pc, out, calls, va, buf, tx, wire, said, raced>>
  BY DEF Receive
<1>2. TaskType /\ LineType /\ VaInv /\ BufType
  BY DEF ConsoleInv
<1>3. TaskType' /\ BufType' /\ VaInv'
  <2>1. \A k : Doing(k)' <=> Doing(k)
    BY <1>1 DEF Doing
  <2>. QED
    BY <1>1, <1>2, <2>1 DEF TaskType, BufType, VaInv, VaType
<1>4. LineType'
  <2>1. MaxTyped \in Nat /\ c \in Chars
    BY Constants
  <2>. QED
    BY <1>1, <1>2, <2>1 DEF LineType
<1>5. OnLine' = OnLine
  BY <1>1, SameLine
<1>6. (Alone => Alone') /\ (AllSaid => AllSaid')
  BY <1>1, <1>5 DEF Alone, AllSaid
<1>. QED
  BY <1>1, <1>3, <1>4, <1>6 DEF ConsoleInv

LEMMA PutcWaitStep ==
  ASSUME ConsoleInv, NEW t \in Tasks, PutcWait(t)
  PROVE  ConsoleInv'
<1>1. /\ pc[t] = "wait" /\ tx = None /\ pc' = [pc EXCEPT ![t] = "write"]
      /\ raced' = (raced \/ \E u \in Tasks : pc[u] = "write")
      /\ UNCHANGED <<out, calls, va, buf, tx, rx, typed, wire, said>>
  BY DEF PutcWait
<1>2. TaskType /\ LineType /\ VaInv /\ BufType
  BY DEF ConsoleInv
<1>3. pc \in [Tasks -> States] /\ Swapper \in Tasks
  BY <1>2 DEF TaskType, Tasks
<1>4. TaskType'
  <2>1. pc' \in [Tasks -> States]
    BY <1>1, <1>3 DEF States
  <2>2. \A u \in Tasks : out'[u] # <<>> <=> pc'[u] \in {"wait", "write"}
    BY <1>1, <1>2, <1>3 DEF TaskType
  <2>. QED
    BY <1>1, <1>2, <2>1, <2>2 DEF TaskType
<1>5. LineType' /\ BufType'
  BY <1>1, <1>2 DEF LineType, BufType
<1>6. VaInv'
  <2>1. \A k : Doing(k)' <=> Doing(k)
    BY <1>1 DEF Doing
  <2>2. pc'[Swapper] = "printk" => pc[Swapper] = "printk"
    BY <1>1, <1>3
  <2>. QED
    BY <1>1, <1>2, <2>1, <2>2 DEF VaInv, VaType
<1>7. ~raced' => Alone' /\ AllSaid'
  <2>. HAVE ~raced'
  <2>1. ~raced /\ \A u \in Tasks : pc[u] # "write"
    <3>. DEFINE other == \E u \in Tasks : pc[u] = "write"
    <3>1. raced' <=> (raced \/ other)
      BY <1>1, Zenon
    <3>. QED
      BY <3>1, Zenon
  <2>2. Alone'
    <3>1. \A u \in Tasks : pc'[u] = "write" => u = t
      BY <1>1, <1>3, <2>1
    <3>2. tx' = None
      BY <1>1
    <3>. QED
      BY <3>1, <3>2 DEF Alone
  <2>3. OnLine' = OnLine
    BY <1>1, SameLine
  <2>4. AllSaid
    BY <2>1 DEF ConsoleInv
  <2>. QED
    BY <1>1, <2>2, <2>3, <2>4 DEF AllSaid
<1>. QED
  BY <1>4, <1>5, <1>6, <1>7 DEF ConsoleInv

LEMMA PutcWriteStep ==
  ASSUME ConsoleInv, NEW t \in Tasks, PutcWrite(t)
  PROVE  ConsoleInv'
<1>. DEFINE c == Head(out[t])
            text == Tail(out[t])
            e == [by |-> t, c |-> c]
<1>1. /\ pc[t] = "write" /\ tx' = e /\ GoOn(t, text)
      /\ UNCHANGED <<buf, rx, typed, wire, said, raced>>
  BY Zenon DEF PutcWrite
<1>2. TaskType /\ LineType /\ VaInv /\ BufType
  BY DEF ConsoleInv
<1>3. c \in Chars /\ text \in Seq(Chars) /\ out[t] = <<c>> \o text
      /\ out \in [Tasks -> Seq(Chars)] /\ said \in [Tasks -> Seq(Chars)]
  <2>. DEFINE o == out[t]
  <2>1. o \in Seq(Chars) /\ o # <<>>
    BY <1>1, <1>2 DEF TaskType
  <2>. HIDE DEF o
  <2>2. Head(o) \in Chars /\ Tail(o) \in Seq(Chars) /\ o = <<Head(o)>> \o Tail(o)
    BY <2>1
  <2>. QED
    BY <1>2, <2>2 DEF o, TaskType
<1>. HIDE DEF c, text
<1>4. e \in Chunk /\ e.by = t /\ e.c = c
  BY <1>3 DEF Chunk
<1>5. /\ TaskType' /\ VaInv' /\ out' = [out EXCEPT ![t] = text]
      /\ \A u \in Tasks : pc'[u] = "write" => u # t /\ pc[u] = "write"
  BY <1>1, <1>2, <1>3, GoesOn
<1>6. LineType' /\ BufType'
  BY <1>1, <1>2, <1>4 DEF LineType, BufType
<1>7. ~raced' => Alone' /\ AllSaid'
  <2>. HAVE ~raced'
  <2>1. Alone /\ AllSaid
    BY <1>1 DEF ConsoleInv
  <2>2. \A u \in Tasks : pc'[u] # "write"
    BY <1>1, <1>5, <2>1 DEF Alone
  <2>3. Alone'
    BY <2>2 DEF Alone
  <2>4. OnLine = wire /\ OnLine' = Append(wire, e) /\ wire \in Seq(Chunk)
    <3>1. tx = None
      BY <1>1, <2>1 DEF Alone
    <3>2. e # None
      BY <1>4, ConsoleAssumption DEF Chunk
    <3>3. OnLine' = wire \o <<e>>
      <4>. HIDE DEF e
      <4>. QED
        BY <1>1, <3>2 DEF OnLine
    <3>4. wire \o <<e>> = Append(wire, e) /\ wire \in Seq(Chunk)
      BY <1>2 DEF LineType
    <3>. QED
      BY <1>2, <3>1, <3>3, <3>4, OnLineType
  <2>. HIDE DEF e
  <2>5. ASSUME NEW u \in Tasks
        PROVE  Sent(OnLine', u) \o out'[u] = said'[u]
    <3>. DEFINE z == Sent(wire, u)
    <3>1. z \o out[u] = said[u]
      BY <2>1, <2>4, Zenon DEF AllSaid
    <3>2. /\ z \in Seq(Chars)
          /\ Sent(Append(wire, e), u) = z \o (IF e.by = u THEN <<e.c>> ELSE <<>>)
      BY <1>4, <2>4, SentMore
    <3>. HIDE DEF z
    <3>3. CASE u = t
      <4>1. Sent(OnLine', u) = z \o <<c>>
        BY <1>4, <2>4, <3>2, <3>3
      <4>2. out'[u] = text /\ said'[u] = z \o (<<c>> \o text)
        BY <1>1, <1>3, <1>5, <3>1, <3>3
      <4>. DEFINE h == <<c>>
      <4>3. h \in Seq(Chars)
        BY <1>3, SeqOf
      <4>. HIDE DEF h
      <4>4. \A a, b, d \in Seq(Chars) : (a \o b) \o d = a \o (b \o d)
        BY Assoc
      <4>5. (z \o h) \o text = z \o (h \o text)
        BY <1>3, <3>2, <4>3, <4>4, Zenon
      <4>. QED
        BY <4>1, <4>2, <4>5, Zenon DEF h
    <3>4. CASE u # t
      <4>1. Sent(OnLine', u) = z \o <<>>
        BY <1>4, <2>4, <3>2, <3>4
      <4>2. z \o <<>> = z
        BY <3>2, Joined
      <4>3. out'[u] = out[u] /\ said'[u] = said[u]
        BY <1>1, <1>3, <1>5, <3>4
      <4>. QED
        BY <3>1, <4>1, <4>2, <4>3, Zenon
    <3>. QED
      BY <3>3, <3>4
  <2>6. AllSaid'
    BY <2>5, Zenon DEF AllSaid
  <2>. QED
    BY <2>3, <2>6
<1>. QED
  BY <1>5, <1>6, <1>7 DEF ConsoleInv

LEMMA ConsoleKeeps ==
  ASSUME ConsoleInv, ConsoleNext
  PROVE  ConsoleInv'
<1>1. CASE Printk
  BY <1>1, FormatStep, FormatEndStep, Zenon DEF Printk
<1>2. CASE Getc
  BY <1>2, GetcStep
<1>3. CASE Transmit
  BY <1>3, TransmitStep
<1>4. ASSUME NEW t \in Tasks, Putc(t)
      PROVE  ConsoleInv'
  BY <1>4, PutcWaitStep, PutcWriteStep, Zenon DEF Putc
<1>5. ASSUME NEW c \in Typed, Receive(c)
      PROVE  ConsoleInv'
  BY <1>5, ReceiveStep
<1>. QED
  BY <1>1, <1>2, <1>3, <1>4, <1>5, Zenon DEF ConsoleNext

LEMMA ConsoleStays ==
  ASSUME UNCHANGED consoleVars
  PROVE  (ConsoleInv => ConsoleInv') /\ (Quiet => Quiet')
<1>1. UNCHANGED <<pc, out, calls, va, buf, tx, rx, typed, wire, said, raced>>
  BY DEF consoleVars
<1>2. \A k : Doing(k)' <=> Doing(k)
  BY <1>1 DEF Doing
<1>3. OnLine' = OnLine
  BY <1>1, SameLine
<1>4. (TaskType => TaskType') /\ (LineType => LineType') /\ (BufType => BufType')
  BY <1>1 DEF TaskType, LineType, BufType
<1>5. VaInv => VaInv'
  BY <1>1, <1>2 DEF VaInv, VaType
<1>6. (Alone => Alone') /\ (AllSaid => AllSaid')
  BY <1>1, <1>3 DEF Alone, AllSaid
<1>7. Quiet => Quiet'
  BY <1>1 DEF Quiet
<1>. QED
  BY <1>1, <1>4, <1>5, <1>6, <1>7 DEF ConsoleInv

-----------------------------------------------------------------------------
(* The properties follow. *)

LEMMA ConsoleTypes == ConsoleInv => ConsoleTypeOK
<1>. HAVE ConsoleInv
<1>1. TaskType /\ LineType /\ BufType /\ VaType
  BY DEF ConsoleInv, VaInv
<1>2. pc \in [Tasks -> {"boot", "done", "printk", "wait", "write", "getc"}]
  BY <1>1 DEF TaskType, States
<1>3. \A t \in Tasks : (out[t] # <<>>) = (pc[t] \in {"wait", "write"})
  BY <1>1 DEF TaskType
<1>4. va.str \in Nat /\ va.spec.base \in {8, 10, 16}
  BY <1>1 DEF VaType, Specs, Bases
<1>5. DOMAIN buf = 0..(Beyond - 1)
  BY <1>1 DEF BufType
<1>6. typed \in 0..MaxTyped
  BY <1>1 DEF LineType
<1>. QED
  BY <1>2, <1>3, <1>4, <1>5, <1>6 DEF ConsoleTypeOK

LEMMA NumbersRead == NumberRight
<1>1. \A num \in 0..(Ints - 1), type \in {"int", "uint"}, base \in Bases :
        LET text == Number(num, type, base)
            minus == text[1] = "-"
            from == (IF minus THEN 1 ELSE 0) + (CASE base = 8 -> 1 [] base = 16 -> 2 [] OTHER -> 0)
            digits == SubSeq(text, from + 1, Len(text))
            v == IF minus THEN -Value(digits, base) ELSE Value(digits, base)
        IN  /\ v = IF type = "int" /\ num >= Half THEN num - Ints ELSE num
            /\ Len(digits) > 1 => digits[1] # "0"
            /\ Len(text) <= MaxNumber
  BY Reads, Zenon
<1>. QED
  BY <1>1, Zenon DEF NumberRight, Bases

LEMMA PrintsRight == ConsoleInv => PrintedRight
<1>. SUFFICES ASSUME ConsoleInv, pc[Swapper] = "printk", va.fmt = <<>>, Plain(va.call)
              PROVE  LET text == Expected(va.call)
                         kept == IF Len(text) < Size THEN Len(text) ELSE Size - 1
                     IN  /\ \A i \in 1..kept : buf[i - 1] = text[i]
                         /\ TextEnd(va.str) = kept
  BY Zenon DEF PrintedRight
<1>. DEFINE text == Expected(va.call)
            n == Len(text)
            kept == IF n < Size THEN n ELSE Size - 1
<1>1. VaInv /\ WellFormed(va.call) /\ va.str \in Nat
  BY DEF ConsoleInv, VaInv, VaType
<1>2. Printed(buf, va.str, text)
  BY <1>1, AllPrinted
<1>3. n \in Nat
  <2>1. TextTo(va.call, Len(va.call)) = text /\ Len(va.call) \in 0..Len(va.call)
    BY <1>1, Parts, Pieces
  <2>2. text \in Seq(Chars)
    <3>. HIDE DEF text
    <3>. QED
      BY <1>1, <2>1, Parts
  <2>. HIDE DEF text
  <2>. QED
    BY <2>2
<1>. HIDE DEF text
<1>4. /\ IF n < Size THEN va.str = n ELSE va.str >= Size
      /\ \A i \in 1..n : i <= Size => buf[i - 1] = text[i]
  BY <1>2 DEF Printed
<1>. HIDE DEF n
<1>5. TextEnd(va.str) = kept /\ \A i \in 1..kept : i \in 1..n /\ i <= Size
  BY <1>1, <1>3, <1>4, SizeFacts DEF TextEnd
<1>. QED
  BY <1>4, <1>5 DEF text, n

LEMMA ScreenIsRight == ConsoleInv => ScreenRight
<1>. HAVE ConsoleInv
<1>1. ~raced => \A t \in Tasks : Sent(OnLine, t) \o out[t] = said[t]
  BY Zenon DEF ConsoleInv, AllSaid
<1>. QED
  BY <1>1, Zenon DEF ScreenRight, Sent, OnLine
=============================================================================
