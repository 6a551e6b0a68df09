------------------------- MODULE ArithmeticTheorems -------------------------
(***************************************************************************)
(* Facts about the integers that the proofs about the arithmetic of the    *)
(* program share: induction over Nat, functions defined by rounds, division*)
(* and congruence, and products and powers modulo a prime, up to Fermat's  *)
(* theorem.                                                                *)
(*                                                                         *)
(* The library's induction theorems take an operator, which the provers    *)
(* cannot instantiate.  SetInduction states induction for sets, from the   *)
(* fact that the order of Nat is well-founded.                             *)
(***************************************************************************)
EXTENDS UInt64, WellFoundedInduction, FiniteSetTheorems, TLAPS

\* Induction over Nat, as facts about sets.
Less == {s \in Nat \X Nat : s[1] < s[2]}
\* The order of Nat is well-founded, as a set of pairs.
LEMMA LessWF == IsWellFoundedOn(Less, Nat)
BY NatLessThanWellFounded DEF OpToRel, Less

\* A set of numbers has a least element.
LEMMA Least ==
  ASSUME NEW T \in SUBSET Nat, T # {}
  PROVE  \E x \in T : \A y \in T : x <= y
<1>1. PICK x \in T : \A y \in T : <<y, x>> \notin Less
  BY LessWF, WFMin, Zenon
<1>2. \A y \in T : y \in Nat /\ x \in Nat /\ <<y, x>> \in Nat \X Nat
  OBVIOUS
<1>3. \A y \in T : ~(y < x)
  BY <1>1, <1>2, Zenon DEF Less
<1>4. \A y \in T : x <= y
  BY <1>2, <1>3
<1> QED
  BY <1>4

\* Induction over Nat: a set with 0 and every successor is all of it.
LEMMA SetInduction ==
  ASSUME NEW S, 0 \in S, \A n \in Nat : n \in S => n + 1 \in S
  PROVE  Nat \subseteq S
<1> SUFFICES ASSUME Nat \ S # {} PROVE FALSE
  OBVIOUS
<1>1. PICK x \in Nat \ S : \A y \in Nat \ S : x <= y
  BY Least
<1>2. x # 0 /\ x - 1 \in Nat
  BY <1>1
<1>3. x - 1 \in S
  BY <1>1, <1>2
<1> QED
  BY <1>1, <1>2, <1>3

\* What Iterates chooses.
AreIterates(g, first, next, count) ==
  g = [i \in 0 .. count |-> IF i = 0 THEN first ELSE next[i][g[i - 1]]]

\* Rounds that keep X have a function of their results, and in X.
LEMMA IteratesExist ==
  ASSUME NEW X, NEW first \in X, NEW count \in Nat, NEW next,
         \A i \in 1 .. count : \A x \in X : next[i][x] \in X
  PROVE  \E g \in [0 .. count -> X] : AreIterates(g, first, next, count)
<1> DEFINE Upto(n) == \E g \in [0 .. n -> X] :
                        g = [i \in 0 .. n |-> IF i = 0 THEN first ELSE next[i][g[i - 1]]]
           S == {n \in Nat : n <= count => Upto(n)}
<1>1. 0 \in S
  <2> DEFINE g == [i \in 0 .. 0 |-> first]
  <2>1. g \in [0 .. 0 -> X]
    OBVIOUS
  <2>2. g = [i \in 0 .. 0 |-> IF i = 0 THEN first ELSE next[i][g[i - 1]]]
    BY SMT
  <2>3. Upto(0)
    BY <2>1, <2>2
  <2> QED
    BY <2>3
<1>2. ASSUME NEW n \in Nat, n \in S PROVE n + 1 \in S
  <2> SUFFICES ASSUME n + 1 <= count PROVE Upto(n + 1)
    OBVIOUS
  <2>1. PICK g \in [0 .. n -> X] :
               g = [i \in 0 .. n |-> IF i = 0 THEN first ELSE next[i][g[i - 1]]]
    BY <1>2
  <2> DEFINE h == [i \in 0 .. n + 1 |-> IF i = n + 1 THEN next[n + 1][g[n]] ELSE g[i]]
  <2>2. next[n + 1][g[n]] \in X
    BY n + 1 \in 1 .. count, g[n] \in X
  <2>3. h \in [0 .. n + 1 -> X]
    BY <2>2
  <2>4. \A i \in 0 .. n + 1 : h[i] = IF i = 0 THEN first ELSE next[i][h[i - 1]]
    <3> TAKE i \in 0 .. n + 1
    <3>1. CASE i = n + 1
      <4>1. h[i] = next[n + 1][g[n]] /\ h[i - 1] = g[n]
        BY <3>1
      <4> QED
        BY <3>1, <4>1
    <3>2. CASE i \in 0 .. n
      <4>1. h[i] = g[i] /\ (i # 0 => h[i - 1] = g[i - 1])
        BY <3>2
      <4>2. g[i] = IF i = 0 THEN first ELSE next[i][g[i - 1]]
        BY <2>1, <3>2, Zenon
      <4> QED
        BY <4>1, <4>2
    <3> QED
      BY <3>1, <3>2
  <2>5. h = [i \in 0 .. n + 1 |-> IF i = 0 THEN first ELSE next[i][h[i - 1]]]
    <3> HIDE DEF h
    <3> QED
      BY <2>3, <2>4
  <2> HIDE DEF h
  <2> QED
    BY <2>3, <2>5
<1>3. count \in S
  <2> HIDE DEF S
  <2> QED
    BY <1>1, <1>2, SetInduction
<1> QED
  BY <1>3 DEF AreIterates

-----------------------------------------------------------------------------
\* Division with remainder, as the provers need it.
LEMMA Division ==
  ASSUME NEW x \in Int, NEW d \in Nat \ {0}
  PROVE  x = d * (x \div d) + (x % d) /\ x \div d \in Int /\ x % d \in 0..(d - 1)
BY SMT

\* A product of numbers is one.
LEMMA ProductType ==
  ASSUME NEW x \in Nat, NEW y \in Nat
  PROVE  x * y \in Nat
BY SMT

\* Products keep the order.
LEMMA Monotone ==
  ASSUME NEW x \in Nat, NEW y \in Nat, NEW z \in Nat, x <= y
  PROVE  x * z <= y * z
BY SMT

\* A common factor cancels in an inequality.
LEMMA Strict ==
  ASSUME NEW x \in Int, NEW y \in Int, NEW z \in Nat \ {0}, z * x < z * y
  PROVE  x < y
BY SMT

\* The remainder of a multiple of P and a number below P is that number.
LEMMA RemainderIs ==
  ASSUME NEW P \in Nat \ {0}, NEW k \in Int, NEW y \in Nat, y < P
  PROVE  (P * k + y) % P = y
<1> DEFINE x == P * k + y
<1>0. x = P * k + y /\ x \in Int
  <2>1. P * k \in Int
    BY SMT
  <2> QED
    BY <2>1, SMT
<1> HIDE DEF x
<1> SUFFICES x % P = y
  BY DEF x
<1> DEFINE d == x \div P
           r == x % P
<1>1. x = P * d + r /\ d \in Int /\ r \in Nat /\ r < P
  <2>1. x = P * d + r /\ d \in Int /\ r \in 0..(P - 1)
    BY <1>0, Division
  <2> HIDE DEF d, r
  <2> QED
    BY <2>1, SMT
<1> HIDE DEF d, r
<1>2. P * (k - d) = r - y
  BY <1>0, <1>1, SMT
<1>3. P * (k - d) < P * 1 /\ P * (-1) < P * (k - d) /\ k - d \in Int
  BY <1>1, <1>2, SMT
<1>4. k - d < 1 /\ -1 < k - d
  BY <1>3, Strict, SMT
<1>5. r = y
  BY <1>0, <1>1, <1>2, <1>3, <1>4, SMT
<1> QED
  BY <1>5 DEF r

-----------------------------------------------------------------------------
\* x and y differ by a multiple of m.
Congruent(x, y, m) == \E t \in Int : x = y + t * m

\* Congruence is an equivalence, kept by sums and products.
LEMMA CongruentSelf ==
  ASSUME NEW x \in Int, NEW m \in Int
  PROVE  Congruent(x, x, m)
<1>1. x = x + 0 * m
  OBVIOUS
<1> QED
  BY <1>1 DEF Congruent

\* Symmetry.
LEMMA CongruentSym ==
  ASSUME NEW x \in Int, NEW y \in Int, NEW m \in Int, Congruent(x, y, m)
  PROVE  Congruent(y, x, m)
<1>1. PICK t \in Int : x = y + t * m
  BY DEF Congruent
<1>2. y = x + (-t) * m /\ -t \in Int
  BY <1>1
<1> QED
  BY <1>2 DEF Congruent

\* Transitivity.
LEMMA CongruentTrans ==
  ASSUME NEW x \in Int, NEW y \in Int, NEW z \in Int, NEW m \in Int,
         Congruent(x, y, m), Congruent(y, z, m)
  PROVE  Congruent(x, z, m)
<1>1. PICK t \in Int : x = y + t * m
  BY DEF Congruent
<1>2. PICK s \in Int : y = z + s * m
  BY DEF Congruent
<1>3. x = z + (s + t) * m /\ s + t \in Int
  BY <1>1, <1>2
<1> QED
  BY <1>3 DEF Congruent

\* Sums and differences.
LEMMA CongruentSum ==
  ASSUME NEW x \in Int, NEW y \in Int, NEW z \in Int, NEW w \in Int, NEW m \in Int,
         Congruent(x, y, m), Congruent(z, w, m)
  PROVE  Congruent(x + z, y + w, m) /\ Congruent(x - z, y - w, m)
<1>1. PICK t \in Int : x = y + t * m
  BY DEF Congruent
<1>2. PICK s \in Int : z = w + s * m
  BY DEF Congruent
<1>3. x + z = y + w + (s + t) * m /\ s + t \in Int
  BY <1>1, <1>2
<1>4. x - z = y - w + (t - s) * m /\ t - s \in Int
  BY <1>1, <1>2
<1> QED
  BY <1>3, <1>4 DEF Congruent

\* Products.
LEMMA CongruentProduct ==
  ASSUME NEW x \in Int, NEW y \in Int, NEW z \in Int, NEW w \in Int, NEW m \in Int,
         Congruent(x, y, m), Congruent(z, w, m)
  PROVE  Congruent(x * z, y * w, m)
<1>1. PICK t \in Int : x = y + t * m
  BY DEF Congruent
<1>2. PICK s \in Int : z = w + s * m
  BY DEF Congruent
<1> DEFINE u == y * s + t * w + (t * s) * m
<1>3. u \in Int
  BY SMT
<1>4. x * z = y * w + u * m
  <2>1. x * z = y * w + y * (s * m) + (t * m) * w + (t * m) * (s * m)
    BY <1>1, <1>2, SMT
  <2>2. u * m = (y * s) * m + (t * w) * m + ((t * s) * m) * m
    BY SMT
  <2>3. y * (s * m) = (y * s) * m /\ (t * m) * w = (t * w) * m
        /\ (t * m) * (s * m) = ((t * s) * m) * m
    BY SMT
  <2> QED
    BY <2>1, <2>2, <2>3, SMT
<1> QED
  BY <1>3, <1>4 DEF Congruent

\* A number is congruent to its remainder.
LEMMA CongruentRemainder ==
  ASSUME NEW x \in Int, NEW m \in Nat \ {0}
  PROVE  x % m \in 0 .. m - 1 /\ Congruent(x % m, x, m)
<1> DEFINE d == x \div m
           r == x % m
<1>1. x = m * d + r /\ d \in Int /\ r \in 0 .. m - 1
  BY SMT
<1> HIDE DEF d, r
<1>2. r = x + (-d) * m /\ -d \in Int
  BY <1>1, SMT
<1> QED
  BY <1>1, <1>2 DEF Congruent, r

\* Two remainders modulo m are congruent only if they are equal.
LEMMA CongruentUnique ==
  ASSUME NEW m \in Nat \ {0}, NEW x \in 0 .. m - 1, NEW y \in 0 .. m - 1, Congruent(x, y, m)
  PROVE  x = y
<1>1. PICK t \in Int : x = y + t * m
  BY DEF Congruent
<1>2. m * t < m * 1 /\ m * (-1) < m * t
  BY <1>1, SMT
<1>3. t < 1 /\ -1 < t
  BY <1>2, SMT
<1>4. t = 0
  BY <1>3
<1> QED
  BY <1>1, <1>4

\* A factor with an inverse cancels.
LEMMA CongruentCancel ==
  ASSUME NEW x \in Int, NEW y \in Int, NEW p \in Int, NEW q \in Int, NEW r \in Int,
         Congruent(p * q, 1, r), Congruent(r * x, r * y, p)
  PROVE  Congruent(x, y, p)
<1>1. PICK w \in Int : p * q = 1 + w * r
  BY DEF Congruent
<1>2. PICK t \in Int : r * x = r * y + t * p
  BY DEF Congruent
<1> DEFINE d == x - y
           u == d * q - w * t
<1>3. d \in Int /\ u \in Int
  BY SMT
<1>4. r * d = t * p
  BY <1>2, SMT
<1>5. d * (p * q) = d + d * (w * r)
  BY <1>1, <1>3, SMT
<1>6. d * (w * r) = w * (t * p)
  <2>1. d * (w * r) = w * (r * d)
    BY <1>3, SMT
  <2> QED
    BY <1>4, <2>1
<1>7. d = u * p
  <2>1. u * p = (d * q) * p - (w * t) * p
    BY <1>3, SMT
  <2>2. (d * q) * p = d * (p * q) /\ (w * t) * p = w * (t * p)
    BY <1>3, SMT
  <2>3. d * (p * q) \in Int /\ w * (t * p) \in Int
    BY <1>3, SMT
  <2> HIDE DEF d, u
  <2> QED
    BY <1>3, <1>5, <1>6, <2>1, <2>2, <2>3, SMT
<1> HIDE DEF u
<1>8. x = y + u * p
  BY <1>3, <1>7, SMT
<1> QED
  BY <1>3, <1>8 DEF Congruent

\* Congruent numbers have the same remainder, which is the one of them below m.
LEMMA SameRemainder ==
  ASSUME NEW m \in Nat \ {0}, NEW x \in Int, NEW y \in Int
  PROVE  Congruent(x, y, m) <=> x % m = y % m
<1> DEFINE r == x % m
           s == y % m
<1>1. r \in 0 .. m - 1 /\ Congruent(r, x, m) /\ s \in 0 .. m - 1 /\ Congruent(s, y, m)
  BY CongruentRemainder
<1>2. r \in Int /\ s \in Int /\ m \in Int
  BY <1>1
<1> HIDE DEF r, s
<1>3. ASSUME Congruent(x, y, m) PROVE r = s
  <2>1. Congruent(r, y, m)
    BY <1>1, <1>2, <1>3, CongruentTrans
  <2>2. Congruent(y, s, m)
    BY <1>1, <1>2, CongruentSym
  <2>3. Congruent(r, s, m)
    BY <1>2, <2>1, <2>2, CongruentTrans
  <2> QED
    BY <1>1, <2>3, CongruentUnique
<1>4. ASSUME r = s PROVE Congruent(x, y, m)
  <2>1. Congruent(x, r, m)
    BY <1>1, <1>2, CongruentSym
  <2> QED
    BY <1>1, <1>2, <1>4, <2>1, CongruentTrans
<1> QED
  BY <1>3, <1>4 DEF r, s

\* The remainder is the congruent number below m.
LEMMA RemainderOf ==
  ASSUME NEW m \in Nat \ {0}, NEW x \in Int, NEW y \in Nat, y < m, Congruent(x, y, m)
  PROVE  x % m = y
<1>1. x % m \in 0 .. m - 1 /\ Congruent(x % m, x, m)
  BY CongruentRemainder
<1> DEFINE r == x % m
<1>2. r \in 0 .. m - 1 /\ Congruent(r, x, m) /\ r \in Int /\ y \in 0 .. m - 1 /\ m \in Int
  BY <1>1
<1> HIDE DEF r
<1>3. Congruent(r, y, m)
  BY <1>2, CongruentTrans
<1>4. r = y
  BY <1>2, <1>3, CongruentUnique
<1> QED
  BY <1>4 DEF r

\* Congruence modulo a multiple of p is congruence modulo p.
LEMMA CongruentFactor ==
  ASSUME NEW x \in Int, NEW y \in Int, NEW p \in Int, NEW k \in Int, Congruent(x, y, k * p)
  PROVE  Congruent(x, y, p)
<1>1. PICK t \in Int : x = y + t * (k * p)
  BY DEF Congruent
<1>2. x = y + (t * k) * p /\ t * k \in Int
  BY <1>1, SMT
<1> QED
  BY <1>2 DEF Congruent

\* A prime that divides a product divides a factor: the least number whose product
\* with x it divides is itself or 1.
LEMMA Euclid ==
  ASSUME NEW p \in Nat, 1 < p, \A d \in 2 .. p - 1 : p % d # 0,
         NEW x \in Nat, NEW y \in Nat, (x * y) % p = 0
  PROVE  x % p = 0 \/ y % p = 0
<1> DEFINE T == {d \in Nat : d # 0 /\ (d * x) % p = 0}
<1>1. ASSUME NEW d \in Nat
      PROVE  (d * x) % p = 0 <=> Congruent(d * x, 0, p)
  <2>1. p \in Nat \ {0} /\ d * x \in Int /\ 0 \in Int
    BY SMT
  <2>2. 0 % p = 0
    BY SMT
  <2>3. Congruent(d * x, 0, p) <=> (d * x) % p = 0 % p
    BY <2>1, SameRemainder
  <2> QED
    BY <2>2, <2>3
<1>2. p \in T
  <2>1. p * x = 0 + x * p
    BY SMT
  <2>2. Congruent(p * x, 0, p)
    BY <2>1 DEF Congruent
  <2> QED
    BY <1>1, <2>2
<1>3. T \in SUBSET Nat /\ T # {}
  BY <1>2
<1>4. PICK d \in T : \A e \in T : d <= e
  BY <1>3, Least
<1>5. d \in Nat \ {0} /\ (d * x) % p = 0
  BY <1>4
\* d divides every member of T: the remainder is a smaller one.
<1>6. ASSUME NEW e \in T
      PROVE  e % d = 0
  <2> DEFINE c == e \div d
             r == e % d
  <2>1. e \in Nat /\ e = d * c + r /\ c \in Int /\ r \in 0 .. d - 1
    BY <1>5, Division, SMT
  <2> HIDE DEF c, r
  <2>2. Congruent(d * x, 0, p) /\ Congruent(e * x, 0, p)
    BY <1>1, <1>5, <2>1
  <2>3. PICK s \in Int : d * x = 0 + s * p
    BY <2>2 DEF Congruent
  <2>4. PICK t \in Int : e * x = 0 + t * p
    BY <2>2 DEF Congruent
  <2>5. r * x = e * x - c * (d * x)
    BY <1>5, <2>1, SMT
  <2>6. r * x = 0 + (t - c * s) * p /\ t - c * s \in Int
    BY <2>1, <2>3, <2>4, <2>5, SMT
  <2>7. r \in Nat /\ r < d
    BY <1>5, <2>1, SMT
  <2>8. Congruent(r * x, 0, p)
    BY <2>6 DEF Congruent
  <2>9. r # 0 => r \in T
    BY <1>1, <2>7, <2>8
  <2>10. r # 0 => d <= r
    BY <1>4, <2>9
  <2>11. r = 0
    BY <1>5, <2>7, <2>10, SMT
  <2> QED
    BY <2>11 DEF r
<1>7. CASE d = 1
  <2>1. 1 * x = x
    BY SMT
  <2> QED
    BY <1>5, <1>7, <2>1
<1>8. CASE d # 1
  <2>1. d <= p /\ p % d = 0
    BY <1>2, <1>4, <1>6
  <2>2. d = p
    <3>1. d \notin 2 .. p - 1
      BY <2>1
    <3> QED
      BY <1>5, <1>8, <2>1, <3>1, SMT
  <2>3. CASE y = 0
    BY <2>3, SMT
  <2>4. CASE y # 0
    <3>1. y * x = x * y
      BY SMT
    <3>2. y \in T
      BY <2>4, <3>1
    <3> QED
      BY <1>6, <2>2, <3>2
  <2> QED
    BY <2>3, <2>4
<1> QED
  BY <1>7, <1>8

-----------------------------------------------------------------------------
\* Products and powers.  Fermat's theorem is reached in the classical way: the multiples
\* b, 2*b, ..., (p-1)*b of a number that p does not divide are 1, 2, ..., p-1 in another
\* order, modulo p, so that both products are the same.

\* Rounds without an end have a function of their results.
AreRounds(g, first, next) == g[0] = first /\ \A i \in Nat : g[i + 1] = next[i + 1][g[i]]
LEMMA RoundsExist ==
  ASSUME NEW X, NEW first \in X, NEW next, \A i \in Nat : \A x \in X : next[i][x] \in X
  PROVE  \E g \in [Nat -> X] : AreRounds(g, first, next)
<1> DEFINE Upto(h, n) == /\ h \in [0 .. n -> X] /\ h[0] = first
                         /\ \A i \in 0 .. n - 1 : h[i + 1] = next[i + 1][h[i]]
           H(n) == CHOOSE h : Upto(h, n)
           g == [n \in Nat |-> H(n)[n]]
<1>1. ASSUME NEW n \in Nat
      PROVE  Upto(H(n), n)
  <2>1. \A i \in 1 .. n : \A x \in X : next[i][x] \in X
    BY SMT
  <2>2. PICK h \in [0 .. n -> X] : AreIterates(h, first, next, n)
    BY <2>1, IteratesExist
  <2>3. \A i \in 0 .. n : h[i] = IF i = 0 THEN first ELSE next[i][h[i - 1]]
    BY <2>2, Zenon DEF AreIterates
  <2>4. h[0] = first
    BY <2>3
  <2>5. ASSUME NEW i \in 0 .. n - 1
        PROVE  h[i + 1] = next[i + 1][h[i]]
    <3>1. i + 1 \in 0 .. n /\ i + 1 # 0 /\ (i + 1) - 1 = i
      BY SMT
    <3>2. h[i + 1] = next[i + 1][h[(i + 1) - 1]]
      BY <2>3, <3>1
    <3> QED
      BY <3>1, <3>2
  <2>6. Upto(h, n)
    BY <2>4, <2>5
  <2> HIDE DEF Upto
  <2> QED
    BY <2>6
<1> HIDE DEF H
<1>2. ASSUME NEW n \in Nat
      PROVE  H(n + 1)[n] = H(n)[n]
  <2> DEFINE f == H(n)
             h == H(n + 1)
             S == {i \in Nat : i <= n => h[i] = f[i]}
  <2>1. Upto(f, n) /\ Upto(h, n + 1)
    BY <1>1
  <2> HIDE DEF f, h
  <2>2. 0 \in S
    BY <2>1
  <2>3. ASSUME NEW i \in Nat, i \in S
        PROVE  i + 1 \in S
    <3> SUFFICES ASSUME i + 1 <= n PROVE h[i + 1] = f[i + 1]
      OBVIOUS
    <3>1. i \in 0 .. n - 1 /\ i \in 0 .. (n + 1) - 1 /\ h[i] = f[i]
      BY <2>3, SMT
    <3> QED
      BY <2>1, <3>1
  <2>4. n \in S
    <3> HIDE DEF S
    <3> QED
      BY <2>2, <2>3, SetInduction
  <2> QED
    BY <2>4 DEF f, h
<1>3. ASSUME NEW n \in Nat
      PROVE  g[n] \in X /\ g[n + 1] = next[n + 1][g[n]]
  <2>1. Upto(H(n), n) /\ Upto(H(n + 1), n + 1) /\ n \in 0 .. n /\ n \in 0 .. (n + 1) - 1
    BY <1>1, SMT
  <2>2. H(n + 1)[n + 1] = next[n + 1][H(n + 1)[n]] /\ H(n)[n] \in X
    BY <2>1
  <2> QED
    BY <1>2, <2>2
<1>4. g[0] = first
  <2>1. Upto(H(0), 0)
    BY <1>1
  <2> QED
    BY <2>1
<1>5. g \in [Nat -> X]
  BY <1>3
<1> HIDE DEF g
<1>6. AreRounds(g, first, next)
  BY <1>3, <1>4 DEF AreRounds
<1> QED
  BY <1>5, <1>6

\* The products f[1] * ... * f[n], and the powers of b.
ProductsOf(f) == CHOOSE P : /\ P \in [Nat -> Nat] /\ P[0] = 1
                          /\ \A n \in Nat : P[n + 1] = P[n] * f[n + 1]
Prod(f, n) == ProductsOf(f)[n]
Pow(b, n)  == Prod([i \in Nat |-> b], n)
Numbers    == [i \in Nat |-> i]

LEMMA ProdIs ==
  ASSUME NEW f \in [Nat -> Nat], NEW n \in Nat
  PROVE  Prod(f, n) \in Nat /\ Prod(f, 0) = 1 /\ Prod(f, n + 1) = Prod(f, n) * f[n + 1]
<1> DEFINE IsProducts(P) == /\ P \in [Nat -> Nat] /\ P[0] = 1
                            /\ \A i \in Nat : P[i + 1] = P[i] * f[i + 1]
           next == [i \in Nat |-> [x \in Nat |-> x * f[i]]]
<1>1. \A i \in Nat : \A x \in Nat : next[i][x] \in Nat /\ next[i][x] = x * f[i]
  <2> TAKE i \in Nat
  <2> TAKE x \in Nat
  <2>1. f[i] \in Nat
    OBVIOUS
  <2>2. next[i][x] = x * f[i]
    OBVIOUS
  <2> QED
    BY <2>1, <2>2, ProductType
<1> HIDE DEF next
<1>2. PICK g \in [Nat -> Nat] : g[0] = 1 /\ \A i \in Nat : g[i + 1] = next[i + 1][g[i]]
  <2> DEFINE X == Nat
             first == 1
  <2>1. first \in X
    BY SMT
  <2>2. \A i \in Nat : \A x \in X : next[i][x] \in X
    BY <1>1, Zenon
  <2> HIDE DEF X, first
  <2>3. \E g \in [Nat -> X] : AreRounds(g, first, next)
    BY <2>1, <2>2, RoundsExist
  <2> QED
    BY <2>3, Zenon DEF X, first, AreRounds
<1>3. IsProducts(g)
  <2>1. ASSUME NEW i \in Nat
        PROVE  g[i + 1] = g[i] * f[i + 1]
    <3>1. i + 1 \in Nat /\ g[i] \in Nat
      BY SMT
    <3> QED
      BY <1>1, <1>2, <3>1
  <2> QED
    BY <1>2, <2>1
<1>4. ProductsOf(f) = CHOOSE P : IsProducts(P)
  BY DEF ProductsOf
<1>5. IsProducts(ProductsOf(f))
  <2> HIDE DEF IsProducts
  <2> QED
    BY <1>3, <1>4
<1> QED
  BY <1>5 DEF Prod

\* Equal factors have equal products, congruent ones congruent products.
LEMMA ProdAgree ==
  ASSUME NEW f \in [Nat -> Nat], NEW g \in [Nat -> Nat], NEW n \in Nat, \A i \in 1 .. n : f[i] = g[i]
  PROVE  Prod(f, n) = Prod(g, n)
<1> DEFINE S == {i \in Nat : i <= n => Prod(f, i) = Prod(g, i)}
<1>1. 0 \in S
  BY ProdIs
<1>2. ASSUME NEW i \in Nat, i \in S
      PROVE  i + 1 \in S
  <2> SUFFICES ASSUME i + 1 <= n PROVE Prod(f, i + 1) = Prod(g, i + 1)
    OBVIOUS
  <2>1. Prod(f, i) = Prod(g, i) /\ i + 1 \in 1 .. n
    BY <1>2, SMT
  <2>2. f[i + 1] = g[i + 1]
    BY <2>1
  <2>3. Prod(f, i + 1) = Prod(f, i) * f[i + 1] /\ Prod(g, i + 1) = Prod(g, i) * g[i + 1]
    BY ProdIs
  <2> QED
    BY <2>1, <2>2, <2>3
<1>3. n \in S
  <2> HIDE DEF S
  <2> QED
    BY <1>1, <1>2, SetInduction
<1> QED
  BY <1>3

LEMMA ProdCongruent ==
  ASSUME NEW f \in [Nat -> Nat], NEW g \in [Nat -> Nat], NEW n \in Nat, NEW p \in Nat,
         \A i \in 1 .. n : Congruent(f[i], g[i], p)
  PROVE  Congruent(Prod(f, n), Prod(g, n), p)
<1> DEFINE S == {i \in Nat : i <= n => Congruent(Prod(f, i), Prod(g, i), p)}
<1>1. 0 \in S
  <2>1. Prod(f, 0) = 1 /\ Prod(g, 0) = 1
    BY ProdIs
  <2>2. Congruent(1, 1, p)
    BY CongruentSelf
  <2> QED
    BY <2>1, <2>2
<1>2. ASSUME NEW i \in Nat, i \in S
      PROVE  i + 1 \in S
  <2> SUFFICES ASSUME i + 1 <= n PROVE Congruent(Prod(f, i + 1), Prod(g, i + 1), p)
    OBVIOUS
  <2>1. Congruent(Prod(f, i), Prod(g, i), p) /\ i + 1 \in 1 .. n /\ i + 1 \in Nat
    BY <1>2, SMT
  <2>2. Congruent(f[i + 1], g[i + 1], p)
    BY <2>1
  <2>3. /\ Prod(f, i + 1) = Prod(f, i) * f[i + 1] /\ Prod(g, i + 1) = Prod(g, i) * g[i + 1]
        /\ Prod(f, i) \in Nat /\ Prod(g, i) \in Nat
    BY ProdIs
  <2>4. Prod(f, i) \in Int /\ Prod(g, i) \in Int /\ f[i + 1] \in Int /\ g[i + 1] \in Int /\ p \in Int
    BY <2>1, <2>3
  <2> QED
    BY <2>1, <2>2, <2>3, <2>4, CongruentProduct
<1>3. n \in S
  <2> HIDE DEF S
  <2> QED
    BY <1>1, <1>2, SetInduction
<1> QED
  BY <1>3

\* A factor is taken out of a product.
LEMMA ProdWithout ==
  ASSUME NEW f \in [Nat -> Nat], NEW n \in Nat, NEW j \in 1 .. n
  PROVE  /\ [f EXCEPT ![j] = 1] \in [Nat -> Nat]
         /\ Prod(f, n) = f[j] * Prod([f EXCEPT ![j] = 1], n)
<1> DEFINE h == [f EXCEPT ![j] = 1]
           S == {i \in Nat : j <= i => Prod(f, i) = f[j] * Prod(h, i)}
<1>1. j \in Nat /\ j > 0 /\ h \in [Nat -> Nat] /\ h[j] = 1 /\ \A i \in Nat : i # j => h[i] = f[i]
  BY SMT
<1> HIDE DEF h
<1>2. 0 \in S
  BY <1>1
<1>3. ASSUME NEW i \in Nat, i \in S
      PROVE  i + 1 \in S
  <2> SUFFICES ASSUME j <= i + 1 PROVE Prod(f, i + 1) = f[j] * Prod(h, i + 1)
    OBVIOUS
  <2>0. f \in [Nat -> Nat] /\ h \in [Nat -> Nat] /\ i \in Nat /\ i + 1 \in Nat
    BY <1>1, SMT
  <2>a. Prod(f, i + 1) = Prod(f, i) * f[i + 1] /\ Prod(f, i) \in Nat
    BY <2>0, ProdIs
  <2>b. Prod(h, i + 1) = Prod(h, i) * h[i + 1] /\ Prod(h, i) \in Nat
    BY <2>0, ProdIs
  <2>1. /\ Prod(f, i + 1) = Prod(f, i) * f[i + 1] /\ Prod(h, i + 1) = Prod(h, i) * h[i + 1]
        /\ Prod(f, i) \in Nat /\ Prod(h, i) \in Nat /\ f[i + 1] \in Nat /\ f[j] \in Nat
    BY <1>1, <2>0, <2>a, <2>b
  <2>2. CASE j = i + 1
    <3>1. \A l \in 1 .. i : f[l] = h[l]
      BY <1>1, <2>2
    <3>2. Prod(f, i) = Prod(h, i)
      BY <1>1, <3>1, ProdAgree
    <3> QED
      BY <1>1, <2>1, <2>2, <3>2
  <2>3. CASE j # i + 1
    <3>1. Prod(f, i) = f[j] * Prod(h, i) /\ h[i + 1] = f[i + 1]
      BY <1>1, <1>3, <2>3
    <3> DEFINE x == Prod(h, i)
               y == f[i + 1]
               z == f[j]
    <3>2. (z * x) * y = z * (x * y)
      <4>1. x \in Nat /\ y \in Nat /\ z \in Nat
        BY <2>1
      <4> HIDE DEF x, y, z
      <4> QED
        BY <4>1, SMT
    <3> QED
      BY <2>1, <3>1, <3>2
  <2> QED
    BY <2>2, <2>3
<1>4. n \in S
  <2> HIDE DEF S
  <2> QED
    BY <1>2, <1>3, SetInduction
<1> QED
  BY <1>1, <1>4 DEF h

\* f moves the numbers from 1 to n about.
Permutes(f, n) ==
  /\ \A i \in 1 .. n : f[i] \in 1 .. n
  /\ \A i, j \in 1 .. n : f[i] = f[j] => i = j
  /\ \A k \in 1 .. n : \E i \in 1 .. n : f[i] = k

\* One more number, at the place j, is changed with the last.
LEMMA Swapped ==
  ASSUME NEW n \in Nat, NEW f \in [Nat -> Nat], Permutes(f, n + 1),
         NEW j \in 1 .. n, f[j] = n + 1
  PROVE  LET g == [f EXCEPT ![j] = f[n + 1]]
         IN  g \in [Nat -> Nat] /\ Permutes(g, n) /\ Prod(f, n + 1) = (n + 1) * Prod(g, n)
<1> DEFINE l == n + 1
           g == [f EXCEPT ![j] = f[l]]
           h == [f EXCEPT ![j] = 1]
           k == [g EXCEPT ![j] = 1]
<1>1. /\ l \in Nat /\ l \in 1 .. l /\ \A i \in 1 .. n : i \in 1 .. l /\ i # l /\ i \in Nat
      /\ \A i \in 1 .. l : i # l => i \in 1 .. n
      /\ 1 \in Nat
  BY SMT
<1> HIDE DEF l
<1>2. g \in [Nat -> Nat] /\ g[j] = f[l] /\ \A i \in Nat : i # j => g[i] = f[i]
  BY <1>1
<1>3. h \in [Nat -> Nat] /\ h[j] = 1 /\ \A i \in Nat : i # j => h[i] = f[i]
  BY <1>1
<1> HIDE DEF g
<1>4. k \in [Nat -> Nat] /\ k[j] = 1 /\ \A i \in Nat : i # j => k[i] = g[i]
  BY <1>1, <1>2
<1> HIDE DEF h, k
<1>5. f[j] = l /\ l # j /\ Permutes(f, l)
  BY <1>1 DEF l
<1>6. Permutes(g, n)
  <2>1. ASSUME NEW i \in 1 .. n
        PROVE  g[i] \in 1 .. n
    <3>1. CASE i = j
      <4>1. f[l] \in 1 .. l /\ f[l] # l
        BY <1>1, <1>5 DEF Permutes
      <4> QED
        BY <1>1, <1>2, <3>1, <4>1
    <3>2. CASE i # j
      <4>1. f[i] \in 1 .. l /\ f[i] # l
        BY <1>1, <1>5, <3>2 DEF Permutes
      <4> QED
        BY <1>1, <1>2, <3>2, <4>1
    <3> QED
      BY <3>1, <3>2
  <2>2. ASSUME NEW i \in 1 .. n, NEW y \in 1 .. n, g[i] = g[y]
        PROVE  i = y
    <3>1. \A a, b \in 1 .. l : f[a] = f[b] => a = b
      BY <1>5 DEF Permutes
    <3> QED
      BY <1>1, <1>2, <2>2, <3>1, Zenon
  <2>3. ASSUME NEW y \in 1 .. n
        PROVE  \E i \in 1 .. n : g[i] = y
    <3>1. PICK i \in 1 .. l : f[i] = y
      BY <1>1, <1>5 DEF Permutes
    <3>2. i # j
      BY <1>1, <1>5, <3>1
    <3>3. CASE i = l
      BY <1>2, <3>1, <3>3
    <3>4. CASE i # l
      BY <1>1, <1>2, <3>1, <3>2, <3>4
    <3> QED
      BY <3>3, <3>4
  <2> QED
    BY <2>1, <2>2, <2>3 DEF Permutes
<1>7. Prod(f, n) = l * Prod(h, n)
  <2>1. Prod(f, n) = f[j] * Prod([f EXCEPT ![j] = 1], n)
    BY ProdWithout
  <2> QED
    BY <1>5, <2>1 DEF h
<1>8. Prod(g, n) = f[l] * Prod(k, n)
  <2>1. Prod(g, n) = g[j] * Prod([g EXCEPT ![j] = 1], n)
    BY <1>2, ProdWithout
  <2> QED
    BY <1>2, <2>1 DEF k
<1>9. Prod(h, n) = Prod(k, n)
  <2>1. \A i \in 1 .. n : h[i] = k[i]
    BY <1>1, <1>2, <1>3, <1>4
  <2> QED
    BY <1>3, <1>4, <2>1, ProdAgree
<1>10. Prod(f, l) = Prod(f, n) * f[l] /\ Prod(k, n) \in Nat
  <2>1. Prod(k, n) \in Nat
    BY <1>4, ProdIs
  <2>2. Prod(f, n + 1) = Prod(f, n) * f[n + 1]
    BY ProdIs
  <2> QED
    BY <2>1, <2>2 DEF l
<1>11. f[l] \in Nat
  BY <1>1
<1>12. Prod(f, l) = l * Prod(g, n)
  <2> DEFINE x == f[l]
             y == Prod(k, n)
  <2>1. x \in Nat /\ y \in Nat /\ l \in Nat
    BY <1>1, <1>10, <1>11
  <2>2. Prod(f, l) = (l * y) * x /\ Prod(g, n) = x * y
    BY <1>7, <1>8, <1>9, <1>10
  <2> HIDE DEF x, y
  <2>3. (l * y) * x = l * (x * y)
    BY <2>1, SMT
  <2> QED
    BY <2>2, <2>3
<1> QED
  BY <1>2, <1>6, <1>12 DEF g, l

\* So a product does not change when its factors 1, ..., n are moved about.
LEMMA ProdPermuted ==
  ASSUME NEW n \in Nat, NEW f \in [Nat -> Nat], Permutes(f, n)
  PROVE  Prod(f, n) = Prod(Numbers, n)
<1> DEFINE S == {i \in Nat : \A g \in [Nat -> Nat] : Permutes(g, i) => Prod(g, i) = Prod(Numbers, i)}
<1>0. Numbers \in [Nat -> Nat] /\ \A i \in Nat : Numbers[i] = i
  BY DEF Numbers
<1>1. 0 \in S
  <2>1. \A g \in [Nat -> Nat] : Prod(g, 0) = 1
    BY ProdIs
  <2> QED
    BY <1>0, <2>1
<1>2. ASSUME NEW i \in Nat, i \in S
      PROVE  i + 1 \in S
  <2> SUFFICES ASSUME NEW g \in [Nat -> Nat], Permutes(g, i + 1)
               PROVE  Prod(g, i + 1) = Prod(Numbers, i + 1)
    BY SMT
  <2>1. Prod(Numbers, i + 1) = Prod(Numbers, i) * (i + 1) /\ Prod(Numbers, i) \in Nat
    <3>1. Prod(Numbers, i + 1) = Prod(Numbers, i) * Numbers[i + 1] /\ Prod(Numbers, i) \in Nat
      BY <1>0, ProdIs
    <3>2. i + 1 \in Nat
      BY SMT
    <3> QED
      BY <1>0, <3>1, <3>2
  <2>2. PICK j \in 1 .. i + 1 : g[j] = i + 1
    <3>1. i + 1 \in 1 .. i + 1
      BY SMT
    <3> QED
      BY <3>1 DEF Permutes
  <2>3. CASE j = i + 1
    <3>1. Permutes(g, i)
      <4>1. /\ \A a \in 1 .. i : a \in 1 .. i + 1 /\ a # i + 1
            /\ \A a \in 1 .. i + 1 : a # i + 1 => a \in 1 .. i
        BY SMT
      <4> DEFINE l == i + 1
      <4>2. g[l] = l /\ l \in 1 .. l
        BY <2>2, <2>3
      <4> HIDE DEF l
      <4>3. /\ \A a \in 1 .. l : g[a] \in 1 .. l
            /\ \A a, b \in 1 .. l : g[a] = g[b] => a = b
            /\ \A k \in 1 .. l : \E a \in 1 .. l : g[a] = k
        BY DEF Permutes, l
      <4>4. /\ \A a \in 1 .. i : a \in 1 .. l /\ a # l
            /\ \A a \in 1 .. l : a # l => a \in 1 .. i
        BY <4>1 DEF l
      <4>5. \A a \in 1 .. i : g[a] \in 1 .. i
        BY <4>2, <4>3, <4>4, Zenon
      <4>6. \A a, b \in 1 .. i : g[a] = g[b] => a = b
        BY <4>3, <4>4, Zenon
      <4>7. \A k \in 1 .. i : \E a \in 1 .. i : g[a] = k
        BY <4>2, <4>3, <4>4, Zenon
      <4> QED
        BY <4>5, <4>6, <4>7 DEF Permutes
    <3>2. Prod(g, i) = Prod(Numbers, i)
      BY <1>2, <3>1
    <3>3. Prod(g, i + 1) = Prod(g, i) * g[i + 1]
      BY ProdIs
    <3> QED
      BY <2>1, <2>2, <2>3, <3>2, <3>3
  <2>4. CASE j # i + 1
    <3>1. j \in 1 .. i
      BY <2>4, SMT
    <3> DEFINE h == [g EXCEPT ![j] = g[i + 1]]
    <3>2. h \in [Nat -> Nat] /\ Permutes(h, i) /\ Prod(g, i + 1) = (i + 1) * Prod(h, i)
      BY <2>2, <3>1, Swapped
    <3> HIDE DEF h
    <3>3. Prod(h, i) = Prod(Numbers, i)
      BY <1>2, <3>2
    <3> DEFINE x == Prod(Numbers, i)
    <3>4. Prod(g, i + 1) = (i + 1) * x /\ Prod(Numbers, i + 1) = x * (i + 1) /\ x \in Nat
      BY <2>1, <3>2, <3>3
    <3> HIDE DEF x
    <3>5. (i + 1) * x = x * (i + 1)
      BY <3>4, SMT
    <3> QED
      BY <3>4, <3>5
  <2> QED
    BY <2>3, <2>4
<1>3. n \in S
  <2> HIDE DEF S
  <2> QED
    BY <1>1, <1>2, SetInduction
<1> QED
  BY <1>3

\* A factor common to all comes out as a power.
LEMMA ProdScaled ==
  ASSUME NEW b \in Nat, NEW f \in [Nat -> Nat], NEW g \in [Nat -> Nat], NEW n \in Nat,
         \A i \in 1 .. n : f[i] = b * g[i]
  PROVE  Pow(b, n) \in Nat /\ Prod(f, n) = Pow(b, n) * Prod(g, n)
<1> DEFINE c == [i \in Nat |-> b]
           S == {i \in Nat : i <= n => Prod(f, i) = Prod(c, i) * Prod(g, i)}
<1>0. c \in [Nat -> Nat] /\ \A i \in Nat : c[i] = b
  OBVIOUS
<1>a. \A i : Pow(b, i) = Prod(c, i)
  BY DEF Pow
<1> HIDE DEF c
<1>1. 0 \in S
  <2>1. Prod(f, 0) = 1 /\ Prod(g, 0) = 1 /\ Prod(c, 0) = 1
    BY <1>0, ProdIs
  <2> QED
    BY <2>1
<1>2. ASSUME NEW i \in Nat, i \in S
      PROVE  i + 1 \in S
  <2> SUFFICES ASSUME i + 1 <= n PROVE Prod(f, i + 1) = Prod(c, i + 1) * Prod(g, i + 1)
    OBVIOUS
  <2>1. Prod(f, i) = Prod(c, i) * Prod(g, i) /\ i + 1 \in 1 .. n /\ i + 1 \in Nat
    BY <1>2, SMT
  <2>2. f[i + 1] = b * g[i + 1] /\ c[i + 1] = b
    BY <1>0, <2>1
  <2>3. Prod(f, i + 1) = Prod(f, i) * f[i + 1]
    BY ProdIs
  <2>4. Prod(g, i + 1) = Prod(g, i) * g[i + 1] /\ Prod(g, i) \in Nat
    BY ProdIs
  <2>5. Prod(c, i + 1) = Prod(c, i) * c[i + 1] /\ Prod(c, i) \in Nat
    BY <1>0, ProdIs
  <2> DEFINE x == Prod(c, i)
             y == Prod(g, i)
             z == g[i + 1]
  <2>6. x \in Nat /\ y \in Nat /\ z \in Nat
    BY <2>1, <2>4, <2>5
  <2>7. Prod(f, i + 1) = (x * y) * (b * z) /\ Prod(g, i + 1) = y * z /\ Prod(c, i + 1) = x * b
    BY <2>1, <2>2, <2>3, <2>4, <2>5
  <2> HIDE DEF x, y, z
  <2>8. (x * y) * (b * z) = (x * b) * (y * z)
    BY <2>6, SMT
  <2> QED
    BY <2>7, <2>8
<1>3. n \in S
  <2> HIDE DEF S
  <2> QED
    BY <1>1, <1>2, SetInduction
<1>4. Prod(c, n) \in Nat
  BY <1>0, ProdIs
<1> QED
  BY <1>a, <1>3, <1>4

\* The powers of a number.
LEMMA PowIs ==
  ASSUME NEW b \in Nat, NEW n \in Nat
  PROVE  Pow(b, n) \in Nat /\ Pow(b, 0) = 1 /\ Pow(b, n + 1) = Pow(b, n) * b
<1> DEFINE c == [i \in Nat |-> b]
<1>1. c \in [Nat -> Nat] /\ \A i \in Nat : c[i] = b
  OBVIOUS
<1>2. \A i : Pow(b, i) = Prod(c, i)
  BY DEF Pow
<1> HIDE DEF c
<1>3. Prod(c, n) \in Nat /\ Prod(c, 0) = 1 /\ Prod(c, n + 1) = Prod(c, n) * c[n + 1]
  BY <1>1, ProdIs
<1>4. n + 1 \in Nat
  BY SMT
<1> QED
  BY <1>1, <1>2, <1>3, <1>4

\* Exponents are added.
LEMMA PowSum ==
  ASSUME NEW b \in Nat, NEW x \in Nat, NEW y \in Nat
  PROVE  Pow(b, x + y) = Pow(b, x) * Pow(b, y)
<1> DEFINE S == {i \in Nat : Pow(b, x + i) = Pow(b, x) * Pow(b, i)}
<1>1. 0 \in S
  <2>1. Pow(b, 0) = 1 /\ Pow(b, x) \in Nat /\ x + 0 = x
    BY PowIs
  <2> QED
    BY <2>1
<1>2. ASSUME NEW i \in Nat, i \in S
      PROVE  i + 1 \in S
  <2>1. x + i \in Nat /\ x + (i + 1) = (x + i) + 1 /\ i + 1 \in Nat
    BY SMT
  <2>2. Pow(b, (x + i) + 1) = Pow(b, x + i) * b
    BY <2>1, PowIs
  <2>3. Pow(b, i + 1) = Pow(b, i) * b /\ Pow(b, i) \in Nat /\ Pow(b, x) \in Nat
    BY PowIs
  <2> DEFINE u == Pow(b, x)
             v == Pow(b, i)
  <2>4. Pow(b, x + (i + 1)) = (u * v) * b /\ Pow(b, i + 1) = v * b /\ u \in Nat /\ v \in Nat
    BY <1>2, <2>1, <2>2, <2>3
  <2> HIDE DEF u, v
  <2>5. (u * v) * b = u * (v * b)
    BY <2>4, SMT
  <2> QED
    BY <2>1, <2>4, <2>5 DEF u
<1>3. y \in S
  <2> HIDE DEF S
  <2> QED
    BY <1>1, <1>2, SetInduction
<1> QED
  BY <1>3

\* A prime divides none of the products of the numbers below it.
LEMMA FactorialIs ==
  ASSUME NEW p \in Nat, 1 < p, \A d \in 2 .. p - 1 : p % d # 0, NEW n \in Nat, n < p
  PROVE  Prod(Numbers, n) \in Nat /\ Prod(Numbers, n) % p # 0
<1> DEFINE S == {i \in Nat : i < p => Prod(Numbers, i) % p # 0}
<1>0. Numbers \in [Nat -> Nat] /\ \A i \in Nat : Numbers[i] = i
  BY DEF Numbers
<1>1. 0 \in S
  <2>1. Prod(Numbers, 0) = 1
    BY <1>0, ProdIs
  <2>2. 1 % p # 0
    BY SMT
  <2> QED
    BY <2>1, <2>2
<1>2. ASSUME NEW i \in Nat, i \in S
      PROVE  i + 1 \in S
  <2> SUFFICES ASSUME i + 1 < p PROVE Prod(Numbers, i + 1) % p # 0
    BY SMT
  <2>1. Prod(Numbers, i) % p # 0 /\ i + 1 \in Nat
    BY <1>2, SMT
  <2>2. Prod(Numbers, i + 1) = Prod(Numbers, i) * (i + 1) /\ Prod(Numbers, i) \in Nat
    <3>1. Prod(Numbers, i + 1) = Prod(Numbers, i) * Numbers[i + 1] /\ Prod(Numbers, i) \in Nat
      BY <1>0, ProdIs
    <3> QED
      BY <1>0, <2>1, <3>1
  <2>3. (i + 1) % p # 0
    BY SMT
  <2> QED
    BY <2>1, <2>2, <2>3, Euclid
<1>3. n \in S
  <2> HIDE DEF S
  <2> QED
    BY <1>1, <1>2, SetInduction
<1>4. Prod(Numbers, n) \in Nat
  BY <1>0, ProdIs
<1> QED
  BY <1>3, <1>4

\* A factor that a prime does not divide cancels modulo that prime.
LEMMA PrimeCancel ==
  ASSUME NEW p \in Nat, 1 < p, \A d \in 2 .. p - 1 : p % d # 0,
         NEW x \in Nat, NEW y \in Nat, NEW b \in Nat, b % p # 0, Congruent(b * x, b * y, p)
  PROVE  Congruent(x, y, p)
<1>0. p \in Nat \ {0}
  OBVIOUS
<1>a. ASSUME NEW u \in Nat, NEW w \in Nat, u <= w, Congruent(b * w, b * u, p)
      PROVE  Congruent(w, u, p)
  <2> DEFINE d == w - u
  <2>1. d \in Nat /\ w = u + d
    BY <1>a, SMT
  <2> HIDE DEF d
  <2>2. b * w = b * u + b * d /\ b * d \in Nat /\ b * u \in Nat /\ b * w \in Nat
    <3>1. b * (u + d) = b * u + b * d
      BY <2>1, SMT
    <3>2. b * d \in Nat /\ b * u \in Nat /\ b * w \in Nat
      BY <2>1, ProductType
    <3> QED
      BY <2>1, <3>1, <3>2
  <2>3. PICK t \in Int : b * w = b * u + t * p
    BY <1>a DEF Congruent
  <2>4. b * d = 0 + t * p
    <3> DEFINE f == b * w
               g == b * u
               h == b * d
               k == t * p
    <3>1. f \in Nat /\ g \in Nat /\ h \in Nat /\ f = g + h /\ f = g + k /\ k \in Int
      BY <2>2, <2>3
    <3> HIDE DEF f, g, h, k
    <3>2. h = 0 + k
      BY <3>1, SMT
    <3> QED
      BY <3>2 DEF h, k
  <2>5. Congruent(b * d, 0, p)
    BY <2>3, <2>4 DEF Congruent
  <2>6. (b * d) % p = 0
    <3>1. 0 \in Nat /\ 0 < p /\ b * d \in Int
      BY <2>2, SMT
    <3> QED
      BY <1>0, <2>5, <3>1, RemainderOf
  <2>7. d % p = 0
    BY <2>1, <2>6, Euclid
  <2>8. d = p * (d \div p) /\ d \div p \in Int
    <3>0. d \in Int
      BY <2>1
    <3>1. d = p * (d \div p) + (d % p) /\ d \div p \in Int
      BY <1>0, <3>0, Division
    <3> DEFINE q == d \div p
    <3>2. d = p * q + 0 /\ q \in Int
      BY <2>7, <3>1
    <3> HIDE DEF q
    <3>3. d = p * q
      BY <3>2, SMT
    <3> QED
      BY <3>2, <3>3 DEF q
  <2> DEFINE q == d \div p
  <2>9. q \in Int /\ w = u + p * q
    BY <2>1, <2>8
  <2> HIDE DEF q
  <2>10. w = u + q * p
    BY <2>9, SMT
  <2> QED
    BY <2>9, <2>10 DEF Congruent
<1>1. CASE x <= y
  <2>1. b * x \in Int /\ b * y \in Int /\ p \in Int /\ x \in Int /\ y \in Int
    BY ProductType
  <2>2. Congruent(b * y, b * x, p)
    BY <2>1, CongruentSym
  <2>3. Congruent(y, x, p)
    BY <1>1, <1>a, <2>2
  <2> QED
    BY <2>1, <2>3, CongruentSym
<1>2. CASE y <= x
  BY <1>2, <1>a
<1> QED
  BY <1>1, <1>2, SMT

\* The multiples of b are the numbers below a prime in another order, modulo the prime.
LEMMA MultiplesPermute ==
  ASSUME NEW p \in Nat, 1 < p, \A d \in 2 .. p - 1 : p % d # 0, NEW b \in Nat, b % p # 0,
         NEW f \in [Nat -> Nat], \A i \in 1 .. p - 1 : f[i] = (b * i) % p
  PROVE  Permutes(f, p - 1)
<1> DEFINE I == 1 .. p - 1
           g == [i \in I |-> f[i]]
<1>0. p \in Nat \ {0} /\ p - 1 \in Nat
  BY SMT
<1>1. ASSUME NEW i \in I
      PROVE  /\ i \in Nat /\ b * i \in Nat /\ f[i] \in I /\ Congruent(f[i], b * i, p)
             /\ i \in 0 .. p - 1
  <2>1. i \in Nat /\ i \in 1 .. p - 1 /\ i \in 0 .. p - 1
    OBVIOUS
  <2>2. b * i \in Nat /\ b * i \in Int
    BY <2>1, ProductType
  <2>3. f[i] = (b * i) % p /\ (b * i) % p \in 0 .. p - 1 /\ Congruent((b * i) % p, b * i, p)
    BY <1>0, <2>1, <2>2, CongruentRemainder
  <2>4. (b * i) % p # 0
    <3> SUFFICES ASSUME (b * i) % p = 0 PROVE FALSE
      OBVIOUS
    <3>1. b % p = 0 \/ i % p = 0
      BY <2>1, Euclid
    <3>2. i % p = i
      BY <2>1, SMT
    <3> QED
      BY <2>1, <3>1, <3>2
  <2> QED
    BY <2>1, <2>2, <2>3, <2>4
<1>2. ASSUME NEW i \in I, NEW j \in I, f[i] = f[j]
      PROVE  i = j
  <2>1. /\ i \in Nat /\ b * i \in Int /\ f[i] \in Int /\ Congruent(f[i], b * i, p) /\ i \in 0 .. p - 1
        /\ j \in Nat /\ b * j \in Int /\ Congruent(f[j], b * j, p) /\ j \in 0 .. p - 1
    BY <1>1
  <2>2. Congruent(b * i, f[i], p)
    BY <2>1, CongruentSym
  <2>3. Congruent(b * i, b * j, p)
    BY <1>2, <2>1, <2>2, CongruentTrans
  <2>4. Congruent(i, j, p)
    BY <2>1, <2>3, PrimeCancel
  <2> QED
    BY <1>0, <2>1, <2>4, CongruentUnique
<1>3. IsFiniteSet(I)
  <2>1. 1 \in Int /\ p - 1 \in Int
    BY SMT
  <2> QED
    BY <2>1, FS_Interval
<1>4. g \in [I -> I]
  BY <1>1
<1>5. \A i \in I : g[i] = f[i]
  OBVIOUS
<1>6. Permutes(f, p - 1) <=> /\ \A i \in I : f[i] \in I
                             /\ \A i, j \in I : f[i] = f[j] => i = j
                             /\ \A k \in I : \E i \in I : f[i] = k
  BY DEF Permutes
<1> HIDE DEF g, I
<1>7. g \in Injection(I, I)
  BY <1>2, <1>4, <1>5, Zenon DEF Injection, IsInjective
<1>8. g \in Surjection(I, I)
  BY <1>3, <1>7, FS_Injection
<1>9. \A k \in I : \E i \in I : f[i] = k
  BY <1>5, <1>8, Zenon DEF Surjection
<1> QED
  BY <1>1, <1>2, <1>6, <1>9

\* Fermat: b^(p-1) is 1 modulo a prime p that does not divide b.
LEMMA Fermat ==
  ASSUME NEW p \in Nat, 1 < p, \A d \in 2 .. p - 1 : p % d # 0, NEW b \in Nat, b % p # 0
  PROVE  Congruent(Pow(b, p - 1), 1, p)
<1> DEFINE l == p - 1
           f == [i \in Nat |-> (b * i) % p]
           h == [i \in Nat |-> b * i]
           F == Prod(Numbers, l)
           P == Pow(b, l)
<1>0. p \in Nat \ {0} /\ l \in Nat /\ l < p /\ p \in Int
  BY SMT
<1>1. Numbers \in [Nat -> Nat] /\ \A i \in Nat : Numbers[i] = i
  BY DEF Numbers
<1>2. \A i \in Nat : /\ b * i \in Nat /\ (b * i) % p \in Nat
                     /\ Congruent((b * i) % p, b * i, p)
  <2> TAKE i \in Nat
  <2>1. b * i \in Nat /\ b * i \in Int
    BY ProductType
  <2>2. (b * i) % p \in 0 .. p - 1 /\ Congruent((b * i) % p, b * i, p)
    BY <1>0, <2>1, CongruentRemainder
  <2> QED
    BY <2>1, <2>2
<1>3. /\ f \in [Nat -> Nat] /\ h \in [Nat -> Nat]
      /\ \A i \in Nat : f[i] = (b * i) % p /\ h[i] = b * i
  BY <1>2
<1>4. \A i \in 1 .. l : i \in Nat
  OBVIOUS
<1> HIDE DEF f, h, l
<1>5. Prod(f, l) = F
  <2>1. Permutes(f, l)
    <3>1. \A i \in 1 .. p - 1 : f[i] = (b * i) % p
      BY <1>3
    <3>2. Permutes(f, p - 1)
      BY <1>3, <3>1, MultiplesPermute
    <3> QED
      BY <3>2 DEF l
  <2> QED
    BY <1>0, <1>3, <2>1, ProdPermuted
<1>6. P \in Nat /\ Prod(h, l) = P * F
  <2>1. \A i \in 1 .. l : h[i] = b * Numbers[i]
    BY <1>1, <1>3, <1>4
  <2>2. Pow(b, l) \in Nat /\ Prod(h, l) = Pow(b, l) * Prod(Numbers, l)
    <3> HIDE DEF F, P
    <3>1. h \in [Nat -> Nat] /\ Numbers \in [Nat -> Nat] /\ l \in Nat
      BY <1>0, <1>1, <1>3
    <3> QED
      BY <2>1, <3>1, ProdScaled, ZenonT(40)
  <2> QED
    BY <2>2
<1>7. Congruent(Prod(f, l), Prod(h, l), p)
  <2>1. \A i \in 1 .. l : Congruent(f[i], h[i], p)
    BY <1>2, <1>3, <1>4
  <2> QED
    BY <1>0, <1>3, <2>1, ProdCongruent
<1>8. F \in Nat /\ F % p # 0
  BY <1>0, FactorialIs
<1> HIDE DEF F, P
<1>9. Congruent(F * P, F * 1, p)
  <2>1. F \in Int /\ P * F \in Int /\ P * F = F * P /\ F = F * 1
    <3>1. P * F \in Nat
      BY <1>6, <1>8, ProductType
    <3>2. P * F = F * P /\ F = F * 1
      BY <1>6, <1>8, SMT
    <3> QED
      BY <1>8, <3>1, <3>2
  <2>2. Congruent(F, P * F, p)
    BY <1>5, <1>6, <1>7
  <2>3. Congruent(P * F, F, p)
    BY <1>0, <2>1, <2>2, CongruentSym
  <2> QED
    BY <2>1, <2>3
<1>10. Congruent(P, 1, p)
  <2>1. 1 \in Nat
    BY SMT
  <2> QED
    BY <1>6, <1>8, <1>9, <2>1, PrimeCancel
<1> QED
  BY <1>10 DEF P, l

-----------------------------------------------------------------------------
(***************************************************************************)
(* Words.  The operators of UInt64 are those of the C types: sums, products*)
(* and differences modulo 2^64, and the order, remainders and decimals of  *)
(* the numbers.                                                            *)
(***************************************************************************)
\* The number a word stands for, and the size of the word.
Val(a) == (a[1] * B + a[2]) * B + a[3]
W == Top * (B * B)

\* What the proofs use of the base and of the size.
LEMMA Sizes ==
  B \in Nat \ {0} /\ Top \in Nat \ {0} /\ W \in Nat \ {0}
<1>1. B \in Nat \ {0}
  BY SMT DEF B
<1>2. Top \in Nat \ {0}
  BY SMT DEF Top
<1>3. B * B \in Nat \ {0}
  BY SMT DEF B
<1> DEFINE c == B * B
<1> HIDE DEF c
<1>4. Top * c \in Nat \ {0}
  BY <1>2, <1>3, SMT DEF c
<1> QED
  BY <1>1, <1>2, <1>4 DEF W, c

\* The digits of a word.
LEMMA Digits ==
  ASSUME NEW a \in UInt64
  PROVE  /\ a[1] \in Int /\ 0 <= a[1] /\ a[1] < Top
         /\ a[2] \in Int /\ 0 <= a[2] /\ a[2] < B
         /\ a[3] \in Int /\ 0 <= a[3] /\ a[3] < B
         /\ a = <<a[1], a[2], a[3]>>
<1>1. /\ a[1] \in 0 .. Top - 1 /\ a[2] \in 0 .. B - 1 /\ a[3] \in 0 .. B - 1
      /\ a = <<a[1], a[2], a[3]>>
  BY DEF UInt64
<1>2. Top \in Int /\ B \in Int
  BY SMT DEF Top, B
<1> QED
  BY <1>1, <1>2, SMT

\* Digits make a word.
LEMMA FromDigits ==
  ASSUME NEW x \in Int, NEW y \in Int, NEW z \in Int, 0 <= x, x < Top, 0 <= y, y < B, 0 <= z, z < B
  PROVE  <<x, y, z>> \in UInt64 /\ Val(<<x, y, z>>) = (x * B + y) * B + z
<1>1. Top \in Int /\ B \in Int
  BY SMT DEF Top, B
<1>2. x \in 0 .. Top - 1 /\ y \in 0 .. B - 1 /\ z \in 0 .. B - 1
  BY <1>1
<1> QED
  BY <1>2 DEF UInt64, Val

\* Three digits give a number below the size of the word, and different ones
\* give different numbers, in the order of the digits.
LEMMA Range3 ==
  ASSUME NEW b \in Nat, NEW t \in Nat, NEW x \in Nat, NEW y \in Nat, NEW z \in Nat, x < t, y < b, z < b
  PROVE  (x * b + y) * b + z \in Nat /\ (x * b + y) * b + z < t * (b * b)
<1> DEFINE u == x * b + y
           s == t * b
<1>1. u \in Nat /\ s \in Nat /\ u + 1 <= s
  <2>1. (x + 1) * b <= t * b
    BY SMT
  <2> QED
    BY <2>1, SMT
<1>2. s * b = t * (b * b)
  BY SMT
<1> HIDE DEF u, s
<1>3. u * b \in Nat /\ (u + 1) * b <= s * b /\ (u + 1) * b = u * b + b
  BY <1>1, SMT
<1>4. s * b \in Nat
  BY <1>1, SMT
<1> QED
  BY <1>2, <1>3, <1>4, SMT DEF u

\* The order and the uniqueness of digits.
LEMMA Unique3 ==
  ASSUME NEW x \in Int, NEW y \in Int, NEW z \in Int, 0 <= y, y < B, 0 <= z, z < B,
         NEW u \in Int, NEW v \in Int, NEW w \in Int, 0 <= v, v < B, 0 <= w, w < B
  PROVE  /\ (x * B + y) * B + z = (u * B + v) * B + w => x = u /\ y = v /\ z = w
         /\ (u * B + v) * B + w <= (x * B + y) * B + z <=>
               x > u \/ (x = u /\ (y > v \/ (y = v /\ z >= w)))
BY SMT DEF B

\* A word is a number below 2^64.
LEMMA Words ==
  ASSUME NEW a \in UInt64
  PROVE  Val(a) \in Nat /\ Val(a) < W
<1> DEFINE x == a[1]
           y == a[2]
           z == a[3]
<1>1. x \in Nat /\ y \in Nat /\ z \in Nat /\ x < Top /\ y < B /\ z < B
  <2>1. x \in Int /\ y \in Int /\ z \in Int /\ 0 <= x /\ 0 <= y /\ 0 <= z /\ x < Top /\ y < B /\ z < B
    BY Digits
  <2> HIDE DEF x, y, z
  <2> QED
    BY <2>1, SMT
<1>2. Val(a) = (x * B + y) * B + z
  BY DEF Val
<1>3. B \in Nat /\ Top \in Nat
  BY Sizes
<1> HIDE DEF x, y, z
<1> QED
  BY <1>1, <1>2, <1>3, Range3 DEF W

\* The number determines the word.
LEMMA ValUnique ==
  ASSUME NEW a \in UInt64, NEW b \in UInt64, Val(a) = Val(b)
  PROVE  a = b
<1> DEFINE x == a[1]
           y == a[2]
           z == a[3]
           u == b[1]
           v == b[2]
           w == b[3]
<1>2. (x * B + y) * B + z = (u * B + v) * B + w
  BY DEF Val
<1>3. /\ x \in Int /\ y \in Int /\ z \in Int /\ 0 <= y /\ y < B /\ 0 <= z /\ z < B
      /\ u \in Int /\ v \in Int /\ w \in Int /\ 0 <= v /\ v < B /\ 0 <= w /\ w < B
  BY Digits
<1> HIDE DEF x, y, z, u, v, w
<1>4. x = u /\ y = v /\ z = w
  BY <1>2, <1>3, Unique3
<1>1. a[1] = b[1] /\ a[2] = b[2] /\ a[3] = b[3]
  BY <1>4 DEF x, y, z, u, v, w
<1> QED
  BY <1>1, Digits

\* AtLeast is the order of the numbers.
LEMMA AtLeastIs ==
  ASSUME NEW a \in UInt64, NEW b \in UInt64
  PROVE  AtLeast(a, b) <=> Val(b) <= Val(a)
<1> DEFINE x == a[1]
           y == a[2]
           z == a[3]
           u == b[1]
           v == b[2]
           w == b[3]
<1>1. /\ x \in Int /\ y \in Int /\ z \in Int /\ 0 <= y /\ y < B /\ 0 <= z /\ z < B
      /\ u \in Int /\ v \in Int /\ w \in Int /\ 0 <= v /\ v < B /\ 0 <= w /\ w < B
  BY Digits
<1>2. Val(a) = (x * B + y) * B + z /\ Val(b) = (u * B + v) * B + w
  BY DEF Val
<1>3. AtLeast(a, b) <=> x > u \/ (x = u /\ (y > v \/ (y = v /\ z >= w)))
  BY DEF AtLeast
<1> HIDE DEF x, y, z, u, v, w
<1> QED
  BY <1>1, <1>2, <1>3, Unique3

\* A word congruent to a number below 2^64 is that number.
LEMMA Exact ==
  ASSUME NEW a \in UInt64, NEW x \in Nat, x < W, Congruent(Val(a), x, W)
  PROVE  Val(a) = x
<1> DEFINE r == Val(a)
           w == W
<1>1. r \in Nat /\ r < w /\ w \in Nat \ {0}
  BY Words, Sizes
<1>2. x < w /\ Congruent(r, x, w)
  OBVIOUS
<1> HIDE DEF r, w
<1>3. r = x
  <2>1. r \in 0 .. w - 1 /\ x \in 0 .. w - 1
    BY <1>1, <1>2, SMT
  <2> QED
    BY <1>1, <1>2, <2>1, CongruentUnique
<1> QED
  BY <1>3 DEF r

\* Columns are carried modulo 2^64.
LEMMA CarriedIs ==
  ASSUME NEW x \in Int, NEW y \in Int, NEW z \in Int
  PROVE  /\ Carried(x, y, z) \in UInt64
         /\ Congruent(Val(Carried(x, y, z)), (x * B + y) * B + z, W)
<1> DEFINE c == z \div B
           t3 == z % B
           mid == y + c
           d == mid \div B
           t2 == mid % B
           high == x + d
           e == high \div Top
           t1 == high % Top
<1>1. z = B * c + t3 /\ c \in Int /\ t3 \in 0 .. B - 1
  BY Division, Sizes
<1>2. mid = B * d + t2 /\ d \in Int /\ t2 \in 0 .. B - 1
  BY <1>1, Division, Sizes
<1>3. high = Top * e + t1 /\ e \in Int /\ t1 \in 0 .. Top - 1
  <2>1. high \in Int
    BY <1>2
  <2> HIDE DEF high
  <2> QED
    BY <2>1, Division, Sizes
<1>4. Carried(x, y, z) = <<t1, t2, t3>>
  BY Zenon DEF Carried
<1>5. mid = y + c /\ high = x + d
  OBVIOUS
<1> HIDE DEF c, t3, mid, d, t2, high, e, t1
<1>6. /\ t1 \in Int /\ t2 \in Int /\ t3 \in Int
      /\ 0 <= t1 /\ t1 < Top /\ 0 <= t2 /\ t2 < B /\ 0 <= t3 /\ t3 < B
  BY <1>1, <1>2, <1>3, Sizes, SMT
<1>7. <<t1, t2, t3>> \in UInt64 /\ Val(<<t1, t2, t3>>) = (t1 * B + t2) * B + t3
  BY <1>6, FromDigits
<1>8. (t1 * B + t2) * B + t3 = (x * B + y) * B + z + (-e) * W /\ -e \in Int
  <2> DEFINE b == B
             t == Top
  <2>1. b \in Int /\ t \in Int /\ W = t * (b * b)
    BY Sizes DEF W
  <2>2. t3 = z - b * c /\ t2 = y + c - b * d /\ t1 = x + d - t * e
    <3>1. z = b * c + t3 /\ y + c = b * d + t2 /\ x + d = t * e + t1
      BY <1>1, <1>2, <1>3, <1>5
    <3> HIDE DEF b, t
    <3> QED
      BY <1>1, <1>2, <1>3, <1>6, <2>1, <3>1, SMT
  <2> HIDE DEF b, t
  <2>3. (t1 * b + t2) * b + t3 = (x * b + y) * b + z + (-e) * (t * (b * b))
    BY <1>1, <1>2, <1>3, <1>6, <2>1, <2>2, SMT
  <2> QED
    BY <1>3, <2>1, <2>3 DEF b
<1> QED
  BY <1>4, <1>7, <1>8 DEF Congruent

\* Plus, Minus and the words of constants.
LEMMA PlusIs ==
  ASSUME NEW a \in UInt64, NEW b \in UInt64
  PROVE  Plus(a, b) \in UInt64 /\ Congruent(Val(Plus(a, b)), Val(a) + Val(b), W)
<1> DEFINE a1 == a[1]
           a2 == a[2]
           a3 == a[3]
           b1 == b[1]
           b2 == b[2]
           b3 == b[3]
<1>1. a1 \in Int /\ a2 \in Int /\ a3 \in Int /\ b1 \in Int /\ b2 \in Int /\ b3 \in Int /\ B \in Int
  BY Digits, Sizes
<1>2. /\ Val(a) = (a1 * B + a2) * B + a3 /\ Val(b) = (b1 * B + b2) * B + b3
      /\ Plus(a, b) = Carried(a1 + b1, a2 + b2, a3 + b3)
  BY DEF Val, Plus
<1> HIDE DEF a1, a2, a3, b1, b2, b3
<1> DEFINE x == a1 + b1
           y == a2 + b2
           z == a3 + b3
<1>3. (x * B + y) * B + z = Val(a) + Val(b) /\ x \in Int /\ y \in Int /\ z \in Int
  BY <1>1, <1>2, SMT
<1>4. Plus(a, b) = Carried(x, y, z)
  BY <1>2
<1> HIDE DEF x, y, z
<1> QED
  BY <1>3, <1>4, CarriedIs

\* Differences.
LEMMA MinusIs ==
  ASSUME NEW a \in UInt64, NEW b \in UInt64
  PROVE  Minus(a, b) \in UInt64 /\ Congruent(Val(Minus(a, b)), Val(a) - Val(b), W)
<1> DEFINE a1 == a[1]
           a2 == a[2]
           a3 == a[3]
           b1 == b[1]
           b2 == b[2]
           b3 == b[3]
           x == a1 - b1 + Top
           y == a2 - b2
           z == a3 - b3
<1>1. /\ a1 \in Int /\ a2 \in Int /\ a3 \in Int /\ b1 \in Int /\ b2 \in Int /\ b3 \in Int
      /\ B \in Int /\ Top \in Int
  BY Digits, Sizes
<1>2. /\ Val(a) = (a1 * B + a2) * B + a3 /\ Val(b) = (b1 * B + b2) * B + b3
      /\ Minus(a, b) = Carried(x, y, z)
  BY DEF Val, Minus
<1> HIDE DEF a1, a2, a3, b1, b2, b3
<1>3. (x * B + y) * B + z = Val(a) - Val(b) + 1 * W
  BY <1>1, <1>2, SMT DEF W
<1>4. x \in Int /\ y \in Int /\ z \in Int
  BY <1>1
<1> HIDE DEF x, y, z
<1> DEFINE r == Val(Minus(a, b))
           s == (x * B + y) * B + z
           d == Val(a) - Val(b)
<1>5. Minus(a, b) \in UInt64 /\ Congruent(r, s, W)
  BY <1>2, <1>4, CarriedIs
<1>6. r \in Int /\ s \in Int /\ d \in Int /\ W \in Int
  <2>1. Val(a) \in Int /\ Val(b) \in Int /\ r \in Int /\ W \in Int
    BY <1>5, Words, Sizes
  <2> QED
    BY <1>3, <2>1
<1>7. s = d + 1 * W
  BY <1>3
<1> HIDE DEF r, s, d
<1>9. Congruent(s, d, W)
  BY <1>7 DEF Congruent
<1>8. Congruent(r, d, W)
  BY <1>5, <1>6, <1>9, CongruentTrans
<1> QED
  BY <1>5, <1>8 DEF r, d

\* The word of a number below 2^48.
LEMMA SmallIs ==
  ASSUME NEW k \in Nat, k < B * B
  PROVE  Small(k) \in UInt64 /\ Val(Small(k)) = k
<1> DEFINE y == k \div B
           z == k % B
<1>1. k = B * y + z /\ y \in Int /\ z \in 0 .. B - 1
  BY Division, Sizes
<1>2. Small(k) = <<0, y, z>>
  BY Zenon DEF Small
<1> HIDE DEF y, z
<1>3. 0 <= y /\ y < B /\ 0 <= z /\ z < B /\ z \in Int
  <2> DEFINE b == B
  <2>1. b \in Nat \ {0} /\ k = b * y + z /\ z \in 0 .. b - 1 /\ k < b * b /\ y \in Int
    BY <1>1, Sizes
  <2> HIDE DEF b
  <2>2. b * y < b * b /\ b * (-1) < b * y /\ b \in Int /\ -1 \in Int
    BY <2>1, SMT
  <2>3. y < b /\ -1 < y
    BY <2>1, <2>2, Strict
  <2> QED
    BY <2>1, <2>3, SMT DEF b
<1>4. 0 \in Int /\ 0 <= 0 /\ 0 < Top /\ (0 * B + y) * B + z = k
  <2>1. (0 * B + y) * B + z = k
    BY <1>1, <1>3, Sizes, SMT
  <2> QED
    BY <2>1, Sizes, SMT
<1> QED
  BY <1>1, <1>2, <1>3, <1>4, FromDigits

\* What the numbers are when nothing wraps.
LEMMA PlusExact ==
  ASSUME NEW a \in UInt64, NEW b \in UInt64, Val(a) + Val(b) < W
  PROVE  Plus(a, b) \in UInt64 /\ Val(Plus(a, b)) = Val(a) + Val(b)
<1>1. Plus(a, b) \in UInt64 /\ Congruent(Val(Plus(a, b)), Val(a) + Val(b), W)
  BY PlusIs
<1>2. Val(a) + Val(b) \in Nat
  BY Words
<1> QED
  BY <1>1, <1>2, Exact

\* Differences.
LEMMA MinusExact ==
  ASSUME NEW a \in UInt64, NEW b \in UInt64, Val(b) <= Val(a)
  PROVE  Minus(a, b) \in UInt64 /\ Val(Minus(a, b)) = Val(a) - Val(b)
<1>1. Minus(a, b) \in UInt64 /\ Congruent(Val(Minus(a, b)), Val(a) - Val(b), W)
  BY MinusIs
<1>2. Val(a) - Val(b) \in Nat /\ Val(a) - Val(b) < W
  <2>1. Val(a) \in Nat /\ Val(b) \in Nat /\ Val(a) < W /\ W \in Nat
    BY Words, Sizes
  <2> QED
    BY <2>1
<1> QED
  BY <1>1, <1>2, Exact

\* The half digits of a word.
Half == 4096
LEMMA HalvesAre ==
  ASSUME NEW a \in UInt64
  PROVE  LET x == Halves(a)
         IN  /\ x[1] \in Int /\ x[2] \in Int /\ x[3] \in Int
             /\ x[4] \in Int /\ x[5] \in Int /\ x[6] \in Int
             /\ Val(a) = x[1] + Half * (x[2] + Half * (x[3] + Half * (x[4] + Half * (x[5] + Half * x[6]))))
<1> DEFINE u == a[1]
           v == a[2]
           w == a[3]
           h == Half
           u0 == u % h
           u1 == u \div h
           v0 == v % h
           v1 == v \div h
           w0 == w % h
           w1 == w \div h
<1>1. u \in Int /\ v \in Int /\ w \in Int /\ Val(a) = (u * B + v) * B + w
  BY Digits DEF Val
<1>2. Halves(a) = <<w0, w1, v0, v1, u0, u1>>
  BY SMT DEF Halves, Half
<1>3. h \in Nat \ {0} /\ B = h * h
  BY SMT DEF Half, B
<1> HIDE DEF u, v, w, h
<1>4. /\ u = h * u1 + u0 /\ u1 \in Int /\ u0 \in 0 .. h - 1
      /\ v = h * v1 + v0 /\ v1 \in Int /\ v0 \in 0 .. h - 1
      /\ w = h * w1 + w0 /\ w1 \in Int /\ w0 \in 0 .. h - 1
  BY <1>1, <1>3, Division
<1> HIDE DEF u0, u1, v0, v1, w0, w1
<1>5. /\ u0 \in Int /\ u1 \in Int /\ v0 \in Int /\ v1 \in Int /\ w0 \in Int /\ w1 \in Int /\ h \in Int
  BY <1>3, <1>4, SMT
<1>6. (u * (h * h) + v) * (h * h) + w = w0 + h * (w1 + h * (v0 + h * (v1 + h * (u0 + h * u1))))
  BY <1>4, <1>5, SMTT(60)
<1> QED
  BY <1>1, <1>2, <1>3, <1>5, <1>6 DEF h

\* Times is the product modulo 2^64.
LEMMA TimesIs ==
  ASSUME NEW a \in UInt64, NEW b \in UInt64
  PROVE  Times(a, b) \in UInt64 /\ Congruent(Val(Times(a, b)), Val(a) * Val(b), W)
<1> DEFINE t == Half
           x == Halves(a)
           y == Halves(b)
           x1 == x[1]
           x2 == x[2]
           x3 == x[3]
           x4 == x[4]
           x5 == x[5]
           x6 == x[6]
           y1 == y[1]
           y2 == y[2]
           y3 == y[3]
           y4 == y[4]
           y5 == y[5]
           y6 == y[6]
           c1 == x1 * y1
           c2 == x1 * y2 + x2 * y1 + c1 \div t
           c3 == x1 * y3 + x2 * y2 + x3 * y1 + c2 \div t
           c4 == x1 * y4 + x2 * y3 + x3 * y2 + x4 * y1 + c3 \div t
           c5 == x1 * y5 + x2 * y4 + x3 * y3 + x4 * y2 + x5 * y1 + c4 \div t
           c6 == x1 * y6 + x2 * y5 + x3 * y4 + x4 * y3 + x5 * y2 + x6 * y1 + c5 \div t
           d1 == (c5 % t) + t * (c6 % 16)
           d2 == (c3 % t) + t * (c4 % t)
           d3 == (c1 % t) + t * (c2 % t)
<1>1. Times(a, b) = <<d1, d2, d3>>
  BY SMT DEF Times, Columns, Half
<1>2. /\ Val(a) = x1 + t * (x2 + t * (x3 + t * (x4 + t * (x5 + t * x6))))
      /\ Val(b) = y1 + t * (y2 + t * (y3 + t * (y4 + t * (y5 + t * y6))))
      /\ x1 \in Int /\ x2 \in Int /\ x3 \in Int /\ x4 \in Int /\ x5 \in Int /\ x6 \in Int
      /\ y1 \in Int /\ y2 \in Int /\ y3 \in Int /\ y4 \in Int /\ y5 \in Int /\ y6 \in Int
  BY HalvesAre
<1>3. t \in Nat \ {0} /\ t \in Int /\ t = 16 * 256 /\ B = t * t /\ Top = 16 * t
  BY SMT DEF Half, B, Top
<1> HIDE DEF t, x1, x2, x3, x4, x5, x6, y1, y2, y3, y4, y5, y6
<1> DEFINE e1 == c1 \div t
           r1 == c1 % t
<1>4. c1 = t * e1 + r1 /\ e1 \in Int /\ r1 \in 0 .. t - 1
  <2>1. c1 \in Int
    BY <1>2, SMT
  <2> HIDE DEF c1
  <2> QED
    BY <1>3, <2>1, Division
<1> DEFINE e2 == c2 \div t
           r2 == c2 % t
<1>5. c2 = t * e2 + r2 /\ e2 \in Int /\ r2 \in 0 .. t - 1
  <2> HIDE DEF e1
  <2>1. c2 = x1 * y2 + x2 * y1 + e1
    BY DEF e1
  <2>2. c2 \in Int
    BY <1>2, <1>4, <2>1, SMT
  <2> HIDE DEF c2
  <2> QED
    BY <1>3, <2>2, Division
<1> DEFINE e3 == c3 \div t
           r3 == c3 % t
<1>6. c3 = t * e3 + r3 /\ e3 \in Int /\ r3 \in 0 .. t - 1
  <2> HIDE DEF e2
  <2>1. c3 = x1 * y3 + x2 * y2 + x3 * y1 + e2
    BY DEF e2
  <2>2. c3 \in Int
    BY <1>2, <1>5, <2>1, SMT
  <2> HIDE DEF c3
  <2> QED
    BY <1>3, <2>2, Division
<1> DEFINE e4 == c4 \div t
           r4 == c4 % t
<1>7. c4 = t * e4 + r4 /\ e4 \in Int /\ r4 \in 0 .. t - 1
  <2> HIDE DEF e3
  <2>1. c4 = x1 * y4 + x2 * y3 + x3 * y2 + x4 * y1 + e3
    BY DEF e3
  <2>2. c4 \in Int
    BY <1>2, <1>6, <2>1, SMT
  <2> HIDE DEF c4
  <2> QED
    BY <1>3, <2>2, Division
<1> DEFINE e5 == c5 \div t
           r5 == c5 % t
<1>8. c5 = t * e5 + r5 /\ e5 \in Int /\ r5 \in 0 .. t - 1
  <2> HIDE DEF e4
  <2>1. c5 = x1 * y5 + x2 * y4 + x3 * y3 + x4 * y2 + x5 * y1 + e4
    BY DEF e4
  <2>2. c5 \in Int
    BY <1>2, <1>7, <2>1, SMT
  <2> HIDE DEF c5
  <2> QED
    BY <1>3, <2>2, Division
<1> DEFINE e6 == c6 \div 16
           r6 == c6 % 16
<1>9. c6 = 16 * e6 + r6 /\ e6 \in Int /\ r6 \in 0 .. 15
  <2> HIDE DEF e5
  <2>1. c6 = x1 * y6 + x2 * y5 + x3 * y4 + x4 * y3 + x5 * y2 + x6 * y1 + e5
    BY DEF e5
  <2>2. c6 \in Int
    BY <1>2, <1>8, <2>1, SMT
  <2> HIDE DEF c6
  <2> QED
    BY <2>2, SMT
<1>10. /\ x1 * y1 = t * e1 + r1
       /\ x1 * y2 + x2 * y1 + e1 = t * e2 + r2
       /\ x1 * y3 + x2 * y2 + x3 * y1 + e2 = t * e3 + r3
       /\ x1 * y4 + x2 * y3 + x3 * y2 + x4 * y1 + e3 = t * e4 + r4
       /\ x1 * y5 + x2 * y4 + x3 * y3 + x4 * y2 + x5 * y1 + e4 = t * e5 + r5
       /\ x1 * y6 + x2 * y5 + x3 * y4 + x4 * y3 + x5 * y2 + x6 * y1 + e5 = 16 * e6 + r6
  BY <1>4, <1>5, <1>6, <1>7, <1>8, <1>9, Zenon
<1>11. d1 = r5 + t * r6 /\ d2 = r3 + t * r4 /\ d3 = r1 + t * r2
  BY Zenon
<1> HIDE DEF c1, c2, c3, c4, c5, c6, e1, e2, e3, e4, e5, e6, r1, r2, r3, r4, r5, r6, d1, d2, d3
<1>12. /\ r1 \in Int /\ r2 \in Int /\ r3 \in Int /\ r4 \in Int /\ r5 \in Int /\ r6 \in Int
       /\ 0 <= r1 /\ r1 < t /\ 0 <= r2 /\ r2 < t /\ 0 <= r3 /\ r3 < t /\ 0 <= r4 /\ r4 < t
       /\ 0 <= r5 /\ r5 < t /\ 0 <= r6 /\ r6 < 16
  BY <1>3, <1>4, <1>5, <1>6, <1>7, <1>8, <1>9, SMT
<1>13. /\ d1 \in Int /\ d2 \in Int /\ d3 \in Int
       /\ 0 <= d1 /\ d1 < 16 * t /\ 0 <= d2 /\ d2 < t * t /\ 0 <= d3 /\ d3 < t * t
  <2>1. \A r, s \in Int : 0 <= r /\ r < t /\ 0 <= s /\ s < t => 0 <= r + t * s /\ r + t * s < t * t
    <3> TAKE r, s \in Int
    <3> HAVE 0 <= r /\ r < t /\ 0 <= s /\ s < t
    <3>1. s * t <= (t - 1) * t
      BY <1>3, Monotone
    <3>2. 0 <= t * s /\ t * s = s * t /\ (t - 1) * t = t * t - t
      BY <1>3, SMT
    <3> QED
      BY <1>3, <3>1, <3>2, SMT
  <2>2. 0 <= r5 + t * r6 /\ r5 + t * r6 < 16 * t
    BY <1>3, <1>12, SMT
  <2>3. d1 \in Int /\ d2 \in Int /\ d3 \in Int
    BY <1>3, <1>11, <1>12, SMT
  <2> QED
    BY <1>11, <1>12, <2>1, <2>2, <2>3
<1>14. <<d1, d2, d3>> \in UInt64 /\ Val(<<d1, d2, d3>>) = (d1 * B + d2) * B + d3
  BY <1>3, <1>13, FromDigits
<1> DEFINE X == x1 + t * (x2 + t * (x3 + t * (x4 + t * (x5 + t * x6))))
           Y == y1 + t * (y2 + t * (y3 + t * (y4 + t * (y5 + t * y6))))
           p1 == x1 * y1
           p2 == x1 * y2 + x2 * y1
           p3 == x1 * y3 + x2 * y2 + x3 * y1
           p4 == x1 * y4 + x2 * y3 + x3 * y2 + x4 * y1
           p5 == x1 * y5 + x2 * y4 + x3 * y3 + x4 * y2 + x5 * y1
           p6 == x1 * y6 + x2 * y5 + x3 * y4 + x4 * y3 + x5 * y2 + x6 * y1
           k == x2 * y6 + x3 * y5 + x4 * y4 + x5 * y3 + x6 * y2
                + t * (x3 * y6 + x4 * y5 + x5 * y4 + x6 * y3
                       + t * (x4 * y6 + x5 * y5 + x6 * y4 + t * (x5 * y6 + x6 * y5 + t * (x6 * y6))))
           low == p1 + t * (p2 + t * (p3 + t * (p4 + t * (p5 + t * p6))))
           high == t * (t * (t * (t * (t * (t * k)))))
           word == (16 * t) * ((t * t) * (t * t))
<1>15. X * Y = low + high
  BY <1>2, <1>3, SMTT(60)
<1>16. /\ p1 \in Int /\ p2 \in Int /\ p3 \in Int /\ p4 \in Int /\ p5 \in Int /\ p6 \in Int /\ k \in Int
  BY <1>2, <1>3, SMT
<1>17. /\ r1 = p1 - t * e1 /\ r2 = p2 + e1 - t * e2 /\ r3 = p3 + e2 - t * e3
       /\ r4 = p4 + e3 - t * e4 /\ r5 = p5 + e4 - t * e5 /\ r6 = p6 + e5 - 16 * e6
  <2>1. /\ p1 = t * e1 + r1 /\ p2 + e1 = t * e2 + r2 /\ p3 + e2 = t * e3 + r3
        /\ p4 + e3 = t * e4 + r4 /\ p5 + e4 = t * e5 + r5 /\ p6 + e5 = 16 * e6 + r6
    BY <1>10
  <2> HIDE DEF p1, p2, p3, p4, p5, p6
  <2> QED
    BY <1>3, <1>4, <1>5, <1>6, <1>7, <1>8, <1>9, <1>12, <1>16, <2>1, SMT
<1> HIDE DEF p1, p2, p3, p4, p5, p6, k
<1>18. (d1 * (t * t) + d2) * (t * t) + d3 = low - e6 * word
  <2>1. /\ e1 \in Int /\ e2 \in Int /\ e3 \in Int /\ e4 \in Int /\ e5 \in Int /\ e6 \in Int /\ t \in Int
    BY <1>3, <1>4, <1>5, <1>6, <1>7, <1>8, <1>9
  <2>2. (((p5 + e4 - t * e5) + t * (p6 + e5 - 16 * e6)) * (t * t)
          + ((p3 + e2 - t * e3) + t * (p4 + e3 - t * e4))) * (t * t)
          + ((p1 - t * e1) + t * (p2 + e1 - t * e2)) = low - e6 * word
    BY <1>16, <2>1, SMT
  <2> HIDE DEF low, word
  <2> QED
    BY <1>11, <1>17, <2>2, Zenon
<1>19. high = (256 * k) * word
  <2> DEFINE z == t * (t * (t * (t * (t * k))))
  <2>1. t \in Int /\ k \in Int
    BY <1>3, <1>16
  <2>2. (16 * 256) * z = (256 * k) * word
    BY <2>1, SMT
  <2>3. high = t * z
    OBVIOUS
  <2> HIDE DEF z, high, word
  <2> QED
    BY <1>3, <2>2, <2>3
<1> DEFINE h == 0 - (e6 + 256 * k)
<1>20. (d1 * (t * t) + d2) * (t * t) + d3 = X * Y + h * word
  <2>1. low \in Int /\ word \in Int /\ e6 \in Int
    BY <1>3, <1>9, <1>16, SMT
  <2> HIDE DEF low, word, high, X, Y
  <2>2. X * Y = low + (256 * k) * word
    BY <1>15, <1>19
  <2>3. low - e6 * word = (low + (256 * k) * word) + (0 - (e6 + 256 * k)) * word
    BY <1>16, <2>1, SMT
  <2> QED
    BY <1>18, <2>2, <2>3
<1>21. h \in Int
  BY <1>9, <1>16, SMT
<1>22. Val(<<d1, d2, d3>>) = Val(a) * Val(b) + h * W
  <2> HIDE DEF h
  <2>1. Val(a) = X /\ Val(b) = Y /\ W = word
    BY <1>2, <1>3, Zenon DEF W
  <2>2. Val(<<d1, d2, d3>>) = (d1 * (t * t) + d2) * (t * t) + d3
    BY <1>3, <1>14
  <2> HIDE DEF X, Y, word
  <2> QED
    BY <1>20, <2>1, <2>2
<1> HIDE DEF h
<1> QED
  BY <1>1, <1>14, <1>21, <1>22 DEF Congruent

\* The product when nothing wraps.
LEMMA TimesExact ==
  ASSUME NEW a \in UInt64, NEW b \in UInt64, Val(a) * Val(b) < W
  PROVE  Times(a, b) \in UInt64 /\ Val(Times(a, b)) = Val(a) * Val(b)
<1>1. Times(a, b) \in UInt64 /\ Congruent(Val(Times(a, b)), Val(a) * Val(b), W)
  BY TimesIs
<1>2. Val(a) * Val(b) \in Nat
  BY Words, ProductType
<1> QED
  BY <1>1, <1>2, Exact

\* One round of Horner's rule modulo p.
LEMMA Horner ==
  ASSUME NEW p \in Nat \ {0}, NEW x \in Int, NEW u \in Int, NEW b \in Int, NEW y \in Int,
         Congruent(u, x, p)
  PROVE  /\ (u * (b % p) + y) % p \in Int
         /\ Congruent((u * (b % p) + y) % p, x * b + y, p)
<1> DEFINE c == b % p
           s == u * c + y
           r == s % p
           t == x * b + y
<1>1. c \in Int /\ Congruent(c, b, p)
  <2>1. c \in 0 .. p - 1 /\ Congruent(c, b, p)
    BY CongruentRemainder
  <2> QED
    BY <2>1
<1> HIDE DEF c
<1>2. p \in Int
  OBVIOUS
<1>3. u * c \in Int /\ x * b \in Int /\ Congruent(u * c, x * b, p)
  <2>1. u * c \in Int /\ x * b \in Int
    BY <1>1, SMT
  <2> QED
    BY <1>1, <1>2, <2>1, CongruentProduct, Zenon
<1>4. Congruent(y, y, p)
  BY <1>2, CongruentSelf
<1>5. s \in Int /\ t \in Int /\ Congruent(s, t, p)
  <2>1. s \in Int /\ t \in Int
    BY <1>3
  <2> QED
    BY <1>2, <1>3, <1>4, <2>1, CongruentSum, Zenon
<1> HIDE DEF s, t
<1>6. r \in 0 .. p - 1 /\ Congruent(r, s, p)
  BY <1>5, CongruentRemainder
<1>7. r \in Int
  BY <1>6
<1> HIDE DEF r
<1>8. Congruent(r, t, p)
  BY <1>2, <1>5, <1>6, <1>7, CongruentTrans
<1> QED
  BY <1>7, <1>8 DEF r, s, t, c

\* Rem is the remainder.
LEMMA RemIs ==
  ASSUME NEW a \in UInt64, NEW p \in Nat \ {0}
  PROVE  Rem(a, p) = Val(a) % p /\ Rem(a, p) \in 0 .. p - 1
<1> DEFINE u == a[1]
           v == a[2]
           w == a[3]
           u0 == u % p
           hi == (u0 * (B % p) + v) % p
           lo == (hi * (B % p) + w) % p
           n == u * B + v
           x == n * B + w
<1>1. u \in Int /\ v \in Int /\ w \in Int /\ Val(a) = x /\ B \in Int
  BY Digits, Sizes DEF Val
<1>2. Rem(a, p) = lo
  BY Zenon DEF Rem
<1> HIDE DEF u, v, w
<1>3. u0 \in 0 .. p - 1 /\ Congruent(u0, u, p)
  BY <1>1, CongruentRemainder
<1>4. u0 \in Int
  BY <1>3
<1> HIDE DEF u0
<1>5. hi \in Int /\ Congruent(hi, n, p)
  BY <1>1, <1>3, <1>4, Horner
<1>6. n \in Int
  BY <1>1
<1> HIDE DEF hi, n
<1>7. lo \in Int /\ Congruent(lo, x, p)
  BY <1>1, <1>5, <1>6, Horner
<1> DEFINE s == hi * (B % p) + w
<1>8. s \in Int
  <2>1. B % p \in Int
    BY <1>1, Division, SMT
  <2> DEFINE c == B % p
  <2> HIDE DEF c
  <2> QED
    BY <1>1, <1>5, <2>1 DEF c
<1>9. lo \in 0 .. p - 1
  <2> HIDE DEF s
  <2>1. s % p \in 0 .. p - 1
    BY <1>8, CongruentRemainder
  <2> QED
    BY <2>1 DEF s
<1>10. x \in Int
  BY <1>1, <1>6
<1> HIDE DEF lo, x
<1>11. Congruent(x, lo, p) /\ lo \in Nat /\ lo < p
  BY <1>7, <1>9, <1>10, CongruentSym
<1>12. x % p = lo
  BY <1>10, <1>11, RemainderOf
<1> QED
  BY <1>1, <1>2, <1>9, <1>12

-----------------------------------------------------------------------------
\* The powers of two that Mod uses.
Power(d) == 2 ^ d
LEMMA Powers ==
  /\ Power(0) = 1 /\ Power(17) = 2 * Top
  /\ \A d \in 0 .. 16 : Power(d) \in Nat \ {0} /\ Power(d) <= Top /\ Power(d + 1) = 2 * Power(d)
<1>1. Power(0) = 1 /\ Power(17) = 2 * Top
  BY SMT DEF Power, Top
<1>2. ASSUME NEW d \in 0 .. 16
      PROVE  Power(d) \in Nat \ {0} /\ Power(d) <= Top /\ Power(d + 1) = 2 * Power(d)
  <2>1. d = 0 => 2 ^ d \in Nat \ {0} /\ 2 ^ d <= 65536 /\ 2 ^ (d + 1) = 2 * 2 ^ d
    BY SMT
  <2>2. d = 1 => 2 ^ d \in Nat \ {0} /\ 2 ^ d <= 65536 /\ 2 ^ (d + 1) = 2 * 2 ^ d
    BY SMT
  <2>3. d = 2 => 2 ^ d \in Nat \ {0} /\ 2 ^ d <= 65536 /\ 2 ^ (d + 1) = 2 * 2 ^ d
    BY SMT
  <2>4. d = 3 => 2 ^ d \in Nat \ {0} /\ 2 ^ d <= 65536 /\ 2 ^ (d + 1) = 2 * 2 ^ d
    BY SMT
  <2>5. d = 4 => 2 ^ d \in Nat \ {0} /\ 2 ^ d <= 65536 /\ 2 ^ (d + 1) = 2 * 2 ^ d
    BY SMT
  <2>6. d = 5 => 2 ^ d \in Nat \ {0} /\ 2 ^ d <= 65536 /\ 2 ^ (d + 1) = 2 * 2 ^ d
    BY SMT
  <2>7. d = 6 => 2 ^ d \in Nat \ {0} /\ 2 ^ d <= 65536 /\ 2 ^ (d + 1) = 2 * 2 ^ d
    BY SMT
  <2>8. d = 7 => 2 ^ d \in Nat \ {0} /\ 2 ^ d <= 65536 /\ 2 ^ (d + 1) = 2 * 2 ^ d
    BY SMT
  <2>9. d = 8 => 2 ^ d \in Nat \ {0} /\ 2 ^ d <= 65536 /\ 2 ^ (d + 1) = 2 * 2 ^ d
    BY SMT
  <2>10. d = 9 => 2 ^ d \in Nat \ {0} /\ 2 ^ d <= 65536 /\ 2 ^ (d + 1) = 2 * 2 ^ d
    BY SMT
  <2>11. d = 10 => 2 ^ d \in Nat \ {0} /\ 2 ^ d <= 65536 /\ 2 ^ (d + 1) = 2 * 2 ^ d
    BY SMT
  <2>12. d = 11 => 2 ^ d \in Nat \ {0} /\ 2 ^ d <= 65536 /\ 2 ^ (d + 1) = 2 * 2 ^ d
    BY SMT
  <2>13. d = 12 => 2 ^ d \in Nat \ {0} /\ 2 ^ d <= 65536 /\ 2 ^ (d + 1) = 2 * 2 ^ d
    BY SMT
  <2>14. d = 13 => 2 ^ d \in Nat \ {0} /\ 2 ^ d <= 65536 /\ 2 ^ (d + 1) = 2 * 2 ^ d
    BY SMT
  <2>15. d = 14 => 2 ^ d \in Nat \ {0} /\ 2 ^ d <= 65536 /\ 2 ^ (d + 1) = 2 * 2 ^ d
    BY SMT
  <2>16. d = 15 => 2 ^ d \in Nat \ {0} /\ 2 ^ d <= 65536 /\ 2 ^ (d + 1) = 2 * 2 ^ d
    BY SMT
  <2>17. d = 16 => 2 ^ d \in Nat \ {0} /\ 2 ^ d <= 65536 /\ 2 ^ (d + 1) = 2 * 2 ^ d
    BY SMT
  <2> QED
    BY <2>1, <2>2, <2>3, <2>4, <2>5, <2>6, <2>7, <2>8, <2>9, <2>10, <2>11, <2>12, <2>13, <2>14, <2>15, <2>16, <2>17, SMT DEF Power, Top
<1> QED
  BY <1>1, <1>2

\* The step of the long division at 2^d.
DivisionStep(m, d, x) == LET q == Times(m, Small(2 ^ d)) IN IF AtLeast(x, q) THEN Minus(x, q) ELSE x
\* What Mod chooses.
AreRemainders(r, a, m) ==
  r = [d \in 0 .. 17 |->
         IF d = 17 THEN a
         ELSE LET x == r[d + 1]
                  q == Times(m, Small(2 ^ d))
              IN  IF AtLeast(x, q) THEN Minus(x, q) ELSE x]

\* The moduli of 48 bits.
Divisor(m) == Val(m) * Top < W /\ W <= Val(m) * (2 * Top)

\* The step keeps words and, where x is below twice the multiple of m, gives a
\* number below it, congruent to x modulo m.
LEMMA DivisionStepIs ==
  ASSUME NEW m \in UInt64, NEW d \in 0 .. 16, NEW x \in UInt64
  PROVE  /\ DivisionStep(m, d, x) \in UInt64
         /\ Divisor(m) /\ Val(x) < Val(m) * Power(d + 1) =>
              /\ Val(DivisionStep(m, d, x)) < Val(m) * Power(d)
              /\ Congruent(Val(DivisionStep(m, d, x)), Val(x), Val(m))
<1> DEFINE k == Power(d)
           q == Times(m, Small(k))
           y == DivisionStep(m, d, x)
           M == Val(m)
<1>1. k \in Nat \ {0} /\ k <= Top /\ Power(d + 1) = 2 * k
  BY Powers
<1>2. y = IF AtLeast(x, q) THEN Minus(x, q) ELSE x
  BY Zenon DEF DivisionStep, Power
<1> HIDE DEF k, y
<1>3. k < B * B
  <2>1. Top < B * B /\ B * B \in Int /\ Top \in Int
    BY SMT DEF B, Top
  <2> DEFINE b == B * B
  <2> HIDE DEF b
  <2> QED
    BY <1>1, <2>1, SMT DEF b
<1>4. Small(k) \in UInt64 /\ Val(Small(k)) = k
  BY <1>1, <1>3, SmallIs
<1>5. q \in UInt64
  BY <1>4, TimesIs
<1>6. y \in UInt64
  BY <1>2, <1>5, MinusIs
<1>7. ASSUME Divisor(m), Val(x) < M * Power(d + 1)
      PROVE  Val(y) < M * k /\ Congruent(Val(y), Val(x), M)
  <2>1. M \in Nat /\ M * k \in Nat /\ Val(x) \in Nat /\ M \in Int /\ Val(x) \in Int
    BY <1>1, Words, ProductType, SMT
  <2>2. M * k < W
    <3> DEFINE top == W
    <3>1. top \in Nat /\ M * Top < top /\ Top \in Nat
      BY <1>7, Sizes DEF Divisor
    <3> HIDE DEF M, top
    <3>2. k * M <= Top * M /\ Top * M = M * Top
      BY <1>1, <2>1, <3>1, Monotone, SMT
    <3>3. k * M < top
      BY <1>1, <2>1, <3>1, <3>2, SMT
    <3> QED
      BY <1>1, <2>1, <3>3, SMT DEF top
  <2>3. Val(q) = M * k
    BY <1>4, <2>2, TimesExact
  <2>4. Val(x) < 2 * (M * k)
    <3>1. M * (2 * k) = 2 * (M * k)
      BY <1>1, <2>1, SMT
    <3> QED
      BY <1>1, <1>7, <3>1
  <2> HIDE DEF q
  <2>5. CASE AtLeast(x, q)
    <3>1. Val(q) <= Val(x)
      BY <1>5, <2>5, AtLeastIs
    <3>2. Val(y) = Val(x) - M * k
      BY <1>2, <1>5, <2>3, <2>5, <3>1, MinusExact
    <3> DEFINE u == Val(x)
               v == Val(y)
               j == 0 - k
    <3>3. u \in Nat /\ M \in Nat /\ k \in Nat /\ v = u - M * k /\ u < 2 * (M * k) /\ j = 0 - k
      BY <1>1, <2>1, <2>4, <3>2
    <3> HIDE DEF u, v, j, M
    <3>4. v = u + j * M /\ j \in Int
      BY <3>3, SMT
    <3>5. v < M * k
      BY <3>3, SMT
    <3> QED
      BY <3>4, <3>5 DEF Congruent, u, v
  <2>6. CASE ~AtLeast(x, q)
    <3>1. ~(Val(q) <= Val(x)) /\ y = x
      BY <1>2, <1>5, <2>6, AtLeastIs
    <3>2. Val(y) = Val(x) /\ Val(x) < M * k
      BY <2>1, <2>3, <3>1
    <3> QED
      BY <2>1, <3>2, CongruentSelf
  <2> QED
    BY <2>5, <2>6
<1> QED
  BY <1>6, <1>7 DEF y, k

\* Mod's long division runs through words.
LEMMA RemaindersExist ==
  ASSUME NEW a \in UInt64, NEW m \in UInt64
  PROVE  \E r : AreRemainders(r, a, m)
<1> DEFINE next == [i \in 1 .. 17 |-> [x \in UInt64 |-> DivisionStep(m, 17 - i, x)]]
<1>1. ASSUME NEW i \in 1 .. 17, NEW x \in UInt64
      PROVE  next[i][x] = DivisionStep(m, 17 - i, x) /\ next[i][x] \in UInt64
  <2>1. 17 - i \in 0 .. 16
    OBVIOUS
  <2>2. DivisionStep(m, 17 - i, x) \in UInt64
    BY <2>1, DivisionStepIs
  <2> QED
    BY <2>2
<1> HIDE DEF next
<1>2. PICK g \in [0 .. 17 -> UInt64] : AreIterates(g, a, next, 17)
  BY <1>1, IteratesExist
<1>3. \A i \in 0 .. 17 : g[i] = IF i = 0 THEN a ELSE next[i][g[i - 1]]
  BY <1>2 DEF AreIterates
<1> DEFINE r == [d \in 0 .. 17 |-> g[17 - d]]
<1>4. \A d \in 0 .. 17 : r[d] = IF d = 17 THEN a ELSE DivisionStep(m, d, r[d + 1])
  <2> TAKE d \in 0 .. 17
  <2>1. CASE d = 17
    BY <1>3, <2>1
  <2>2. CASE d # 17
    <3>1. 17 - d \in 1 .. 17 /\ d + 1 \in 0 .. 17 /\ (17 - d) - 1 = 17 - (d + 1) /\ 17 - (17 - d) = d
          /\ 17 - (d + 1) \in 0 .. 17 /\ 17 - d \in 0 .. 17 /\ 17 - d # 0
      BY <2>2
    <3>2. r[d] = g[17 - d] /\ r[d + 1] = g[17 - (d + 1)]
      BY <3>1
    <3> DEFINE i == 17 - d
               y == g[17 - (d + 1)]
    <3>3. y \in UInt64 /\ i \in 1 .. 17 /\ i # 0 /\ i \in 0 .. 17 /\ g[i - 1] = y /\ 17 - i = d
      BY <1>2, <3>1
    <3>4. g[i] = next[i][y]
      BY <1>3, <3>3
    <3>5. next[i][y] = DivisionStep(m, 17 - i, y)
      BY <1>1, <3>3
    <3> QED
      BY <2>2, <3>2, <3>3, <3>4, <3>5
  <2> QED
    BY <2>1, <2>2
<1>5. r = [d \in 0 .. 17 |-> IF d = 17 THEN a ELSE DivisionStep(m, d, r[d + 1])]
  <2>1. r = [d \in 0 .. 17 |-> r[d]]
    OBVIOUS
  <2> HIDE DEF r
  <2> QED
    BY <1>4, <2>1
<1> HIDE DEF r
<1>6. AreRemainders(r, a, m)
  BY <1>5, Zenon DEF AreRemainders, DivisionStep
<1> QED
  BY <1>6

\* Its last remainder is that of a, for the 48-bit modulus m of the code.
LEMMA RemaindersEnd ==
  ASSUME NEW a \in UInt64, NEW m \in UInt64, Divisor(m), NEW r, AreRemainders(r, a, m)
  PROVE  r[0] \in UInt64 /\ Val(r[0]) = Val(a) % Val(m) /\ Val(r[0]) < Val(m)
<1> DEFINE M == Val(m)
<1>2. AreRemainders(r, a, m)
  OBVIOUS
<1>3. r[17] = a /\ \A d \in 0 .. 16 : r[d] = DivisionStep(m, d, r[d + 1])
  <2>1. r = [d \in 0 .. 17 |-> IF d = 17 THEN a ELSE DivisionStep(m, d, r[d + 1])]
    BY <1>2, Zenon DEF AreRemainders, DivisionStep
  <2>2. \A d \in 0 .. 17 : r[d] = IF d = 17 THEN a ELSE DivisionStep(m, d, r[d + 1])
    BY <2>1, Zenon
  <2>3. r[17] = a
    <3>1. 17 \in 0 .. 17
      OBVIOUS
    <3> QED
      BY <2>2, <3>1
  <2>4. \A d \in 0 .. 16 : d \in 0 .. 17 /\ d # 17
    OBVIOUS
  <2> QED
    BY <2>2, <2>3, <2>4
<1>4. M \in Nat /\ Val(a) \in Nat /\ Val(a) < W /\ W \in Nat
  BY Words, Sizes
<1> DEFINE Good(d) == r[d] \in UInt64 /\ Val(r[d]) < M * Power(d) /\ Congruent(Val(r[d]), Val(a), M)
           S == {i \in Nat : i <= 17 => Good(17 - i)}
<1>5. 0 \in S
  <2>1. Val(a) < M * Power(17)
    BY <1>4, Powers DEF Divisor
  <2>2. Congruent(Val(a), Val(a), M)
    BY <1>4, CongruentSelf
  <2>3. Good(17)
    BY <1>3, <2>1, <2>2
  <2> QED
    BY <2>3
<1>6. \A i \in Nat : i \in S => i + 1 \in S
  <2> SUFFICES ASSUME NEW i \in Nat, Good(17 - i), i + 1 <= 17 PROVE Good(17 - (i + 1))
    OBVIOUS
  <2> DEFINE d == 17 - (i + 1)
             x == r[d + 1]
  <2>1. d \in 0 .. 16 /\ d + 1 = 17 - i
    OBVIOUS
  <2>2. x \in UInt64 /\ Val(x) < M * Power(d + 1) /\ Congruent(Val(x), Val(a), M)
    BY <2>1
  <2>3. r[d] = DivisionStep(m, d, x)
    BY <1>3, <2>1
  <2> HIDE DEF x, d
  <2>4. DivisionStep(m, d, x) \in UInt64
    BY <2>1, <2>2, DivisionStepIs
  <2>5. Val(DivisionStep(m, d, x)) < M * Power(d) /\ Congruent(Val(DivisionStep(m, d, x)), Val(x), M)
    BY <2>1, <2>2, DivisionStepIs, Zenon
  <2> DEFINE y == DivisionStep(m, d, x)
  <2> HIDE DEF y
  <2>6. Val(y) \in Int /\ Val(x) \in Int /\ Val(a) \in Int /\ M \in Int
    BY <1>4, <2>2, <2>4, Words DEF y
  <2>7. Congruent(Val(y), Val(a), M)
    BY <2>2, <2>5, <2>6, CongruentTrans DEF y
  <2>8. Good(d)
    BY <2>3, <2>4, <2>5, <2>7 DEF y
  <2> QED
    BY <2>8 DEF d
<1>7. Good(0)
  <2>1. Nat \subseteq S
    <3> HIDE DEF S
    <3> QED
      BY <1>5, <1>6, SetInduction
  <2>3. 17 - 17 = 0 /\ 17 <= 17 /\ 17 \in Nat
    OBVIOUS
  <2> HIDE DEF Good
  <2> QED
    BY <2>1, <2>3
<1>8. Val(r[0]) < M
  <2>1. Val(r[0]) < M * Power(0) /\ Power(0) = 1
    BY <1>7, Powers
  <2> QED
    BY <1>4, <2>1
<1> DEFINE v == Val(r[0])
<1>9. v \in Nat /\ v < M /\ Congruent(v, Val(a), M)
  BY <1>7, <1>8, Words
<1> HIDE DEF v
<1>10. M \in Nat \ {0} /\ v \in Int /\ Val(a) \in Int /\ M \in Int
  BY <1>4, <1>9, SMT
<1>11. Val(a) % M = v
  <2>1. Congruent(Val(a), v, M)
    BY <1>9, <1>10, CongruentSym
  <2> HIDE DEF M
  <2> QED
    BY <1>9, <1>10, <2>1, RemainderOf, Zenon
<1> QED
  BY <1>7, <1>8, <1>11 DEF v

\* So Mod is the remainder.
LEMMA ModIs ==
  ASSUME NEW a \in UInt64, NEW m \in UInt64, Divisor(m)
  PROVE  Mod(a, m) \in UInt64 /\ Val(Mod(a, m)) = Val(a) % Val(m) /\ Val(Mod(a, m)) < Val(m)
<1> DEFINE r == CHOOSE r : AreRemainders(r, a, m)
<1>1. Mod(a, m) = r[0]
  BY Zenon DEF Mod, AreRemainders
<1>2. AreRemainders(r, a, m)
  BY RemaindersExist, Zenon
<1> QED
  BY <1>1, <1>2, RemaindersEnd

-----------------------------------------------------------------------------
\* What Dec chooses.
AreDecimals(w, s) ==
  w = [i \in 0 .. Len(s) |-> IF i = 0 THEN Zero
                             ELSE Plus(Times(w[i - 1], Small(Million)), Small(s[i]))]

\* The size of a group.
LEMMA MillionIs == Million \in Nat /\ 1 < Million /\ Million < B * B
BY SMT DEF Million, B

\* Words run through a decimal of any length.
LEMMA DecimalsExist ==
  ASSUME NEW s, Len(s) \in Nat, \A i \in 1 .. Len(s) : s[i] \in Nat /\ s[i] < Million
  PROVE  \E w : AreDecimals(w, s)
<1> DEFINE next == [i \in 1 .. Len(s) |-> [x \in UInt64 |-> Plus(Times(x, Small(Million)), Small(s[i]))]]
<1>1. ASSUME NEW i \in 1 .. Len(s), NEW x \in UInt64
      PROVE  next[i][x] = Plus(Times(x, Small(Million)), Small(s[i])) /\ next[i][x] \in UInt64
  <2>1. Small(Million) \in UInt64
    BY MillionIs, SmallIs
  <2>2. Small(s[i]) \in UInt64
    <3> DEFINE b == B * B
    <3>1. s[i] \in Nat /\ s[i] < Million /\ Million \in Nat /\ Million < b /\ b \in Nat
      BY MillionIs, Sizes, ProductType
    <3> HIDE DEF b
    <3>2. s[i] < b
      BY <3>1
    <3> QED
      BY <3>1, <3>2, SmallIs DEF b
  <2>3. Plus(Times(x, Small(Million)), Small(s[i])) \in UInt64
    BY <2>1, <2>2, TimesIs, PlusIs
  <2> QED
    BY <2>3
<1> HIDE DEF next
<1>2. Zero \in UInt64
  <2>1. 0 \in Nat /\ 0 < B * B
    BY SMT DEF B
  <2> QED
    BY <2>1, SmallIs DEF Zero
<1>3. PICK w \in [0 .. Len(s) -> UInt64] : AreIterates(w, Zero, next, Len(s))
  BY <1>1, <1>2, IteratesExist
<1>4. \A i \in 0 .. Len(s) : w[i] = IF i = 0 THEN Zero ELSE next[i][w[i - 1]]
  BY <1>3, Zenon DEF AreIterates
<1>5. \A i \in 0 .. Len(s) : w[i] = IF i = 0 THEN Zero
                                   ELSE Plus(Times(w[i - 1], Small(Million)), Small(s[i]))
  <2> SUFFICES ASSUME NEW i \in 0 .. Len(s), i # 0
               PROVE  w[i] = Plus(Times(w[i - 1], Small(Million)), Small(s[i]))
    BY <1>4
  <2>1. i \in 1 .. Len(s) /\ i - 1 \in 0 .. Len(s)
    OBVIOUS
  <2>2. w[i - 1] \in UInt64
    BY <2>1
  <2> QED
    BY <1>1, <1>4, <2>1, <2>2
<1>6. w = [i \in 0 .. Len(s) |-> IF i = 0 THEN Zero
                                 ELSE Plus(Times(w[i - 1], Small(Million)), Small(s[i]))]
  <2>1. w = [i \in 0 .. Len(s) |-> w[i]]
    OBVIOUS
  <2> QED
    BY <1>5, <2>1
<1> QED
  BY <1>6 DEF AreDecimals

\* The value of three groups.
Decimal(x, y, z) == (x * Million + y) * Million + z

\* What they end with is that value.
LEMMA DecimalsEnd ==
  ASSUME NEW x \in Nat, NEW y \in Nat, NEW z \in Nat, x < Million, y < Million, z < Million,
         Decimal(x, y, z) < W, NEW w, AreDecimals(w, <<x, y, z>>)
  PROVE  w[3] \in UInt64 /\ Val(w[3]) = Decimal(x, y, z)
<1> DEFINE s == <<x, y, z>>
           m == Million
           M == Small(m)
           n1 == x
           n2 == n1 * m + y
           n3 == n2 * m + z
<1>1. M \in UInt64 /\ Val(M) = m /\ m \in Nat /\ 1 < m
  BY MillionIs, SmallIs
<1>2. Zero \in UInt64 /\ Val(Zero) = 0
  <2>1. 0 \in Nat /\ 0 < B * B
    BY SMT DEF B
  <2> QED
    BY <2>1, SmallIs DEF Zero
<1>3. w[0] = Zero /\ \A i \in 1 .. 3 : w[i] = Plus(Times(w[i - 1], M), Small(s[i]))
  <2>1. \A i \in 0 .. 3 : w[i] = IF i = 0 THEN Zero ELSE Plus(Times(w[i - 1], M), Small(s[i]))
    <3>1. w = [i \in 0 .. Len(s) |-> IF i = 0 THEN Zero ELSE Plus(Times(w[i - 1], M), Small(s[i]))]
      BY Zenon DEF AreDecimals
    <3>2. Len(s) = 3
      OBVIOUS
    <3> HIDE DEF s, M
    <3> QED
      BY <3>1, <3>2, Zenon
  <2> HIDE DEF s, M
  <2> QED
    BY <2>1
<1>4. n2 \in Nat /\ n3 \in Nat /\ n1 <= n2 /\ n2 <= n3 /\ n3 < W /\ W \in Nat
  <2> DEFINE top == W
  <2>1. top \in Nat /\ n3 < top
    BY Sizes DEF Decimal
  <2>2. n2 \in Nat /\ n3 \in Nat
    BY <1>1, SMT
  <2>3. \A j, k \in Nat : j <= j * m + k
    BY <1>1, SMT
  <2>4. n1 <= n2 /\ n2 <= n3
    <3> HIDE DEF m
    <3>1. n1 <= n2
      BY <2>3
    <3> HIDE DEF n2
    <3> QED
      BY <2>2, <2>3, <3>1
  <2> HIDE DEF top
  <2> QED
    BY <2>1, <2>2, <2>4 DEF top
<1>5. /\ Small(x) \in UInt64 /\ Val(Small(x)) = x /\ Small(y) \in UInt64 /\ Val(Small(y)) = y
      /\ Small(z) \in UInt64 /\ Val(Small(z)) = z
  <2> DEFINE b == B * B
  <2>1. m < b /\ b \in Nat
    BY MillionIs, Sizes, ProductType
  <2> HIDE DEF b
  <2>2. x < b /\ y < b /\ z < b
    BY <1>1, <2>1
  <2> QED
    BY <2>2, SmallIs DEF b
<1>6. s[1] = x /\ s[2] = y /\ s[3] = z
  OBVIOUS
<1> HIDE DEF s, M, m
<1>7. ASSUME NEW u \in UInt64, NEW k \in Nat, Small(k) \in UInt64, Val(Small(k)) = k,
             Val(u) * m + k < W
      PROVE  /\ Plus(Times(u, M), Small(k)) \in UInt64
             /\ Val(Plus(Times(u, M), Small(k))) = Val(u) * m + k
  <2> DEFINE p == Val(u) * m
             top == W
  <2>1. p \in Nat /\ p + k < top /\ top \in Nat
    BY <1>1, <1>7, Words, ProductType, Sizes
  <2> HIDE DEF p, top
  <2>2. p < top /\ p + k < top
    BY <2>1
  <2>3. Times(u, M) \in UInt64 /\ Val(Times(u, M)) = p
    BY <1>1, <2>2, TimesExact DEF p, top
  <2>4. Val(Times(u, M)) + Val(Small(k)) < W
    BY <1>7, <2>2, <2>3 DEF top
  <2> QED
    BY <1>7, <2>3, <2>4, PlusExact DEF p
<1>8. w[1] \in UInt64 /\ Val(w[1]) = n1
  <2>1. w[1] = Plus(Times(w[0], M), Small(x))
    <3>1. 1 \in 1 .. 3 /\ 1 - 1 = 0
      OBVIOUS
    <3> QED
      BY <1>3, <1>6, <3>1
  <2>2. Val(w[0]) * m + x = n1 /\ n1 < W
    <3>1. 0 * m + x = x
      BY <1>1, SMT
    <3>2. n1 < W
      <4> HIDE DEF n1, n2, n3
      <4>1. n1 \in Nat
        BY DEF n1
      <4> QED
        BY <1>4, <4>1
    <3> QED
      BY <1>2, <1>3, <3>1, <3>2
  <2> QED
    BY <1>2, <1>3, <1>5, <1>7, <2>1, <2>2
<1>9. w[2] \in UInt64 /\ Val(w[2]) = n2
  <2>1. w[2] = Plus(Times(w[1], M), Small(y))
    <3>1. 2 \in 1 .. 3 /\ 2 - 1 = 1
      OBVIOUS
    <3> QED
      BY <1>3, <1>6, <3>1
  <2>2. Val(w[1]) * m + y = n2
    BY <1>8
  <2>3. n2 < W
    <3> HIDE DEF n2, n3
    <3> QED
      BY <1>4
  <2> QED
    BY <1>5, <1>7, <1>8, <2>1, <2>2, <2>3
<1>10. w[3] \in UInt64 /\ Val(w[3]) = n3
  <2>1. w[3] = Plus(Times(w[2], M), Small(z))
    <3>1. 3 \in 1 .. 3 /\ 3 - 1 = 2
      OBVIOUS
    <3> QED
      BY <1>3, <1>6, <3>1
  <2>2. Val(w[2]) * m + z = n3
    BY <1>9
  <2> HIDE DEF n2, n3
  <2> QED
    BY <1>4, <1>5, <1>7, <1>9, <2>1, <2>2
<1> QED
  BY <1>10 DEF Decimal, m

\* So Dec is the number its groups spell.
LEMMA DecIs ==
  ASSUME NEW x \in Nat, NEW y \in Nat, NEW z \in Nat, x < Million, y < Million, z < Million,
         Decimal(x, y, z) < W
  PROVE  Dec(<<x, y, z>>) \in UInt64 /\ Val(Dec(<<x, y, z>>)) = Decimal(x, y, z)
<1> DEFINE s == <<x, y, z>>
           w == CHOOSE w : AreDecimals(w, s)
<1>1. Len(s) = 3 /\ s[1] = x /\ s[2] = y /\ s[3] = z
  OBVIOUS
<1> HIDE DEF s
<1>2. Dec(s) = w[3]
  BY <1>1, Zenon DEF Dec, AreDecimals
<1>3. \E u : AreDecimals(u, s)
  <2>1. \A i \in 1 .. Len(s) : s[i] \in Nat /\ s[i] < Million
    <3>1. \A i \in 1 .. 3 : i = 1 \/ i = 2 \/ i = 3
      OBVIOUS
    <3> QED
      BY <1>1, <3>1
  <2> QED
    BY <1>1, <2>1, DecimalsExist
<1>4. AreDecimals(w, s)
  BY <1>3, Zenon
<1> QED
  BY <1>2, <1>4, DecimalsEnd DEF s
=============================================================================
