-------------------------- MODULE CandidateTheorems --------------------------
(***************************************************************************)
(* What becomes of any candidate, for every build, step and set of bases.  *)
(*                                                                         *)
(* The first part is the arithmetic of the primality tests, for every odd  *)
(* modulus of the word.  invert(p) is the inverse of p; with it montMul    *)
(* divides by R modulo p; r2 is R*R modulo N; and the two forms of the     *)
(* base 2 test, that of the walks and that of ReportSolution, agree.  For  *)
(* a prime modulus the residues a test looks at are the powers of the base *)
(* up to the exponent N - 1, and end with 1 by Fermat's theorem, so that   *)
(* no prime is refused (PrimesPass).  The results of Iterates are reached  *)
(* by induction over the rounds (SetInduction).  The products use of R     *)
(* that it is 256 * 256, where the halves of mul_wide meet; the rounds of  *)
(* invert that three squarings leave no error, Width being 16.             *)
(*                                                                         *)
(* Then the walks find the whole run of terms that pass, and               *)
(* ReportSolution writes and counts the pieces the refused terms leave of  *)
(* it.  The run lies between Below and Beyond.  The walk forward is at the *)
(* k-th term from n + Skip*STEP (AtForward), the walk back at the last of  *)
(* k terms before Beyond (AtBack); a wrapped m is recognised because a     *)
(* step is shorter than the word.  The recursion has at every call one or  *)
(* two parts of the run before it: all that follows a cut (Following), or  *)
(* the piece behind a cut and all that follows that piece (Splitting).     *)
(* The lines are those of the pieces up to that cut (Written) and the      *)
(* checksum the sums up to there (Spent).  IInv is the conjunction.        *)
(***************************************************************************)
EXTENDS Candidate, ArithmeticTheorems, SequenceTheorems

Adding == INSTANCE ChecksumTheorems WITH Word <- Word32

-----------------------------------------------------------------------------
\* The arithmetic of the tests.

\* The function that Iterates defines has its results in X, round by round.
LEMMA IteratesAre ==
  ASSUME NEW X, NEW first \in X, NEW count \in Nat, NEW next,
         \A i \in 1 .. count : \A x \in X : next[i][x] \in X
  PROVE  LET g == Iterates(first, next, count)
         IN  /\ g \in [0 .. count -> X] /\ g[0] = first
             /\ \A i \in 1 .. count : g[i] = next[i][g[i - 1]]
<1> DEFINE g == Iterates(first, next, count)
<1>1. g = [i \in 0 .. count |-> IF i = 0 THEN first ELSE next[i][g[i - 1]]]
  <2>1. \E h \in [0 .. count -> X] : AreIterates(h, first, next, count)
    BY IteratesExist
  <2> QED
    BY <2>1, Zenon DEF Iterates, AreIterates
<1> HIDE DEF g
<1>2. g[0] = first /\ \A i \in 1 .. count : g[i] = next[i][g[i - 1]]
  BY <1>1
<1> DEFINE S == {d \in Nat : d <= count => g[d] \in X}
<1>3. 0 \in S
  BY <1>2
<1>4. \A d \in Nat : d \in S => d + 1 \in S
  <2> SUFFICES ASSUME NEW d \in Nat, g[d] \in X, d + 1 <= count PROVE g[d + 1] \in X
    OBVIOUS
  <2>1. g[d + 1] = next[d + 1][g[d]] /\ d + 1 \in 1 .. count
    BY <1>2
  <2> QED
    BY <2>1
<1>5. \A d \in 0 .. count : g[d] \in X
  <2>1. Nat \subseteq S
    <3> HIDE DEF S
    <3> QED
      BY <1>3, <1>4, SetInduction
  <2> QED
    BY <2>1
<1>6. g \in [0 .. count -> X]
  BY <1>1, <1>5
<1> QED
  BY <1>2, <1>6 DEF g

\* Rounds that agree on X go through the same values.
LEMMA IteratesAgree ==
  ASSUME NEW X, NEW first \in X, NEW count \in Nat, NEW next, NEW other,
         \A i \in 1 .. count : \A x \in X : next[i][x] \in X /\ other[i][x] = next[i][x]
  PROVE  Iterates(first, other, count) = Iterates(first, next, count)
<1> DEFINE f == Iterates(first, next, count)
           g == Iterates(first, other, count)
<1>1. /\ f \in [0 .. count -> X] /\ f[0] = first
      /\ \A i \in 1 .. count : f[i] = next[i][f[i - 1]]
  BY IteratesAre
<1>2. \A i \in 1 .. count : \A x \in X : other[i][x] \in X
  OBVIOUS
<1>3. /\ g \in [0 .. count -> X] /\ g[0] = first
      /\ \A i \in 1 .. count : g[i] = other[i][g[i - 1]]
  BY <1>2, IteratesAre
<1> HIDE DEF f, g
<1> DEFINE S == {d \in Nat : d <= count => g[d] = f[d]}
<1>4. 0 \in S
  BY <1>1, <1>3
<1>5. \A d \in Nat : d \in S => d + 1 \in S
  <2> SUFFICES ASSUME NEW d \in Nat, g[d] = f[d], d + 1 <= count PROVE g[d + 1] = f[d + 1]
    OBVIOUS
  <2>1. g[d + 1] = other[d + 1][g[d]] /\ f[d + 1] = next[d + 1][f[d]] /\ f[d] \in X
        /\ d + 1 \in 1 .. count
    BY <1>1, <1>3
  <2> QED
    BY <2>1
<1>6. \A d \in 0 .. count : g[d] = f[d]
  <2>1. Nat \subseteq S
    <3> HIDE DEF S
    <3> QED
      BY <1>4, <1>5, SetInduction
  <2> QED
    BY <2>1
<1>7. g = f
  BY <1>1, <1>3, <1>6
<1> QED
  BY <1>7 DEF f, g

-----------------------------------------------------------------------------
\* The one fact about R the products need.
LEMMA RType == R = 256 * 256 /\ R \in Nat
BY SMT DEF R

\* A word is a number below R.
LEMMA WordType ==
  ASSUME NEW a
  PROVE  a \in Word <=> a \in Nat /\ a < R
<1>1. R \in Nat
  BY RType
<1> QED
  BY <1>1, SMT DEF Word

\* The two halves of a product, from the bytes of one factor.
LEMMA MulWide ==
  ASSUME NEW a \in Word, NEW b \in Word
  PROVE  /\ mul_wide(a, b)[1] \in Word /\ mul_wide(a, b)[2] \in Nat
         /\ a * b = R * mul_wide(a, b)[2] + mul_wide(a, b)[1]
<1> DEFINE a1 == a \div 256
           a0 == a % 256
           high == a1 * b
           h1 == high \div 256
           h0 == high % 256
           c == a0 * b
           low == h0 * 256 + c
<1>0. a \in Nat /\ b \in Nat
  BY WordType
<1>1. a = 256 * a1 + a0 /\ a1 \in Nat /\ a0 \in Nat
  BY <1>0, SMT
<1>2. mul_wide(a, b) = <<low % R, h1 + low \div R>>
  BY DEF mul_wide
<1> HIDE DEF a1, a0
<1>3. high \in Nat /\ c \in Nat
  BY <1>0, <1>1, ProductType, SMT
<1>4. a * b = 256 * high + c
  BY <1>0, <1>1, SMT
<1> HIDE DEF high, c
<1>5. high = 256 * h1 + h0 /\ h1 \in Nat /\ h0 \in Nat
  BY <1>3, SMT
<1> HIDE DEF h1, h0
<1>6. low \in Nat /\ R * h1 = 256 * (256 * h1)
  BY <1>3, <1>5, RType, SMT
<1>7. a * b = R * h1 + low
  BY <1>3, <1>4, <1>5, <1>6, SMT
<1> HIDE DEF low
<1>8. R \in Nat \ {0}
  BY RType, SMT
<1>9. low = R * (low \div R) + (low % R) /\ low \div R \in Int /\ low % R \in Word
  <2>1. low \in Int
    BY <1>6, SMT
  <2>2. low = R * (low \div R) + (low % R) /\ low \div R \in Int /\ low % R \in 0..(R - 1)
    BY <1>8, <2>1, Division
  <2> QED
    BY <2>2 DEF Word
<1>10. low \div R \in Nat
  <2>1. R * (-1) < R * (low \div R)
    BY <1>6, <1>8, <1>9, SMT DEF Word
  <2>2. -1 < low \div R
    BY <1>8, <1>9, <2>1, Strict, SMT
  <2> QED
    BY <1>9, <2>2, SMT
<1>11. a * b = R * (h1 + low \div R) + (low % R)
  <2>1. R * (h1 + low \div R) = R * h1 + R * (low \div R)
    BY <1>5, <1>8, <1>10, SMT
  <2>2. low % R \in Int /\ R * h1 \in Int /\ R * (low \div R) \in Int
    BY <1>5, <1>8, <1>9, <1>10, WordType, SMT
  <2> QED
    BY <1>7, <1>9, <2>1, <2>2, SMT
<1> QED
  BY <1>2, <1>5, <1>9, <1>10, <1>11, SMT

\* A factor below p leaves a high half below p.
LEMMA HighBelow ==
  ASSUME NEW x \in Word, NEW y \in Nat, NEW p \in Nat, y < p,
         NEW l \in Nat, NEW h \in Nat, x * y = R * h + l
  PROVE  h < p
<1>0. R \in Nat \ {0} /\ x \in Nat /\ x <= R
  <2>1. x \in Nat /\ x < R
    BY WordType
  <2> QED
    BY RType, <2>1, SMT
<1>1. x * y <= R * y
  BY <1>0, Monotone, SMT
<1>2. R * h <= R * y /\ R * y < R * p
  BY <1>0, <1>1, SMT
<1>3. R * h < R * p
  BY <1>0, <1>2, SMT
<1> QED
  BY <1>0, <1>3, Strict, SMT

\* montMul(a, b, p, q) is a * b / R modulo p, and below p: the difference of
\* two high halves, corrected once, for every p, its inverse q and all operands
\* of which one is below p (the tests never leave the residues below N, and
\* multiply right; a base may be larger than N).
THEOREM MontgomeryProduct ==
  ASSUME NEW p \in Word, NEW q \in Word, (p * q) % R = 1,
         NEW a \in Word, NEW b \in Nat, b < p
  PROVE  /\ montMul(a, b, p, q) \in 0..(p - 1)
         /\ Congruent(R * montMul(a, b, p, q), a * b, p)
<1> DEFINE ab0 == mul_wide(a, b)[1]
           ab1 == mul_wide(a, b)[2]
           x == mul_wide(ab0, q)[1]
           w == mul_wide(ab0, q)[2]
           mp0 == mul_wide(x, p)[1]
           mp1 == mul_wide(x, p)[2]
           v == (p * q) \div R
<1>0. R \in Nat \ {0} /\ p \in Nat /\ q \in Nat /\ p < R /\ a \in Word /\ b \in Word
  <2>1. R \in Nat /\ p \in Nat /\ q \in Nat /\ p < R
    BY RType, WordType
  <2>2. b < R /\ a \in Nat
    BY <2>1, WordType, SMT
  <2> QED
    BY <2>1, <2>2, WordType, SMT
<1>1. ab0 \in Word /\ ab1 \in Nat /\ a * b = R * ab1 + ab0
  BY <1>0, MulWide
<1>2. montMul(a, b, p, q) = IF ab1 < mp1 THEN (((ab1 - mp1) % R) + p) % R ELSE (ab1 - mp1) % R
  BY DEF montMul, Product
<1> HIDE DEF ab0, ab1
<1>3. x \in Word /\ w \in Nat /\ ab0 * q = R * w + x
  BY <1>1, MulWide
<1> HIDE DEF x, w
<1>4. mp0 \in Word /\ mp1 \in Nat /\ x * p = R * mp1 + mp0
  BY <1>3, MulWide
<1> HIDE DEF mp0, mp1
<1>5. p * q = R * v + 1 /\ v \in Int
  <2>1. p * q \in Int
    BY <1>0, ProductType, SMT
  <2> QED
    BY <1>0, <2>1, Division, SMT
<1> HIDE DEF v
<1>6. ab0 \in Int /\ x \in Int /\ mp0 \in Int
  BY <1>0, <1>1, <1>3, <1>4, SMT DEF Word
\* x * p has the low half of a * b, so that only the high halves are left.
<1>7. x * p = R * (ab0 * v - w * p) + ab0
  <2>1. x = ab0 * q - R * w
    BY <1>0, <1>3, <1>6, SMT
  <2>2. x * p = (ab0 * q) * p - (R * w) * p
    BY <1>0, <1>3, <1>6, <2>1, SMT
  <2>3. (ab0 * q) * p = ab0 * (p * q)
    BY <1>0, <1>6, SMT
  <2>4. ab0 * (p * q) = ab0 * (R * v) + ab0
    BY <1>0, <1>5, <1>6, SMT
  <2>5. ab0 * (R * v) - (R * w) * p = R * (ab0 * v - w * p)
    BY <1>0, <1>3, <1>5, <1>6, SMT
  <2> QED
    BY <1>0, <1>3, <1>5, <1>6, <2>2, <2>3, <2>4, <2>5, SMT
<1>8. mp0 = ab0
  <2> DEFINE z == ab0 * v - w * p
  <2>1. z \in Int
    BY <1>0, <1>3, <1>5, <1>6, SMT
  <2>2. R * mp1 + mp0 = R * z + ab0 /\ mp1 \in Int
    BY <1>4, <1>7, SMT
  <2>3. mp0 \in Nat /\ mp0 < R /\ ab0 \in Nat /\ ab0 < R
    BY <1>1, <1>4, WordType
  <2> HIDE DEF z
  <2>4. R * (mp1 - z) = ab0 - mp0
    BY <1>0, <2>1, <2>2, <2>3, SMT
  <2>5. R * (mp1 - z) < R * 1 /\ R * (-1) < R * (mp1 - z) /\ mp1 - z \in Int
    BY <1>0, <2>1, <2>2, <2>3, <2>4, SMT
  <2>6. mp1 - z < 1 /\ -1 < mp1 - z
    BY <1>0, <2>5, Strict, SMT
  <2>7. mp1 - z = 0
    BY <2>5, <2>6, SMT
  <2> QED
    BY <1>0, <2>3, <2>4, <2>7, SMT
<1>9. R * (ab1 - mp1) = a * b - x * p
  BY <1>0, <1>1, <1>4, <1>6, <1>8, SMT
<1>10. ab1 < p /\ mp1 < p
  <2>1. ab0 \in Nat /\ mp0 \in Nat
    BY <1>0, <1>1, <1>4, SMT DEF Word
  <2>2. ab1 < p
    BY <1>0, <1>1, <2>1, HighBelow
  <2>3. x \in Nat /\ x < R
    BY <1>0, <1>3, SMT DEF Word
  <2>4. x * p <= (R - 1) * p
    BY <1>0, <2>3, Monotone, SMT
  <2>5. R * mp1 < R * p \/ p = 0
    BY <1>0, <1>4, <2>1, <2>4, SMT
  <2>6. p # 0
    BY <2>2, <1>1, SMT
  <2> QED
    BY <1>0, <1>4, <2>2, <2>5, <2>6, Strict, SMT
<1>11. CASE ab1 < mp1
  <2>1. (ab1 - mp1) % R = ab1 - mp1 + R
    BY <1>0, <1>1, <1>4, <1>10, <1>11, SMT
  <2>2. (ab1 - mp1 + R + p) % R = ab1 - mp1 + p
    BY <1>0, <1>1, <1>4, <1>10, <1>11, SMT
  <2>3. montMul(a, b, p, q) = ab1 - mp1 + p
    BY <1>2, <1>11, <2>1, <2>2
  <2>4. R * (ab1 - mp1 + p) = a * b + (R - x) * p
    BY <1>0, <1>1, <1>4, <1>6, <1>9, SMT
  <2>5. R - x \in Int
    BY <1>0, <1>6, SMT
  <2>6. ab1 - mp1 + p \in 0..(p - 1)
    BY <1>0, <1>1, <1>4, <1>10, <1>11, SMT
  <2> QED
    BY <2>3, <2>4, <2>5, <2>6 DEF Congruent
<1>12. CASE ~(ab1 < mp1)
  <2>1. (ab1 - mp1) % R = ab1 - mp1
    BY <1>0, <1>1, <1>4, <1>10, <1>12, SMT
  <2>2. montMul(a, b, p, q) = ab1 - mp1
    BY <1>2, <1>12, <2>1
  <2>3. R * (ab1 - mp1) = a * b + (-x) * p
    BY <1>0, <1>6, <1>9, SMT
  <2>4. -x \in Int
    BY <1>6, SMT
  <2>5. ab1 - mp1 \in 0..(p - 1)
    BY <1>0, <1>1, <1>4, <1>10, <1>12, SMT
  <2> QED
    BY <2>2, <2>3, <2>4, <2>5 DEF Congruent
<1> QED
  BY <1>11, <1>12

\* add(a, b, p) is a + b modulo p, though a + b may not fit in a word.
THEOREM ModularSum ==
  ASSUME NEW p \in Word, NEW a \in Nat, a < p, NEW b \in Nat, b < p
  PROVE  add(a, b, p) = (a + b) % p
<1>0. R \in Nat \ {0} /\ p \in Nat \ {0} /\ p < R
  <2>1. p \in Nat /\ p < R
    BY WordType
  <2> QED
    BY RType, <2>1, SMT
<1>1. (p - b) % R = p - b
  BY <1>0, SMT
<1>2. CASE a >= p - b
  <2>1. add(a, b, p) = (a + b - p) % R
    BY <1>1, <1>2 DEF add
  <2>2. (a + b - p) % R = a + b - p /\ (a + b) % p = a + b - p
    BY <1>0, <1>2, SMT
  <2> QED
    BY <2>1, <2>2
<1>3. CASE ~(a >= p - b)
  <2>1. add(a, b, p) = (a + b - 0) % R
    BY <1>1, <1>3 DEF add
  <2>2. (a + b - 0) % R = a + b /\ (a + b) % p = a + b
    BY <1>0, <1>3, SMT
  <2> QED
    BY <2>1, <2>2
<1> QED
  BY <1>2, <1>3

\* The range of words, and R in the two forms the rounds use.
LEMMA WordFacts ==
  /\ R \in Nat \ {0} /\ R = 65536 /\ \A x \in Word : x \in Nat /\ x < R
  /\ \A x \in Nat : x < R => x \in Word
<1>1. R \in Nat \ {0} /\ R = 65536
  BY SMT DEF R
<1>2. \A x : x \in Word <=> x \in Nat /\ x < R
  BY WordType
<1> QED
  BY <1>1, <1>2

\* A remainder modulo R is a word.
LEMMA WordRemainder ==
  ASSUME NEW x \in Int
  PROVE  x % R \in Word /\ Congruent(x % R, x, R)
<1>1. R \in Nat \ {0}
  BY WordFacts
<1>2. x % R \in 0 .. R - 1 /\ Congruent(x % R, x, R)
  BY <1>1, CongruentRemainder
<1> QED
  BY <1>2 DEF Word

\* The low word of a product is the product modulo R.
LEMMA ProductCongruent ==
  ASSUME NEW a \in Word, NEW b \in Word
  PROVE  Product(a, b) \in Word /\ Congruent(Product(a, b), a * b, R)
<1> DEFINE h == mul_wide(a, b)[2]
           l == mul_wide(a, b)[1]
<1>1. l \in Word /\ h \in Nat /\ a * b = R * h + l
  BY MulWide
<1> HIDE DEF h, l
<1>2. l = a * b + (-h) * R /\ -h \in Int
  BY <1>1, WordFacts, SMT
<1> QED
  BY <1>1, <1>2 DEF Product, Congruent, l

-----------------------------------------------------------------------------
\* The inverse of p by Newton's iteration.  The error of x is 1 - p*x: a round
\* squares it modulo R.
Newton(p) == [x \in Word |-> Product(x, (2 - Product(p, x)) % R)]

\* A round gives a word.
LEMMA NewtonType ==
  ASSUME NEW p \in Word, NEW x \in Word
  PROVE  Newton(p)[x] \in Word /\ Congruent(Newton(p)[x], x * (2 - p * x), R)
<1> DEFINE z == Product(p, x)
           y == (2 - z) % R
<1>0. p \in Int /\ x \in Int /\ R \in Int /\ p * x \in Int
  BY WordFacts, SMT
<1>1. z \in Word /\ Congruent(z, p * x, R)
  BY ProductCongruent
<1>2. z \in Int
  BY <1>1, WordFacts
<1> HIDE DEF z
<1>3. y \in Word /\ Congruent(y, 2 - z, R)
  BY <1>2, WordRemainder
<1>4. Congruent(2 - z, 2 - p * x, R)
  BY <1>0, <1>1, <1>2, CongruentSelf, CongruentSum
<1>5. y \in Int
  BY <1>3, WordFacts
<1> HIDE DEF y
<1>6. Congruent(y, 2 - p * x, R)
  <2>1. 2 - z \in Int /\ 2 - p * x \in Int
    BY <1>0, <1>2
  <2> QED
    BY <1>0, <1>3, <1>4, <1>5, <2>1, CongruentTrans
<1>7. Product(x, y) \in Word /\ Congruent(Product(x, y), x * y, R)
  BY <1>3, ProductCongruent
<1>8. Congruent(x * y, x * (2 - p * x), R)
  <2>1. 2 - p * x \in Int /\ Congruent(x, x, R)
    BY <1>0, CongruentSelf
  <2> QED
    BY <1>0, <1>5, <1>6, <2>1, CongruentProduct
<1>9. Congruent(Product(x, y), x * (2 - p * x), R)
  <2> DEFINE u == Product(x, y)
             v == x * y
             w == x * (2 - p * x)
  <2>1. u \in Int /\ v \in Int /\ w \in Int
    <3>1. u \in Int
      BY <1>7, WordFacts
    <3>2. 2 - p * x \in Int
      BY <1>0
    <3> QED
      BY <1>0, <1>5, <3>1, <3>2, SMT
  <2>2. Congruent(u, v, R) /\ Congruent(v, w, R)
    BY <1>7, <1>8
  <2> HIDE DEF u, v, w
  <2>3. Congruent(u, w, R)
    BY <1>0, <2>1, <2>2, CongruentTrans
  <2> QED
    BY <2>3 DEF u, w
<1> QED
  BY <1>7, <1>9 DEF Newton, y, z

\* A round squares the error.
LEMMA NewtonSquares ==
  ASSUME NEW p \in Word, NEW x \in Word
  PROVE  Congruent(1 - p * Newton(p)[x], (1 - p * x) * (1 - p * x), R)
<1> DEFINE y == Newton(p)[x]
           w == x * (2 - p * x)
<1>0. p \in Int /\ x \in Int /\ R \in Int /\ y \in Word /\ Congruent(y, w, R)
  BY WordFacts, NewtonType
<1> HIDE DEF y
<1>1. y \in Int /\ w \in Int
  <2>1. y \in Int
    BY <1>0, WordFacts
  <2>2. p * x \in Int
    BY <1>0, SMT
  <2>3. 2 - p * x \in Int
    BY <2>2
  <2> QED
    BY <1>0, <2>1, <2>3, SMT
<1>2. 1 - p * w = (1 - p * x) * (1 - p * x)
  <2> DEFINE z == p * x
  <2>1. z \in Int
    BY <1>0, SMT
  <2>2. p * w = z * (2 - z)
    BY <1>0, SMT
  <2> HIDE DEF z, w
  <2>3. 1 - z * (2 - z) = (1 - z) * (1 - z)
    BY <2>1, SMT
  <2> QED
    BY <2>2, <2>3 DEF z
<1> HIDE DEF w
<1>3. Congruent(p * y, p * w, R)
  BY <1>0, <1>1, CongruentSelf, CongruentProduct
<1>4. p * y \in Int /\ p * w \in Int
  BY <1>0, <1>1, SMT
<1>5. Congruent(1 - p * y, 1 - p * w, R)
  BY <1>0, <1>3, <1>4, CongruentSelf, CongruentSum
<1> QED
  BY <1>2, <1>5 DEF y, w

Multiple(e, d) == \E f \in Int : e = d * f

\* A number with d*d in R: the square of a multiple of d.
LEMMA SquareDoubles ==
  ASSUME NEW e \in Int, NEW s \in Int, NEW d \in Nat, NEW h \in Nat, R = (d * d) * h,
         Multiple(e, d), Congruent(s, e * e, R)
  PROVE  Multiple(s, d * d)
<1>1. PICK f \in Int : e = d * f
  BY DEF Multiple
<1>2. PICK t \in Int : s = e * e + t * R
  BY DEF Congruent
<1>3. e * e = (d * d) * (f * f)
  BY <1>1, SMT
<1>4. t * R = (d * d) * (h * t)
  <2> DEFINE c == d * d
  <2>1. c \in Int
    BY SMT
  <2>2. R = c * h
    OBVIOUS
  <2> HIDE DEF c
  <2>3. t * R = c * (h * t)
    BY <2>1, <2>2, SMT
  <2> QED
    BY <2>3 DEF c
<1>5. s = (d * d) * (f * f + h * t) /\ f * f + h * t \in Int
  <2> DEFINE c == d * d
             a == f * f
             b == h * t
  <2>1. a \in Int /\ b \in Int /\ c \in Int
    BY SMT
  <2>2. s = c * a + c * b
    BY <1>2, <1>3, <1>4
  <2> HIDE DEF a, b, c
  <2>3. s = c * (a + b) /\ a + b \in Int
    BY <2>1, <2>2, SMT
  <2> QED
    BY <2>3 DEF a, b, c
<1> QED
  BY <1>5 DEF Multiple

\* An odd number times an odd number leaves an even error.
LEMMA Evens ==
  ASSUME NEW e \in Int, NEW s \in Int, Multiple(e, 2), Congruent(s, e * e, R)
  PROVE  Multiple(s, 4) /\ Multiple(s, 2)
<1>0. R = (2 * 2) * 16384
  BY WordFacts, SMT
<1>1. Multiple(s, 2 * 2)
  BY <1>0, SquareDoubles
<1>2. PICK f \in Int : s = 4 * f
  BY <1>1, 2 * 2 = 4 DEF Multiple
<1>3. s = 2 * (2 * f) /\ 2 * f \in Int
  BY <1>2
<1> QED
  BY <1>2, <1>3 DEF Multiple

\* Words congruent modulo R are equal.
LEMMA WordUnique ==
  ASSUME NEW x \in Word, NEW y \in Word, Congruent(x, y, R)
  PROVE  x = y
<1>1. R \in Nat \ {0}
  BY WordFacts
<1>2. x \in 0 .. R - 1 /\ y \in 0 .. R - 1
  BY DEF Word
<1> QED
  BY <1>1, <1>2, CongruentUnique

\* Rounds that are all the same.
LEMMA SameRounds ==
  ASSUME NEW X, NEW first \in X, NEW count \in Nat, NEW round, \A x \in X : round[x] \in X
  PROVE  LET g == Repeated(first, round, count)
         IN  /\ g \in [0 .. count -> X] /\ g[0] = first
             /\ \A i \in 1 .. count : g[i] = round[g[i - 1]]
<1> DEFINE next == [i \in 1 .. count |-> round]
<1>1. \A i \in 1 .. count : next[i] = round
  OBVIOUS
<1> HIDE DEF next
<1>2. \A i \in 1 .. count : \A x \in X : next[i][x] \in X
  BY <1>1
<1>3. LET g == Iterates(first, next, count)
      IN  /\ g \in [0 .. count -> X] /\ g[0] = first
          /\ \A i \in 1 .. count : g[i] = next[i][g[i - 1]]
  BY <1>2, IteratesAre
<1> QED
  BY <1>1, <1>3 DEF next, Repeated

\* The rounds of invert: the errors are even, and from the fourth on zero.
LEMMA Errors ==
  ASSUME NEW p \in Word, p % 2 = 1
  PROVE  LET inv == Repeated(1, Newton(p), Width)
         IN  /\ \A i \in 0 .. Width : inv[i] \in Word /\ Multiple(1 - p * inv[i], 2)
             /\ \A i \in 1 .. Width : inv[i] = Newton(p)[inv[i - 1]]
             /\ Multiple(1 - p * inv[4], R)
<1> DEFINE inv == Repeated(1, Newton(p), Width)
           E(i) == 1 - p * inv[i]
<1>0. Width \in Nat /\ Width = 16 /\ p \in Int /\ R \in Int
  BY WordFacts, SMT DEF Width
<1>1. /\ inv \in [0 .. Width -> Word] /\ inv[0] = 1
      /\ \A i \in 1 .. Width : inv[i] = Newton(p)[inv[i - 1]]
  <2>1. 1 \in Word
    BY WordFacts, SMT
  <2>2. \A x \in Word : Newton(p)[x] \in Word
    BY NewtonType
  <2>3. Width \in Nat
    BY <1>0
  <2> QED
    BY <2>1, <2>2, <2>3, SameRounds
<1> HIDE DEF inv
<1>2. \A i \in 0 .. Width : inv[i] \in Word /\ E(i) \in Int
  <2> TAKE i \in 0 .. Width
  <2>1. inv[i] \in Word
    BY <1>1
  <2>2. inv[i] \in Int
    BY <2>1, WordFacts
  <2> QED
    BY <1>0, <2>1, <2>2, SMT
<1>3. \A i \in 1 .. Width : Congruent(E(i), E(i - 1) * E(i - 1), R)
  <2> TAKE i \in 1 .. Width
  <2>1. inv[i - 1] \in Word /\ inv[i] = Newton(p)[inv[i - 1]]
    BY <1>0, <1>1, <1>2
  <2> QED
    BY <2>1, NewtonSquares
<1>4. E(0) = 1 - p
  BY <1>0, <1>1
<1> HIDE DEF E
<1>5. Multiple(E(0), 2)
  <2> DEFINE d == p \div 2
  <2>1. d \in Int /\ p = 2 * d + 1
    BY <1>0
  <2> HIDE DEF d
  <2>2. 1 - p = 2 * (-d) /\ -d \in Int
    BY <1>0, <2>1
  <2> QED
    BY <1>4, <2>2 DEF Multiple
<1>6. \A i \in 0 .. Width : Multiple(E(i), 2)
  <2> DEFINE S == {i \in Nat : i <= Width => Multiple(E(i), 2)}
  <2>1. 0 \in S
    BY <1>5
  <2>2. ASSUME NEW i \in Nat, i \in S PROVE i + 1 \in S
    <3> SUFFICES ASSUME i + 1 <= Width PROVE Multiple(E(i + 1), 2)
      OBVIOUS
    <3>0. Multiple(E(i), 2)
      BY <1>0, <2>2
    <3>1. i \in 0 .. Width /\ i + 1 \in 0 .. Width /\ i + 1 \in 1 .. Width /\ (i + 1) - 1 = i
      BY <1>0
    <3>2. E(i) \in Int /\ E(i + 1) \in Int /\ Congruent(E(i + 1), E(i) * E(i), R)
      BY <1>2, <1>3, <3>1
    <3> QED
      BY <3>0, <3>2, Evens
  <2> HIDE DEF S
  <2>3. Nat \subseteq S
    BY <2>1, <2>2, SetInduction
  <2> QED
    BY <1>0, <2>3 DEF S
<1>7. /\ E(0) \in Int /\ E(1) \in Int /\ E(2) \in Int /\ E(3) \in Int /\ E(4) \in Int
      /\ Congruent(E(1), E(0) * E(0), R) /\ Congruent(E(2), E(1) * E(1), R)
      /\ Congruent(E(3), E(2) * E(2), R) /\ Congruent(E(4), E(3) * E(3), R)
  <2>1. /\ 1 \in 1 .. Width /\ 2 \in 1 .. Width /\ 3 \in 1 .. Width /\ 4 \in 1 .. Width
        /\ 0 \in 0 .. Width /\ 1 \in 0 .. Width /\ 2 \in 0 .. Width /\ 3 \in 0 .. Width
        /\ 4 \in 0 .. Width /\ 1 - 1 = 0 /\ 2 - 1 = 1 /\ 3 - 1 = 2 /\ 4 - 1 = 3
    BY <1>0
  <2>2. Congruent(E(1), E(1 - 1) * E(1 - 1), R) /\ Congruent(E(2), E(2 - 1) * E(2 - 1), R)
        /\ Congruent(E(3), E(3 - 1) * E(3 - 1), R) /\ Congruent(E(4), E(4 - 1) * E(4 - 1), R)
    BY <1>3, <2>1, Zenon
  <2> QED
    BY <1>2, <2>1, <2>2
<1>8. /\ R = (2 * 2) * 16384 /\ R = (4 * 4) * 4096 /\ R = (16 * 16) * 256 /\ R = (256 * 256) * 1
      /\ 2 * 2 = 4 /\ 4 * 4 = 16 /\ 16 * 16 = 256 /\ 256 * 256 = R
  BY WordFacts, SMT
<1>9. Multiple(E(4), R)
  <2>1. Multiple(E(1), 2 * 2)
    BY <1>5, <1>7, <1>8, SquareDoubles
  <2>2. Multiple(E(2), 4 * 4)
    <3>1. Multiple(E(1), 4)
      BY <2>1, <1>8
    <3> QED
      BY <1>7, <1>8, <3>1, SquareDoubles
  <2>3. Multiple(E(3), 16 * 16)
    <3>1. Multiple(E(2), 16)
      BY <2>2, <1>8
    <3> QED
      BY <1>7, <1>8, <3>1, SquareDoubles
  <2>4. Multiple(E(4), 256 * 256)
    <3>1. Multiple(E(3), 256)
      BY <2>3, <1>8
    <3> QED
      BY <1>7, <1>8, <3>1, SquareDoubles
  <2> QED
    BY <2>4, <1>8
<1> QED
  BY <1>1, <1>2, <1>6, <1>9 DEF E, inv

\* A fixpoint of the rounds has an error that is its own square, and even.
LEMMA FixedIsInverse ==
  ASSUME NEW p \in Word, NEW x \in Word, Newton(p)[x] = x, Multiple(1 - p * x, 2)
  PROVE  Congruent(p * x, 1, R)
<1> DEFINE e == 1 - p * x
<1>0. p * x \in Int /\ R \in Int /\ e \in Int
  <2>1. p \in Int /\ x \in Int /\ R \in Int
    BY WordFacts
  <2> QED
    BY <2>1, SMT
<1>1. Congruent(e, e * e, R) /\ Multiple(e, 2)
  BY NewtonSquares
<1>2. /\ R = (2 * 2) * 16384 /\ R = (4 * 4) * 4096 /\ R = (16 * 16) * 256 /\ R = (256 * 256) * 1
      /\ 2 * 2 = 4 /\ 4 * 4 = 16 /\ 16 * 16 = 256 /\ 256 * 256 = R
  BY WordFacts, SMT
<1>7. e = 1 - p * x
  OBVIOUS
<1> HIDE DEF e
<1>3. Multiple(e, 4)
  BY <1>0, <1>1, <1>2, SquareDoubles
<1>4. Multiple(e, 16)
  BY <1>0, <1>1, <1>2, <1>3, SquareDoubles
<1>5. Multiple(e, 256)
  BY <1>0, <1>1, <1>2, <1>4, SquareDoubles
<1>6. Multiple(e, R)
  BY <1>0, <1>1, <1>2, <1>5, SquareDoubles
<1>8. PICK f \in Int : e = R * f
  BY <1>6 DEF Multiple
<1>9. p * x = 1 + (-f) * R /\ -f \in Int
  <2> DEFINE z == p * x
  <2>1. z \in Int /\ e = 1 - z
    BY <1>0, <1>7
  <2> HIDE DEF z
  <2>2. z = 1 + (-f) * R /\ -f \in Int
    BY <1>0, <1>8, <2>1, SMT
  <2> QED
    BY <2>2 DEF z
<1> QED
  BY <1>9 DEF Congruent

\* invert(p): the loop reaches a fixpoint within Width rounds, and that is the
\* inverse of p modulo R, for every odd p.
THEOREM InverseRight ==
  ASSUME NEW p \in Word, p % 2 = 1
  PROVE  invert(p) \in Word /\ Congruent(p * invert(p), 1, R) /\ (p * invert(p)) % R = 1
<1> DEFINE inv == Repeated(1, Newton(p), Width)
           Fixed(i) == inv[i] = inv[i - 1]
           First(i) == Fixed(i) /\ \A j \in 1 .. i - 1 : ~Fixed(j)
           last == CHOOSE i \in 1 .. Width : First(i)
<1>0. invert(p) = inv[last]
  BY DEF invert, Newton
<1>1. /\ \A i \in 0 .. Width : inv[i] \in Word /\ Multiple(1 - p * inv[i], 2)
      /\ \A i \in 1 .. Width : inv[i] = Newton(p)[inv[i - 1]]
      /\ Multiple(1 - p * inv[4], R)
  BY Errors
<1>w. Width = 16 /\ R \in Nat \ {0} /\ R = 65536
  BY WordFacts DEF Width
<1> HIDE DEF inv
<1>2. Fixed(5)
  <2> DEFINE x == inv[4]
             y == inv[5]
  <2>1. x \in Word /\ y = Newton(p)[x] /\ Multiple(1 - p * x, R)
    <3>1. 4 \in 0 .. Width /\ 5 \in 1 .. Width /\ 5 - 1 = 4
      BY <1>w
    <3>2. inv[5] = Newton(p)[inv[5 - 1]]
      BY <1>1, <3>1
    <3> QED
      BY <1>1, <3>1, <3>2
  <2> HIDE DEF x, y
  <2>2. y \in Word /\ Congruent(y, x * (2 - p * x), R)
    BY <2>1, NewtonType
  <2>3. p \in Int /\ x \in Int /\ y \in Int /\ p * x \in Int
    <3>1. p \in Int /\ x \in Int /\ y \in Int
      BY <2>1, <2>2, WordFacts
    <3> QED
      BY <3>1, SMT
  <2>4. PICK f \in Int : 1 - p * x = R * f
    BY <2>1 DEF Multiple
  <2>5. x * (2 - p * x) = x + (x * f) * R /\ x * f \in Int
    <3> DEFINE z == p * x
    <3>1. z \in Int /\ 1 - z = R * f
      BY <2>3, <2>4
    <3> HIDE DEF z
    <3>2. 2 - z = 1 + R * f
      BY <1>w, <3>1, SMT
    <3>3. x * (1 + R * f) = x + (x * f) * R /\ x * f \in Int
      BY <1>w, <2>3, SMT
    <3> QED
      BY <3>2, <3>3 DEF z
  <2>6. Congruent(y, x, R)
    <3>1. Congruent(x * (2 - p * x), x, R)
      BY <2>5 DEF Congruent
    <3>2. x * (2 - p * x) \in Int
      <4>1. 2 - p * x \in Int
        BY <2>3
      <4> QED
        BY <2>3, <4>1, SMT
    <3> QED
      BY <1>w, <2>2, <2>3, <3>1, <3>2, CongruentTrans
  <2>7. y = x
    BY <2>1, <2>2, <2>6, WordUnique
  <2> QED
    BY <2>7, 5 - 1 = 4 DEF x, y
<1>3. \E i \in 1 .. Width : First(i)
  <2> DEFINE T == {i \in 1 .. Width : Fixed(i)}
  <2>1. T \in SUBSET Nat /\ 5 \in T
    BY <1>w, <1>2
  <2>2. PICK i \in T : \A j \in T : i <= j
    BY <2>1, Least
  <2>3. \A j \in 1 .. i - 1 : ~Fixed(j)
    <3> TAKE j \in 1 .. i - 1
    <3>1. j \in 1 .. Width /\ ~(i <= j)
      BY <1>w, <2>2
    <3> QED
      BY <2>2, <3>1
  <2> QED
    BY <2>2, <2>3
<1>4. last \in 1 .. Width /\ Fixed(last)
  <2>1. last \in 1 .. Width /\ First(last)
    BY <1>3, Zenon
  <2> QED
    BY <2>1
<1> HIDE DEF last
<1>5. inv[last] \in Word /\ Newton(p)[inv[last]] = inv[last] /\ Multiple(1 - p * inv[last], 2)
  <2>1. last \in 0 .. Width /\ inv[last] = Newton(p)[inv[last - 1]] /\ inv[last - 1] = inv[last]
    BY <1>1, <1>4, <1>w
  <2> QED
    BY <1>1, <2>1
<1>6. Congruent(p * inv[last], 1, R)
  BY <1>5, FixedIsInverse
<1>7. (p * inv[last]) % R = 1
  <2> DEFINE z == p * inv[last]
             r == z % R
  <2>1. z \in Int
    <3>1. p \in Int /\ inv[last] \in Int
      BY <1>5, WordFacts
    <3> QED
      BY <3>1, SMT
  <2>2. Congruent(z, 1, R)
    BY <1>6
  <2> HIDE DEF z
  <2>3. r \in Word /\ Congruent(r, z, R)
    BY <2>1, WordRemainder
  <2> HIDE DEF r
  <2>4. r \in Int /\ 1 \in Word
    BY <2>3, <1>w, WordFacts
  <2>5. Congruent(r, 1, R)
    BY <2>1, <2>2, <2>3, <2>4, <1>w, CongruentTrans
  <2>6. r = 1
    BY <2>3, <2>4, <2>5, WordUnique
  <2> QED
    BY <2>6 DEF r, z
<1> QED
  BY <1>0, <1>5, <1>6, <1>7

\* The width.
LEMMA WidthIs == Width = 16 /\ Width \in Nat
BY DEF Width

\* The width as a type.
LEMMA WidthType == Width \in Nat
BY DEF Width

\* x >> i.
LEMMA ShiftsAre ==
  ASSUME NEW x \in Word
  PROVE  /\ Shifts(x) \in [0 .. Width -> Word] /\ Shifts(x)[0] = x
         /\ \A i \in 1 .. Width : Shifts(x)[i] = Shifts(x)[i - 1] \div 2
<1> DEFINE half == [y \in Word |-> y \div 2]
<1>1. \A y \in Word : half[y] \in Word
  <2> TAKE y \in Word
  <2>1. y \in Nat /\ y < R /\ R \in Nat
    BY WordFacts
  <2>2. y \div 2 \in Nat /\ y \div 2 < R
    BY <2>1, SMT
  <2> QED
    BY <2>2, WordFacts
<1>2. \A y \in Word : half[y] = y \div 2
  OBVIOUS
<1>3. Shifts(x) = Repeated(x, half, Width)
  BY DEF Shifts
<1> HIDE DEF half
<1>4. LET g == Repeated(x, half, Width)
      IN  /\ g \in [0 .. Width -> Word] /\ g[0] = x
          /\ \A i \in 1 .. Width : g[i] = half[g[i - 1]]
  BY <1>1, WidthType, SameRounds
<1> DEFINE s == Shifts(x)
<1>5. /\ s \in [0 .. Width -> Word] /\ s[0] = x
      /\ \A i \in 1 .. Width : s[i] = half[s[i - 1]]
  BY <1>3, <1>4
<1> HIDE DEF s
<1>6. \A i \in 1 .. Width : s[i] = s[i - 1] \div 2
  <2> TAKE i \in 1 .. Width
  <2>1. s[i - 1] \in Word /\ s[i] = half[s[i - 1]]
    BY <1>5, WidthIs
  <2> QED
    BY <1>2, <2>1
<1> QED
  BY <1>5, <1>6 DEF s

\* Shifts are words.
LEMMA ShiftsType ==
  ASSUME NEW x \in Word, NEW i \in 0 .. Width
  PROVE  Shifts(x)[i] \in Word /\ Shifts(x)[i] \in Nat
<1> DEFINE s == Shifts(x)
<1>1. s \in [0 .. Width -> Word]
  BY ShiftsAre
<1> HIDE DEF s
<1>2. s[i] \in Word
  BY <1>1
<1>3. s[i] \in Nat
  BY <1>2, WordFacts
<1> QED
  BY <1>2, <1>3 DEF s

\* A shift more halves.
LEMMA ShiftHalves ==
  ASSUME NEW x \in Word, NEW i \in 1 .. Width, NEW b \in Nat, Shifts(x)[i - 1] < 2 * b
  PROVE  Shifts(x)[i] < b
<1> DEFINE u == Shifts(x)[i - 1]
           w == Shifts(x)[i]
<1>1. u \in Nat /\ w = u \div 2
  <2>1. i - 1 \in 0 .. Width
    BY WidthIs
  <2> QED
    BY <2>1, ShiftsType, ShiftsAre
<1> HIDE DEF u, w
<1>2. u < 2 * b
  BY DEF u
<1>3. w < b
  BY <1>1, <1>2
<1> QED
  BY <1>3 DEF w

\* Four shifts divide by 16.
LEMMA FourShifts ==
  ASSUME NEW x \in Word, NEW i \in 0 .. Width - 4, NEW b \in Nat, Shifts(x)[i] < 16 * b
  PROVE  Shifts(x)[i + 4] < b
<1>0. /\ i + 1 \in 1 .. Width /\ i + 2 \in 1 .. Width /\ i + 3 \in 1 .. Width
      /\ i + 4 \in 1 .. Width /\ (i + 1) - 1 = i /\ (i + 2) - 1 = i + 1 /\ (i + 3) - 1 = i + 2
      /\ (i + 4) - 1 = i + 3
  BY WidthIs
<1>1. 8 * b \in Nat /\ 4 * b \in Nat /\ 2 * b \in Nat /\ 16 * b = 2 * (8 * b)
      /\ 8 * b = 2 * (4 * b) /\ 4 * b = 2 * (2 * b)
  OBVIOUS
<1>2. Shifts(x)[i + 1] < 8 * b
  BY <1>0, <1>1, ShiftHalves
<1>3. Shifts(x)[i + 2] < 4 * b
  BY <1>0, <1>1, <1>2, ShiftHalves
<1>4. Shifts(x)[i + 3] < 2 * b
  BY <1>0, <1>1, <1>3, ShiftHalves
<1> QED
  BY <1>0, <1>4, ShiftHalves

\* Width shifts leave nothing.
LEMMA ShiftsEnd ==
  ASSUME NEW x \in Word
  PROVE  Shifts(x)[Width] = 0
<1>0. /\ 0 \in 0 .. Width - 4 /\ 4 \in 0 .. Width - 4 /\ 8 \in 0 .. Width - 4
      /\ 12 \in 0 .. Width - 4 /\ Width \in 0 .. Width
      /\ 0 + 4 = 4 /\ 4 + 4 = 8 /\ 8 + 4 = 12 /\ 12 + 4 = Width
      /\ 65536 = 16 * 4096 /\ 4096 = 16 * 256 /\ 256 = 16 * 16 /\ 16 = 16 * 1
  BY WidthIs
<1>1. Shifts(x)[0] < 16 * 4096
  BY <1>0, ShiftsAre, WordFacts
<1>2. Shifts(x)[4] < 16 * 256
  BY <1>0, <1>1, FourShifts
<1>3. Shifts(x)[8] < 16 * 16
  BY <1>0, <1>2, FourShifts
<1>4. Shifts(x)[12] < 16 * 1
  BY <1>0, <1>3, FourShifts
<1>5. Shifts(x)[Width] < 1
  BY <1>0, <1>4, FourShifts
<1>6. Shifts(x)[Width] \in Nat
  BY <1>0, ShiftsType
<1> QED
  BY <1>5, <1>6

\* A larger number stays one, and a number all of whose shifts are even is 0.
LEMMA ShiftsOrdered ==
  ASSUME NEW x \in Word, NEW y \in Word, x <= y, NEW i \in 0 .. Width
  PROVE  Shifts(x)[i] <= Shifts(y)[i]
<1> DEFINE s == Shifts(x)
           t == Shifts(y)
           S == {d \in Nat : d <= Width => s[d] <= t[d]}
<1>1. \A d \in 0 .. Width : s[d] \in Nat /\ t[d] \in Nat
  BY ShiftsType
<1>2. \A d \in 1 .. Width : s[d] = s[d - 1] \div 2 /\ t[d] = t[d - 1] \div 2
  BY ShiftsAre
<1>3. 0 \in S
  BY ShiftsAre
<1> HIDE DEF s, t
<1>4. ASSUME NEW d \in Nat, d \in S PROVE d + 1 \in S
  <2> SUFFICES ASSUME d + 1 <= Width PROVE s[d + 1] <= t[d + 1]
    OBVIOUS
  <2>1. d \in 0 .. Width /\ d + 1 \in 1 .. Width /\ (d + 1) - 1 = d /\ s[d] <= t[d]
    BY <1>4, WidthIs
  <2>2. s[d + 1] = s[d] \div 2 /\ t[d + 1] = t[d] \div 2 /\ s[d] \in Nat /\ t[d] \in Nat
    BY <1>1, <1>2, <2>1
  <2> QED
    BY <2>1, <2>2
<1> HIDE DEF S
<1>5. Nat \subseteq S
  BY <1>3, <1>4, SetInduction
<1> QED
  BY <1>5, WidthIs DEF S, s, t

\* A number other than 0 has an odd shift.
LEMMA ShiftsOdd ==
  ASSUME NEW x \in Word, x # 0
  PROVE  \E i \in 0 .. Width - 1 : Shifts(x)[i] % 2 = 1
<1> DEFINE s == Shifts(x)
           S == {d \in Nat : d <= Width => s[d] # 0}
<1>1. \A d \in 0 .. Width : s[d] \in Nat
  BY ShiftsType
<1>2. \A d \in 1 .. Width : s[d] = s[d - 1] \div 2
  BY ShiftsAre
<1>3. s[0] = x /\ s[Width] = 0
  BY ShiftsAre, ShiftsEnd
<1> HIDE DEF s
<1> SUFFICES ASSUME \A i \in 0 .. Width - 1 : s[i] % 2 # 1 PROVE FALSE
  BY DEF s
<1>4. 0 \in S
  BY <1>3
<1>5. ASSUME NEW d \in Nat, d \in S PROVE d + 1 \in S
  <2> SUFFICES ASSUME d + 1 <= Width PROVE s[d + 1] # 0
    OBVIOUS
  <2>1. d \in 0 .. Width - 1 /\ d \in 0 .. Width /\ d + 1 \in 1 .. Width /\ (d + 1) - 1 = d
        /\ s[d] # 0
    BY <1>5, WidthIs
  <2>2. s[d + 1] = s[d] \div 2 /\ s[d] \in Nat /\ s[d] % 2 # 1
    BY <1>1, <1>2, <2>1
  <2> QED
    BY <2>1, <2>2
<1> HIDE DEF S
<1>6. Nat \subseteq S
  BY <1>4, <1>5, SetInduction
<1> QED
  BY <1>3, <1>6, WidthIs DEF S

\* A number other than 0 has a shift that is 1: its highest bit.
LEMMA ShiftsTop ==
  ASSUME NEW x \in Word, x # 0
  PROVE  \E i \in 0 .. Width - 1 : Shifts(x)[i] = 1
<1> DEFINE s == Shifts(x)
           T == {d \in 0 .. Width : s[d] = 0}
<1>1. \A d \in 0 .. Width : s[d] \in Nat
  BY ShiftsType
<1>2. \A d \in 1 .. Width : s[d] = s[d - 1] \div 2
  BY ShiftsAre
<1>3. s[0] = x /\ s[Width] = 0
  BY ShiftsAre, ShiftsEnd
<1> HIDE DEF s
<1>4. T \in SUBSET Nat /\ T # {}
  BY <1>3, WidthIs
<1>5. PICK i \in T : \A d \in T : i <= d
  BY <1>4, Least
<1>6. i \in 1 .. Width /\ i - 1 \in 0 .. Width - 1 /\ i - 1 \in 0 .. Width
  BY <1>3, <1>5, WidthIs
<1>7. s[i - 1] # 0 /\ s[i] = 0 /\ s[i] = s[i - 1] \div 2 /\ s[i - 1] \in Nat
  <2>1. i - 1 \notin T
    BY <1>5, <1>6, WidthIs
  <2> QED
    BY <1>1, <1>2, <1>5, <1>6, <2>1
<1>8. s[i - 1] = 1
  BY <1>7
<1> QED
  BY <1>6, <1>8 DEF s

\* The loop that counts the zeros behind the lowest bit of N - 1.
LEMMA CtzIs ==
  ASSUME NEW N \in Word, N % 2 = 1, N # 1
  PROVE  /\ N - 1 \in Word /\ N - 1 <= N
         /\ ctz(N) \in 0 .. Width - 1 /\ Shifts(N - 1)[ctz(N)] % 2 = 1
         /\ \A i \in 0 .. ctz(N) - 1 : Shifts(N - 1)[i] % 2 = 0
<1> DEFINE t == ctz(N)
           M == N - 1
           First(i) == Shifts(M)[i] % 2 = 1 /\ \A s \in 0 .. i - 1 : Shifts(M)[s] % 2 = 0
<1>1. M \in Word /\ M # 0 /\ M <= N
  <2>1. N \in Nat /\ N # 0 /\ R \in Nat /\ N < R
    BY WordFacts
  <2>2. M \in Nat /\ M < R
    BY <2>1
  <2> QED
    BY <2>1, <2>2, WordFacts
<1>2. t = CHOOSE i \in 0 .. Width - 1 : First(i)
  BY DEF ctz
<1> HIDE DEF M
<1>3. \A i \in 0 .. Width : Shifts(M)[i] \in Nat
  BY <1>1, ShiftsType
<1>4. \E i \in 0 .. Width - 1 : First(i)
  <2> DEFINE s == Shifts(M)
             T == {i \in 0 .. Width - 1 : s[i] % 2 = 1}
  <2>1. T \in SUBSET Nat /\ T # {}
    <3>1. \E i \in 0 .. Width - 1 : s[i] % 2 = 1
      BY <1>1, ShiftsOdd
    <3> HIDE DEF s
    <3> QED
      BY <3>1, WidthIs
  <2>2. PICK i \in T : \A d \in T : i <= d
    BY <2>1, Least
  <2>3. \A d \in 0 .. i - 1 : s[d] % 2 = 0
    <3> TAKE d \in 0 .. i - 1
    <3>1. d \in 0 .. Width - 1 /\ d \notin T /\ s[d] \in Nat
      BY <1>3, <2>2, WidthIs
    <3>2. s[d] % 2 # 1
      BY <3>1
    <3> HIDE DEF s
    <3> QED
      BY <3>1, <3>2
  <2> QED
    BY <2>2, <2>3
<1>5. t \in 0 .. Width - 1 /\ First(t)
  <2> HIDE DEF First, t
  <2> QED
    BY <1>2, <1>4, Zenon
<1> QED
  BY <1>1, <1>5 DEF M

\* For an odd N the loops over the bits of exp are well defined: the highest bit is
\* the last shift but one, and the ones below it follow.  For exp = 1 a build may
\* take all the bits of the word instead.
LEMMA BitsAre ==
  ASSUME NEW N \in Word, N % 2 = 1
  PROVE  /\ Bits(N) \in Seq(BOOLEAN) /\ Len(Bits(N)) \in Nat
         /\ exp(N) \in Word /\ Len(Bits(N)) \in 0 .. Width
         /\ Shifts(exp(N))[Len(Bits(N))] = 1 \/ exp(N) = 1
         /\ \A j \in 1 .. Len(Bits(N)) :
              Bits(N)[j] <=> Shifts(exp(N))[Len(Bits(N)) - j] % 2 = 1
<1> DEFINE t == ctz(N)
<1>0. N \in Nat /\ N # 0 /\ R \in Nat
  BY WordFacts
<1>1. exp(N) \in Word /\ exp(N) # 0
  <2>1. CASE N = 1
    <3>1. t = 0 /\ exp(N) = Shifts(N)[0]
      BY <2>1 DEF ctz, exp
    <3> QED
      BY <1>0, <3>1, ShiftsAre
  <2>2. CASE N # 1
    <3> DEFINE M == N - 1
               v == Shifts(M)[t]
    <3>1. M \in Word /\ M <= N /\ t \in 0 .. Width - 1 /\ v % 2 = 1
      BY <2>2, CtzIs
    <3> HIDE DEF M, t
    <3>2. t \in 0 .. Width
      BY <3>1, WidthIs
    <3>3. v \in Nat /\ v <= Shifts(N)[t] /\ Shifts(N)[t] \in Word
      BY <3>1, <3>2, ShiftsOrdered, ShiftsType
    <3> HIDE DEF v
    <3>4. v # 0
      BY <3>1, <3>3
    <3>5. Shifts(N)[t] # 0
      BY <3>3, <3>4, WordFacts
    <3> QED
      BY <3>3, <3>5 DEF exp, t
  <2> QED
    BY <2>1, <2>2
<1> DEFINE s == Shifts(exp(N))
           highest == CHOOSE i \in 0 .. Width - 1 : s[i] = 1
           top == IF Masked /\ exp(N) = 1 THEN Width ELSE highest
<1>2. top \in 0 .. Width /\ (s[top] = 1 \/ exp(N) = 1)
  <2>1. \E i \in 0 .. Width - 1 : s[i] = 1
    BY <1>1, ShiftsTop
  <2> HIDE DEF s
  <2>2. highest \in 0 .. Width - 1 /\ s[highest] = 1
    BY <2>1, Zenon
  <2> HIDE DEF highest
  <2> QED
    BY <2>2, WidthIs
<1>3. Bits(N) = [j \in 1 .. top |-> s[top - j] % 2 = 1]
  BY DEF Bits
<1> HIDE DEF top, s
<1>4. top \in Nat
  BY <1>2, WidthIs
<1>5. Bits(N) \in Seq(BOOLEAN) /\ Len(Bits(N)) = top
  BY <1>3, <1>4, SMT
<1>6. \A j \in 1 .. top : Bits(N)[j] <=> s[top - j] % 2 = 1
  BY <1>3, Zenon
<1> QED
  BY <1>1, <1>2, <1>4, <1>5, <1>6 DEF s

Residues(N) == 0 .. N - 1

\* Residues of a modulus that is a word are words.
LEMMA ResidueType ==
  ASSUME NEW N \in Word, N # 0, NEW x \in Residues(N)
  PROVE  x \in Word /\ x \in Nat /\ x < N /\ N \in Nat \ {0}
<1>1. N \in Nat \ {0} /\ N < R /\ R \in Nat
  BY WordFacts
<1>2. x \in Nat /\ x < N
  BY <1>1 DEF Residues
<1>3. x < R
  BY <1>1, <1>2
<1> QED
  BY <1>1, <1>2, <1>3, WordFacts

\* An odd number is not 0.
LEMMA OddWord ==
  ASSUME NEW N \in Word, N % 2 = 1
  PROVE  N # 0 /\ N \in Nat \ {0} /\ N < R
<1>1. N \in Nat /\ N < R
  BY WordFacts
<1> QED
  BY <1>1

\* montMul and add on the residues of an odd N, with the inverse the code uses.
LEMMA ResidueProduct ==
  ASSUME NEW N \in Word, N % 2 = 1, NEW a \in Word, NEW b \in Residues(N)
  PROVE  /\ montMul(a, b, N, invert(N)) \in Residues(N)
         /\ Congruent(R * montMul(a, b, N, invert(N)), a * b, N)
<1>1. invert(N) \in Word /\ (N * invert(N)) % R = 1
  BY InverseRight
<1>2. b \in Nat /\ b < N
  BY OddWord, ResidueType
<1> QED
  BY <1>1, <1>2, MontgomeryProduct DEF Residues

\* add on the residues.
LEMMA ResidueSum ==
  ASSUME NEW N \in Word, N % 2 = 1, NEW a \in Residues(N), NEW b \in Residues(N)
  PROVE  add(a, b, N) \in Residues(N) /\ Congruent(add(a, b, N), a + b, N)
<1>1. a \in Nat /\ a < N /\ b \in Nat /\ b < N /\ N \in Nat \ {0}
  BY OddWord, ResidueType
<1>2. add(a, b, N) = (a + b) % N
  BY <1>1, ModularSum
<1>3. a + b \in Int
  BY <1>1
<1> QED
  BY <1>1, <1>2, <1>3, CongruentRemainder DEF Residues

\* Residues are equal when R times them are congruent.
LEMMA ResidueEqual ==
  ASSUME NEW N \in Word, N % 2 = 1, NEW x \in Residues(N), NEW y \in Residues(N),
         Congruent(R * x, R * y, N)
  PROVE  x = y
<1>1. x \in Nat /\ y \in Nat /\ N \in Nat \ {0} /\ R \in Int
  BY OddWord, ResidueType, WordFacts
<1>2. invert(N) \in Int /\ Congruent(N * invert(N), 1, R)
  BY InverseRight, WordFacts
<1>3. Congruent(x, y, N)
  <2> DEFINE q == invert(N)
  <2>1. x \in Int /\ y \in Int /\ N \in Int /\ R \in Int /\ q \in Int
    BY <1>1, <1>2
  <2>2. Congruent(N * q, 1, R)
    BY <1>2
  <2> HIDE DEF q
  <2> QED
    BY <2>1, <2>2, CongruentCancel
<1> QED
  BY <1>1, <1>3, CongruentUnique DEF Residues

\* one(N) and two(N) are the residues of 1 and 2.
LEMMA OneTwo ==
  ASSUME NEW N \in Word, N % 2 = 1
  PROVE  /\ one(N) \in Residues(N) /\ Congruent(one(N), R, N)
         /\ two(N) \in Residues(N) /\ Congruent(two(N), 2 * R, N)
<1>0. N \in Nat \ {0} /\ N < R /\ R \in Nat
  BY OddWord, WordFacts
<1>1. (0 - N) % R = R - N
  BY <1>0, SMT
<1>2. one(N) \in Residues(N) /\ Congruent(one(N), R - N, N)
  <2>1. R - N \in Int
    BY <1>0
  <2> QED
    BY <1>0, <1>1, <2>1, CongruentRemainder DEF one, Residues
<1>3. one(N) \in Int
  BY <1>0, <1>2 DEF Residues
<1>4. Congruent(one(N), R, N)
  <2>1. R - N = R + (-1) * N /\ -1 \in Int /\ R - N \in Int
    BY <1>0
  <2>2. Congruent(R - N, R, N)
    BY <2>1 DEF Congruent
  <2> QED
    BY <1>0, <1>2, <1>3, <2>1, <2>2, CongruentTrans
<1>5. two(N) \in Residues(N) /\ Congruent(two(N), one(N) + one(N), N)
  BY <1>2, ResidueSum DEF two
<1>6. Congruent(one(N) + one(N), R + R, N) /\ two(N) \in Int
  BY <1>0, <1>3, <1>4, <1>5, CongruentSum DEF Residues
<1>7. Congruent(two(N), R + R, N)
  BY <1>0, <1>3, <1>5, <1>6, CongruentTrans
<1>8. R + R = 2 * R
  BY <1>0
<1> QED
  BY <1>2, <1>4, <1>5, <1>7, <1>8

\* A squaring.
LEMMA SquareIs ==
  ASSUME NEW N \in Word, N % 2 = 1, NEW x \in Residues(N)
  PROVE  Square(N)[x] \in Residues(N) /\ Congruent(R * Square(N)[x], x * x, N)
<1>1. x \in Word
  BY OddWord, ResidueType
<1>2. Square(N)[x] = montMul(x, x, N, invert(N))
  BY <1>1 DEF Square
<1> QED
  BY <1>1, <1>2, ResidueProduct

\* A squaring takes c*R to c*c*R.
LEMMA SquareScaled ==
  ASSUME NEW N \in Word, N % 2 = 1, NEW x \in Residues(N), NEW c \in Nat, Congruent(x, c * R, N)
  PROVE  Square(N)[x] \in Residues(N) /\ Congruent(Square(N)[x], (c * c) * R, N)
<1> DEFINE y == Square(N)[x]
           d == c * c
<1>1. y \in Residues(N) /\ Congruent(R * y, x * x, N)
  BY SquareIs
<1>2. x \in Int /\ y \in Int /\ N \in Int /\ R \in Int /\ d \in Int
  <2>1. d \in Int
    BY SMT
  <2> QED
    BY <1>1, <2>1, OddWord, ResidueType, WordFacts
<1> HIDE DEF y
<1>3. Congruent(x * x, (c * R) * (c * R), N)
  <2>1. c * R \in Int
    BY <1>2, SMT
  <2> QED
    BY <1>2, <2>1, CongruentProduct
<1>4. (c * R) * (c * R) = R * (d * R)
  BY <1>2, SMT
<1> HIDE DEF d
<1>5. Congruent(R * y, R * (d * R), N)
  <2>1. x * x \in Int /\ R * y \in Int /\ R * (d * R) \in Int
    BY <1>2, SMT
  <2> QED
    BY <1>1, <1>2, <1>3, <1>4, <2>1, CongruentTrans
<1>6. invert(N) \in Int /\ Congruent(N * invert(N), 1, R)
  BY InverseRight, WordFacts
<1>7. Congruent(y, d * R, N)
  <2>1. d * R \in Int
    BY <1>2, SMT
  <2> QED
    BY <1>2, <1>5, <1>6, <2>1, CongruentCancel
<1> QED
  BY <1>1, <1>7 DEF y, d

\* mont_init: r2 is R*R modulo N, by which montMul takes a number to its residue.
THEOREM RSquared ==
  ASSUME NEW N \in Word, N % 2 = 1
  PROVE  r2(N) \in Residues(N) /\ r2(N) = (R * R) % N
<1> DEFINE four == add(two(N), two(N), N)
           r == Repeated(four, Square(N), Squarings)
<1>0. Squarings \in Nat /\ N \in Nat \ {0} /\ R \in Int /\ 2 * R \in Int
  BY OddWord, WordFacts DEF Squarings
<1>1. four \in Residues(N) /\ Congruent(four, 4 * R, N)
  <2>1. two(N) \in Residues(N) /\ Congruent(two(N), 2 * R, N)
    BY OneTwo
  <2>2. two(N) \in Int
    BY <2>1, OddWord, ResidueType
  <2>3. four \in Residues(N) /\ Congruent(four, two(N) + two(N), N)
    BY <2>1, ResidueSum
  <2>4. Congruent(two(N) + two(N), 2 * R + 2 * R, N)
    <3> DEFINE x == two(N)
               y == 2 * R
    <3>1. x \in Int /\ y \in Int /\ N \in Int /\ Congruent(x, y, N)
      BY <1>0, <2>1, <2>2
    <3> HIDE DEF x, y
    <3>2. Congruent(x + x, y + y, N)
      BY <3>1, CongruentSum
    <3> QED
      BY <3>2 DEF x, y
  <2>5. four \in Int
    BY <2>3, OddWord, ResidueType
  <2>6. 2 * R + 2 * R = 4 * R /\ 4 * R \in Int
    BY <1>0
  <2> HIDE DEF four
  <2> QED
    BY <1>0, <2>2, <2>3, <2>4, <2>5, <2>6, CongruentTrans
<1> HIDE DEF four
<1>2. \A x \in Residues(N) : Square(N)[x] \in Residues(N)
  BY SquareIs
<1>3. LET g == Repeated(four, Square(N), Squarings)
      IN  /\ g \in [0 .. Squarings -> Residues(N)] /\ g[0] = four
          /\ \A i \in 1 .. Squarings : g[i] = Square(N)[g[i - 1]]
  BY <1>0, <1>1, <1>2, SameRounds
<1>4. /\ r[0] = four /\ r[1] = Square(N)[r[0]] /\ r[2] = Square(N)[r[1]] /\ r[3] = Square(N)[r[2]]
      /\ Squarings = 3
  <2>1. /\ 1 \in 1 .. Squarings /\ 2 \in 1 .. Squarings /\ 3 \in 1 .. Squarings
        /\ 1 - 1 = 0 /\ 2 - 1 = 1 /\ 3 - 1 = 2 /\ Squarings = 3
    BY DEF Squarings
  <2>2. /\ r[0] = four /\ \A i \in 1 .. Squarings : r[i] = Square(N)[r[i - 1]]
    BY <1>3
  <2> HIDE DEF r
  <2>3. r[1] = Square(N)[r[1 - 1]] /\ r[2] = Square(N)[r[2 - 1]] /\ r[3] = Square(N)[r[3 - 1]]
    BY <2>1, <2>2, Zenon
  <2> QED
    BY <2>1, <2>2, <2>3
<1>5. r2(N) = r[3]
  BY <1>4 DEF r2, four
<1> HIDE DEF r
<1>6. r[0] \in Residues(N) /\ Congruent(r[0], 4 * R, N)
  BY <1>1, <1>4
<1>7. r[1] \in Residues(N) /\ Congruent(r[1], 16 * R, N)
  BY <1>4, <1>6, SquareScaled, 4 * 4 = 16
<1>8. r[2] \in Residues(N) /\ Congruent(r[2], 256 * R, N)
  BY <1>4, <1>7, SquareScaled, 16 * 16 = 256
<1>9. r[3] \in Residues(N) /\ Congruent(r[3], R * R, N)
  <2>1. 256 * 256 = R
    BY WordFacts
  <2> QED
    BY <1>4, <1>8, <2>1, SquareScaled
<1>10. r[3] = (R * R) % N
  <2> DEFINE z == R * R
             y == z % N
  <2>1. z \in Int
    BY <1>0, SMT
  <2>2. Congruent(r[3], z, N)
    BY <1>9
  <2> HIDE DEF z
  <2>3. y \in Residues(N) /\ Congruent(y, z, N)
    BY <1>0, <2>1, CongruentRemainder DEF Residues
  <2> HIDE DEF y
  <2>4. y \in Int /\ r[3] \in Int
    BY <1>9, <2>3, OddWord, ResidueType
  <2>5. Congruent(z, y, N)
    BY <1>0, <2>1, <2>3, <2>4, CongruentSym
  <2>6. Congruent(r[3], y, N)
    BY <1>0, <2>1, <2>2, <2>4, <2>5, CongruentTrans
  <2>7. r[3] = y
    BY <1>0, <1>9, <2>3, <2>6, CongruentUnique DEF Residues
  <2> QED
    BY <2>7 DEF y, z
<1> QED
  BY <1>5, <1>9, <1>10

\* The two ways to go on after a squaring, and the rounds they make of the bits.
Doubling(N)    == [x \in Word |-> add(x, x, N)]
TimesBase(N, b) == [x \in Word |-> montMul(x, b, N, invert(N))]
Rounds(N, step) == [j \in 1 .. Len(Bits(N)) |-> [x \in Word |->
                      IF Bits(N)[j] THEN step[Square(N)[x]] ELSE Square(N)[x]]]

\* Powered in terms of those rounds.
LEMMA PoweredIs ==
  ASSUME NEW N, NEW start, NEW step
  PROVE  Powered(N, start, step) = Iterates(start, Rounds(N, step), Len(Bits(N)))[Len(Bits(N))]
BY DEF Powered, Rounds

\* The residue of a base, which strong_prp reaches through r2.
LEMMA ResidueOfBase ==
  ASSUME NEW N \in Word, N % 2 = 1, NEW b \in Word
  PROVE  /\ montMul(b, r2(N), N, invert(N)) \in Residues(N)
         /\ Congruent(montMul(b, r2(N), N, invert(N)), b * R, N)
<1> DEFINE s == r2(N)
           x == montMul(b, s, N, invert(N))
<1>0. N \in Nat \ {0} /\ N \in Int /\ R \in Int /\ b \in Nat /\ b \in Int
  BY OddWord, WordFacts
<1>1. s \in Residues(N) /\ s = (R * R) % N
  BY RSquared
<1> HIDE DEF s
<1>2. x \in Residues(N) /\ Congruent(R * x, b * s, N)
  BY <1>1, ResidueProduct
<1> HIDE DEF x
<1>3. x \in Int /\ s \in Int
  BY <1>1, <1>2, OddWord, ResidueType
<1> DEFINE z == R * R
<1>4. z \in Int
  BY <1>0, SMT
<1>5. b * z = R * (b * R) /\ b * R \in Int
  BY <1>0, SMT
<1>6. s = z % N
  BY <1>1
<1> HIDE DEF z
<1>7. Congruent(s, z, N)
  BY <1>0, <1>4, <1>6, CongruentRemainder
<1>8. Congruent(b * s, b * z, N)
  BY <1>0, <1>3, <1>4, <1>7, CongruentSelf, CongruentProduct
<1>9. Congruent(R * x, R * (b * R), N)
  <2>1. R * x \in Int /\ b * s \in Int /\ b * z \in Int
    BY <1>0, <1>3, <1>4, SMT
  <2> QED
    BY <1>0, <1>2, <1>5, <1>8, <2>1, CongruentTrans
<1>10. Congruent(x, b * R, N)
  <2>1. invert(N) \in Int /\ Congruent(N * invert(N), 1, R)
    BY InverseRight, WordFacts
  <2> DEFINE q == invert(N)
  <2> HIDE DEF q
  <2>2. q \in Int /\ Congruent(N * q, 1, R)
    BY <2>1 DEF q
  <2> QED
    BY <1>0, <1>3, <1>5, <1>9, <2>2, CongruentCancel
<1> QED
  BY <1>2, <1>10 DEF x, s

\* That of 2 is the one PrimeQ begins with.
LEMMA ResidueOfTwo ==
  ASSUME NEW N \in Word, N % 2 = 1
  PROVE  montMul(2, r2(N), N, invert(N)) = two(N)
<1> DEFINE x == montMul(2, r2(N), N, invert(N))
           t == two(N)
<1>0. N \in Nat \ {0} /\ N \in Int /\ 2 \in Word /\ 2 * R \in Int
  BY OddWord, WordFacts, WordType
<1>1. x \in Residues(N) /\ Congruent(x, 2 * R, N)
  BY <1>0, ResidueOfBase
<1>2. t \in Residues(N) /\ Congruent(t, 2 * R, N)
  BY OneTwo
<1> HIDE DEF x, t
<1>3. x \in Int /\ t \in Int
  BY <1>1, <1>2, OddWord, ResidueType
<1>4. Congruent(2 * R, t, N)
  BY <1>0, <1>2, <1>3, CongruentSym
<1>5. Congruent(x, t, N)
  BY <1>0, <1>1, <1>3, <1>4, CongruentTrans
<1>6. x = t
  BY <1>0, <1>1, <1>2, <1>5, CongruentUnique DEF Residues
<1> QED
  BY <1>6 DEF x, t

\* A product with the residue of 2 is the doubling.
LEMMA TimesTwo ==
  ASSUME NEW N \in Word, N % 2 = 1, NEW x \in Residues(N)
  PROVE  montMul(x, two(N), N, invert(N)) = add(x, x, N)
<1> DEFINE t == two(N)
           y == montMul(x, t, N, invert(N))
           d == add(x, x, N)
<1>0. N \in Nat \ {0} /\ N \in Int /\ R \in Int /\ 2 * R \in Int /\ x \in Word /\ x \in Int
  BY OddWord, WordFacts, ResidueType
<1>1. t \in Residues(N) /\ Congruent(t, 2 * R, N)
  BY OneTwo
<1> HIDE DEF t
<1>2. y \in Residues(N) /\ Congruent(R * y, x * t, N)
  BY <1>0, <1>1, ResidueProduct
<1>3. d \in Residues(N) /\ Congruent(d, x + x, N)
  BY ResidueSum
<1> HIDE DEF y, d
<1>4. t \in Int /\ y \in Int /\ d \in Int
  BY <1>1, <1>2, <1>3, OddWord, ResidueType
<1>5. /\ R * y \in Int /\ x * t \in Int /\ R * d \in Int /\ x * (2 * R) \in Int /\ x + x \in Int
      /\ x * (2 * R) = R * (x + x)
  BY <1>0, <1>4, SMT
<1>6. Congruent(x * t, x * (2 * R), N)
  BY <1>0, <1>1, <1>4, CongruentSelf, CongruentProduct
<1>7. Congruent(R * d, x * (2 * R), N)
  <2>1. Congruent(R * d, R * (x + x), N)
    BY <1>0, <1>3, <1>4, <1>5, CongruentSelf, CongruentProduct
  <2> QED
    BY <2>1, <1>5
<1>8. Congruent(x * (2 * R), R * d, N)
  BY <1>0, <1>5, <1>7, CongruentSym
<1>9. Congruent(R * y, x * (2 * R), N)
  BY <1>0, <1>2, <1>5, <1>6, CongruentTrans
<1>10. Congruent(R * y, R * d, N)
  BY <1>0, <1>5, <1>8, <1>9, CongruentTrans
<1>11. y = d
  BY <1>2, <1>3, <1>10, ResidueEqual
<1> QED
  BY <1>11 DEF y, t, d

\* So the rounds of both forms are the same on the residues.
LEMMA RoundsAgree ==
  ASSUME NEW N \in Word, N % 2 = 1
  PROVE  \A j \in 1 .. Len(Bits(N)) : \A x \in Residues(N) :
           /\ Rounds(N, Doubling(N))[j][x] \in Residues(N)
           /\ Rounds(N, TimesBase(N, two(N)))[j][x] = Rounds(N, Doubling(N))[j][x]
<1> SUFFICES ASSUME NEW j \in 1 .. Len(Bits(N)), NEW x \in Residues(N)
             PROVE  /\ Rounds(N, Doubling(N))[j][x] \in Residues(N)
                    /\ Rounds(N, TimesBase(N, two(N)))[j][x] = Rounds(N, Doubling(N))[j][x]
  OBVIOUS
<1> DEFINE y == Square(N)[x]
<1>1. x \in Word /\ y \in Residues(N)
  BY OddWord, ResidueType, SquareIs
<1>2. y \in Word
  BY <1>1, OddWord, ResidueType
<1>3. /\ Rounds(N, Doubling(N))[j][x] = IF Bits(N)[j] THEN Doubling(N)[y] ELSE y
      /\ Rounds(N, TimesBase(N, two(N)))[j][x] = IF Bits(N)[j] THEN TimesBase(N, two(N))[y] ELSE y
  BY <1>1, Zenon DEF Rounds
<1> HIDE DEF y
<1>4. Doubling(N)[y] = add(y, y, N) /\ TimesBase(N, two(N))[y] = montMul(y, two(N), N, invert(N))
  BY <1>2 DEF Doubling, TimesBase
<1>5. Doubling(N)[y] \in Residues(N) /\ TimesBase(N, two(N))[y] = Doubling(N)[y]
  BY <1>1, <1>4, ResidueSum, TimesTwo
<1> QED
  BY <1>1, <1>3, <1>5, Zenon

\* PrimeQ and strong_prp to base 2 are written in two ways, one with doublings
\* and one with products by a residue reached through r2: they decide the same.
THEOREM TestsAgree ==
  ASSUME NEW N \in Word, N % 2 = 1
  PROVE  strong_prp(2, N) <=> PrimeQ(N)
<1> DEFINE f == Rounds(N, Doubling(N))
           g == Rounds(N, TimesBase(N, two(N)))
           len == Len(Bits(N))
<1>1. len \in Nat
  BY BitsAre
<1>2. two(N) \in Residues(N)
  BY OneTwo
<1>3. \A j \in 1 .. len : \A x \in Residues(N) : f[j][x] \in Residues(N) /\ g[j][x] = f[j][x]
  BY RoundsAgree
<1>4. /\ Powered(N, two(N), Doubling(N)) = Iterates(two(N), f, len)[len]
      /\ Powered(N, two(N), TimesBase(N, two(N))) = Iterates(two(N), g, len)[len]
  BY PoweredIs
<1> HIDE DEF f, g, len
<1>5. Iterates(two(N), g, len) = Iterates(two(N), f, len)
  BY <1>1, <1>2, <1>3, IteratesAgree
<1>6. Powered(N, two(N), TimesBase(N, two(N))) = Powered(N, two(N), Doubling(N))
  BY <1>4, <1>5
<1>7. PrimeQ(N) = Clauses(N, two(N), Doubling(N))
  BY DEF PrimeQ, Doubling
<1>8. strong_prp(2, N) = Clauses(N, two(N), TimesBase(N, two(N)))
  BY ResidueOfTwo DEF strong_prp, TimesBase
<1>9. Clauses(N, two(N), TimesBase(N, two(N))) = Clauses(N, two(N), Doubling(N))
  BY <1>6, Zenon DEF Clauses
<1> QED
  BY <1>7, <1>8, <1>9

-----------------------------------------------------------------------------
\* The tests and the primes.


\* Modulo a prime, a number and its negative are the only ones with their square.
LEMMA SquareRoots ==
  ASSUME NEW p \in Nat, 1 < p, \A d \in 2 .. p - 1 : p % d # 0,
         NEW x \in 0 .. p - 1, NEW y \in 0 .. p - 1, Congruent(x * x, y * y, p)
  PROVE  x = y \/ x = p - y
<1>1. ASSUME NEW u \in 0 .. p - 1, NEW w \in 0 .. p - 1, u < w, Congruent(w * w, u * u, p)
      PROVE  w = p - u
  <2> DEFINE d == w - u
             a == w + u
  <2>1. /\ d \in Nat /\ a \in Nat /\ 0 < d /\ d < p /\ 0 < a /\ a < p + p
        /\ p \in Nat \ {0} /\ u \in Nat /\ w \in Nat /\ w = u + d /\ a = w + u
    BY <1>1
  <2> HIDE DEF d, a
  <2>2. w * w = u * u + d * a /\ d * a \in Nat /\ u * u \in Nat /\ w * w \in Nat
    <3>1. a = d + (u + u)
      BY <2>1
    <3>2. (u + d) * (u + d) = u * u + d * (d + (u + u))
      BY <2>1, SMT
    <3>3. d * a \in Nat /\ u * u \in Nat /\ w * w \in Nat
      BY <2>1, ProductType
    <3> QED
      BY <2>1, <3>1, <3>2, <3>3
  <2>3. PICK t \in Int : w * w = u * u + t * p
    BY <1>1 DEF Congruent
  <2>4. d * a = 0 + t * p
    <3> DEFINE f == w * w
               g == u * u
               h == d * a
               l == t * p
    <3>1. f \in Nat /\ g \in Nat /\ h \in Nat /\ f = g + h /\ f = g + l /\ l \in Int
      BY <2>2, <2>3
    <3> HIDE DEF f, g, h, l
    <3>2. h = 0 + l
      BY <3>1, SMT
    <3> QED
      BY <3>2 DEF h, l
  <2>5. (d * a) % p = 0
    <3>1. Congruent(d * a, 0, p)
      BY <2>3, <2>4 DEF Congruent
    <3>2. 0 \in Nat /\ 0 < p /\ d * a \in Int
      BY <2>1, <2>2, SMT
    <3> QED
      BY <2>1, <3>1, <3>2, RemainderOf
  <2>6. d % p # 0
    BY <2>1, SMT
  <2>7. a % p = 0
    BY <2>1, <2>5, <2>6, Euclid
  <2>8. a = p
    <3>1. CASE a < p
      BY <2>1, <2>7, <3>1, SMT
    <3>2. CASE a > p
      <4>1. a = p * 1 + (a - p) /\ a - p \in Nat /\ a - p < p /\ 1 \in Int
        BY <2>1, <3>2
      <4>2. (p * 1 + (a - p)) % p = a - p
        BY <2>1, <4>1, RemainderIs
      <4> QED
        BY <2>7, <3>2, <4>1, <4>2
    <3> QED
      BY <2>1, <3>1, <3>2
  <2> QED
    BY <2>1, <2>8
<1>2. x \in Int /\ y \in Int /\ p \in Int /\ x * x \in Int /\ y * y \in Int
  BY SMT
<1>3. CASE x < y
  <2>1. Congruent(y * y, x * x, p)
    BY <1>2, CongruentSym
  <2>2. y = p - x
    BY <1>1, <1>3, <2>1
  <2> QED
    BY <1>2, <2>2
<1>4. CASE y < x
  BY <1>1, <1>4
<1> QED
  BY <1>2, <1>3, <1>4

\* A power of b in the form of the residues: x is the residue of b^e.
Stands(x, b, e, N) == x \in Residues(N) /\ Congruent(x, Pow(b, e) * R, N)

\* A squaring doubles the exponent.
LEMMA SquareStands ==
  ASSUME NEW N \in Word, N % 2 = 1, NEW b \in Nat, NEW e \in Nat, NEW x, Stands(x, b, e, N)
  PROVE  Stands(Square(N)[x], b, e + e, N)
<1> DEFINE c == Pow(b, e)
<1>1. c \in Nat /\ x \in Residues(N) /\ Congruent(x, c * R, N)
  BY PowIs DEF Stands
<1>2. Pow(b, e + e) = c * c
  BY PowSum
<1> HIDE DEF c
<1>3. Square(N)[x] \in Residues(N) /\ Congruent(Square(N)[x], (c * c) * R, N)
  BY <1>1, SquareScaled
<1> QED
  BY <1>2, <1>3 DEF Stands

\* A step multiplies a residue by b.
Multiplies(step, b, N) ==
  \A x \in Residues(N) : step[x] \in Residues(N) /\ Congruent(step[x], x * b, N)

LEMMA StepStands ==
  ASSUME NEW N \in Word, N % 2 = 1, NEW b \in Nat, NEW e \in Nat, NEW x, Stands(x, b, e, N),
         NEW step, Multiplies(step, b, N)
  PROVE  Stands(step[x], b, e + 1, N)
<1> DEFINE c == Pow(b, e)
           y == step[x]
<1>1. c \in Nat /\ x \in Residues(N) /\ Congruent(x, c * R, N)
  BY PowIs DEF Stands
<1>2. y \in Residues(N) /\ Congruent(y, x * b, N)
  BY <1>1 DEF Multiplies
<1>3. Pow(b, e + 1) = c * b
  BY PowIs
<1>4. x \in Int /\ y \in Int /\ N \in Int /\ R \in Int /\ b \in Int /\ c \in Int
  BY <1>1, <1>2, OddWord, ResidueType, WordFacts
<1> HIDE DEF c, y
<1>5. x * b \in Int /\ c * R \in Int /\ (c * R) * b = (c * b) * R /\ (c * b) * R \in Int
  BY <1>4, SMT
<1>6. Congruent(x * b, (c * R) * b, N)
  BY <1>1, <1>4, <1>5, CongruentSelf, CongruentProduct
<1>7. Congruent(y, (c * b) * R, N)
  <2>1. Congruent(x * b, (c * b) * R, N)
    BY <1>5, <1>6
  <2> QED
    BY <1>2, <1>4, <1>5, <2>1, CongruentTrans
<1> QED
  BY <1>2, <1>3, <1>7 DEF Stands, y

\* The rounds over the bits of exp, on the residues.
LEMMA PoweredRounds ==
  ASSUME NEW N \in Word, N % 2 = 1, NEW b \in Nat, NEW start, Stands(start, b, 1, N),
         NEW step, Multiplies(step, b, N)
  PROVE  LET g == Iterates(start, Rounds(N, step), Len(Bits(N)))
         IN  /\ Powered(N, start, step) = g[Len(Bits(N))] /\ g[0] = start
             /\ \A i \in 1 .. Len(Bits(N)) : \A x \in Residues(N) : g[i - 1] = x =>
                  g[i] = IF Bits(N)[i] THEN step[Square(N)[x]] ELSE Square(N)[x]
<1> DEFINE len == Len(Bits(N))
           next == Rounds(N, step)
           g == Iterates(start, next, len)
<1>1. len \in Nat
  BY BitsAre
<1>3. \A j \in 1 .. len : \A x \in Residues(N) :
        next[j][x] = IF Bits(N)[j] THEN step[Square(N)[x]] ELSE Square(N)[x]
  <2> TAKE j \in 1 .. len
  <2> TAKE x \in Residues(N)
  <2>1. x \in Word
    BY OddWord, ResidueType
  <2> QED
    BY <2>1, Zenon DEF Rounds
<1>4. \A j \in 1 .. len : \A x \in Residues(N) : next[j][x] \in Residues(N)
  <2> TAKE j \in 1 .. len
  <2> TAKE x \in Residues(N)
  <2>1. Square(N)[x] \in Residues(N)
    BY SquareIs
  <2>2. step[Square(N)[x]] \in Residues(N)
    BY <2>1 DEF Multiplies
  <2> QED
    BY <1>3, <2>1, <2>2, Zenon
<1>5. Powered(N, start, step) = g[len]
  BY PoweredIs
<1> HIDE DEF len, next
<1>6. start \in Residues(N)
  BY DEF Stands
<1>7. g[0] = start /\ \A i \in 1 .. len : g[i] = next[i][g[i - 1]]
  BY <1>1, <1>4, <1>6, IteratesAre
<1> HIDE DEF g
<1>8. \A i \in 1 .. len : \A x \in Residues(N) : g[i - 1] = x =>
        g[i] = IF Bits(N)[i] THEN step[Square(N)[x]] ELSE Square(N)[x]
  <2> TAKE i \in 1 .. len
  <2> SUFFICES ASSUME NEW x \in Residues(N), g[i - 1] = x
               PROVE  g[i] = IF Bits(N)[i] THEN step[Square(N)[x]] ELSE Square(N)[x]
    OBVIOUS
  <2>1. g[i] = next[i][x]
    BY <1>7
  <2> QED
    BY <1>3, <2>1, Zenon
<1> QED
  BY <1>5, <1>7, <1>8 DEF g, next, len

\* Whatever bits the loop takes, it arrives at a power of b.
LEMMA PoweredPower ==
  ASSUME NEW N \in Word, N % 2 = 1, NEW b \in Nat, NEW start, Stands(start, b, 1, N),
         NEW step, Multiplies(step, b, N)
  PROVE  \E e \in Nat : Stands(Powered(N, start, step), b, e, N)
<1> DEFINE len == Len(Bits(N))
           g == Iterates(start, Rounds(N, step), len)
           S == {i \in Nat : i <= len => \E e \in Nat : Stands(g[i], b, e, N)}
<1>1. len \in Nat
  BY BitsAre
<1>2. /\ Powered(N, start, step) = g[len] /\ g[0] = start
      /\ \A i \in 1 .. len : \A x \in Residues(N) : g[i - 1] = x =>
           g[i] = IF Bits(N)[i] THEN step[Square(N)[x]] ELSE Square(N)[x]
  BY PoweredRounds
<1> HIDE DEF g, len
<1>3. 0 \in S
  <2>1. 1 \in Nat /\ Stands(g[0], b, 1, N)
    BY <1>2
  <2> QED
    BY <2>1
<1>4. ASSUME NEW i \in Nat, i \in S
      PROVE  i + 1 \in S
  <2> SUFFICES ASSUME i + 1 <= len PROVE \E e \in Nat : Stands(g[i + 1], b, e, N)
    BY SMT
  <2>1. i + 1 \in 1 .. len /\ (i + 1) - 1 = i /\ i <= len
    BY <1>1
  <2>2. PICK e \in Nat : Stands(g[i], b, e, N)
    BY <1>4, <2>1
  <2> DEFINE x == g[i]
             y == Square(N)[x]
  <2>3. x \in Residues(N) /\ g[(i + 1) - 1] = x
    BY <2>1, <2>2 DEF Stands
  <2>4. g[i + 1] = IF Bits(N)[i + 1] THEN step[y] ELSE y
    BY <1>2, <2>1, <2>3
  <2>5. Stands(x, b, e, N)
    BY <2>2
  <2> HIDE DEF x
  <2>6. Stands(y, b, e + e, N) /\ e + e \in Nat /\ (e + e) + 1 \in Nat
    BY <2>5, SquareStands
  <2> HIDE DEF y
  <2>7. Stands(step[y], b, (e + e) + 1, N)
    BY <2>6, StepStands
  <2> QED
    BY <2>4, <2>6, <2>7, Zenon
<1>5. len \in S
  <2> HIDE DEF S
  <2> QED
    BY <1>1, <1>3, <1>4, SetInduction
<1>6. len <= len
  BY <1>1
<1> QED
  BY <1>2, <1>5, <1>6

\* With the bits of exp alone, that is the power of b to exp.
LEMMA PoweredStands ==
  ASSUME NEW N \in Word, N % 2 = 1, NEW b \in Nat, NEW start, Stands(start, b, 1, N),
         NEW step, Multiplies(step, b, N), Shifts(exp(N))[Len(Bits(N))] = 1
  PROVE  Stands(Powered(N, start, step), b, exp(N), N)
<1> DEFINE s == Shifts(exp(N))
           len == Len(Bits(N))
           g == Iterates(start, Rounds(N, step), len)
<1>1. /\ exp(N) \in Word /\ len \in Nat /\ len \in 0 .. Width /\ s[len] = 1
      /\ \A j \in 1 .. len : Bits(N)[j] <=> s[len - j] % 2 = 1
  BY BitsAre
<1>2. /\ s[0] = exp(N) /\ \A i \in 0 .. Width : s[i] \in Nat
      /\ \A i \in 1 .. Width : s[i] = s[i - 1] \div 2
  BY <1>1, ShiftsAre, ShiftsType
<1>3. /\ Powered(N, start, step) = g[len] /\ g[0] = start
      /\ \A i \in 1 .. len : \A x \in Residues(N) : g[i - 1] = x =>
           g[i] = IF Bits(N)[i] THEN step[Square(N)[x]] ELSE Square(N)[x]
  BY PoweredRounds
<1> HIDE DEF s, len, g
<1> DEFINE S == {i \in Nat : i <= len => Stands(g[i], b, s[len - i], N)}
<1>8. 0 \in S
  <2>1. len - 0 = len
    BY <1>1
  <2> QED
    BY <1>1, <1>3, <2>1
<1>9. ASSUME NEW i \in Nat, i \in S
      PROVE  i + 1 \in S
  <2> SUFFICES ASSUME i + 1 <= len PROVE Stands(g[i + 1], b, s[len - (i + 1)], N)
    BY SMT
  <2> DEFINE x == g[i]
             y == Square(N)[x]
             h == s[len - i]
             e == s[len - (i + 1)]
  <2>1. i + 1 \in 1 .. len /\ (i + 1) - 1 = i /\ len - i \in 1 .. Width /\ (len - i) - 1 = len - (i + 1)
        /\ len - (i + 1) \in 0 .. Width /\ len - i \in 0 .. Width
    BY <1>1, WidthIs
  <2>2. Stands(x, b, h, N) /\ h \in Nat /\ e \in Nat /\ h = e \div 2
    <3>1. i <= len
      BY <1>1
    <3>2. Stands(x, b, h, N)
      BY <1>9, <3>1
    <3>3. s[len - i] = s[(len - i) - 1] \div 2
      BY <1>2, <2>1
    <3> QED
      BY <1>2, <2>1, <3>2, <3>3
  <2>3. g[i + 1] = (IF e % 2 = 1 THEN step[y] ELSE y)
    <3>1. x \in Residues(N) /\ g[(i + 1) - 1] = x
      BY <2>1, <2>2 DEF Stands
    <3>2. g[i + 1] = IF Bits(N)[i + 1] THEN step[y] ELSE y
      BY <1>3, <2>1, <3>1
    <3>3. Bits(N)[i + 1] <=> e % 2 = 1
      BY <1>1, <2>1
    <3> HIDE DEF x, y, e
    <3> QED
      BY <3>2, <3>3, Zenon
  <2> HIDE DEF x, h, e
  <2>4. Stands(y, b, h + h, N)
    BY <2>2, SquareStands
  <2>5. CASE e % 2 = 1
    <3>1. e = (h + h) + 1 /\ h + h \in Nat
      BY <2>2, <2>5, SMT
    <3> HIDE DEF y
    <3>2. Stands(step[y], b, (h + h) + 1, N)
      BY <2>4, <3>1, StepStands
    <3> QED
      BY <2>3, <2>5, <3>1, <3>2 DEF e
  <2>6. CASE e % 2 # 1
    <3>1. e = h + h
      BY <2>2, <2>6, SMT
    <3> QED
      BY <2>3, <2>4, <2>6, <3>1 DEF e
  <2> QED
    BY <2>5, <2>6
<1>10. len \in S
  <2> HIDE DEF S
  <2> QED
    BY <1>1, <1>8, <1>9, SetInduction
<1>11. Stands(g[len], b, s[len - len], N)
  BY <1>1, <1>10
<1>12. len - len = 0
  BY <1>1
<1> QED
  BY <1>2, <1>3, <1>11, <1>12

\* No power of a number is a multiple of a prime that does not divide it.
LEMMA PowNotZero ==
  ASSUME NEW N \in Nat, 1 < N, \A d \in 2 .. N - 1 : N % d # 0,
         NEW b \in Nat, b % N # 0, NEW e \in Nat
  PROVE  Pow(b, e) % N # 0
<1> DEFINE S == {i \in Nat : Pow(b, i) % N # 0}
<1>1. 0 \in S
  <2>1. Pow(b, 0) = 1
    BY PowIs
  <2> QED
    BY <2>1, SMT
<1>2. ASSUME NEW i \in Nat, i \in S
      PROVE  i + 1 \in S
  <2>1. Pow(b, i + 1) = Pow(b, i) * b /\ Pow(b, i) \in Nat
    BY PowIs, Zenon
  <2>2. (Pow(b, i) * b) % N # 0
    BY <1>2, <2>1, Euclid
  <2> QED
    BY <2>1, <2>2
<1>3. e \in S
  <2> HIDE DEF S
  <2> QED
    BY <1>1, <1>2, SetInduction
<1> QED
  BY <1>3

\* Modulo a prime what the loop arrives at is the power to exp of b or, where the
\* loop takes the bits of the whole word and exp = 1, of a power of b.
LEMMA PoweredExp ==
  ASSUME NEW N \in Word, N % 2 = 1, 1 < N, \A d \in 2 .. N - 1 : N % d # 0,
         NEW b \in Nat, b % N # 0, NEW start, Stands(start, b, 1, N),
         NEW step, Multiplies(step, b, N)
  PROVE  \E c \in Nat : c % N # 0 /\ Stands(Powered(N, start, step), c, exp(N), N)
<1>1. CASE Shifts(exp(N))[Len(Bits(N))] = 1
  <2>1. Stands(Powered(N, start, step), b, exp(N), N)
    BY <1>1, PoweredStands
  <2> QED
    BY <2>1
<1>2. CASE exp(N) = 1
  <2> DEFINE x == Powered(N, start, step)
  <2>1. PICK e \in Nat : Stands(x, b, e, N)
    BY PoweredPower
  <2> HIDE DEF x
  <2> DEFINE c == Pow(b, e)
  <2>2. c \in Nat /\ c % N # 0
    <3>1. N \in Nat
      BY OddWord
    <3> QED
      BY <3>1, PowIs, PowNotZero
  <2>3. x \in Residues(N) /\ Congruent(x, c * R, N)
    BY <2>1 DEF Stands
  <2> HIDE DEF c
  <2>4. Pow(c, 1) = c
    <3>1. Pow(c, 0 + 1) = Pow(c, 0) * c /\ Pow(c, 0) = 1
      BY <2>2, PowIs
    <3> QED
      BY <2>2, <3>1
  <2>5. Stands(x, c, exp(N), N)
    BY <1>2, <2>3, <2>4 DEF Stands
  <2> QED
    BY <2>2, <2>5 DEF x
<1> QED
  BY <1>1, <1>2, BitsAre

\* exp and ctz: halving N - 1 as often as it is even leaves exp.
LEMMA ExpIs ==
  ASSUME NEW N \in Word, N % 2 = 1, N # 1
  PROVE  LET s == Shifts(N - 1)
         IN  /\ N - 1 \in Word /\ ctz(N) \in 1 .. Width - 1 /\ s[ctz(N)] = exp(N)
             /\ \A i \in 1 .. ctz(N) : s[i] \in Nat /\ s[i - 1] = s[i] + s[i]
<1> DEFINE t == ctz(N)
           s == Shifts(N - 1)
           u == Shifts(N)
<1>1. /\ t \in 0 .. Width - 1 /\ s[t] % 2 = 1 /\ \A i \in 0 .. t - 1 : s[i] % 2 = 0
      /\ N - 1 \in Word
  BY CtzIs
<1>2. /\ s[0] = N - 1 /\ \A i \in 0 .. Width : s[i] \in Nat
      /\ \A i \in 1 .. Width : s[i] = s[i - 1] \div 2
  BY <1>1, ShiftsAre, ShiftsType
<1>3. u[0] = N /\ \A i \in 1 .. Width : u[i] = u[i - 1] \div 2
  BY ShiftsAre
<1>4. exp(N) = u[t]
  BY DEF exp
<1> HIDE DEF t, s, u
<1>5. N \in Nat /\ (N - 1) % 2 = 0 /\ N \div 2 = (N - 1) \div 2
  <2>1. N \in Nat
    BY WordFacts
  <2> QED
    BY <2>1, SMT
<1>6. t \in 1 .. Width - 1
  <2>1. t # 0
    BY <1>1, <1>2, <1>5
  <2> QED
    BY <1>1, <2>1, WidthIs
<1> DEFINE S == {i \in Nat : i < Width => s[i + 1] = u[i + 1]}
<1>7. 0 \in S
  <2>1. 0 + 1 \in 1 .. Width /\ (0 + 1) - 1 = 0
    BY WidthIs
  <2>2. s[0 + 1] = (N - 1) \div 2 /\ u[0 + 1] = N \div 2
    BY <1>2, <1>3, <2>1
  <2> QED
    BY <1>5, <2>2
<1>8. ASSUME NEW i \in Nat, i \in S
      PROVE  i + 1 \in S
  <2> SUFFICES ASSUME i + 1 < Width PROVE s[(i + 1) + 1] = u[(i + 1) + 1]
    BY SMT
  <2>1. (i + 1) + 1 \in 1 .. Width /\ ((i + 1) + 1) - 1 = i + 1 /\ i < Width
    BY WidthIs
  <2>2. s[i + 1] = u[i + 1]
    BY <1>8, <2>1
  <2> QED
    BY <1>2, <1>3, <2>1, <2>2
<1>9. t - 1 \in S
  <2>1. t - 1 \in Nat
    BY <1>6
  <2> HIDE DEF S
  <2> QED
    BY <1>7, <1>8, <2>1, SetInduction
<1>10. s[t] = u[t]
  <2>1. t - 1 < Width /\ (t - 1) + 1 = t
    BY <1>6, WidthIs
  <2> QED
    BY <1>9, <2>1
<1>11. ASSUME NEW i \in 1 .. t
       PROVE  s[i] \in Nat /\ s[i - 1] = s[i] + s[i]
  <2>1. i \in 1 .. Width /\ i \in 0 .. Width /\ i - 1 \in 0 .. Width /\ i - 1 \in 0 .. t - 1
    BY <1>6, WidthIs
  <2>2. s[i] = s[i - 1] \div 2 /\ s[i - 1] % 2 = 0 /\ s[i - 1] \in Nat /\ s[i] \in Nat
    BY <1>1, <1>2, <2>1
  <2> DEFINE x == s[i - 1]
             y == s[i]
  <2> HIDE DEF x, y
  <2>3. x \in Nat /\ y = x \div 2 /\ x % 2 = 0
    BY <2>2 DEF x, y
  <2>4. x = y + y
    BY <2>3, SMT
  <2> QED
    BY <2>2, <2>4 DEF x, y
<1> QED
  BY <1>1, <1>4, <1>6, <1>10, <1>11 DEF t, s

\* The residues the tests look at.
LEMMA SquaresAre ==
  ASSUME NEW N \in Word, N % 2 = 1, NEW x \in Residues(N)
  PROVE  LET r == Repeated(x, Square(N), Width)
         IN  /\ r[0] = x
             /\ \A i \in 1 .. Width : r[i] = Square(N)[r[i - 1]] /\ r[i - 1] \in Residues(N)
<1> DEFINE square == Square(N)
           r == Repeated(x, square, Width)
<1>1. \A y \in Residues(N) : square[y] \in Residues(N)
  BY SquareIs
<1> HIDE DEF square
<1>2. LET g == Repeated(x, square, Width)
      IN  /\ g \in [0 .. Width -> Residues(N)] /\ g[0] = x
          /\ \A i \in 1 .. Width : g[i] = square[g[i - 1]]
  BY <1>1, WidthType, SameRounds
<1>3. /\ r \in [0 .. Width -> Residues(N)] /\ r[0] = x
      /\ \A i \in 1 .. Width : r[i] = square[r[i - 1]]
  BY <1>2
<1> HIDE DEF r
<1>4. \A i \in 1 .. Width : i - 1 \in 0 .. Width
  BY WidthIs
<1>5. \A i \in 1 .. Width : r[i] = square[r[i - 1]] /\ r[i - 1] \in Residues(N)
  BY <1>3, <1>4
<1> QED
  BY <1>3, <1>5 DEF r, square

\* They are the powers of b to exp, 2*exp, ..., N - 1.
LEMMA SquaresStand ==
  ASSUME NEW N \in Word, N % 2 = 1, N # 1, NEW b \in Nat, NEW x, Stands(x, b, exp(N), N)
  PROVE  \A i \in 0 .. ctz(N) :
           Stands(Repeated(x, Square(N), Width)[i], b, Shifts(N - 1)[ctz(N) - i], N)
<1> DEFINE t == ctz(N)
           s == Shifts(N - 1)
           r == Repeated(x, Square(N), Width)
<1>1. /\ t \in 1 .. Width - 1 /\ s[t] = exp(N)
      /\ \A i \in 1 .. t : s[i] \in Nat /\ s[i - 1] = s[i] + s[i]
  BY ExpIs
<1>2. r[0] = x /\ \A i \in 1 .. Width : r[i] = Square(N)[r[i - 1]]
  <2>1. x \in Residues(N)
    BY DEF Stands
  <2> QED
    BY <2>1, SquaresAre
<1> HIDE DEF t, s, r
<1> DEFINE S == {i \in Nat : i <= t => Stands(r[i], b, s[t - i], N)}
<1>3. 0 \in S
  <2>1. t - 0 = t
    BY <1>1
  <2> QED
    BY <1>1, <1>2, <2>1
<1>4. ASSUME NEW i \in Nat, i \in S
      PROVE  i + 1 \in S
  <2> SUFFICES ASSUME i + 1 <= t PROVE Stands(r[i + 1], b, s[t - (i + 1)], N)
    BY SMT
  <2>1. i + 1 \in 1 .. Width /\ (i + 1) - 1 = i /\ t - i \in 1 .. t /\ (t - i) - 1 = t - (i + 1)
    BY <1>1, WidthIs
  <2>2. Stands(r[i], b, s[t - i], N)
    <3>1. i <= t
      BY <1>1
    <3> QED
      BY <1>4, <3>1
  <2>3. s[t - i] \in Nat /\ s[t - (i + 1)] = s[t - i] + s[t - i]
    <3> DEFINE d == t - i
    <3>1. d \in 1 .. t /\ d - 1 = t - (i + 1)
      BY <2>1
    <3> HIDE DEF d
    <3>2. s[d - 1] = s[d] + s[d] /\ s[d] \in Nat
      BY <1>1, <3>1
    <3> QED
      BY <3>1, <3>2 DEF d
  <2> DEFINE e == s[t - i]
             y == r[i]
  <2>4. e \in Nat /\ Stands(y, b, e, N)
    BY <2>2, <2>3
  <2> HIDE DEF e, y
  <2>5. Stands(Square(N)[y], b, e + e, N)
    BY <2>4, SquareStands
  <2>6. r[i + 1] = Square(N)[r[i]]
    BY <1>2, <2>1
  <2> QED
    BY <2>3, <2>5, <2>6 DEF e, y
<1>5. ASSUME NEW i \in 0 .. t
      PROVE  Stands(r[i], b, s[t - i], N)
  <2>1. i \in S
    <3>1. i \in Nat
      BY <1>1
    <3> HIDE DEF S
    <3> QED
      BY <1>3, <1>4, <3>1, SetInduction
  <2> QED
    BY <2>1
<1> QED
  BY <1>5 DEF t, s, r

\* The residue 1 among the residues.
LEMMA OneStands ==
  ASSUME NEW N \in Word, N % 2 = 1, NEW b \in Nat, NEW e \in Nat, Congruent(Pow(b, e), 1, N),
         NEW x, Stands(x, b, e, N)
  PROVE  x = one(N)
<1> DEFINE c == Pow(b, e)
           o == one(N)
<1>1. c \in Nat /\ x \in Residues(N) /\ Congruent(x, c * R, N)
  BY PowIs DEF Stands
<1>2. o \in Residues(N) /\ Congruent(o, R, N)
  BY OneTwo
<1>3. x \in Int /\ o \in Int /\ N \in Int /\ R \in Int /\ c \in Int /\ N \in Nat \ {0} /\ 1 \in Int
  BY <1>1, <1>2, OddWord, ResidueType, WordFacts
<1> HIDE DEF c, o
<1>4. c * R \in Int /\ 1 * R = R
  BY <1>3, SMT
<1>5. Congruent(c * R, R, N)
  <2>1. Congruent(c, 1, N) /\ Congruent(R, R, N)
    BY <1>3, CongruentSelf DEF c
  <2>2. Congruent(c * R, 1 * R, N)
    BY <1>3, <2>1, CongruentProduct
  <2> QED
    BY <1>4, <2>2
<1>6. Congruent(x, R, N)
  BY <1>1, <1>3, <1>4, <1>5, CongruentTrans
<1>7. Congruent(R, o, N)
  BY <1>2, <1>3, CongruentSym
<1>8. Congruent(x, o, N)
  BY <1>3, <1>6, <1>7, CongruentTrans
<1>9. x = o
  BY <1>1, <1>2, <1>3, <1>8, CongruentUnique DEF Residues
<1> QED
  BY <1>9 DEF o

\* A residue whose square is that of 1 is that of 1 or of -1, modulo a prime.
LEMMA RootOfOne ==
  ASSUME NEW N \in Word, N % 2 = 1, 1 < N, \A d \in 2 .. N - 1 : N % d # 0,
         NEW x \in Residues(N), Square(N)[x] = one(N)
  PROVE  x = one(N) \/ x = nmo(N)
<1> DEFINE o == one(N)
<1>1. o \in Residues(N) /\ Congruent(o, R, N)
  BY OneTwo
<1>2. Congruent(R * o, x * x, N)
  BY SquareIs
<1>3. x \in Int /\ o \in Int /\ N \in Int /\ R \in Int /\ N \in Nat
  BY <1>1, OddWord, ResidueType, WordFacts
<1>4. nmo(N) = N - o
  BY DEF nmo
<1> HIDE DEF o
<1>5. R * o \in Int /\ x * x \in Int /\ o * o \in Int
  BY <1>3, SMT
<1>6. Congruent(o * o, R * o, N)
  BY <1>1, <1>3, CongruentSelf, CongruentProduct
<1>7. Congruent(o * o, x * x, N)
  BY <1>2, <1>3, <1>5, <1>6, CongruentTrans
<1>8. Congruent(x * x, o * o, N)
  BY <1>3, <1>5, <1>7, CongruentSym
<1>9. x = o \/ x = N - o
  <2>1. x \in 0 .. N - 1 /\ o \in 0 .. N - 1
    BY <1>1 DEF Residues
  <2> QED
    BY <1>3, <1>8, <2>1, SquareRoots
<1> QED
  BY <1>4, <1>9 DEF o

\* Modulo a prime the residues looked at end with 1 (Fermat), so that one clause holds:
\* the first of them that is 1 comes first or after the square root that is not 1.
LEMMA ClausesHold ==
  ASSUME NEW N \in Word, N % 2 = 1, 1 < N, \A d \in 2 .. N - 1 : N % d # 0,
         NEW b \in Nat, b % N # 0,
         NEW start, Stands(start, b, 1, N), NEW step, Multiplies(step, b, N)
  PROVE  Clauses(N, start, step)
<1> DEFINE t == ctz(N)
           s == Shifts(N - 1)
           x == Powered(N, start, step)
           r == Repeated(x, Square(N), Width)
           o == one(N)
<1>1. N # 1 /\ N \in Nat /\ N - 1 \in Nat
  BY OddWord
<1>2. t \in 1 .. Width - 1 /\ N - 1 \in Word /\ s[0] = N - 1
  BY <1>1, ExpIs, ShiftsAre
<1>0. PICK c \in Nat : c % N # 0 /\ Stands(x, c, exp(N), N)
  BY PoweredExp
<1>3. \A i \in 0 .. t : Stands(r[i], c, s[t - i], N)
  <2> HIDE DEF x
  <2> QED
    BY <1>0, <1>1, SquaresStand
<1>4. \A i \in 1 .. t : r[i] = Square(N)[r[i - 1]] /\ r[i - 1] \in Residues(N)
  <2>1. x \in Residues(N)
    BY <1>0 DEF Stands
  <2> HIDE DEF x
  <2>2. \A i \in 1 .. Width : r[i] = Square(N)[r[i - 1]] /\ r[i - 1] \in Residues(N)
    BY <2>1, SquaresAre
  <2> HIDE DEF r, t
  <2>3. \A i \in 1 .. t : i \in 1 .. Width
    BY <1>2, WidthIs
  <2> QED
    BY <2>2, <2>3
<1>5. Clauses(N, start, step) = EitherClause(N, r)
  BY DEF Clauses
<1>6. EitherClause(N, r) = (r[0] = o \/ r[0] = nmo(N) \/ \E i \in 1 .. t - 1 : r[i] = nmo(N))
  BY DEF EitherClause
<1> HIDE DEF t, s, r, x
<1>7. r[t] = o
  <2>1. t \in 0 .. t /\ t - t = 0
    BY <1>2
  <2>2. Stands(r[t], c, N - 1, N)
    BY <1>2, <1>3, <2>1
  <2>3. Congruent(Pow(c, N - 1), 1, N)
    BY <1>0, <1>1, Fermat
  <2> QED
    BY <1>1, <2>2, <2>3, OneStands
<1> DEFINE T == {i \in 0 .. t : r[i] = o}
<1>8. T \in SUBSET Nat /\ T # {}
  <2>1. t \in 0 .. t
    BY <1>2
  <2> QED
    BY <1>7, <2>1
<1>9. PICK i \in T : \A y \in T : i <= y
  BY <1>8, Least
<1>10. CASE i = 0
  BY <1>5, <1>6, <1>9, <1>10
<1>11. CASE i # 0
  <2>1. i \in 1 .. t /\ i - 1 \in 0 .. t /\ r[i] = o /\ i \in Int
    BY <1>2, <1>9, <1>11
  <2>2. r[i - 1] # o
    <3> SUFFICES ASSUME r[i - 1] = o PROVE FALSE
      OBVIOUS
    <3>1. i - 1 \in T
      BY <2>1
    <3>2. i <= i - 1
      BY <1>9, <3>1
    <3> QED
      BY <2>1, <3>2
  <2>3. r[i - 1] = nmo(N)
    <3> DEFINE z == r[i - 1]
    <3>1. z \in Residues(N) /\ Square(N)[z] = one(N)
      BY <1>4, <2>1
    <3> HIDE DEF z
    <3>2. z = one(N) \/ z = nmo(N)
      BY <3>1, RootOfOne
    <3> QED
      BY <2>2, <3>2 DEF z
  <2>4. i - 1 = 0 \/ i - 1 \in 1 .. t - 1
    BY <1>2, <2>1
  <2> QED
    BY <1>5, <1>6, <2>3, <2>4
<1> QED
  BY <1>10, <1>11

\* The residue of a base is that of its first power.
LEMMA BaseStands ==
  ASSUME NEW N \in Word, N % 2 = 1, NEW b \in Word
  PROVE  Stands(montMul(b, r2(N), N, invert(N)), b, 1, N)
<1>1. b \in Nat
  BY WordFacts
<1>2. Pow(b, 0 + 1) = Pow(b, 0) * b /\ Pow(b, 0) = 1
  BY <1>1, PowIs
<1>3. Pow(b, 1) = b
  BY <1>1, <1>2
<1> QED
  BY <1>3, ResidueOfBase DEF Stands

\* A product with the residue of b multiplies by b.
LEMMA TimesBaseMultiplies ==
  ASSUME NEW N \in Word, N % 2 = 1, NEW b \in Nat, NEW y, Stands(y, b, 1, N)
  PROVE  Multiplies(TimesBase(N, y), b, N)
<1> SUFFICES ASSUME NEW x \in Residues(N)
             PROVE  /\ TimesBase(N, y)[x] \in Residues(N)
                    /\ Congruent(TimesBase(N, y)[x], x * b, N)
  BY DEF Multiplies
<1> DEFINE z == montMul(x, y, N, invert(N))
<1>1. x \in Word /\ x \in Int /\ b \in Int /\ R \in Int /\ N \in Int
  BY OddWord, ResidueType, WordFacts
<1>2. TimesBase(N, y)[x] = z
  BY <1>1 DEF TimesBase
<1>3. y \in Residues(N) /\ Congruent(y, b * R, N)
  <2>1. Pow(b, 0 + 1) = Pow(b, 0) * b /\ Pow(b, 0) = 1
    BY PowIs
  <2>2. Pow(b, 1) = b
    BY <2>1
  <2> QED
    BY <2>2 DEF Stands
<1>4. z \in Residues(N) /\ Congruent(R * z, x * y, N)
  BY <1>1, <1>3, ResidueProduct
<1> HIDE DEF z
<1>5. y \in Int /\ z \in Int
  BY <1>3, <1>4, OddWord, ResidueType
<1>6. /\ R * z \in Int /\ x * y \in Int /\ b * R \in Int /\ x * (b * R) \in Int /\ x * b \in Int
      /\ x * (b * R) = R * (x * b)
  BY <1>1, <1>5, SMT
<1>7. Congruent(x * y, x * (b * R), N)
  BY <1>1, <1>3, <1>5, <1>6, CongruentSelf, CongruentProduct
<1>8. Congruent(R * z, R * (x * b), N)
  BY <1>1, <1>4, <1>6, <1>7, CongruentTrans
<1>9. Congruent(z, x * b, N)
  <2> DEFINE q == invert(N)
  <2>1. q \in Int /\ Congruent(N * q, 1, R)
    BY InverseRight, WordFacts
  <2> HIDE DEF q
  <2> QED
    BY <1>1, <1>5, <1>6, <1>8, <2>1, CongruentCancel
<1> QED
  BY <1>2, <1>4, <1>9

\* The primes of Candidate: a composite word has a divisor below 256.
LEMMA PrimesAre ==
  ASSUME NEW N \in Word, IsPrime(N)
  PROVE  1 < N /\ \A d \in 2 .. N - 1 : N % d # 0
<1>1. N \in Nat /\ N < 65536 /\ N > 1
  BY WordFacts DEF IsPrime
<1>2. \A d \in 2 .. 255 : ~(d * d <= N /\ N % d = 0)
  BY DEF IsPrime
<1>3. ASSUME NEW d \in 2 .. N - 1, N % d = 0
      PROVE  FALSE
  <2> DEFINE e == N \div d
  <2>1. d \in Nat \ {0} /\ N \in Int /\ d < N
    BY <1>1
  <2>2. N = d * e + (N % d) /\ e \in Int
    BY <2>1, Division
  <2> HIDE DEF e
  <2>3. N = d * e
    <3>1. d * e \in Int
      BY <2>1, <2>2, SMT
    <3> QED
      BY <1>3, <2>2, <3>1
  <2>4. 1 < e /\ e < N
    BY <1>1, <2>1, <2>2, <2>3, SMT
  <2>5. e \in Nat \ {0} /\ N = e * d /\ N % e = 0
    <3>1. e \in Nat \ {0} /\ N = e * d
      BY <2>1, <2>2, <2>3, <2>4, SMT
    <3>2. (e * d + 0) % e = 0
      <4>1. d \in Int /\ 0 \in Nat /\ 0 < e
        BY <2>1, <3>1
      <4> QED
        BY <3>1, <4>1, RemainderIs
    <3>3. e * d + 0 = N
      BY <1>1, <3>1
    <3> QED
      BY <3>1, <3>2, <3>3
  <2>6. ASSUME NEW x \in Nat, NEW y \in Nat, N = x * y, x <= y, 1 < x
        PROVE  x \in 2 .. 255 /\ x * x <= N
    <3>1. x * x <= N
      BY <2>6, SMT
    <3>2. x < 256
      <4> SUFFICES ASSUME 256 <= x PROVE FALSE
        BY <2>6
      <4>1. 256 * 256 <= x * x
        BY SMT
      <4> QED
        BY <1>1, <3>1, <4>1
    <3> QED
      BY <2>6, <3>1, <3>2
  <2>7. CASE d <= e
    <3>1. d \in Nat /\ e \in Nat /\ 1 < d
      BY <2>1, <2>5
    <3>2. d \in 2 .. 255 /\ d * d <= N
      BY <2>3, <2>6, <2>7, <3>1
    <3> QED
      BY <1>2, <1>3, <3>2
  <2>8. CASE e <= d
    <3>1. d \in Nat /\ e \in Nat
      BY <2>1, <2>5
    <3>2. e \in 2 .. 255 /\ e * e <= N
      BY <2>4, <2>5, <2>6, <2>8, <3>1
    <3> QED
      BY <1>2, <2>5, <3>2
  <2> QED
    BY <2>1, <2>2, <2>7, <2>8
<1> QED
  BY <1>1, <1>3

\* Modulo 1 there is one residue, and the clauses hold.
LEMMA ClausesOfOne ==
  ASSUME NEW b \in Nat, NEW start, Stands(start, b, 1, 1), NEW step, Multiplies(step, b, 1)
  PROVE  Clauses(1, start, step)
<1> DEFINE x == Powered(1, start, step)
           r == Repeated(x, Square(1), Width)
<1>1. 1 \in Word /\ 1 % 2 = 1
  <2>1. 1 \in Nat /\ 1 < R
    BY WordFacts
  <2> QED
    BY <2>1, WordFacts
<1>2. x \in Residues(1) /\ one(1) \in Residues(1)
  BY <1>1, PoweredPower, OneTwo DEF Stands
<1>3. r[0] = x
  <2> HIDE DEF x
  <2> QED
    BY <1>1, <1>2, SquaresAre
<1> HIDE DEF x
<1>4. x = one(1)
  BY <1>2, SMT DEF Residues
<1> QED
  BY <1>3, <1>4 DEF Clauses, EitherClause, x

\* strong_prp lets a prime through unless the base is a multiple of it, and 1 always.
LEMMA StrongPasses ==
  ASSUME NEW N \in Word, N % 2 = 1, NEW b \in Word, N = 1 \/ (IsPrime(N) /\ b % N # 0)
  PROVE  strong_prp(b, N)
<1> DEFINE y == montMul(b, r2(N), N, invert(N))
<1>1. strong_prp(b, N) = Clauses(N, y, TimesBase(N, y))
  BY Zenon DEF strong_prp, TimesBase
<1>2. Stands(y, b, 1, N) /\ b \in Nat
  BY BaseStands, WordFacts
<1> HIDE DEF y
<1>3. Multiplies(TimesBase(N, y), b, N)
  BY <1>2, TimesBaseMultiplies
<1>4. CASE N = 1
  <2>1. Stands(y, b, 1, 1) /\ Multiplies(TimesBase(N, y), b, 1)
    BY <1>2, <1>3, <1>4
  <2>2. Clauses(1, y, TimesBase(N, y))
    BY <1>2, <2>1, ClausesOfOne
  <2> QED
    BY <1>1, <1>4, <2>2
<1>5. CASE IsPrime(N) /\ b % N # 0
  <2>1. 1 < N /\ \A d \in 2 .. N - 1 : N % d # 0
    BY <1>5, PrimesAre
  <2> QED
    BY <1>1, <1>2, <1>3, <1>5, <2>1, ClausesHold
<1> QED
  BY <1>4, <1>5

\* No test refuses a prime: the base 2 test of the walks never does, and strong_prp
\* does so only for a base that is a multiple of the prime.  It is the half of what
\* the tests are for that does not depend on a table.
THEOREM PrimesPass ==
  ASSUME NEW N \in Word, N % 2 = 1, IsPrime(N)
  PROVE  PrimeQ(N) /\ \A b \in Word : b % N # 0 => strong_prp(b, N)
<1>1. \A b \in Word : b % N # 0 => strong_prp(b, N)
  BY StrongPasses
<1>2. 2 \in Word /\ 2 % N # 0
  <2>1. 2 \in Nat /\ 2 < R
    BY WordFacts
  <2>2. N \in Nat /\ 1 < N /\ N # 2
    BY OddWord, PrimesAre
  <2>3. 2 % N # 0
    BY <2>2, SMT
  <2> QED
    BY <2>1, <2>3, WordFacts
<1>3. PrimeQ(N)
  BY <1>1, <1>2, TestsAgree
<1> QED
  BY <1>1, <1>3

\* The number 1 is not prime, and no test refuses it, whatever the bases: the
\* exception TestsExact makes.
THEOREM OnePasses == PrimeQ(1) /\ ~IsPrime(1) /\ \A b \in Word : strong_prp(b, 1)
<1>1. 1 \in Word /\ 2 \in Word /\ 1 % 2 = 1
  <2>1. 1 \in Nat /\ 2 \in Nat /\ 2 < R /\ 1 < R
    BY WordFacts
  <2> QED
    BY <2>1, WordFacts
<1>2. \A b \in Word : strong_prp(b, 1)
  BY <1>1, StrongPasses
<1>3. PrimeQ(1)
  BY <1>1, <1>2, TestsAgree
<1> QED
  BY <1>2, <1>3 DEF IsPrime

-----------------------------------------------------------------------------
\* The walks and the pieces.

Given == <<build, n, K>> \in Inputs

\* What the assumptions say of one candidate.
LEMMA StepFacts ==
  ASSUME Given
  PROVE  /\ build \in {"cpu", "gpu"} /\ n \in Nat /\ n < R /\ n % 2 = 1 /\ n > 0
         /\ STEP \in Nat /\ STEP > 0 /\ STEP < R /\ STEP % 2 = 0 /\ (Skip + 1) * STEP < R
         /\ EndsForward(<<build, n, K>>) /\ EndsBack(<<build, n, K>>) /\ R \in Nat /\ R > 0 /\ R % 2 = 0
         /\ Skip \in Nat /\ Skip > 0 /\ Longest \in Nat
<1> DEFINE i == <<build, n, K>>
           product == K * PRIM
<1>1. /\ i \in {"cpu", "gpu"} \X Word \X (Nat \ {0}) /\ i[2] % 2 = 1
      /\ i[3] * PRIM > 0 /\ i[3] * PRIM < R /\ (Skip + 1) * (i[3] * PRIM) < R /\ EndsForward(i) /\ EndsBack(i)
  BY CandidateAssumption DEF Given
<1>2. i[1] = build /\ i[2] = n /\ i[3] = K
  OBVIOUS
<1>3. build \in {"cpu", "gpu"} /\ n \in Word /\ K \in Nat /\ n % 2 = 1
  BY <1>1
<1>4. n \in Nat /\ n < R /\ R \in Nat /\ R = 65536
  BY <1>3, WordFacts
<1>5. product > 0 /\ product < R /\ (Skip + 1) * product < R
  BY <1>1, <1>2
<1>6. product \in Nat
  BY <1>3, CandidateAssumption, ProductType
<1>7. product % 2 = 0
  <2> DEFINE h == PRIM \div 2
  <2>1. PRIM = 2 * h /\ h \in Int
    BY CandidateAssumption, SMT
  <2> HIDE DEF h
  <2>2. product = 2 * (K * h) /\ K * h \in Int
    BY <1>3, <2>1, SMT
  <2> HIDE DEF product
  <2> DEFINE y == K * h
  <2>3. product = 2 * y /\ y \in Int
    BY <2>2
  <2> HIDE DEF y
  <2> QED
    BY <2>3
<1>8. STEP = product
  <2>1. STEP = product % R
    BY DEF STEP, StepOf
  <2> HIDE DEF product
  <2> QED
    BY <1>4, <1>5, <1>6, <2>1
<1> HIDE DEF product
<1>9. n > 0 /\ R > 0 /\ R % 2 = 0
  BY <1>3, <1>4
<1> QED
  BY <1>1, <1>3, <1>4, <1>5, <1>6, <1>7, <1>8, <1>9, CandidateAssumption

\* The terms are odd, and grow by STEP.
LEMMA TermFacts ==
  ASSUME Given
  PROVE  /\ \A j \in Int : Term(j) \in Int /\ Term(j) # 0 /\ Term(j) % 2 = 1
         /\ \A j \in Int : Term(j + 1) = Term(j) + STEP
         /\ \A i, j \in Int : i < j => Term(i) + STEP <= Term(j)
         /\ Term(0) = n
<1>1. n \in Int /\ n % 2 = 1 /\ STEP \in Nat /\ STEP > 0 /\ STEP % 2 = 0
  BY StepFacts
<1>2. ASSUME NEW j \in Int PROVE Term(j) \in Int /\ Term(j) # 0 /\ Term(j) % 2 = 1
  <2> DEFINE h == STEP \div 2
             y == j * h
  <2>1. STEP = 2 * h /\ h \in Int
    BY <1>1, SMT
  <2> HIDE DEF h
  <2>2. Term(j) = n + 2 * y /\ y \in Int
    BY <1>1, <2>1, SMT DEF Term
  <2> HIDE DEF y
  <2> QED
    BY <1>1, <2>2, SMT
<1>3. ASSUME NEW j \in Int PROVE Term(j + 1) = Term(j) + STEP
  BY <1>1, SMT DEF Term
<1>4. ASSUME NEW i \in Int, NEW j \in Int, i < j PROVE Term(i) + STEP <= Term(j)
  <2> DEFINE d == j - i - 1
             x == i * STEP
             y == d * STEP
  <2>1. d \in Nat /\ j * STEP = x + y + STEP /\ x \in Int /\ y \in Int
    BY <1>1, <1>4, SMT
  <2>2. y >= 0
    BY <1>1, <2>1, ProductType, SMT
  <2> HIDE DEF d, x, y
  <2>3. Term(i) = n + x /\ Term(j) = n + (x + y + STEP)
    BY <2>1 DEF Term, x
  <2> QED
    BY <1>1, <2>1, <2>2, <2>3
<1>5. Term(0) = n
  <2>1. 0 * STEP = 0
    BY <1>1, SMT
  <2> QED
    BY <1>1, <2>1 DEF Term
<1> QED
  BY <1>2, <1>3, <1>4, <1>5

\* The distance of a term from n.
LEMMA TermIs ==
  ASSUME Given, NEW j \in Int
  PROVE  Term(j) = n + j * STEP /\ j * STEP \in Int
BY StepFacts, SMT DEF Term

\* The terms are in the order of their indices.
LEMMA TermsOrdered ==
  ASSUME Given, NEW i \in Int, NEW j \in Int
  PROVE  Term(i) \in Int /\ Term(j) \in Int /\ (i <= j <=> Term(i) <= Term(j))
<1>1. Term(i) \in Int /\ Term(j) \in Int /\ STEP \in Nat /\ STEP > 0
  BY TermFacts, StepFacts
<1>2. i < j => Term(i) + STEP <= Term(j)
  BY TermFacts
<1>3. j < i => Term(j) + STEP <= Term(i)
  BY TermFacts
<1>4. i = j => Term(i) = Term(j)
  OBVIOUS
<1> QED
  BY <1>1, <1>2, <1>3, <1>4

\* The walk forward ends inside the word, or at the first term beyond it, and
\* that one is so near to it that it wraps to less than n.
LEMMA BeyondFacts ==
  ASSUME Given
  PROVE  /\ Beyond \in Int /\ Skip <= Beyond /\ Beyond <= Skip + Longest /\ ~Pass(Beyond)
         /\ \A i \in Int : Skip <= i /\ i < Beyond => Pass(i)
         /\ Term(Beyond) - R < n /\ (build = "cpu" => Term(Beyond) < R)
         /\ Term(Skip + 1) - R < n
<1> DEFINE T == {j \in Skip .. Skip + Longest : ~Pass(j)}
<1>0. /\ Skip \in Nat /\ R \in Nat /\ STEP \in Nat /\ n \in Nat /\ EndsForward(<<build, n, K>>)
      /\ Longest \in Nat
      /\ (Skip + 1) * STEP < R /\ build \in {"cpu", "gpu"} /\ STEP > 0 /\ n > 0
  BY StepFacts
<1>1. PICK e \in Skip .. Skip + Longest : e * STEP < R /\ IF n + e * STEP < R THEN ~PrimeQ(n + e * STEP) ELSE build = "gpu"
  BY <1>0, Zenon DEF EndsForward, STEP
<1>2. e \in Int /\ e \in Nat /\ Term(e) = n + e * STEP /\ e * STEP \in Int
  BY <1>0, <1>1, TermIs
<1>3. ~Pass(e) /\ (build = "cpu" => Term(e) < R) /\ Term(e) - R < n
  <2>1. Term(e) - R < n
    BY <1>0, <1>1, <1>2
  <2>2. CASE Term(e) < R
    BY <1>1, <1>2, <2>1, <2>2 DEF Pass
  <2>3. CASE ~(Term(e) < R)
    <3>1. build = "gpu"
      BY <1>1, <1>2, <2>3
    <3> QED
      BY <2>1, <2>3, <3>1 DEF Pass
  <2> QED
    BY <2>2, <2>3
<1>4. PICK b \in T : \A y \in T : b <= y
  <2>1. T \in SUBSET Nat /\ e \in T
    BY <1>0, <1>1, <1>3
  <2> HIDE DEF T
  <2> QED
    BY <2>1, Least
<1>5. b \in Skip .. Skip + Longest /\ ~Pass(b) /\ \A i \in Skip .. b - 1 : Pass(i)
  <2>1. b \in Skip .. Skip + Longest /\ ~Pass(b)
    OBVIOUS
  <2>2. ASSUME NEW i \in Skip .. b - 1 PROVE Pass(i)
    <3>1. i \in Skip .. Skip + Longest /\ ~(b <= i)
      BY <1>0, <2>1, <2>2
    <3> QED
      BY <1>4, <3>1
  <2> QED
    BY <2>1, <2>2
<1>6. Beyond \in Skip .. Skip + Longest /\ ~Pass(Beyond) /\ \A i \in Skip .. Beyond - 1 : Pass(i)
  BY <1>5, Zenon DEF Beyond
<1> HIDE DEF T
<1>7. Beyond \in Int /\ Skip <= Beyond /\ Beyond <= Skip + Longest /\ \A i \in Int : Skip <= i /\ i < Beyond => Pass(i)
  BY <1>0, <1>6
<1>8. Beyond <= e
  BY <1>0, <1>1, <1>2, <1>3, <1>7
<1>9. Term(Beyond) <= Term(e) /\ Term(Beyond) \in Int /\ Term(e) \in Int
  BY <1>2, <1>7, <1>8, TermsOrdered
<1>10. Term(Beyond) - R < n /\ (build = "cpu" => Term(Beyond) < R)
  BY <1>0, <1>3, <1>9
<1>11. Term(Skip + 1) - R < n
  <2>1. Skip + 1 \in Int
    BY <1>0
  <2>2. Term(Skip + 1) = n + (Skip + 1) * STEP /\ (Skip + 1) * STEP \in Int
    BY <2>1, TermIs
  <2> QED
    BY <1>0, <2>2
<1> QED
  BY <1>6, <1>7, <1>10, <1>11

\* The walk back ends before the terms are used up.
LEMMA BelowFacts ==
  ASSUME Given
  PROVE  /\ Below \in Int /\ Below < Skip /\ Skip - 1 - Longest <= Below /\ ~Pass(Below)
         /\ \A i \in Int : Below < i /\ i < Skip => Pass(i)
<1> DEFINE T == {d \in 0 .. Longest : ~Pass(Skip - 1 - d)}
<1>0. Skip \in Nat /\ Longest \in Nat /\ EndsBack(<<build, n, K>>)
  BY StepFacts
<1>1. PICK e \in 0 .. Longest :
        LET first == n + (Skip - 1 - e) * STEP IN first > 0 /\ first < R => ~PrimeQ(first)
  BY <1>0, Zenon DEF EndsBack, STEP
<1>2. ~Pass(Skip - 1 - e)
  BY <1>1 DEF Pass, Term
<1>3. PICK b \in T : \A y \in T : b <= y
  <2>1. T \in SUBSET Nat /\ e \in T
    BY <1>0, <1>1, <1>2
  <2> HIDE DEF T
  <2> QED
    BY <2>1, Least
<1>4. b \in 0 .. Longest /\ ~Pass(Skip - 1 - b) /\ \A i \in 0 .. b - 1 : Pass(Skip - 1 - i)
  <2>1. b \in 0 .. Longest /\ ~Pass(Skip - 1 - b)
    OBVIOUS
  <2>2. ASSUME NEW i \in 0 .. b - 1 PROVE Pass(Skip - 1 - i)
    <3>1. i \in 0 .. Longest /\ ~(b <= i)
      BY <1>0, <2>1, <2>2
    <3> QED
      BY <1>3, <3>1
  <2> QED
    BY <2>1, <2>2
<1>5. /\ Behind \in 0 .. Longest /\ ~Pass(Skip - 1 - Behind)
      /\ \A i \in 0 .. Behind - 1 : Pass(Skip - 1 - i)
  BY <1>4, Zenon DEF Behind
<1> HIDE DEF T
<1>6. /\ Below \in Int /\ Below < Skip /\ Skip - 1 - Longest <= Below /\ ~Pass(Below)
      /\ Behind = Skip - 1 - Below
  BY <1>0, <1>5 DEF Below
<1>7. ASSUME NEW i \in Int, Below < i, i < Skip PROVE Pass(i)
  <2> DEFINE j == Skip - 1 - i
  <2>1. j \in 0 .. Behind - 1 /\ Skip - 1 - j = i
    BY <1>0, <1>6, <1>7
  <2> HIDE DEF j
  <2> QED
    BY <1>5, <2>1
<1> QED
  BY <1>6, <1>7

Nothing == calls = <<>> /\ lines = <<>> /\ checksum = 0 /\ apcount = 0

\* The walk forward leaves the word before it ends, and what it found counts.
Wraps  == Term(Beyond) >= R
Counts == Beyond - Skip >= Full

AtStart == pc = "start" /\ Nothing /\ m = 0 /\ k = 0 /\ mstart = 0 /\ overflow = FALSE

\* m is the k-th term of the walk, or has wrapped at the first.
AtForward ==
  /\ pc = "forward" /\ Nothing /\ mstart = 0
  /\ \/ /\ overflow = FALSE
        /\ k \in Nat /\ Skip + k <= Beyond /\ m = Term(Skip + k) /\ m < R
     \/ /\ overflow = TRUE /\ build = "gpu"
        /\ Beyond = Skip /\ Wraps /\ k = 0 /\ m = Term(Skip) - R

\* The k terms before Beyond passed, but for the one that is still to be tested.
AtBack ==
  /\ pc = "back" /\ Nothing /\ Counts
  /\ k \in Nat /\ Beyond - Skip <= k /\ Below <= Beyond - 1 - k
  /\ m = Term(Beyond - 1 - k) /\ m >= 0 /\ mstart = Term(Skip - 1)
  /\ overflow \in BOOLEAN /\ (overflow <=> Wraps) /\ (overflow => build = "gpu")

\* What is paid for by the time ReportSolution comes to the cut c, and written.  The
\* accumulator holds the representative of the sum.
Spent(c) == Mass(Below, Beyond) + Sums(Paid(Below, Beyond), Beyond - Below - 1)[c - Below]
Written(s, c) ==
  /\ IsInjective(s)
  /\ ToSet(s) = {Line(p[1], p[2]) : p \in {p \in Pieces :
                       p[2] <= c /\ p[2] - p[1] - 1 >= MINIMUM_AP_LENGTH_TO_REPORT}}

\* All that follows a cut is still to be looked at, or a piece and what follows it.
Following(c) ==
  /\ calls = <<Between(c, Beyond)>> /\ Written(lines, c)
  /\ \E s \in Nat : checksum = Accumulator!Canon(s) /\ s + Mass(c, Beyond) = Spent(c)
  /\ checksum = 0 => c = Below
Splitting(c, r) ==
  /\ calls = <<Between(c, r), Between(r, Beyond)>> /\ Written(lines, c)
  /\ checksum = Accumulator!Canon(Spent(c)) /\ checksum # 0
Settled ==
  /\ Counts /\ ~Wraps /\ apcount = 1 /\ calls = <<>>
  /\ checksum = Accumulator!Canon(Total(Below, Beyond)) /\ checksum # 0 /\ Written(lines, Beyond)

AtReport ==
  /\ pc = "report" /\ Counts /\ ~Wraps /\ apcount = 1
  /\ \/ \E c \in Cuts \ {Beyond} : Following(c)
     \/ \E p \in Pieces : p[2] # Beyond /\ Splitting(p[1], p[2])
     \/ Settled

AtEnd ==
  \/ pc = "done" /\ Nothing /\ ~Counts /\ ~Wraps
  \/ pc = "done" /\ Settled
  \/ pc = "limit" /\ build = "gpu" /\ Wraps

IInv == Given /\ TypeOK /\ (AtStart \/ AtForward \/ AtBack \/ AtReport \/ AtEnd)

\* What depends on the candidate alone stays.
LEMMA Kept ==
  ASSUME UNCHANGED <<build, n, K>>
  PROVE  /\ \A j : Term(j)' = Term(j)
         /\ Beyond' = Beyond /\ Below' = Below /\ Cuts' = Cuts /\ Pieces' = Pieces /\ STEP' = STEP
         /\ Wraps' = Wraps /\ Counts' = Counts /\ Given' = Given
         /\ \A a, b : Between(a, b)' = Between(a, b) /\ Mass(a, b)' = Mass(a, b)
         /\ \A c : Spent(c)' = Spent(c)
         /\ \A a, b : Line(a, b)' = Line(a, b)
         /\ \A s, c : Written(s, c)' = Written(s, c)
         /\ Total(Below, Beyond)' = Total(Below, Beyond)
<1>0. build' = build /\ n' = n /\ K' = K
  OBVIOUS
<1>1. STEP' = STEP /\ \A j : Term(j)' = Term(j)
  BY <1>0, Zenon DEF STEP, Term
<1>2. Beyond' = Beyond
  BY <1>0, Zenon DEF Beyond, Pass, Term, STEP
<1>3. Below' = Below
  BY <1>0, Zenon DEF Below, Behind, Pass, Term, STEP
<1>4. Cuts' = Cuts
  BY <1>1, <1>2, <1>3, Zenon DEF Cuts, CutsOf
<1>5. Pieces' = Pieces
  BY <1>4, Zenon DEF Pieces, PiecesOf
<1>6. Wraps' = Wraps /\ Counts' = Counts /\ Given' = Given
  BY <1>0, Zenon DEF Wraps, Counts, Given, Beyond, Pass, Term, STEP
<1>7. \A a, b : Between(a, b)' = Between(a, b) /\ Mass(a, b)' = Mass(a, b)
  BY <1>0, SMT DEF Between, Mass, Term, STEP
<1>8. \A c : Spent(c)' = Spent(c)
  BY <1>0, SMT DEF Spent, Paid, Mass, Cuts, CutsOf, Beyond, Below, Behind, Pass, Term, STEP
<1>9. Total(Below, Beyond)' = Total(Below, Beyond)
  BY <1>0, SMT DEF Total, Paid, Mass, Cuts, CutsOf, Beyond, Below, Behind, Pass, Term, STEP
<1>11. \A a, b : Line(a, b)' = Line(a, b)
  BY <1>0, SMT DEF Line, Term, STEP
<1>10. \A s, c : Written(s, c)' = Written(s, c)
  BY <1>0, SMT DEF Written, Line, Pieces, PiecesOf, Cuts, CutsOf, Beyond, Below, Behind, Pass, Term, STEP
<1> QED
  BY <1>1, <1>2, <1>3, <1>4, <1>5, <1>6, <1>7, <1>8, <1>9, <1>10, <1>11

\* A word that is left by less than its size is entered at its other end.
LEMMA Wrapping ==
  ASSUME NEW x \in Int
  PROVE  /\ 0 <= x /\ x < R => x % R = x
         /\ R <= x /\ x < R + R => x % R = x - R
         /\ 0 <= x + R /\ x < 0 => x % R = x + R
BY SMT DEF R

\* The numbers a proof about a walk compares.
LEMMA WalkTypes ==
  ASSUME Given
  PROVE  /\ Beyond \in Int /\ Below \in Int /\ Skip \in Nat \ {0} /\ Full \in Nat \ {0, 1}
         /\ R \in Nat /\ n \in Nat /\ n > 0 /\ n < R /\ STEP \in Nat /\ STEP > 0 /\ STEP < R
         /\ \A x \in Int : 0 <= x /\ x < R => x \in Word
BY StepFacts, BeyondFacts, BelowFacts, CandidateAssumption, WordFacts

\* The candidate is at the start of the walk forward.
LEMMA InitInv == Init => IInv
<1> SUFFICES ASSUME Init PROVE IInv
  OBVIOUS
<1>1. Given
  <2>1. PICK i \in Inputs : build = i[1] /\ n = i[2] /\ K = i[3]
    BY DEF Init
  <2>2. i \in {"cpu", "gpu"} \X Word \X (Nat \ {0})
    BY CandidateAssumption
  <2>3. i = <<i[1], i[2], i[3]>>
    BY <2>2
  <2> QED
    BY <2>1, <2>3 DEF Given
<1>2. AtStart
  BY DEF Init, AtStart, Nothing
<1>3. 0 \in Word
  BY WordFacts
<1>4. TypeOK
  <2>1. <<>> \in Seq(Nat \X Word) /\ <<>> \in Seq(Nat \X Int)
    OBVIOUS
  <2>2. 0 \in Nat /\ 0 \in Accumulator!Sums
    BY CandidateAssumption DEF Accumulator!Sums
  <2> QED
    BY <1>3, <2>1, <2>2, Zenon DEF TypeOK, Init
<1> QED
  BY <1>1, <1>2, <1>4 DEF IInv

\* m = n + STEP*Skip is the first term of the walk, or has wrapped (gpu only).
LEMMA StartStep ==
  ASSUME IInv, Start
  PROVE  IInv'
<1> USE DEF Nothing
<1>0. Given /\ TypeOK /\ AtStart
  BY DEF IInv, Start, AtStart, AtForward, AtBack, AtReport, AtEnd
<1>1. UNCHANGED <<build, n, K>> /\ Given'
  BY <1>0, Kept DEF Start
<1>2. /\ m' = Term(Skip) % R /\ overflow' = (build = "gpu" /\ m' < n) /\ pc' = "forward"
      /\ k' = 0 /\ mstart' = 0 /\ calls' = <<>> /\ lines' = <<>> /\ checksum' = 0 /\ apcount' = 0
  BY <1>0 DEF Start, AtStart, Term
<1>3. /\ Term(Skip) \in Int /\ Term(Skip) > n /\ Term(Skip) < R + n
      /\ Skip + 0 = Skip /\ Skip \in Int /\ Skip + 1 \in Int
  <2>1. Term(Skip + 1) - R < n /\ Term(Skip + 1) = Term(Skip) + STEP /\ Term(0) = n /\ Term(Skip) \in Int
    BY <1>0, BeyondFacts, TermFacts, WalkTypes
  <2>2. Term(0) + STEP <= Term(Skip)
    BY <1>0, TermFacts, WalkTypes
  <2> QED
    BY <1>0, <2>1, <2>2, WalkTypes
<1>4. Term(Skip) <= Term(Beyond) /\ Term(Beyond) \in Int /\ Skip <= Beyond
  BY <1>0, <1>3, BeyondFacts, TermsOrdered
<1>5. CASE Term(Skip) < R
  <2>0. m' = Term(Skip) /\ ~(m' < n)
    <3>1. n \in Nat /\ R \in Nat
      BY <1>0, WalkTypes
    <3>2. 0 <= Term(Skip) /\ Term(Skip) \in Int /\ ~(Term(Skip) < n)
      BY <1>3, <3>1
    <3>3. Term(Skip) % R = Term(Skip)
      BY <1>5, <3>2, Wrapping
    <3> QED
      BY <1>2, <3>2, <3>3
  <2>1. m' = Term(Skip) /\ overflow' = FALSE
    BY <1>2, <2>0, Zenon
  <2>2. (m = Term(Skip + k))'
    BY <1>1, <1>2, <1>3, <2>1, Kept
  <2>3. (Skip + k <= Beyond)'
    BY <1>1, <1>2, <1>3, <1>4, Kept
  <2>4. AtForward'
    BY <1>2, <1>5, <2>1, <2>2, <2>3 DEF AtForward
  <2>5. m' \in Word /\ 0 \in Word /\ checksum' \in Accumulator!Sums
    BY <1>0, <1>2, <1>3, <1>5, <2>1, WalkTypes DEF TypeOK, AtStart
  <2>6. TypeOK'
    BY <1>0, <1>2, <2>1, <2>5 DEF TypeOK
  <2> QED
    BY <1>1, <2>4, <2>6 DEF IInv
<1>6. CASE ~(Term(Skip) < R)
  <2>0. n \in Nat /\ R \in Nat /\ n < R
    BY <1>0, WalkTypes
  <2>1. m' = Term(Skip) - R /\ m' < n /\ m' >= 0 /\ m' < R
    <3>1. Term(Skip) \in Int /\ R <= Term(Skip) /\ Term(Skip) < R + R
      BY <1>3, <1>6, <2>0
    <3>2. Term(Skip) % R = Term(Skip) - R
      BY <3>1, Wrapping
    <3> QED
      BY <1>2, <1>3, <2>0, <3>1, <3>2
  <2>2. build = "gpu" /\ overflow' = TRUE
    <3>1. ~(Term(Beyond) < R)
      BY <1>3, <1>4, <1>6, <2>0
    <3>2. build = "gpu"
      BY <1>0, <3>1, BeyondFacts, StepFacts
    <3> QED
      BY <1>2, <2>1, <3>2, Zenon
  <2>3. Beyond = Skip /\ Wraps
    <3>1. ~Pass(Skip)
      BY <1>6 DEF Pass
    <3>2. Beyond = Skip
      BY <1>0, <1>3, <1>4, <3>1, BeyondFacts
    <3> QED
      BY <1>0, <1>3, <1>6, <3>2, WalkTypes DEF Wraps
  <2>4. (m = Term(Skip) - R)' /\ (Beyond = Skip)' /\ Wraps' /\ (build = "gpu")'
    BY <1>1, <2>1, <2>2, <2>3, Kept
  <2>5. AtForward'
    BY <1>2, <2>2, <2>4 DEF AtForward
  <2>6. m' \in Word /\ 0 \in Word /\ checksum' \in Accumulator!Sums
    BY <1>0, <1>2, <1>3, <2>1, WalkTypes DEF TypeOK, AtStart
  <2>7. TypeOK'
    BY <1>0, <1>1, <1>2, <2>2, <2>6 DEF TypeOK
  <2> QED
    BY <1>1, <2>5, <2>7 DEF IInv
<1> QED
  BY <1>5, <1>6

\* A sum beyond the word.
LEMMA SumWraps ==
  ASSUME NEW x \in Nat, NEW y \in Nat, R <= x + y, x + y < R + R
  PROVE  (x + y) % R = x + y - R
BY SMT DEF R

\* The end of the walk forward, after k' terms.
LEMMA LeftForward ==
  ASSUME Given, TypeOK, pc = "forward", Nothing, mstart = 0, LeaveForward(k'),
         UNCHANGED <<build, n, K, calls, lines, checksum, apcount>>,
         k' \in Nat, overflow' \in BOOLEAN, overflow' <=> Wraps, overflow' => build = "gpu",
         k' >= Full <=> Counts, Counts => k' = Beyond - Skip
  PROVE  IInv' /\ pc' # "forward"
<1>0. UNCHANGED <<build, n, K>> /\ Given' /\ Nothing' /\ Wraps' = Wraps /\ Counts' = Counts
  BY Kept DEF Nothing
<1>1. /\ Beyond \in Int /\ Below \in Int /\ Skip \in Nat \ {0} /\ Full \in Nat \ {0, 1} /\ Below < Skip
      /\ R \in Nat /\ n \in Nat /\ n > 0
  BY WalkTypes, BelowFacts
<1>2. CASE Counts
  <2>1. k' >= Full /\ k' = Beyond - Skip
    BY <1>2
  <2>2. pc' = "back" /\ m' = Term(Skip - 1) % R /\ mstart' = m'
    BY <2>1, Zenon DEF LeaveForward, Term
  <2>3. Skip - 1 \in Int /\ Skip \in Int /\ 0 \in Int /\ Skip < Beyond
    BY <1>1, <2>1
  <2>4. Term(Skip) < R
    BY <1>1, <2>3, BeyondFacts DEF Pass
  <2>5. Term(Skip - 1) \in Int /\ Term(Skip) \in Int /\ Term(Skip - 1) <= Term(Skip)
    BY <1>1, <2>3, TermsOrdered
  <2>6. Term(0) <= Term(Skip - 1) /\ Term(0) = n
    BY <1>1, <2>3, TermsOrdered, TermFacts
  <2>7. 0 <= Term(Skip - 1) /\ Term(Skip - 1) < R
    BY <1>1, <2>4, <2>5, <2>6
  <2>8. m' = Term(Skip - 1) /\ m' \in Word
    BY <2>2, <2>5, <2>7, Wrapping, WalkTypes
  <2>9. Beyond - 1 - k' = Skip - 1 /\ Below <= Beyond - 1 - k' /\ Beyond - Skip <= k'
    BY <1>1, <2>1
  <2>10. /\ (m = Term(Beyond - 1 - k))' /\ (mstart = Term(Skip - 1))'
         /\ (Below <= Beyond - 1 - k)' /\ (Beyond - Skip <= k)' /\ Counts' /\ overflow' = Wraps'
    <3>1. Beyond' = Beyond /\ Below' = Below /\ \A j : Term(j)' = Term(j)
      BY <1>0, Kept
    <3>2. (Below <= Beyond - 1 - k)' /\ (Beyond - Skip <= k)' /\ Counts' /\ overflow' = Wraps'
      BY <1>0, <1>2, <2>9, <3>1
    <3>3. (mstart = Term(Skip - 1))'
      BY <2>2, <2>8, <3>1
    <3>4. (m = Term(Beyond - 1 - k))'
      BY <2>8, <2>9, <3>1
    <3> QED
      BY <3>2, <3>3, <3>4
  <2>11. AtBack'
    BY <1>0, <2>2, <2>5, <2>7, <2>8, <2>10 DEF AtBack
  <2>12. TypeOK'
    BY <2>2, <2>8 DEF TypeOK
  <2> QED
    BY <1>0, <2>2, <2>11, <2>12 DEF IInv
<1>3. CASE ~Counts
  <2>1. ~(k' >= Full)
    BY <1>3
  <2>2. pc' = (IF overflow' THEN "limit" ELSE "done") /\ UNCHANGED <<m, mstart>>
    BY <2>1, Zenon DEF LeaveForward
  <2>3. TypeOK'
    BY <2>2 DEF TypeOK
  <2>4. CASE overflow'
    BY <1>0, <2>2, <2>3, <2>4 DEF IInv, AtEnd
  <2>5. CASE ~overflow'
    BY <1>0, <1>3, <2>2, <2>3, <2>5 DEF IInv, AtEnd
  <2> QED
    BY <2>4, <2>5
<1> QED
  BY <1>2, <1>3

\* The walk forward: it goes on to larger terms, to Beyond.
LEMMA ForwardStep ==
  ASSUME IInv, Forward
  PROVE  IInv' /\ (pc' = "forward" => m' > m)
<1>0. /\ Given /\ TypeOK /\ AtForward /\ pc = "forward" /\ Nothing /\ mstart = 0 /\ m \in Word /\ k \in Nat
      /\ UNCHANGED <<build, n, K, calls, lines, checksum, apcount>>
  BY DEF IInv, Forward, AtStart, AtForward, AtBack, AtReport, AtEnd, TypeOK, Settled
<1>1. /\ Beyond \in Int /\ Skip \in Nat \ {0} /\ Full \in Nat \ {0, 1} /\ Skip <= Beyond /\ ~Pass(Beyond)
      /\ R \in Nat /\ n \in Nat /\ n > 0 /\ n < R /\ STEP \in Nat /\ STEP > 0 /\ STEP < R
  BY <1>0, WalkTypes, BeyondFacts
<1>2. m \in Nat /\ m < R
  BY <1>0, WordFacts
<1> DEFINE next == (m + STEP) % R
           wraps == build = "gpu" /\ next < n
<1>3. CASE overflow = FALSE
  <2>1. Skip + k <= Beyond /\ m = Term(Skip + k) /\ m < R
    BY <1>0, <1>3 DEF AtForward
  <2>2. Skip + k \in Int /\ Skip + k + 1 \in Int
    BY <1>0, <1>1
  <2>3. m > 0
    BY <1>0, <1>2, <2>1, <2>2, TermFacts
  <2>4. CASE PrimeQ(m)
    <3>1. /\ k' = k + 1 /\ overflow' = (overflow \/ wraps)
          /\ IF wraps THEN LeaveForward(k') ELSE m' = next /\ UNCHANGED <<pc, mstart>>
      BY <2>4 DEF Forward
    <3>2. Skip + k + 1 <= Beyond
      <4>1. Pass(Skip + k)
        BY <2>1, <2>3, <2>4 DEF Pass
      <4> QED
        BY <1>0, <1>1, <2>1, <2>2, <4>1
    <3>3. m + STEP = Term(Skip + k + 1)
      BY <1>0, <2>1, <2>2, TermFacts
    <3>4. Term(Skip + k + 1) <= Term(Beyond) /\ Term(Beyond) \in Int /\ Term(Beyond) - R < n
      BY <1>0, <1>1, <2>2, <3>2, TermsOrdered, BeyondFacts
    <3>5. n <= m
      <4>1. 0 <= Skip + k /\ 0 \in Int /\ Term(0) = n
        BY <1>0, <1>1, TermFacts
      <4> QED
        BY <1>0, <2>1, <2>2, <4>1, TermsOrdered
    <3>6. CASE m + STEP < R
      <4>1. next = m + STEP /\ ~(next < n)
        <5>1. m + STEP \in Int /\ 0 <= m + STEP
          BY <1>1, <1>2
        <5>2. next = m + STEP
          BY <3>6, <5>1, Wrapping
        <5> QED
          BY <1>1, <1>2, <3>5, <5>2
      <4>2. ~wraps
        BY <4>1
      <4>3. overflow' = FALSE /\ m' = next /\ UNCHANGED <<pc, mstart>>
        BY <1>3, <3>1, <4>2, Zenon
      <4> HIDE DEF next, wraps
      <4>4. m' = Term(Skip + k + 1) /\ m' < R /\ m' > m /\ m' \in Word /\ k' \in Nat
        BY <1>0, <1>1, <1>2, <3>1, <3>3, <3>6, <4>1, <4>3, WalkTypes
      <4>5. (m = Term(Skip + k))' /\ (Skip + k <= Beyond)'
        <5>1. Skip + k' = Skip + k + 1
          BY <1>0, <1>1, <3>1
        <5>2. Beyond' = Beyond /\ \A j : Term(j)' = Term(j)
          BY <1>0, Kept
        <5> QED
          BY <3>2, <4>4, <5>1, <5>2
      <4>6. Nothing' /\ Given'
        BY <1>0, Kept DEF Nothing
      <4>7. AtForward'
        BY <1>0, <4>3, <4>4, <4>5, <4>6 DEF AtForward
      <4>8. TypeOK'
        BY <1>0, <4>3, <4>4 DEF TypeOK
      <4> QED
        BY <4>4, <4>6, <4>7, <4>8 DEF IInv
    <3>7. CASE ~(m + STEP < R)
      <4>1. next = m + STEP - R /\ next < n
        <5>1. m + STEP \in Int /\ R <= m + STEP /\ m + STEP < R + R
          BY <1>1, <1>2, <3>7
        <5>2. next = m + STEP - R
          BY <1>1, <1>2, <5>1, SumWraps
        <5> QED
          BY <1>1, <1>2, <3>3, <3>4, <5>2
      <4>2. ~(Term(Beyond) < R)
        BY <1>1, <1>2, <3>3, <3>4, <3>7
      <4>3. build = "gpu"
        BY <1>0, <4>2, BeyondFacts, StepFacts
      <4>4. wraps
        BY <4>1, <4>3
      <4>5. overflow' = TRUE /\ LeaveForward(k')
        BY <3>1, <4>4, Zenon
      <4>6. Skip + k + 1 = Beyond
        <5>1. ~Pass(Skip + k + 1)
          BY <1>1, <1>2, <3>3, <3>7 DEF Pass
        <5> QED
          BY <1>0, <1>1, <2>2, <3>2, <5>1, BeyondFacts
      <4>7. /\ k' \in Nat /\ k' = Beyond - Skip /\ Wraps /\ (k' >= Full <=> Counts)
        BY <1>0, <1>1, <3>1, <3>4, <4>2, <4>6 DEF Wraps, Counts
      <4> QED
        BY <1>0, <4>3, <4>5, <4>7, LeftForward
    <3> QED
      BY <3>6, <3>7
  <2>5. CASE ~PrimeQ(m)
    <3>1. k' = k /\ overflow' = overflow /\ LeaveForward(k)
      BY <2>5 DEF Forward
    <3>2. LeaveForward(k')
      BY <3>1
    <3>3. Skip + k = Beyond
      <4>1. ~Pass(Skip + k)
        BY <2>1, <2>5 DEF Pass
      <4> QED
        BY <1>0, <1>1, <2>1, <2>2, <4>1, BeyondFacts
    <3>4. k' \in Nat /\ k' = Beyond - Skip /\ ~Wraps /\ (k' >= Full <=> Counts)
      BY <1>0, <1>1, <1>2, <2>1, <3>1, <3>3 DEF Wraps, Counts
    <3>5. overflow' = FALSE
      BY <1>3, <3>1
    <3> QED
      BY <1>0, <3>2, <3>4, <3>5, LeftForward
  <2> QED
    BY <2>4, <2>5
<1>4. CASE overflow = TRUE
  <2>1. build = "gpu" /\ Beyond = Skip /\ Wraps /\ k = 0 /\ m = Term(Skip) - R
    BY <1>0, <1>4 DEF AtForward
  <2>2. ~Counts
    BY <1>1, <2>1 DEF Counts
  <2>3. CASE PrimeQ(m)
    <3>1. /\ k' = k + 1 /\ overflow' = (overflow \/ wraps)
          /\ IF wraps THEN LeaveForward(k') ELSE m' = next /\ UNCHANGED <<pc, mstart>>
      BY <2>3 DEF Forward
    <3>2. m + STEP = Term(Skip + 1) - R
      <4>1. Skip \in Int /\ Term(Skip) \in Int
        BY <1>0, <1>1, TermFacts
      <4>2. Term(Skip + 1) = Term(Skip) + STEP
        BY <1>0, <4>1, TermFacts
      <4> QED
        BY <1>1, <2>1, <4>1, <4>2
    <3>3. m + STEP < n
      BY <1>0, <3>2, BeyondFacts
    <3>4. next = m + STEP
      <4>1. m + STEP \in Int /\ 0 <= m + STEP /\ m + STEP < R
        BY <1>1, <1>2, <3>3
      <4> QED
        BY <4>1, Wrapping
    <3>5. wraps
      BY <2>1, <3>3, <3>4
    <3>6. overflow' = TRUE /\ LeaveForward(k')
      BY <1>4, <3>1, <3>5, Zenon
    <3>7. k' \in Nat /\ ~(k' >= Full)
      BY <1>1, <2>1, <3>1
    <3> QED
      BY <1>0, <2>1, <2>2, <3>6, <3>7, LeftForward
  <2>4. CASE ~PrimeQ(m)
    <3>1. k' = k /\ overflow' = overflow /\ LeaveForward(k)
      BY <2>4 DEF Forward
    <3>2. LeaveForward(k') /\ overflow' = TRUE
      BY <1>4, <3>1
    <3>3. k' \in Nat /\ ~(k' >= Full)
      BY <1>1, <2>1, <3>1
    <3> QED
      BY <1>0, <2>1, <2>2, <3>2, <3>3, LeftForward
  <2> QED
    BY <2>3, <2>4
<1> QED
  BY <1>0, <1>3, <1>4 DEF TypeOK

\* All terms between Below and Beyond pass; the cuts among them are refused.
LEMMA CutFacts ==
  ASSUME Given
  PROVE  /\ Below \in Int /\ Beyond \in Int /\ Below < Beyond
         /\ Below \in Cuts /\ Beyond \in Cuts
         /\ \A c \in Cuts : c \in Int /\ Below <= c /\ c <= Beyond
         /\ \A j \in Int : Below < j /\ j < Beyond => Pass(j) /\ (j \in Cuts <=> ~Accepted(Term(j)))
<1>1. Below \in Int /\ Beyond \in Int /\ Skip \in Int /\ Below < Skip /\ Skip <= Beyond
  BY WalkTypes, BeyondFacts, BelowFacts
<1>2. Cuts = {Below, Beyond} \cup {j \in Below + 1 .. Beyond - 1 : ~Accepted(Term(j))}
  BY DEF Cuts, CutsOf
<1>3. ASSUME NEW j \in Int, Below < j, j < Beyond
      PROVE  Pass(j) /\ (j \in Cuts <=> ~Accepted(Term(j)))
  <2>1. Pass(j)
    BY <1>1, <1>3, BeyondFacts, BelowFacts
  <2>2. j \in Below + 1 .. Beyond - 1 /\ j # Below /\ j # Beyond
    BY <1>1, <1>3
  <2> QED
    BY <1>2, <2>1, <2>2
<1>4. ASSUME NEW c \in Cuts PROVE c \in Int /\ Below <= c /\ c <= Beyond
  BY <1>1, <1>2
<1> QED
  BY <1>1, <1>2, <1>3, <1>4

\* A piece is two cuts with none between them,
LEMMA PieceFacts ==
  ASSUME Given, NEW p \in Pieces
  PROVE  /\ p = <<p[1], p[2]>> /\ p[1] \in Cuts /\ p[2] \in Cuts /\ p[1] < p[2]
         /\ p[1] \in Int /\ p[2] \in Int /\ Below <= p[1] /\ p[2] <= Beyond
         /\ \A c \in Cuts : c <= p[1] \/ p[2] <= c
<1>1. p \in Cuts \X Cuts /\ p[1] < p[2] /\ \A c \in Cuts : c <= p[1] \/ p[2] <= c
  BY DEF Pieces, PiecesOf
<1> QED
  BY <1>1, CutFacts

\* and any two such cuts are a piece.
LEMMA PieceIs ==
  ASSUME NEW c \in Cuts, NEW r \in Cuts, c < r, \A x \in Cuts : x <= c \/ r <= x
  PROVE  <<c, r>> \in Pieces
BY DEF Pieces, PiecesOf

\* Every cut but the last begins a piece, and every cut but the first ends one.
LEMMA PieceAfter ==
  ASSUME Given, NEW c \in Cuts, c # Beyond
  PROVE  \E r \in Cuts : <<c, r>> \in Pieces
<1> DEFINE T == {d \in Nat : d > 0 /\ c + d \in Cuts}
<1>0. c \in Int /\ Beyond \in Int /\ c < Beyond /\ Beyond \in Cuts
  BY CutFacts
<1>1. Beyond - c \in T
  <2>1. c + (Beyond - c) = Beyond /\ Beyond - c \in Nat /\ Beyond - c > 0
    BY <1>0
  <2> QED
    BY <1>0, <2>1
<1>2. PICK d \in T : \A y \in T : d <= y
  <2>1. T \in SUBSET Nat
    OBVIOUS
  <2> HIDE DEF T
  <2> QED
    BY <1>1, <2>1, Least
<1>3. d \in Nat /\ d > 0 /\ c + d \in Cuts
  OBVIOUS
<1>4. ASSUME NEW x \in Cuts PROVE x <= c \/ c + d <= x
  <2>1. x \in Int
    BY CutFacts
  <2>2. CASE x > c
    <3>1. c + (x - c) = x /\ x - c \in Nat /\ x - c > 0
      BY <1>0, <2>1, <2>2
    <3>2. x - c \in T
      BY <3>1
    <3>3. d <= x - c
      BY <1>2, <3>2
    <3> QED
      BY <1>0, <1>3, <2>1, <3>3
  <2> QED
    BY <1>0, <2>1, <2>2
<1>5. c < c + d
  BY <1>0, <1>3
<1> QED
  BY <1>3, <1>4, <1>5, PieceIs

\* The other direction.
LEMMA PieceBefore ==
  ASSUME Given, NEW r \in Cuts, r # Below
  PROVE  \E c \in Cuts : <<c, r>> \in Pieces
<1> DEFINE T == {d \in Nat : d > 0 /\ r - d \in Cuts}
<1>0. r \in Int /\ Below \in Int /\ Below < r /\ Below \in Cuts
  BY CutFacts
<1>1. r - Below \in T
  <2>1. r - (r - Below) = Below /\ r - Below \in Nat /\ r - Below > 0
    BY <1>0
  <2> QED
    BY <1>0, <2>1
<1>2. PICK d \in T : \A y \in T : d <= y
  <2>1. T \in SUBSET Nat
    OBVIOUS
  <2> HIDE DEF T
  <2> QED
    BY <1>1, <2>1, Least
<1>3. d \in Nat /\ d > 0 /\ r - d \in Cuts
  OBVIOUS
<1>4. ASSUME NEW x \in Cuts PROVE x <= r - d \/ r <= x
  <2>1. x \in Int
    BY CutFacts
  <2>2. CASE x < r
    <3>1. r - (r - x) = x /\ r - x \in Nat /\ r - x > 0
      BY <1>0, <2>1, <2>2
    <3>2. r - x \in T
      BY <3>1
    <3>3. d <= r - x
      BY <1>2, <3>2
    <3> QED
      BY <1>0, <1>3, <2>1, <3>3
  <2> QED
    BY <1>0, <2>1, <2>2
<1>5. r - d < r
  BY <1>0, <1>3
<1> QED
  BY <1>3, <1>4, <1>5, PieceIs

\* The cut before the end of a piece is its beginning.
LEMMA CutBefore ==
  ASSUME Given, NEW c \in Cuts, NEW r \in Cuts, <<c, r>> \in Pieces
  PROVE  Max({x \in Cuts : x < r}) = c
<1> DEFINE S == {x \in Cuts : x < r}
<1>1. c < r /\ c \in Int /\ r \in Int /\ \A x \in Cuts : x <= c \/ r <= x
  BY PieceFacts
<1>2. c \in S /\ \A y \in S : y \in Int /\ c >= y
  BY <1>1, CutFacts
<1> HIDE DEF S
<1>3. Max(S) \in S /\ \A y \in S : Max(S) >= y
  BY <1>2, Zenon DEF Max
<1>4. Max(S) >= c /\ c >= Max(S) /\ Max(S) \in Int
  BY <1>2, <1>3
<1>5. Max(S) = c
  BY <1>1, <1>4
<1> QED
  BY <1>5 DEF S

\* The running sums.
LEMMA SumsAre ==
  ASSUME NEW count \in Nat, NEW amount, \A i \in 1 .. count : amount[i] \in Nat
  PROVE  LET s == Sums(amount, count)
         IN  /\ s \in [0 .. count -> Nat] /\ s[0] = 0
             /\ \A i \in 1 .. count : s[i] = s[i - 1] + amount[i]
<1> DEFINE next == [i \in 1 .. count |-> [s \in Nat |-> s + amount[i]]]
           g == Iterates(0, next, count)
<1>1. \A i \in 1 .. count : \A s \in Nat : next[i][s] = s + amount[i]
  OBVIOUS
<1>2. Sums(amount, count) = g
  BY DEF Sums
<1> HIDE DEF next
<1>3. \A i \in 1 .. count : \A s \in Nat : next[i][s] \in Nat
  BY <1>1
<1>4. g \in [0 .. count -> Nat] /\ g[0] = 0 /\ \A i \in 1 .. count : g[i] = next[i][g[i - 1]]
  <2> DEFINE X == Nat
  <2>1. 0 \in X /\ \A i \in 1 .. count : \A s \in X : next[i][s] \in X
    BY <1>3
  <2>2. g \in [0 .. count -> X] /\ g[0] = 0 /\ \A i \in 1 .. count : g[i] = next[i][g[i - 1]]
    <3> HIDE DEF X
    <3> QED
      BY <2>1, IteratesAre
  <2> QED
    BY <2>2
<1> HIDE DEF g
<1>5. ASSUME NEW i \in 1 .. count PROVE g[i] = g[i - 1] + amount[i]
  <2>1. i - 1 \in 0 .. count
    OBVIOUS
  <2>2. g[i - 1] \in Nat
    BY <1>4, <2>1
  <2> QED
    BY <1>1, <1>4, <2>2
<1> QED
  BY <1>2, <1>4, <1>5

\* A call adds a number, and more than nothing if it is for a term.
LEMMA MassType ==
  ASSUME Given, NEW a \in Int, NEW b \in Int, a < b
  PROVE  Mass(a, b) \in Nat /\ (a + 1 < b => Mass(a, b) > 0)
<1> DEFINE x == Term(a + 1)
<1>1. x \in Int
  BY TermFacts
<1>2. Mass(a, b) = (x % 1000) + (b - a - 1)
  BY DEF Mass
<1> HIDE DEF x
<1>3. x % 1000 \in Nat
  BY <1>1
<1> QED
  BY <1>2, <1>3

\* One addition is within what the accumulator takes at a time.
LEMMA MassBound ==
  ASSUME Given, NEW a \in Cuts, NEW b \in Cuts, a < b
  PROVE  Mass(a, b) \in Nat /\ Mass(a, b) <= MAXINTV
<1>1. a \in Int /\ b \in Int /\ Below <= a /\ b <= Beyond /\ Below \in Int /\ Beyond \in Int
  BY CutFacts
<1>2. Beyond <= Skip + Longest /\ Skip - 1 - Longest <= Below
  BY BeyondFacts, BelowFacts
<1>3. Longest \in Nat /\ MAXINTV \in Nat /\ 999 + 2 * Longest <= MAXINTV /\ Skip \in Nat
  BY CandidateAssumption
<1> DEFINE x == Term(a + 1)
<1>4. x \in Int
  BY <1>1, TermFacts
<1>5. Mass(a, b) = (x % 1000) + (b - a - 1)
  BY DEF Mass
<1> HIDE DEF x
<1>6. x % 1000 \in Nat /\ x % 1000 <= 999
  BY <1>4
<1> QED
  BY <1>1, <1>2, <1>3, <1>5, <1>6

\* The accumulator holds the representative of the sum, 0 only for the empty one.
LEMMA AccumulatorIs ==
  ASSUME NEW s \in Nat, NEW x \in Nat, x <= MAXINTV
  PROVE  /\ Accumulator!AddMod(Accumulator!Canon(s), x) = Accumulator!Canon(s + x)
         /\ Accumulator!Canon(s) \in Accumulator!Sums
         /\ Accumulator!Canon(s) = 0 <=> s = 0
<1>1. Adding!ChecksumAssumption /\ MAXINTV \in Nat \ {0}
  BY CandidateAssumption DEF Adding!ChecksumAssumption
<1>2. /\ Accumulator!AddMod(Accumulator!Canon(s), x) = Adding!AddMod(Adding!Canon(s), x)
      /\ Accumulator!Canon(s + x) = Adding!Canon(s + x) /\ Accumulator!Canon(s) = Adding!Canon(s)
      /\ Accumulator!Sums = 0 .. MAXINTV /\ Adding!Sums = 0 .. MAXINTV
  BY DEF Adding!AddMod, Adding!Canon, Adding!Sums, Accumulator!AddMod, Accumulator!Canon, Accumulator!Sums
<1>3. Adding!Canon(x) = x
  <2>1. CASE x = 0
    BY <2>1 DEF Adding!Canon
  <2>2. CASE x # 0
    <3>1. x - 1 \in Nat /\ x - 1 < MAXINTV
      BY <1>1, <2>2
    <3>2. (x - 1) % MAXINTV = x - 1
      BY <1>1, <3>1
    <3> QED
      BY <2>2, <3>2 DEF Adding!Canon
  <2> QED
    BY <2>1, <2>2
<1>4. Adding!AddMod(Adding!Canon(s), Adding!Canon(x)) = Adding!Canon(s + x)
  BY <1>1, Adding!AddModCanon
<1>5. Adding!Canon(s) \in Adding!Sums
  BY <1>1, Adding!CanonType
<1>6. s # 0 => Adding!Canon(s) \in 1 .. MAXINTV
  BY <1>1, Adding!CanonQuotient
<1>7. s = 0 => Adding!Canon(s) = 0
  BY DEF Adding!Canon
<1>8. Adding!Canon(s) = 0 <=> s = 0
  BY <1>6, <1>7
<1> QED
  BY <1>2, <1>3, <1>4, <1>5, <1>8

\* What each term adds.
LEMMA PaidIs ==
  ASSUME Given
  PROVE  /\ \A c, r \in Cuts : <<c, r>> \in Pieces /\ r # Beyond =>
              Paid(Below, Beyond)[r - Below] = Mass(c, r) + Mass(r, Beyond)
         /\ \A j \in Int : Below < j /\ j < Beyond /\ j \notin Cuts => Paid(Below, Beyond)[j - Below] = 0
         /\ \A i \in 1 .. Beyond - Below - 1 : Paid(Below, Beyond)[i] \in Nat
<1>1. Below \in Int /\ Beyond \in Int /\ Below < Beyond
  BY CutFacts
<1>2. \A i \in 1 .. Beyond - Below - 1 :
        Paid(Below, Beyond)[i] =
          IF Below + i \in Cuts
          THEN Mass(Max({x \in Cuts : x < Below + i}), Below + i) + Mass(Below + i, Beyond) ELSE 0
  BY Zenon DEF Paid
<1>3. ASSUME NEW c \in Cuts, NEW r \in Cuts, <<c, r>> \in Pieces, r # Beyond
      PROVE  /\ Paid(Below, Beyond)[r - Below] = Mass(c, r) + Mass(r, Beyond)
             /\ Mass(c, r) + Mass(r, Beyond) \in Nat
  <2>1. c < r /\ r < Beyond /\ r \in Int /\ c \in Int /\ Below < r
    BY <1>3, CutFacts, PieceFacts
  <2>2. r - Below \in 1 .. Beyond - Below - 1 /\ Below + (r - Below) = r
    BY <1>1, <2>1
  <2>3. Max({x \in Cuts : x < r}) = c
    BY <1>3, CutBefore
  <2>4. Paid(Below, Beyond)[r - Below] = Mass(Max({x \in Cuts : x < r}), r) + Mass(r, Beyond)
    BY <1>2, <2>2
  <2>5. Mass(c, r) \in Nat /\ Mass(r, Beyond) \in Nat
    BY <1>1, <2>1, MassType
  <2> QED
    BY <2>3, <2>4, <2>5
<1>4. ASSUME NEW j \in Int, Below < j, j < Beyond, j \notin Cuts
      PROVE  Paid(Below, Beyond)[j - Below] = 0
  <2>1. j - Below \in 1 .. Beyond - Below - 1 /\ Below + (j - Below) = j
    BY <1>1, <1>4
  <2> QED
    BY <1>2, <1>4, <2>1
<1>5. ASSUME NEW i \in 1 .. Beyond - Below - 1 PROVE Paid(Below, Beyond)[i] \in Nat
  <2> DEFINE j == Below + i
  <2>1. j \in Int /\ Below < j /\ j < Beyond /\ j - Below = i
    BY <1>1
  <2> HIDE DEF j
  <2>2. CASE j \in Cuts
    <3>1. j # Below /\ j # Beyond
      BY <1>1, <2>1
    <3>2. PICK c \in Cuts : <<c, j>> \in Pieces
      BY <2>2, <3>1, PieceBefore
    <3>3. Paid(Below, Beyond)[j - Below] \in Nat
      BY <1>3, <2>2, <3>1, <3>2
    <3> QED
      BY <2>1, <3>3
  <2>3. CASE j \notin Cuts
    BY <1>4, <2>1, <2>3
  <2> QED
    BY <2>2, <2>3
<1> QED
  BY <1>3, <1>4, <1>5

\* Spent grows at the cuts.
LEMMA SpentIs ==
  ASSUME Given
  PROVE  /\ Spent(Below) = Mass(Below, Beyond) /\ Spent(Beyond - 1) = Total(Below, Beyond)
         /\ \A j \in Int : Below <= j /\ j < Beyond => Spent(j) \in Nat
         /\ \A j \in Int : Below < j /\ j < Beyond =>
              Spent(j) = Spent(j - 1) + Paid(Below, Beyond)[j - Below]
<1> DEFINE len == Beyond - Below - 1
           paid == Paid(Below, Beyond)
           s == Sums(paid, len)
           whole == Mass(Below, Beyond)
<1>1. Below \in Int /\ Beyond \in Int /\ Below < Beyond /\ whole \in Nat
  BY CutFacts, MassType
<1>2. len \in Nat
  BY <1>1
<1>3. \A i \in 1 .. len : paid[i] \in Nat
  BY PaidIs
<1>4. \A c : Spent(c) = whole + s[c - Below]
  BY DEF Spent
<1>5. Total(Below, Beyond) = whole + s[len]
  BY DEF Total
<1> HIDE DEF paid, whole
<1>6. s \in [0 .. len -> Nat] /\ s[0] = 0 /\ \A i \in 1 .. len : s[i] = s[i - 1] + paid[i]
  <2> HIDE DEF len
  <2> QED
    BY <1>2, <1>3, SumsAre
<1> HIDE DEF s
<1>7. Spent(Below) = whole
  <2>1. Below - Below = 0
    BY <1>1
  <2> QED
    BY <1>1, <1>4, <1>6, <2>1
<1>8. Spent(Beyond - 1) = Total(Below, Beyond)
  <2>1. Beyond - 1 - Below = len
    BY <1>1
  <2> QED
    BY <1>4, <1>5, <2>1
<1>9. ASSUME NEW j \in Int, Below <= j, j < Beyond PROVE Spent(j) \in Nat
  <2>1. j - Below \in 0 .. len
    BY <1>1, <1>9
  <2>2. s[j - Below] \in Nat
    BY <1>6, <2>1
  <2> QED
    BY <1>1, <1>4, <2>2
<1>10. ASSUME NEW j \in Int, Below < j, j < Beyond PROVE Spent(j) = Spent(j - 1) + paid[j - Below]
  <2> DEFINE i == j - Below
  <2>1. i \in 1 .. len /\ (j - 1) - Below = i - 1 /\ i - 1 \in 0 .. len
    BY <1>1, <1>10
  <2>2. Spent(j) = whole + s[i] /\ Spent(j - 1) = whole + s[i - 1]
    BY <1>4, <2>1
  <2> HIDE DEF i, len
  <2>3. s[i] = s[i - 1] + paid[i] /\ s[i - 1] \in Nat /\ paid[i] \in Nat
    BY <1>3, <1>6, <2>1
  <2>4. Spent(j) = Spent(j - 1) + paid[i]
    BY <1>1, <2>2, <2>3
  <2> QED
    BY <2>4 DEF i
<1> QED
  BY <1>7, <1>8, <1>9, <1>10 DEF paid, whole

\* Nothing is added within a piece.
LEMMA SpentFlat ==
  ASSUME Given, NEW c \in Cuts, NEW r \in Cuts, <<c, r>> \in Pieces
  PROVE  Spent(r - 1) = Spent(c)
<1> DEFINE S == {d \in Nat : c + d < r => Spent(c + d) = Spent(c)}
<1>0. /\ c \in Int /\ r \in Int /\ c < r /\ Below <= c /\ r <= Beyond /\ \A x \in Cuts : x <= c \/ r <= x
      /\ Below \in Int /\ Beyond \in Int
  BY PieceFacts, CutFacts
<1>1. 0 \in S
  <2>1. c + 0 = c /\ 0 \in Nat
    BY <1>0
  <2> QED
    BY <2>1
<1>2. ASSUME NEW d \in Nat, d \in S PROVE d + 1 \in S
  <2>1. CASE c + (d + 1) < r
    <3> DEFINE j == c + (d + 1)
    <3>1. j \in Int /\ j - 1 = c + d /\ Below < j /\ j < Beyond /\ c < j /\ j < r /\ c + d < r
      BY <1>0, <2>1
    <3>2. Spent(c + d) = Spent(c)
      BY <1>2, <3>1
    <3> HIDE DEF j
    <3>3. j \notin Cuts
      BY <1>0, <3>1
    <3>4. Paid(Below, Beyond)[j - Below] = 0
      BY <3>1, <3>3, PaidIs
    <3>5. Spent(j) = Spent(j - 1) + 0 /\ Spent(j - 1) \in Nat
      <4>1. Below <= j - 1 /\ j - 1 < Beyond /\ j - 1 \in Int
        BY <1>0, <3>1
      <4> QED
        BY <3>1, <3>4, <4>1, SpentIs
    <3>6. Spent(j) = Spent(c)
      BY <3>1, <3>2, <3>5
    <3> QED
      BY <3>6 DEF j
  <2>2. CASE ~(c + (d + 1) < r)
    BY <2>2
  <2> QED
    BY <2>1, <2>2
<1>3. Nat \subseteq S
  <2> HIDE DEF S
  <2> QED
    BY <1>1, <1>2, SetInduction
<1>4. r - 1 - c \in Nat /\ c + (r - 1 - c) = r - 1 /\ r - 1 < r
  BY <1>0
<1>5. r - 1 - c \in S
  BY <1>3, <1>4
<1> QED
  BY <1>4, <1>5

\* At a cut the two parts are added.
LEMMA SpentStep ==
  ASSUME Given, NEW c \in Cuts, NEW r \in Cuts, <<c, r>> \in Pieces, r # Beyond
  PROVE  Spent(r) = Spent(c) + Mass(c, r) + Mass(r, Beyond)
<1>0. /\ c \in Int /\ r \in Int /\ c < r /\ Below <= c /\ r < Beyond
      /\ Below \in Int /\ Beyond \in Int /\ Below < r
  BY PieceFacts, CutFacts
<1>1. Spent(r) = Spent(r - 1) + Paid(Below, Beyond)[r - Below]
  BY <1>0, SpentIs
<1>2. Paid(Below, Beyond)[r - Below] = Mass(c, r) + Mass(r, Beyond)
  BY PaidIs
<1>3. Spent(r - 1) = Spent(c) /\ Spent(c) \in Nat
  <2>1. c < Beyond
    BY <1>0
  <2> QED
    BY <1>0, <2>1, SpentFlat, SpentIs
<1>4. Mass(c, r) \in Nat /\ Mass(r, Beyond) \in Nat
  BY <1>0, MassType
<1> QED
  BY <1>1, <1>2, <1>3, <1>4

\* A term of the run, by its distance from another.
LEMMA TermBehind ==
  ASSUME Given, NEW i \in Int, NEW d \in Int
  PROVE  Term(i) + d * STEP = Term(i + d)
<1>1. Term(i) = n + i * STEP /\ Term(i + d) = n + (i + d) * STEP /\ n \in Int /\ STEP \in Int
  BY WalkTypes DEF Term
<1> HIDE DEF Term
<1>2. (i + d) * STEP = i * STEP + d * STEP /\ i * STEP \in Int /\ d * STEP \in Int
  BY <1>1, SMT
<1> QED
  BY <1>1, <1>2

\* What ReportSolution makes of the terms of the run are the terms themselves.
LEMMA TermInRun ==
  ASSUME Given, NEW i \in Int, NEW d \in Int, Below < i + d, i + d < Beyond
  PROVE  (Term(i) + d * STEP) % R = Term(i + d) /\ Term(i + d) \in Word
<1>1. Pass(i + d) /\ i + d \in Int
  BY CutFacts
<1>2. Term(i + d) \in Int /\ 0 <= Term(i + d) /\ Term(i + d) < R
  BY <1>1, TermFacts DEF Pass
<1>3. Term(i) + d * STEP = Term(i + d)
  BY TermBehind
<1>4. Term(i + d) % R = Term(i + d)
  BY <1>2, Wrapping
<1> QED
  BY <1>2, <1>3, <1>4, WalkTypes

\* validate_ap26 comes to the cut that ends the first piece.
LEMMA ValidateIs ==
  ASSUME Given, NEW a \in Cuts, NEW r \in Cuts, NEW b \in Cuts, <<a, r>> \in Pieces, r <= b
  PROVE  validate_ap26(b - a - 1, Term(a + 1)) = r - a - 1
<1> DEFINE f == Term(a + 1)
           len == b - a - 1
           failing == {j \in 0 .. len - 1 : ~Accepted((f + j * STEP) % R)}
<1>0. /\ a \in Int /\ r \in Int /\ b \in Int /\ a < r /\ Below <= a /\ b <= Beyond
      /\ Below \in Int /\ Beyond \in Int /\ \A x \in Cuts : x <= a \/ r <= x
  BY PieceFacts, CutFacts
<1>1. f % 2 # 0
  <2>1. a + 1 \in Int
    BY <1>0
  <2>2. f % 2 = 1
    BY <2>1, TermFacts
  <2> QED
    BY <2>2
<1>2. validate_ap26(len, f) = IF failing = {} THEN len ELSE Min(failing)
  BY <1>1, Zenon DEF validate_ap26, FirstFailing
<1>3. \A j \in 0 .. len - 1 : j \in failing <=> a + 1 + j \in Cuts
  <2> TAKE j \in 0 .. len - 1
  <2>1. j \in Int /\ a + 1 \in Int /\ Below < a + 1 + j /\ a + 1 + j < Beyond /\ a + 1 + j \in Int
    BY <1>0
  <2>2. (f + j * STEP) % R = Term(a + 1 + j)
    BY <2>1, TermInRun
  <2>3. a + 1 + j \in Cuts <=> ~Accepted(Term(a + 1 + j))
    BY <2>1, CutFacts
  <2> QED
    BY <2>2, <2>3
<1>4. failing \subseteq 0 .. len - 1
  OBVIOUS
<1> HIDE DEF failing, f
<1>5. CASE r = b
  <2>1. failing = {}
    <3> SUFFICES ASSUME NEW j \in failing PROVE FALSE
      OBVIOUS
    <3>1. j \in 0 .. len - 1 /\ a + 1 + j \in Cuts
      BY <1>3, <1>4
    <3> QED
      BY <1>0, <1>5, <3>1
  <2> QED
    BY <1>2, <1>5, <2>1 DEF f
<1>6. CASE r # b
  <2> DEFINE i == r - a - 1
  <2>1. i \in 0 .. len - 1 /\ a + 1 + i = r
    BY <1>0, <1>6
  <2> HIDE DEF i
  <2>2. i \in failing
    BY <1>3, <2>1
  <2>3. \A y \in failing : y \in Int /\ i <= y
    <3> TAKE y \in failing
    <3>1. y \in 0 .. len - 1 /\ a + 1 + y \in Cuts
      BY <1>3, <1>4
    <3> QED
      BY <1>0, <2>1, <3>1
  <2>4. Min(failing) \in failing /\ \A y \in failing : Min(failing) <= y
    BY <2>2, <2>3, Zenon DEF Min
  <2>5. Min(failing) = i
    <3> DEFINE x == Min(failing)
    <3>1. x \in failing /\ x <= i
      BY <2>2, <2>4
    <3> HIDE DEF x
    <3>2. x \in Int /\ i <= x /\ i \in Int
      BY <2>2, <2>3, <3>1
    <3>3. x = i
      BY <3>1, <3>2
    <3> QED
      BY <3>3 DEF x
  <2> QED
    BY <1>2, <2>2, <2>5 DEF f, i
<1> QED
  BY <1>5, <1>6

\* val_base2_ap26 refuses none of the run.
LEMMA BaseTwoAccepts ==
  ASSUME Given, NEW a \in Cuts, NEW b \in Cuts, a < b
  PROVE  val_base2_ap26(b - a - 1, Term(a + 1)) = b - a - 1
<1> DEFINE f == Term(a + 1)
           len == b - a - 1
           failing == {j \in 0 .. len - 1 : ~strong_prp(2, (f + j * STEP) % R)}
<1>0. /\ a \in Int /\ b \in Int /\ Below <= a /\ b <= Beyond /\ Below \in Int /\ Beyond \in Int
  BY CutFacts
<1>1. f % 2 # 0
  <2>1. a + 1 \in Int
    BY <1>0
  <2>2. f % 2 = 1
    BY <2>1, TermFacts
  <2> QED
    BY <2>2
<1>2. val_base2_ap26(len, f) = IF failing = {} THEN len ELSE Min(failing)
  BY <1>1, Zenon DEF val_base2_ap26, FirstFailing
<1>3. \A j \in 0 .. len - 1 : strong_prp(2, (f + j * STEP) % R)
  <2> TAKE j \in 0 .. len - 1
  <2> DEFINE t == a + 1 + j
  <2>1. j \in Int /\ a + 1 \in Int /\ Below < t /\ t < Beyond /\ t \in Int
    BY <1>0
  <2>2. (f + j * STEP) % R = Term(t) /\ Term(t) \in Word
    BY <2>1, TermInRun
  <2> HIDE DEF t
  <2>3. Term(t) % 2 = 1 /\ PrimeQ(Term(t))
    BY <2>1, TermFacts, CutFacts DEF Pass
  <2>4. strong_prp(2, Term(t))
    BY <2>2, <2>3, TestsAgree
  <2> QED
    BY <2>2, <2>4
<1>4. failing = {}
  BY <1>3
<1> QED
  BY <1>2, <1>4

\* The pieces up to the end of one are those up to its beginning, and itself.
LEMMA PiecesGrow ==
  ASSUME Given, NEW c \in Cuts, NEW r \in Cuts, <<c, r>> \in Pieces, NEW p \in Pieces
  PROVE  p[2] <= r <=> p[2] <= c \/ p = <<c, r>>
<1>1. /\ c < r /\ c \in Int /\ r \in Int /\ p[1] < p[2] /\ p[1] \in Int /\ p[2] \in Int
      /\ p[1] \in Cuts /\ p[2] \in Cuts /\ p = <<p[1], p[2]>>
      /\ \A x \in Cuts : x <= c \/ r <= x
      /\ \A x \in Cuts : x <= p[1] \/ p[2] <= x
  BY PieceFacts, CutFacts
<1>2. p[2] <= c => p[2] <= r
  BY <1>1
<1>3. p = <<c, r>> => p[2] <= r
  BY <1>1
<1>4. ASSUME p[2] <= r, ~(p[2] <= c) PROVE p = <<c, r>>
  <2>1. p[2] = r
    BY <1>1, <1>4
  <2>2. c <= p[1] /\ p[1] <= c
    BY <1>1, <2>1
  <2>3. p[1] = c
    BY <1>1, <2>2
  <2> QED
    BY <1>1, <2>1, <2>3
<1> QED
  BY <1>2, <1>3, <1>4

\* A call is for a number of terms, and names a word: also one for no terms.
LEMMA BetweenType ==
  ASSUME Given, ~Wraps, NEW a \in Cuts, NEW b \in Cuts, a < b
  PROVE  Between(a, b) \in Nat \X Word /\ Term(a + 1) % R = Term(a + 1) /\ b - a - 1 \in Nat
<1>0. /\ a \in Int /\ b \in Int /\ Below <= a /\ b <= Beyond /\ Below \in Int /\ Beyond \in Int
      /\ a + 1 \in Int /\ b - a - 1 \in Nat
  BY CutFacts
<1>1. 0 <= Term(a + 1) /\ Term(a + 1) < R /\ Term(a + 1) \in Int
  <2>1. CASE a + 1 < Beyond
    <3>1. Pass(a + 1)
      BY <1>0, <2>1, CutFacts
    <3>2. Term(a + 1) > 0 /\ Term(a + 1) < R /\ Term(a + 1) \in Int
      BY <1>0, <3>1, TermFacts DEF Pass
    <3> QED
      BY <3>2
  <2>2. CASE ~(a + 1 < Beyond)
    <3>1. a + 1 = Beyond
      BY <1>0, <2>2
    <3>2. 0 \in Int /\ 0 <= Beyond
      BY WalkTypes, BeyondFacts
    <3>3. Term(0) <= Term(Beyond) /\ Term(Beyond) \in Int /\ Term(0) = n /\ n \in Nat /\ R \in Nat
      BY <1>0, <3>2, TermsOrdered, TermFacts, WalkTypes
    <3> QED
      BY <3>1, <3>3 DEF Wraps
  <2> QED
    BY <2>1, <2>2
<1>2. Term(a + 1) \in Word
  BY <1>1, WalkTypes
<1>3. Term(a + 1) % R = Term(a + 1)
  BY <1>1, Wrapping
<1> QED
  BY <1>0, <1>2, <1>3 DEF Between

\* The line of a piece is what ReportSolution prints of its call.
LEMMA LineIs ==
  ASSUME Given, ~Wraps, NEW a \in Cuts, NEW b \in Cuts, a < b
  PROVE  /\ Line(a, b) = <<b - a - 1, Printed(Term(a + 1))>> /\ Line(a, b) \in Nat \X Int
         /\ Term(a + 1) = IF Line(a, b)[2] < 0 THEN Line(a, b)[2] + R ELSE Line(a, b)[2]
<1> DEFINE f == Term(a + 1)
<1>1. f \in Word /\ b - a - 1 \in Nat
  <2>1. Between(a, b) \in Nat \X Word /\ b - a - 1 \in Nat
    BY BetweenType
  <2> QED
    BY <2>1 DEF Between
<1>2. f \in Nat /\ f < R /\ R = 65536 /\ R \div 2 = 32768
  <2>1. f \in Nat /\ f < R /\ R = 65536
    BY <1>1, WordFacts
  <2> QED
    BY <2>1
<1>3. Line(a, b) = <<b - a - 1, IF build = "cpu" /\ 2 * f >= R THEN f - R ELSE f>>
  BY DEF Line
<1>4. Printed(f) = IF build = "cpu" /\ f >= R \div 2 THEN f - R ELSE f
  BY DEF Printed
<1> HIDE DEF f
<1>5. 2 * f >= R <=> f >= R \div 2
  BY <1>2
<1>6. Line(a, b) = <<b - a - 1, Printed(f)>>
  BY <1>3, <1>4, <1>5
<1>7. Printed(f) \in Int /\ f = IF Printed(f) < 0 THEN Printed(f) + R ELSE Printed(f)
  <2>1. CASE build = "cpu" /\ f >= R \div 2
    BY <1>2, <1>4, <2>1
  <2>2. CASE ~(build = "cpu" /\ f >= R \div 2)
    BY <1>2, <1>4, <2>2
  <2> QED
    BY <2>1, <2>2
<1> QED
  BY <1>1, <1>6, <1>7 DEF f

\* Different pieces have different lines.
LEMMA LineUnique ==
  ASSUME Given, ~Wraps, NEW a \in Cuts, NEW b \in Cuts, a < b,
         NEW c \in Cuts, NEW d \in Cuts, c < d, Line(a, b) = Line(c, d)
  PROVE  a = c /\ b = d
<1>0. a \in Int /\ b \in Int /\ c \in Int /\ d \in Int
  BY CutFacts
<1>1. Term(a + 1) = Term(c + 1)
  BY LineIs
<1>2. b - a - 1 = d - c - 1
  BY DEF Line
<1>3. a + 1 \in Int /\ c + 1 \in Int
  BY <1>0
<1>4. a + 1 <= c + 1 /\ c + 1 <= a + 1
  BY <1>1, <1>3, TermsOrdered
<1> QED
  BY <1>0, <1>2, <1>4

\* Nothing is written before the first cut.
LEMMA WrittenFirst ==
  ASSUME Given
  PROVE  Written(<<>>, Below)
<1>1. IsInjective(<<>>)
  BY DEF IsInjective
<1>2. ToSet(<<>>) = {}
  BY DEF ToSet
<1>3. \A p \in Pieces : ~(p[2] <= Below)
  <2> TAKE p \in Pieces
  <2> QED
    BY PieceFacts, CutFacts
<1> QED
  BY <1>1, <1>2, <1>3 DEF Written

\* A line for a piece that is long enough, and none for another.
LEMMA WrittenNext ==
  ASSUME Given, ~Wraps, NEW s \in Seq(Nat \X Int), NEW c \in Cuts, NEW r \in Cuts,
         <<c, r>> \in Pieces, Written(s, c), NEW t,
         t = IF r - c - 1 >= MINIMUM_AP_LENGTH_TO_REPORT THEN Append(s, Line(c, r)) ELSE s
  PROVE  Written(t, r)
<1> DEFINE long(p) == p[2] - p[1] - 1 >= MINIMUM_AP_LENGTH_TO_REPORT
           some(x)  == {Line(p[1], p[2]) : p \in {p \in Pieces : p[2] <= x /\ long(p)}}
           e == Line(c, r)
           pair == <<c, r>>
<1>0. c < r /\ c \in Int /\ r \in Int
  BY PieceFacts, CutFacts
<1>1. IsInjective(s) /\ ToSet(s) = some(c)
  BY DEF Written
<1>2. /\ pair[1] = c /\ pair[2] = r /\ pair \in Pieces
      /\ (long(pair) <=> r - c - 1 >= MINIMUM_AP_LENGTH_TO_REPORT)
  OBVIOUS
<1>3. \A p \in Pieces : p[2] <= r <=> p[2] <= c \/ p = pair
  BY PiecesGrow
<1> HIDE DEF pair
<1>4. some(r) = IF long(pair) THEN some(c) \cup {e} ELSE some(c)
  <2>1. ASSUME NEW x PROVE x \in some(r) <=> x \in some(c) \/ (long(pair) /\ x = e)
    <3>1. x \in some(r) => x \in some(c) \/ (long(pair) /\ x = e)
      <4> SUFFICES ASSUME NEW p \in Pieces, p[2] <= r, long(p), x = Line(p[1], p[2])
                   PROVE  x \in some(c) \/ (long(pair) /\ x = e)
        OBVIOUS
      <4>1. CASE p = pair
        BY <1>2, <4>1, Zenon
      <4>2. CASE p[2] <= c
        BY <4>2
      <4> QED
        BY <1>3, <4>1, <4>2
    <3>2. x \in some(c) => x \in some(r)
      BY <1>3
    <3>3. long(pair) /\ x = e => x \in some(r)
      <4> SUFFICES ASSUME long(pair), x = e PROVE x \in some(r)
        OBVIOUS
      <4>1. pair[2] <= r /\ x = Line(pair[1], pair[2])
        BY <1>0, <1>2
      <4> QED
        BY <1>2, <4>1
    <3> QED
      BY <3>1, <3>2, <3>3
  <2> HIDE DEF some, e, long
  <2> QED
    BY <2>1
<1>5. e \notin some(c)
  <2> SUFFICES ASSUME NEW p \in Pieces, p[2] <= c, e = Line(p[1], p[2]) PROVE FALSE
    OBVIOUS
  <2>1. p[1] \in Cuts /\ p[2] \in Cuts /\ p[1] < p[2]
    BY PieceFacts
  <2>2. \A x, y \in Cuts : x < y /\ Line(x, y) = e => y = r
    BY <1>0, LineUnique
  <2>3. p[2] = r
    BY <2>1, <2>2
  <2> QED
    BY <1>0, <2>3
<1> HIDE DEF some, e
<1>6. CASE long(pair)
  <2>1. t = Append(s, e)
    BY <1>2, <1>6 DEF e
  <2>2. /\ Len(s) \in Nat /\ DOMAIN s = 1 .. Len(s) /\ DOMAIN t = 1 .. Len(s) + 1
        /\ t[Len(s) + 1] = e /\ \A i \in 1 .. Len(s) : t[i] = s[i]
    BY <2>1
  <2>3. \A i \in 1 .. Len(s) : s[i] # e
    BY <1>1, <1>5, <2>2 DEF ToSet
  <2>4. IsInjective(t)
    <3> SUFFICES ASSUME NEW i \in DOMAIN t, NEW j \in DOMAIN t, t[i] = t[j] PROVE i = j
      BY Zenon DEF IsInjective
    <3>1. \A x, y \in 1 .. Len(s) : s[x] = s[y] => x = y
      BY <1>1, <2>2 DEF IsInjective
    <3> QED
      BY <2>2, <2>3, <3>1
  <2>5. ToSet(t) = ToSet(s) \cup {e}
    <3>1. ToSet(t) = {t[i] : i \in 1 .. Len(s) + 1} /\ ToSet(s) = {s[i] : i \in 1 .. Len(s)}
      BY <2>2 DEF ToSet
    <3>2. \A i \in 1 .. Len(s) + 1 : i \in 1 .. Len(s) \/ i = Len(s) + 1
      BY <2>2
    <3>3. Len(s) + 1 \in 1 .. Len(s) + 1 /\ \A i \in 1 .. Len(s) : i \in 1 .. Len(s) + 1
      BY <2>2
    <3> QED
      BY <2>2, <3>1, <3>2, <3>3
  <2>6. ToSet(t) = some(r)
    BY <1>1, <1>4, <1>6, <2>5
  <2> QED
    BY <2>4, <2>6 DEF Written, some
<1>7. CASE ~long(pair)
  <2>1. t = s
    BY <1>2, <1>7
  <2>2. ToSet(t) = some(r)
    BY <1>1, <1>4, <1>7, <2>1
  <2> QED
    BY <1>1, <2>1, <2>2 DEF Written, some
<1> QED
  BY <1>6, <1>7

\* The end of the walk back: the whole run is reported, or the limit.
LEMMA LeftBack ==
  ASSUME Given, TypeOK, Nothing, Counts, overflow <=> Wraps, overflow => build = "gpu",
         UNCHANGED <<build, n, K, mstart, overflow, lines, checksum>>,
         m' \in Word, k' \in Nat, apcount' = apcount + 1,
         IF overflow THEN pc' = "limit" /\ UNCHANGED calls
         ELSE pc' = "report" /\ calls' = <<Between(Below, Beyond)>>
  PROVE  IInv' /\ pc' # "back"
<1>0. /\ UNCHANGED <<build, n, K>> /\ Given' /\ Wraps' = Wraps /\ Counts' = Counts
      /\ Beyond' = Beyond /\ Cuts' = Cuts
  BY Kept
<1>1. apcount' = 1 /\ lines' = <<>> /\ checksum' = 0 /\ calls = <<>>
  BY DEF Nothing
<1>2. CASE overflow
  <2>1. pc' = "limit" /\ calls' = calls
    BY <1>2
  <2>2. TypeOK'
    BY <1>1, <2>1 DEF TypeOK
  <2>3. AtEnd'
    BY <1>0, <1>2, <2>1 DEF AtEnd
  <2> QED
    BY <1>0, <2>1, <2>2, <2>3 DEF IInv
<1>3. CASE ~overflow
  <2>1. pc' = "report" /\ calls' = <<Between(Below, Beyond)>>
    BY <1>3
  <2>2. /\ Below \in Cuts /\ Beyond \in Cuts /\ Below < Beyond /\ Below \in Int /\ Beyond \in Int
        /\ Below \in Cuts \ {Beyond}
    BY CutFacts
  <2>3. Between(Below, Beyond) \in Nat \X Word
    BY <1>3, <2>2, BetweenType
  <2>4. calls' \in Seq(Nat \X Word)
    BY <2>1, <2>3
  <2>5. TypeOK'
    BY <1>1, <2>1, <2>4 DEF TypeOK
  <2>6. 0 = Accumulator!Canon(0) /\ 0 + Mass(Below, Beyond) = Spent(Below) /\ 0 \in Nat
    BY <2>2, MassType, SpentIs DEF Accumulator!Canon
  <2> DEFINE c == Below
  <2>7. Following(c)'
    BY <1>0, <1>1, <2>1, <2>6, Kept, WrittenFirst DEF Following
  <2>8. AtReport'
    <3>1. \E x \in Cuts' \ {Beyond'} : Following(x)'
      <4>1. c \in Cuts' \ {Beyond'}
        BY <1>0, <2>2
      <4> QED
        BY <2>7, <4>1, <1>0, Kept
    <3> QED
      BY <1>0, <1>1, <1>3, <2>1, <3>1 DEF AtReport
  <2> QED
    BY <1>0, <2>1, <2>5, <2>8 DEF IInv
<1> QED
  BY <1>2, <1>3

\* The walk back: it goes on to smaller terms, to Below.
LEMMA BackStep ==
  ASSUME IInv, Back
  PROVE  IInv' /\ (pc' = "back" => m' < m)
<1>0. /\ Given /\ TypeOK /\ AtBack /\ pc = "back" /\ Nothing /\ m \in Word
      /\ UNCHANGED <<build, n, K, mstart, overflow, lines, checksum>>
  BY DEF IInv, Back, AtStart, AtForward, AtBack, AtReport, AtEnd, TypeOK, Settled
<1> DEFINE j == Beyond - 1 - k
<1>1. /\ Counts /\ k \in Nat /\ Beyond - Skip <= k /\ Below <= j /\ m = Term(j)
      /\ mstart = Term(Skip - 1) /\ overflow \in BOOLEAN
      /\ (overflow <=> Wraps) /\ (overflow => build = "gpu")
  BY <1>0 DEF AtBack
<1>2. /\ Beyond \in Int /\ Below \in Int /\ Skip \in Nat \ {0} /\ Full \in Nat \ {0, 1} /\ Skip <= Beyond
      /\ Below < Skip /\ ~Pass(Below)
      /\ R \in Nat /\ n \in Nat /\ n > 0 /\ n < R /\ STEP \in Nat /\ STEP > 0 /\ STEP < R
  BY <1>0, WalkTypes, BeyondFacts, BelowFacts
<1>3. m \in Nat /\ m < R
  BY <1>0, WordFacts
<1>4. j \in Int /\ j < Skip /\ k + 1 = Beyond - j /\ j = Beyond - 1 - k
  BY <1>1, <1>2
<1>5. Skip < Beyond /\ Pass(Skip)
  <2>1. Skip < Beyond
    BY <1>1, <1>2 DEF Counts
  <2> QED
    BY <1>0, <1>2, <2>1, BeyondFacts
<1>6. m > 0
  BY <1>0, <1>1, <1>3, <1>4, TermFacts
<1> HIDE DEF j
<1>7. j - 1 \in Int /\ Term(j - 1) \in Int /\ m = Term(j - 1) + STEP
  <2>1. j - 1 \in Int /\ j - 1 + 1 = j
    BY <1>4
  <2>2. Term(j - 1 + 1) = Term(j - 1) + STEP /\ Term(j - 1) \in Int
    BY <1>0, <2>1, TermFacts
  <2> QED
    BY <1>1, <2>1, <2>2
<1>8. /\ Skip - 1 \in Int /\ Term(Skip - 1) \in Int /\ Term(Skip - 1) + STEP < R
      /\ m <= Term(Skip - 1)
  <2>1. Skip - 1 \in Int /\ Skip - 1 + 1 = Skip /\ j <= Skip - 1
    BY <1>2, <1>4
  <2>2. Term(Skip - 1 + 1) = Term(Skip - 1) + STEP
    BY <1>0, <2>1, TermFacts
  <2>3. Term(Skip) < R
    BY <1>5 DEF Pass
  <2>4. Term(j) <= Term(Skip - 1) /\ Term(Skip - 1) \in Int
    BY <1>0, <1>4, <2>1, TermsOrdered
  <2> QED
    BY <1>1, <2>1, <2>2, <2>3, <2>4
<1>9. CASE PrimeQ(m)
  <2>1. /\ k' = k + 1 /\ m' = (m - STEP) % R
        /\ IF m' > mstart THEN LeaveBack(k', m') ELSE UNCHANGED <<pc, calls, apcount>>
    BY <1>9 DEF Back
  <2>2. Below < j
    <3>1. Pass(j)
      BY <1>1, <1>3, <1>6, <1>9 DEF Pass
    <3> QED
      BY <1>1, <1>2, <1>4, <3>1
  <2>3. CASE m - STEP >= 0
    <3>1. m' = m - STEP /\ m' = Term(j - 1) /\ m' >= 0 /\ m' < m /\ m' < R
      <4>1. m - STEP \in Int /\ 0 <= m - STEP /\ m - STEP < R /\ m - STEP < m
        BY <1>2, <1>3, <2>3
      <4>2. (m - STEP) % R = m - STEP
        BY <4>1, Wrapping
      <4> QED
        BY <1>2, <1>3, <1>7, <2>1, <4>1, <4>2
    <3>2. ~(m' > mstart)
      BY <1>1, <1>3, <1>8, <3>1
    <3>3. UNCHANGED <<pc, calls, apcount>>
      BY <2>1, <3>2, Zenon
    <3>4. m' \in Word /\ k' \in Nat
      BY <1>0, <1>1, <1>3, <2>1, <3>1, WalkTypes
    <3>5. TypeOK'
      BY <1>0, <3>3, <3>4 DEF TypeOK
    <3>6. /\ Given' /\ Counts' /\ Nothing' /\ Wraps' = Wraps /\ Beyond' = Beyond /\ Below' = Below
          /\ \A i : Term(i)' = Term(i)
      BY <1>0, <1>1, <3>3, Kept DEF Nothing
    <3>7. /\ Beyond - 1 - k' = j - 1 /\ Below <= Beyond - 1 - k' /\ Beyond - Skip <= k'
      BY <1>1, <1>2, <1>4, <2>1, <2>2
    <3>8. (m = Term(Beyond - 1 - k))' /\ (Below <= Beyond - 1 - k)' /\ (Beyond - Skip <= k)'
      BY <3>1, <3>6, <3>7
    <3>9. (mstart = Term(Skip - 1))'
      BY <1>0, <1>1, <3>6
    <3>10. overflow' \in BOOLEAN /\ (overflow' <=> Wraps') /\ (overflow' => build' = "gpu")
      BY <1>0, <1>1, <3>6
    <3>11. AtBack'
      BY <1>0, <3>1, <3>3, <3>4, <3>6, <3>8, <3>9, <3>10 DEF AtBack
    <3> QED
      BY <3>1, <3>5, <3>6, <3>11 DEF IInv
  <2>4. CASE ~(m - STEP >= 0)
    <3>1. m' = m - STEP + R /\ m' + STEP = m + R /\ m' >= 0 /\ m' < R
      <4>1. m - STEP \in Int /\ m - STEP < 0 /\ 0 <= m - STEP + R
        BY <1>2, <1>3, <2>4
      <4>2. (m - STEP) % R = m - STEP + R
        BY <4>1, Wrapping
      <4> QED
        BY <1>2, <1>3, <2>1, <4>1, <4>2
    <3>2. m' > mstart
      BY <1>1, <1>2, <1>3, <1>6, <1>8, <3>1
    <3>3. LeaveBack(k', m')
      BY <2>1, <3>2, Zenon
    <3>4. (m' + STEP) % R = m
      <4>1. m \in Nat /\ R \in Nat /\ R <= m + R /\ m + R < R + R
        BY <1>2, <1>3
      <4>2. (m + R) % R = m + R - R
        BY <4>1, SumWraps
      <4> QED
        BY <3>1, <4>1, <4>2
    <3>5. Below = j - 1
      <4>1. ~Pass(j - 1)
        BY <1>2, <1>3, <1>7, <2>4 DEF Pass
      <4>2. j - 1 < Skip /\ ~(Below < j - 1)
        BY <1>0, <1>2, <1>4, <1>7, <4>1, BelowFacts
      <4> QED
        BY <1>2, <1>4, <2>2, <4>2
    <3>6. Between(Below, Beyond) = <<k', m>>
      <4>1. Beyond - Below - 1 = k' /\ Below + 1 = j
        BY <1>2, <1>4, <2>1, <3>5
      <4> QED
        BY <1>1, <4>1 DEF Between
    <3>7. /\ apcount' = apcount + 1
          /\ IF overflow THEN pc' = "limit" /\ UNCHANGED calls
             ELSE pc' = "report" /\ calls' = <<Between(Below, Beyond)>>
      BY <3>3, <3>4, <3>6, Zenon DEF LeaveBack
    <3>8. m' \in Word /\ k' \in Nat
      BY <1>0, <1>1, <1>2, <1>3, <2>1, <3>1, WalkTypes
    <3> QED
      BY <1>0, <1>1, <3>7, <3>8, LeftBack
  <2> QED
    BY <2>3, <2>4
<1>10. CASE ~PrimeQ(m)
  <2>1. k' = k /\ m' = m /\ LeaveBack(k, m)
    BY <1>10 DEF Back
  <2>2. Below = j
    <3>1. ~Pass(j)
      BY <1>1, <1>10 DEF Pass
    <3> QED
      BY <1>0, <1>1, <1>2, <1>4, <3>1, BelowFacts
  <2>3. (m + STEP) % R = Term(Below + 1)
    <3>1. m + STEP = Term(Below + 1)
      BY <1>0, <1>1, <1>4, <2>2, TermFacts
    <3>2. m + STEP \in Int /\ 0 <= m + STEP /\ m + STEP < R
      BY <1>2, <1>3, <1>8
    <3> QED
      BY <3>1, <3>2, Wrapping
  <2>4. Between(Below, Beyond) = <<k, (m + STEP) % R>>
    <3>1. Beyond - Below - 1 = k
      BY <1>1, <1>2, <1>4, <2>2
    <3> QED
      BY <2>3, <3>1 DEF Between
  <2>5. /\ apcount' = apcount + 1
        /\ IF overflow THEN pc' = "limit" /\ UNCHANGED calls
           ELSE pc' = "report" /\ calls' = <<Between(Below, Beyond)>>
    BY <2>1, <2>4, Zenon DEF LeaveBack
  <2> QED
    BY <1>0, <1>1, <2>1, <2>5, LeftBack
<1> QED
  BY <1>9, <1>10

\* What is left to do for the calls in s.
LeftOf(s) == Sums([i \in DOMAIN s |-> 2 * s[i][1] + 1], Len(s))[Len(s)]

\* One or two calls at a time.
LEMMA LeftOfIs ==
  ASSUME NEW s \in Seq(Nat \X Word)
  PROVE  /\ Len(s) = 0 => LeftOf(s) = 0
         /\ Len(s) = 1 => LeftOf(s) = 2 * s[1][1] + 1
         /\ Len(s) = 2 => LeftOf(s) = (2 * s[1][1] + 1) + (2 * s[2][1] + 1)
<1> DEFINE amount == [i \in DOMAIN s |-> 2 * s[i][1] + 1]
           len == Len(s)
           sum == Sums(amount, len)
<1>1. len \in Nat /\ DOMAIN s = 1 .. len
  OBVIOUS
<1>2. \A i \in 1 .. len : amount[i] = 2 * s[i][1] + 1 /\ s[i][1] \in Nat /\ amount[i] \in Nat
  BY <1>1
<1>3. LeftOf(s) = sum[len]
  BY DEF LeftOf
<1> HIDE DEF amount, len
<1>4. sum[0] = 0 /\ \A i \in 1 .. len : sum[i] = sum[i - 1] + amount[i]
  BY <1>1, <1>2, SumsAre
<1> HIDE DEF sum
<1>5. CASE len = 0
  BY <1>3, <1>4, <1>5 DEF len
<1>6. CASE len = 1
  <2>1. 1 \in 1 .. len /\ 1 - 1 = 0
    BY <1>6
  <2>2. sum[1] = sum[1 - 1] + amount[1]
    BY <1>4, <2>1
  <2>3. sum[1] = amount[1]
    BY <1>2, <1>4, <2>1, <2>2
  <2>4. LeftOf(s) = 2 * s[1][1] + 1
    BY <1>2, <1>3, <1>6, <2>1, <2>3
  <2> QED
    BY <1>6, <2>4 DEF len
<1>7. CASE len = 2
  <2>1. 1 \in 1 .. len /\ 1 - 1 = 0 /\ 2 \in 1 .. len /\ 2 - 1 = 1
    BY <1>7
  <2>2. sum[1] = sum[0] + amount[1] /\ sum[2] = sum[1] + amount[2]
    BY <1>4, <2>1, Zenon
  <2>3. amount[1] \in Nat /\ amount[2] \in Nat
    BY <1>2, <2>1
  <2>4. sum[2] = amount[1] + amount[2]
    BY <1>4, <2>2, <2>3
  <2>5. LeftOf(s) = (2 * s[1][1] + 1) + (2 * s[2][1] + 1)
    BY <1>2, <1>3, <1>7, <2>1, <2>4
  <2> QED
    BY <1>7, <2>5 DEF len
<1>8. CASE len \notin {0, 1, 2}
  BY <1>8 DEF len
<1> QED
  BY <1>5, <1>6, <1>7, <1>8

\* A call for a terms from f, of which validate_ap26 lets through the first i.
LEMMA ReportIs ==
  ASSUME ReportSolution, NEW a \in Nat, NEW f, NEW i \in Nat, calls[1] = <<a, f>>,
         validate_ap26(a, f) = i, val_base2_ap26(a, f) = a, i <= a
  PROVE  /\ checksum' = Accumulator!AddMod(checksum, (f % 1000) + a) /\ pc' = pc
         /\ i < a => lines' = lines /\ calls' = Split(a, f, i) \o Tail(calls)
         /\ i = a => /\ lines' = IF a >= MINIMUM_AP_LENGTH_TO_REPORT THEN Append(lines, <<a, Printed(f)>>) ELSE lines
                     /\ calls' = Tail(calls)
         /\ UNCHANGED <<build, n, K, m, k, mstart, overflow, apcount>>
<1>1. calls[1][1] = a /\ calls[1][2] = f
  OBVIOUS
<1>2. /\ checksum' = Accumulator!AddMod(checksum, Added(a, f))
      /\ \/ /\ i < a /\ UNCHANGED lines
            /\ IF a < a THEN pc' = "invalid" /\ UNCHANGED calls
               ELSE calls' = Split(a, f, i) \o Tail(calls) /\ UNCHANGED pc
         \/ /\ i = a
            /\ lines' = IF a >= MINIMUM_AP_LENGTH_TO_REPORT THEN Append(lines, <<a, Printed(f)>>) ELSE lines
            /\ calls' = Tail(calls) /\ UNCHANGED pc
      /\ UNCHANGED <<build, n, K, m, k, mstart, overflow, apcount>>
  BY <1>1, Zenon DEF ReportSolution
<1>3. ~(a < a) /\ (i < a => i # a)
  OBVIOUS
<1>4. Added(a, f) = (f % 1000) + a
  BY DEF Added
<1> QED
  BY <1>2, <1>3, <1>4

\* A call whose terms all pass is written and is done with.
LEMMA ReportWhole ==
  ASSUME ReportSolution, NEW a \in Nat, NEW f, calls[1] = <<a, f>>,
         validate_ap26(a, f) = a, val_base2_ap26(a, f) = a
  PROVE  /\ checksum' = Accumulator!AddMod(checksum, (f % 1000) + a) /\ pc' = pc
         /\ lines' = IF a >= MINIMUM_AP_LENGTH_TO_REPORT THEN Append(lines, <<a, Printed(f)>>) ELSE lines
         /\ calls' = Tail(calls)
         /\ UNCHANGED <<build, n, K, m, k, mstart, overflow, apcount>>
BY ReportIs

\* A call for all that follows a cut: split at the next one, or the last piece.
LEMMA FollowingStep ==
  ASSUME Given, TypeOK, Counts, ~Wraps, apcount = 1, pc = "report",
         NEW c \in Cuts, c # Beyond, Following(c), ReportSolution
  PROVE  IInv' /\ Left' < Left
<1>1. PICK r \in Cuts : <<c, r>> \in Pieces
  BY PieceAfter
<1>2. /\ c \in Int /\ r \in Int /\ Below \in Int /\ Beyond \in Int /\ Beyond \in Cuts
      /\ Below <= c /\ c < r /\ r <= Beyond /\ c < Beyond
  BY <1>1, PieceFacts, CutFacts
<1> DEFINE a == Beyond - c - 1
           f == Term(c + 1)
           i == r - c - 1
<1>3. calls = <<<<a, f>>>> /\ calls[1] = <<a, f>> /\ Tail(calls) = <<>> /\ Len(calls) = 1
  BY DEF Following, Between
<1>4. a \in Nat /\ i \in Nat /\ i <= a /\ f % R = f /\ <<a, f>> \in Nat \X Word /\ f \in Nat
  <2>1. Between(c, Beyond) \in Nat \X Word
    BY <1>2, BetweenType
  <2>2. f \in Word
    BY <2>1 DEF Between
  <2> QED
    BY <1>2, <2>1, <2>2, BetweenType, WordFacts DEF Between
<1>5. validate_ap26(a, f) = i /\ val_base2_ap26(a, f) = a
  BY <1>1, <1>2, ValidateIs, BaseTwoAccepts
<1>6. Mass(c, Beyond) = (f % 1000) + a
  BY DEF Mass
<1>7. checksum = 0 => c = Below
  BY DEF Following
<1> DEFINE Sum(x) == checksum = Accumulator!Canon(x) /\ x + Mass(c, Beyond) = Spent(c)
<1>16. PICK s \in Nat : Sum(s)
  BY Zenon DEF Following
<1>8. Written(lines, c) /\ lines \in Seq(Nat \X Int)
  BY DEF Following, TypeOK
<1>9. Left = 2 * a + 1
  <2>1. Left = LeftOf(calls)
    BY DEF Left, LeftOf
  <2>2. calls \in Seq(Nat \X Word) /\ calls[1][1] = a
    BY <1>3 DEF TypeOK
  <2> QED
    BY <1>3, <2>1, <2>2, LeftOfIs
<1> HIDE DEF a, f, i
<1>10. Left' = LeftOf(calls')
  BY Zenon DEF Left, LeftOf
<1>11. /\ checksum' = Accumulator!AddMod(checksum, (f % 1000) + a) /\ pc' = pc
       /\ i < a => lines' = lines /\ calls' = Split(a, f, i) \o Tail(calls)
       /\ i = a => /\ lines' = IF a >= MINIMUM_AP_LENGTH_TO_REPORT THEN Append(lines, <<a, Printed(f)>>) ELSE lines
                   /\ calls' = Tail(calls)
       /\ UNCHANGED <<build, n, K, m, k, mstart, overflow, apcount>>
  <2>1. calls[1] = <<a, f>> /\ a \in Nat /\ i \in Nat /\ i <= a
    BY <1>3, <1>4
  <2> QED
    BY <1>5, <2>1, ReportIs
<1>12. /\ Given' /\ Wraps' = Wraps /\ Counts' = Counts /\ Beyond' = Beyond /\ Cuts' = Cuts
       /\ Pieces' = Pieces
  BY <1>11, Kept
<1>13. /\ checksum' = Accumulator!Canon(Spent(c)) /\ checksum' \in Accumulator!Sums
       /\ checksum' # 0
  <2> DEFINE x == Mass(c, Beyond)
  <2>1. x \in Nat /\ x <= MAXINTV
    BY <1>2, MassBound
  <2>4. checksum' = Accumulator!AddMod(Accumulator!Canon(s), x) /\ s + x = Spent(c)
    BY <1>6, <1>11, <1>16
  <2>2. c + 1 < Beyond => x > 0
    BY <1>2, MassType
  <2>3. checksum = 0 => c + 1 < Beyond
    <3>1. Below < Skip /\ Skip \in Int /\ Full \in Nat \ {0, 1}
      BY WalkTypes, BelowFacts
    <3>2. Beyond - Skip >= Full
      BY DEF Counts
    <3> QED
      BY <1>2, <1>7, <3>1, <3>2
  <2> HIDE DEF x
  <2>5. Accumulator!Canon(s) = 0 <=> s = 0
    BY <2>1, AccumulatorIs
  <2>6. s + x \in Nat /\ s + x # 0
    BY <1>16, <2>1, <2>2, <2>3, <2>5
  <2>7. checksum' = Accumulator!Canon(s + x)
    BY <2>1, <2>4, AccumulatorIs
  <2>8. Accumulator!Canon(s + x) \in Accumulator!Sums /\ Accumulator!Canon(s + x) # 0
    BY <2>1, <2>6, AccumulatorIs
  <2> QED
    BY <2>4, <2>7, <2>8
<1>14. CASE r = Beyond
  <2>1. i = a
    BY <1>14 DEF i, a
  <2>2. calls' = <<>> /\ lines' = IF a >= MINIMUM_AP_LENGTH_TO_REPORT THEN Append(lines, <<a, Printed(f)>>) ELSE lines
    BY <1>3, <1>11, <2>1
  <2>3. <<a, Printed(f)>> = Line(c, r) /\ a = r - c - 1 /\ Line(c, r) \in Nat \X Int
    BY <1>2, <1>14, LineIs DEF a, f
  <2>4. lines' = IF r - c - 1 >= MINIMUM_AP_LENGTH_TO_REPORT THEN Append(lines, Line(c, r)) ELSE lines
    BY <2>2, <2>3
  <2>5. Written(lines', Beyond)
    BY <1>1, <1>8, <1>14, <2>4, WrittenNext
  <2>6. Spent(c) = Total(Below, Beyond)
    BY <1>1, <1>14, SpentFlat, SpentIs
  <2>7. lines' \in Seq(Nat \X Int)
    BY <1>8, <2>3, <2>4
  <2>8. TypeOK'
    BY <1>11, <1>13, <2>2, <2>7 DEF TypeOK
  <2>9. Written(lines, Beyond)' /\ (checksum = Accumulator!Canon(Total(Below, Beyond)))'
    BY <1>11, <1>13, <2>5, <2>6, Kept
  <2>10. Settled'
    BY <1>11, <1>12, <1>13, <2>2, <2>9 DEF Settled
  <2>11. AtReport'
    BY <1>11, <1>12, <2>10 DEF AtReport
  <2>12. Left' = 0
    <3>1. calls' \in Seq(Nat \X Word) /\ Len(calls') = 0
      BY <2>2
    <3> QED
      BY <1>10, <3>1, LeftOfIs
  <2> QED
    BY <1>4, <1>9, <1>12, <2>8, <2>11, <2>12 DEF IInv
<1>15. CASE r # Beyond
  <2>1. r < Beyond /\ i < a /\ i + 1 = r - c /\ i + 1 \in Int /\ c + 1 \in Int /\ c + 1 + (i + 1) = r + 1
    BY <1>2, <1>15 DEF i, a
  <2>2. lines' = lines /\ calls' = Split(a, f, i)
    BY <1>3, <1>11, <2>1 DEF Split
  <2>3. (f + (i + 1) * STEP) % R = Term(r + 1)
    <3>1. Term(c + 1) + (i + 1) * STEP = Term(r + 1)
      BY <2>1, TermBehind
    <3> QED
      BY <1>2, <2>1, <3>1, BetweenType DEF f
  <2>4. Between(c, r) = <<i, f>> /\ Between(r, Beyond) = <<a - (i + 1), Term(r + 1)>>
    <3>1. a - (i + 1) = Beyond - r - 1
      BY <1>2 DEF a, i
    <3> QED
      BY <3>1 DEF Between, i, f
  <2>5. calls' = <<Between(c, r), Between(r, Beyond)>>
    BY <2>2, <2>3, <2>4 DEF Split
  <2>6. Between(c, r) \in Nat \X Word /\ Between(r, Beyond) \in Nat \X Word
    BY <1>2, <2>1, BetweenType
  <2>7. calls' \in Seq(Nat \X Word)
    BY <2>5, <2>6
  <2>8. TypeOK'
    BY <1>11, <1>13, <2>2, <2>7 DEF TypeOK
  <2>9. Splitting(c, r)'
    BY <1>8, <1>11, <1>12, <1>13, <2>2, <2>5, Kept DEF Splitting
  <2>10. \E p \in Pieces' : p[2] # Beyond' /\ Splitting(p[1], p[2])'
    <3> DEFINE q == <<c, r>>
    <3>1. q \in Pieces' /\ q[1] = c /\ q[2] = r /\ q[2] # Beyond'
      BY <1>1, <1>12, <1>15
    <3> QED
      BY <2>9, <3>1, <1>11, Kept
  <2>11. AtReport'
    BY <1>11, <1>12, <2>10 DEF AtReport
  <2>12. Left' = (2 * i + 1) + (2 * (a - (i + 1)) + 1)
    <3>1. Len(calls') = 2 /\ calls'[1][1] = i /\ calls'[2][1] = a - (i + 1)
      BY <2>4, <2>5
    <3> QED
      BY <1>10, <2>7, <3>1, LeftOfIs
  <2> QED
    BY <1>4, <1>9, <1>12, <2>8, <2>11, <2>12 DEF IInv
<1> QED
  BY <1>14, <1>15

\* A call for the terms before a cut: none is refused.
LEMMA SplittingStep ==
  ASSUME Given, TypeOK, Counts, ~Wraps, apcount = 1, pc = "report",
         NEW c \in Cuts, NEW r \in Cuts, <<c, r>> \in Pieces, r # Beyond,
         Splitting(c, r), ReportSolution
  PROVE  IInv' /\ Left' < Left
<1>1. /\ c \in Int /\ r \in Int /\ Beyond \in Int /\ Beyond \in Cuts
      /\ c < r /\ r < Beyond
  BY PieceFacts, CutFacts
<1> DEFINE a == r - c - 1
           f == Term(c + 1)
           next == Between(r, Beyond)
<1>2. /\ calls = <<<<a, f>>, next>> /\ calls[1] = <<a, f>> /\ calls[2] = next
      /\ Tail(calls) = <<next>> /\ Len(calls) = 2
  <2>1. calls = <<<<a, f>>, next>>
    BY DEF Splitting, Between
  <2> HIDE DEF next, a, f
  <2> QED
    BY <2>1
<1>3. a \in Nat /\ <<a, f>> \in Nat \X Word /\ next \in Nat \X Word /\ next[1] \in Nat
  <2>1. Between(c, r) \in Nat \X Word /\ r - c - 1 \in Nat
    BY <1>1, BetweenType
  <2>2. next \in Nat \X Word
    BY <1>1, BetweenType
  <2> HIDE DEF next
  <2> QED
    BY <2>1, <2>2 DEF Between
<1>4. validate_ap26(a, f) = a /\ val_base2_ap26(a, f) = a
  <2>1. r <= r
    BY <1>1
  <2> QED
    BY <1>1, <2>1, ValidateIs, BaseTwoAccepts
<1>5. Mass(c, r) = (f % 1000) + a /\ Mass(c, r) \in Nat /\ Mass(c, r) <= MAXINTV
  <2>1. Mass(c, r) \in Nat /\ Mass(c, r) <= MAXINTV
    BY <1>1, MassBound
  <2> QED
    BY <2>1 DEF Mass
<1>6. checksum = Accumulator!Canon(Spent(c)) /\ checksum # 0 /\ Written(lines, c) /\ lines \in Seq(Nat \X Int)
  BY DEF Splitting, TypeOK
<1>7. <<a, Printed(f)>> = Line(c, r) /\ Line(c, r) \in Nat \X Int
  BY <1>1, LineIs
<1> HIDE DEF f, next
<1>8. Left = (2 * a + 1) + (2 * next[1] + 1) /\ Left' = LeftOf(calls')
  <2>1. Left = LeftOf(calls) /\ Left' = LeftOf(calls')
    BY DEF Left, LeftOf
  <2>2. calls \in Seq(Nat \X Word) /\ calls[1][1] = a /\ calls[2][1] = next[1]
    BY <1>2 DEF TypeOK
  <2> QED
    BY <1>2, <2>1, <2>2, LeftOfIs
<1>9. /\ checksum' = Accumulator!AddMod(checksum, (f % 1000) + a) /\ pc' = pc /\ calls' = <<next>>
      /\ lines' = IF a >= MINIMUM_AP_LENGTH_TO_REPORT THEN Append(lines, <<a, Printed(f)>>) ELSE lines
      /\ UNCHANGED <<build, n, K, m, k, mstart, overflow, apcount>>
  <2>1. calls[1] = <<a, f>> /\ a \in Nat
    BY <1>2, <1>3
  <2> HIDE DEF a
  <2> QED
    BY <1>2, <1>4, <2>1, ReportWhole
<1>10. /\ Given' /\ Wraps' = Wraps /\ Counts' = Counts /\ Beyond' = Beyond /\ Cuts' = Cuts
       /\ Pieces' = Pieces
  BY <1>9, Kept
<1> DEFINE s == Spent(c)
           x == Mass(c, r)
<1>22. s \in Nat /\ s + x \in Nat
  <2>1. Below <= c /\ c < Beyond
    BY <1>1, CutFacts
  <2>2. s \in Nat
    BY <1>1, <2>1, SpentIs
  <2> QED
    BY <1>5, <2>2
<1>11. /\ checksum' = Accumulator!Canon(s + x) /\ checksum' \in Accumulator!Sums
       /\ checksum' # 0
  <2>1. checksum = Accumulator!Canon(s) /\ checksum' = Accumulator!AddMod(checksum, x)
    BY <1>5, <1>6, <1>9
  <2>2. x \in Nat /\ x <= MAXINTV
    BY <1>5
  <2> HIDE DEF s, x
  <2>3. s # 0
    BY <1>6, <1>22, <2>1, <2>2, AccumulatorIs
  <2>4. s + x # 0
    BY <1>22, <2>2, <2>3
  <2>5. checksum' = Accumulator!Canon(s + x)
    BY <1>22, <2>1, <2>2, AccumulatorIs
  <2>6. Accumulator!Canon(s + x) \in Accumulator!Sums /\ Accumulator!Canon(s + x) # 0
    BY <1>22, <2>2, <2>4, AccumulatorIs
  <2> QED
    BY <2>5, <2>6
<1>12. (s + x) + Mass(r, Beyond) = Spent(r)
  BY SpentStep
<1> HIDE DEF s, x
<1>13. lines' = IF r - c - 1 >= MINIMUM_AP_LENGTH_TO_REPORT THEN Append(lines, Line(c, r)) ELSE lines
  BY <1>7, <1>9
<1>14. Written(lines', r)
  BY <1>6, <1>13, WrittenNext
<1>15. lines' \in Seq(Nat \X Int) /\ calls' \in Seq(Nat \X Word)
  <2>1. lines' \in Seq(Nat \X Int)
    BY <1>6, <1>7, <1>13
  <2>2. calls' \in Seq(Nat \X Word)
    BY <1>3, <1>9
  <2> QED
    BY <2>1, <2>2
<1>16. TypeOK'
  BY <1>9, <1>11, <1>15 DEF TypeOK
<1>17. Following(r)'
  <2>1. (calls = <<Between(r, Beyond)>>)' /\ Written(lines, r)'
    BY <1>9, <1>10, <1>14, Kept DEF next
  <2>2. (s + x) + Mass(r, Beyond)' = Spent(r)'
    BY <1>9, <1>12, Kept
  <2>3. \E z \in Nat : checksum' = Accumulator!Canon(z) /\ z + Mass(r, Beyond)' = Spent(r)'
    BY <1>11, <1>22, <2>2
  <2> QED
    BY <1>11, <2>1, <2>3 DEF Following
<1>18. \E z \in Cuts' \ {Beyond'} : Following(z)'
  <2>1. r \in Cuts' \ {Beyond'}
    BY <1>1, <1>10
  <2> QED
    BY <1>17, <2>1, <1>9, Kept
<1>19. AtReport'
  BY <1>9, <1>10, <1>18 DEF AtReport
<1>20. Left' = 2 * next[1] + 1
  <2>1. Len(calls') = 1 /\ calls'[1][1] = next[1]
    BY <1>9
  <2> QED
    BY <1>8, <1>15, <2>1, LeftOfIs
<1>21. Left' < Left
  <2> HIDE DEF a
  <2> QED
    BY <1>3, <1>8, <1>20
<1> QED
  BY <1>10, <1>16, <1>19, <1>21 DEF IInv

\* One call of ReportSolution: what is left to do gets less.
LEMMA ReportStep ==
  ASSUME IInv, ReportSolution
  PROVE  IInv' /\ Left' < Left
<1>1. Given /\ TypeOK /\ AtReport /\ pc = "report" /\ calls # <<>> /\ Counts /\ ~Wraps /\ apcount = 1
  BY DEF IInv, ReportSolution, AtStart, AtForward, AtBack, AtReport, AtEnd
<1>2. ~Settled
  BY <1>1 DEF Settled
<1>3. CASE \E c \in Cuts \ {Beyond} : Following(c)
  <2>1. PICK c \in Cuts \ {Beyond} : Following(c)
    BY <1>3
  <2> QED
    BY <1>1, <2>1, FollowingStep
<1>4. CASE \E p \in Pieces : p[2] # Beyond /\ Splitting(p[1], p[2])
  <2>1. PICK p \in Pieces : p[2] # Beyond /\ Splitting(p[1], p[2])
    BY <1>4
  <2>2. p[1] \in Cuts /\ p[2] \in Cuts /\ <<p[1], p[2]>> \in Pieces
    BY <1>1, <2>1, PieceFacts
  <2> QED
    BY <1>1, <2>1, <2>2, SplittingStep
<1> QED
  BY <1>1, <1>2, <1>3, <1>4 DEF AtReport

\* The recursion returns with everything written.
LEMMA ReturnStep ==
  ASSUME IInv, Return
  PROVE  IInv'
<1>1. /\ Given /\ TypeOK /\ AtReport /\ calls = <<>> /\ pc' = "done"
      /\ UNCHANGED <<build, n, K, m, k, mstart, overflow, calls, lines, checksum, apcount>>
  BY DEF IInv, Return, AtStart, AtForward, AtBack, AtReport, AtEnd
<1>2. Settled
  BY <1>1 DEF AtReport, Following, Splitting
<1>3. TypeOK'
  BY <1>1 DEF TypeOK
<1>4. /\ Given' /\ Wraps' = Wraps /\ Counts' = Counts
      /\ (checksum = Accumulator!Canon(Total(Below, Beyond)))' /\ Written(lines, Beyond)'
  BY <1>1, <1>2, Kept DEF Settled
<1>5. Settled'
  BY <1>1, <1>2, <1>4 DEF Settled
<1> QED
  BY <1>1, <1>3, <1>4, <1>5 DEF AtEnd, IInv

\* A step that changes nothing.
LEMMA StillStep ==
  ASSUME IInv, UNCHANGED vars
  PROVE  IInv'
<1>1. UNCHANGED <<build, n, K, pc, m, k, mstart, overflow, calls, lines, checksum, apcount>>
  BY DEF vars
<1>2. Given' /\ TypeOK'
  BY <1>1, Kept DEF IInv, TypeOK
<1>3. /\ Nothing' = Nothing /\ Wraps' = Wraps /\ Counts' = Counts /\ Beyond' = Beyond /\ Below' = Below
      /\ Cuts' = Cuts /\ Pieces' = Pieces /\ \A j : Term(j)' = Term(j)
  BY <1>1, Kept DEF Nothing
<1>4. CASE AtStart
  <2>1. AtStart'
    BY <1>1, <1>3, <1>4 DEF AtStart
  <2> QED
    BY <1>2, <2>1 DEF IInv
<1>5. CASE AtForward
  <2>1. AtForward'
    BY <1>1, <1>3, <1>5 DEF AtForward
  <2> QED
    BY <1>2, <2>1 DEF IInv
<1>6. CASE AtBack
  <2>1. AtBack'
    BY <1>1, <1>3, <1>6 DEF AtBack
  <2> QED
    BY <1>2, <2>1 DEF IInv
<1>7. Settled' = Settled
  <2>1. Written(lines, Beyond)' = Written(lines, Beyond) /\ (checksum = Accumulator!Canon(Total(Below, Beyond)))' = (checksum = Accumulator!Canon(Total(Below, Beyond)))
    BY <1>1, Kept
  <2> QED
    BY <1>1, <1>3, <2>1, Zenon DEF Settled
<1>8. CASE AtReport
  <2>1. /\ \A c : Following(c)' = Following(c)
        /\ \A c, r : Splitting(c, r)' = Splitting(c, r)
    BY <1>1, <1>3, Kept DEF Following, Splitting
  <2>2. AtReport'
    BY <1>1, <1>3, <1>7, <1>8, <2>1 DEF AtReport
  <2> QED
    BY <1>2, <2>2 DEF IInv
<1>9. CASE AtEnd
  <2>1. AtEnd'
    BY <1>1, <1>3, <1>7, <1>9 DEF AtEnd
  <2> QED
    BY <1>2, <2>1 DEF IInv
<1> QED
  BY <1>4, <1>5, <1>6, <1>8, <1>9 DEF IInv

\* One step of each action keeps the invariant.
LEMMA StepInv == IInv /\ [Next]_vars => IInv'
<1> SUFFICES ASSUME IInv, [Next]_vars
             PROVE  IInv'
  OBVIOUS
<1>1. CASE Start
  BY <1>1, StartStep
<1>2. CASE Forward
  BY <1>2, ForwardStep
<1>3. CASE Back
  BY <1>3, BackStep
<1>4. CASE ReportSolution
  BY <1>4, ReportStep
<1>5. CASE Return
  BY <1>5, ReturnStep
<1>6. CASE Ended
  BY <1>6, StillStep DEF Ended
<1>7. CASE UNCHANGED vars
  BY <1>7, StillStep
<1> QED
  BY <1>1, <1>2, <1>3, <1>4, <1>5, <1>6, <1>7 DEF Next

\* The inductive invariant holds in every state.
THEOREM Invariance == Spec => []IInv
<1>1. Init => IInv
  BY InitInv
<1>2. IInv /\ [Next]_vars => IInv'
  BY StepInv
<1> QED
  BY <1>1, <1>2, PTL DEF Spec

\* counts of WalkExact.
LEMMA CountsIs ==
  ASSUME Given
  PROVE  Counts <=> \A j \in Skip .. Skip + Full - 1 : Pass(j)
<1>1. /\ Beyond \in Int /\ Skip \in Int /\ Full \in Int /\ Skip <= Beyond /\ ~Pass(Beyond)
      /\ \A i \in Int : Skip <= i /\ i < Beyond => Pass(i)
  BY WalkTypes, BeyondFacts
<1>2. ASSUME Counts, NEW j \in Skip .. Skip + Full - 1
      PROVE  Pass(j)
  <2>1. j \in Int /\ Skip <= j /\ j < Beyond
    BY <1>1, <1>2 DEF Counts
  <2> QED
    BY <1>1, <2>1
<1>3. ASSUME ~Counts
      PROVE  Beyond \in Skip .. Skip + Full - 1
  BY <1>1, <1>3 DEF Counts
<1> QED
  BY <1>1, <1>2, <1>3

\* m is a word whatever the walks do, also where the kernel lets it wrap.
THEOREM TypeCorrect == Spec => []TypeOK
<1>1. IInv => TypeOK
  BY DEF IInv
<1> QED
  BY <1>1, Invariance, PTL

\* The progression handed to ReportSolution is the whole run around the start of
\* the walk, and one is handed over just when Full terms from there pass.
THEOREM WholeRun == Spec => []WalkExact
<1>1. IInv => WalkExact
  <2> SUFFICES ASSUME IInv
               PROVE  WalkExact
    OBVIOUS
  <2> DEFINE counts == \A j \in Skip .. Skip + Full - 1 : Pass(j)
  <2>1. Given /\ (Counts <=> counts)
    BY CountsIs DEF IInv
  <2> HIDE DEF counts
  <2>2. pc = "report" /\ checksum = 0 => Counts /\ calls = <<Between(Below, Beyond)>>
    <3> SUFFICES ASSUME pc = "report", checksum = 0
                 PROVE  Counts /\ calls = <<Between(Below, Beyond)>>
      OBVIOUS
    <3>1. AtReport
      BY DEF IInv, AtStart, AtForward, AtBack, AtEnd
    <3>2. Counts /\ \E c \in Cuts : Following(c)
      BY <3>1 DEF AtReport, Splitting, Settled
    <3>3. PICK c \in Cuts : Following(c)
      BY <3>2
    <3>4. c = Below /\ calls = <<Between(c, Beyond)>>
      BY <3>3 DEF Following
    <3> QED
      BY <3>2, <3>4
  <2>3. pc = "done" => (apcount = 1 <=> Counts) /\ apcount <= 1
    BY DEF IInv, AtStart, AtForward, AtBack, AtReport, AtEnd, Settled, Nothing
  <2> QED
    BY <2>1, <2>2, <2>3, Zenon DEF WalkExact, counts
<1> QED
  BY <1>1, Invariance, PTL

\* Whatever terms the bases of validate_ap26 refuse, each piece of the run that is
\* long enough gets one line of the results file, and nothing else gets one.
THEOREM EachPieceOnce == Spec => []LinesExact
<1>1. IInv => LinesExact
  <2> SUFFICES ASSUME IInv, pc = "done"
               PROVE  /\ IsInjective(lines)
                      /\ ToSet(lines) = IF apcount = 0 THEN {}
                                        ELSE {Line(p[1], p[2]) : p \in {p \in Pieces :
                                                p[2] - p[1] - 1 >= MINIMUM_AP_LENGTH_TO_REPORT}}
    BY DEF LinesExact
  <2>1. Given /\ ((Nothing /\ ~Counts) \/ Settled)
    BY DEF IInv, AtStart, AtForward, AtBack, AtReport, AtEnd
  <2>2. CASE Nothing
    <3>1. lines = <<>> /\ apcount = 0
      BY <2>2 DEF Nothing
    <3>2. IsInjective(<<>>) /\ ToSet(<<>>) = {}
      BY DEF IsInjective, ToSet
    <3> QED
      BY <3>1, <3>2
  <2>3. CASE Settled
    <3>1. apcount = 1 /\ Written(lines, Beyond)
      BY <2>3 DEF Settled
    <3>2. \A p \in Pieces : p[2] <= Beyond
      BY <2>1, PieceFacts
    <3>3. {p \in Pieces : p[2] <= Beyond /\ p[2] - p[1] - 1 >= MINIMUM_AP_LENGTH_TO_REPORT}
            = {p \in Pieces : p[2] - p[1] - 1 >= MINIMUM_AP_LENGTH_TO_REPORT}
      BY <3>2
    <3>4. IsInjective(lines) /\
          ToSet(lines) = {Line(p[1], p[2]) : p \in {p \in Pieces :
                            p[2] - p[1] - 1 >= MINIMUM_AP_LENGTH_TO_REPORT}}
      BY <3>1, <3>3, Zenon DEF Written
    <3> QED
      BY <3>1, <3>4
  <2> QED
    BY <2>1, <2>2, <2>3
<1> QED
  BY <1>1, Invariance, PTL

\* The checksum is what the recursion must add up: the whole run and, for each term that
\* is refused, the piece before it and all that follows it.
THEOREM SumOfPieces == Spec => []ChecksumExact
<1>1. IInv => ChecksumExact
  BY DEF IInv, AtStart, AtForward, AtBack, AtReport, AtEnd, Settled, Nothing, ChecksumExact
<1> QED
  BY <1>1, Invariance, PTL

\* ReportSolution never takes what the walk found for a computation error: both forms
\* of the base 2 test agree (TestsAgree), and all it looks at lies in the run.
THEOREM BaseTwoAgrees == Spec => []NeverInvalid
<1>1. IInv => NeverInvalid
  BY DEF IInv, AtStart, AtForward, AtBack, AtReport, AtEnd, NeverInvalid
<1> QED
  BY <1>1, Invariance, PTL

\* A term of the word that is prime and divides none of the bases.
PrimeTerm(j) ==
  /\ Term(j) > 0 /\ Term(j) < R /\ IsPrime(Term(j))
  /\ \A i \in 1 .. Len(base) : base[i] % Term(j) # 0

\* Neither of the tests refuses it.
LEMMA PrimeTermPasses ==
  ASSUME Given, base \in Seq(Word), Few \in 0 .. Len(base), NEW j \in Int, PrimeTerm(j)
  PROVE  Pass(j) /\ Accepted(Term(j))
<1> DEFINE N == Term(j)
<1>1. N \in Int /\ N % 2 = 1 /\ N > 0 /\ N < R /\ IsPrime(N)
  BY TermFacts DEF PrimeTerm
<1>2. \A i \in 1 .. Len(base) : base[i] \in Word /\ base[i] % N # 0
  BY DEF PrimeTerm
<1>3. Pass(j) = (N > 0 /\ N < R /\ PrimeQ(N))
  BY DEF Pass
<1> HIDE DEF N
<1>4. N \in Word
  BY <1>1, WordFacts
<1>5. PrimeQ(N) /\ \A b \in Word : b % N # 0 => strong_prp(b, N)
  BY <1>1, <1>4, PrimesPass
<1>6. \A i \in 1 .. Len(base) : strong_prp(base[i], N)
  BY <1>2, <1>5
<1>7. \A i \in 1 .. (IF N < Limit THEN Few ELSE Len(base)) : i \in 1 .. Len(base)
  OBVIOUS
<1>8. Accepted(N)
  BY <1>6, <1>7, Zenon DEF Accepted
<1> QED
  BY <1>1, <1>3, <1>5, <1>8 DEF N

\* A progression of primes is written as part of one line.
Unbroken ==
  pc = "done" =>
    \A a, b \in Int :
      /\ a < Skip /\ Skip + Full <= b /\ MINIMUM_AP_LENGTH_TO_REPORT <= b - a - 1
      /\ \A j \in a + 1 .. b - 1 : PrimeTerm(j)
      => \E c, d \in Int : c <= a /\ b <= d /\ Line(c, d) \in ToSet(lines)

\* No progression of primes is lost or cut.  Let all the terms between a and b be prime,
\* among them the Full terms from n + Skip*STEP; when the candidate is done with, one
\* line of the results file holds all of them: neither walk stops at one of them, none of
\* the bases makes the recursion split there, and the piece they lie in is written.
THEOREM PrimesReported ==
  ASSUME base \in Seq(Word), Few \in 0 .. Len(base)
  PROVE  Spec => []Unbroken
<1>1. IInv => Unbroken
  <2> SUFFICES ASSUME IInv, pc = "done", NEW a \in Int, NEW b \in Int,
                      a < Skip, Skip + Full <= b, MINIMUM_AP_LENGTH_TO_REPORT <= b - a - 1,
                      \A j \in a + 1 .. b - 1 : PrimeTerm(j)
               PROVE  \E c, d \in Int : c <= a /\ b <= d /\ Line(c, d) \in ToSet(lines)
    BY DEF Unbroken
  <2>1. Given /\ (~Counts \/ Settled)
    BY DEF IInv, AtStart, AtForward, AtBack, AtReport, AtEnd
  <2>2. \A j \in a + 1 .. b - 1 : j \in Int /\ Pass(j) /\ Accepted(Term(j))
    BY <2>1, PrimeTermPasses
  <2>3. /\ Skip \in Nat /\ Full \in Nat /\ Full > 1 /\ MINIMUM_AP_LENGTH_TO_REPORT \in Nat
        /\ Beyond \in Int /\ Skip <= Beyond /\ ~Pass(Beyond)
        /\ Below \in Int /\ Below < Skip /\ ~Pass(Below)
    BY <2>1, WalkTypes, BeyondFacts, BelowFacts, CandidateAssumption
  <2>4. b <= Beyond /\ Below <= a
    <3>1. Beyond \notin a + 1 .. b - 1 /\ Below \notin a + 1 .. b - 1
      BY <2>2, <2>3
    <3> QED
      BY <2>3, <3>1
  <2>5. Counts
    BY <2>3, <2>4 DEF Counts
  <2>6. Written(lines, Beyond)
    BY <2>1, <2>5 DEF Settled
  <2>7. ASSUME NEW x \in Cuts
        PROVE  x \in Int /\ x <= Beyond /\ (x <= a \/ b <= x)
    <3>1. x \in Int /\ Below <= x /\ x <= Beyond
      BY <2>1, CutFacts
    <3>2. CASE a < x /\ x < b
      <4>1. x \in a + 1 .. b - 1 /\ Below < x /\ x < Beyond
        BY <2>3, <2>4, <3>1, <3>2
      <4>2. ~Accepted(Term(x))
        BY <2>1, <3>1, <4>1, CutFacts
      <4> QED
        BY <2>2, <4>1, <4>2
    <3> QED
      BY <3>1, <3>2
  <2> DEFINE T == {d \in Nat : a - d \in Cuts}
  <2>8. T \in SUBSET Nat /\ T # {}
    <3>1. a - Below \in Nat /\ a - (a - Below) = Below
      BY <2>3, <2>4
    <3>2. Below \in Cuts
      BY <2>1, CutFacts
    <3> QED
      BY <3>1, <3>2
  <2>9. PICK e \in T : \A y \in T : e <= y
    BY <2>8, Least
  <2> DEFINE c == a - e
  <2>10. e \in Nat /\ c \in Cuts /\ c \in Int /\ c <= a
    BY <2>9
  <2>11. \A x \in Cuts : x <= c \/ b <= x
    <3> TAKE x \in Cuts
    <3>1. x \in Int /\ (x <= a \/ b <= x)
      BY <2>7
    <3>2. CASE x <= a
      <4>1. a - x \in Nat /\ a - (a - x) = x
        BY <3>1, <3>2
      <4>2. a - x \in T
        BY <4>1
      <4>3. e <= a - x
        BY <2>9, <4>2
      <4> QED
        BY <2>10, <3>1, <4>3
    <3> QED
      BY <3>1, <3>2
  <2> HIDE DEF c, T
  <2>12. PICK r \in Cuts : <<c, r>> \in Pieces
    <3>1. c # Beyond
      BY <2>3, <2>4, <2>10
    <3> QED
      BY <2>1, <2>10, <3>1, PieceAfter
  <2>13. r \in Int /\ r <= Beyond /\ c < r
    BY <2>1, <2>7, <2>12, PieceFacts
  <2>14. b <= r
    BY <2>10, <2>11, <2>12, <2>13
  <2>15. r - c - 1 >= MINIMUM_AP_LENGTH_TO_REPORT
    BY <2>3, <2>10, <2>13, <2>14
  <2>16. Line(c, r) \in ToSet(lines)
    <3> DEFINE p == <<c, r>>
    <3>1. p \in Pieces /\ p[1] = c /\ p[2] = r
      BY <2>12
    <3> HIDE DEF p
    <3>2. p \in {x \in Pieces : x[2] <= Beyond /\ x[2] - x[1] - 1 >= MINIMUM_AP_LENGTH_TO_REPORT}
      BY <2>13, <2>15, <3>1
    <3>3. Line(p[1], p[2]) \in ToSet(lines)
      BY <2>6, <3>2 DEF Written
    <3> QED
      BY <3>1, <3>3
  <2> QED
    BY <2>10, <2>13, <2>14, <2>16
<1> QED
  BY <1>1, Invariance, PTL

\* counter[3] is set just when the walk forward leaves the word.
THEOREM LimitNoticed == Spec => []SoftwareLimit
<1>1. IInv => SoftwareLimit
  BY DEF IInv, AtStart, AtForward, AtBack, AtReport, AtEnd, Settled, Wraps, SoftwareLimit
<1> QED
  BY <1>1, Invariance, PTL

\* The walks go one way and each call of ReportSolution leaves less to look at: what
\* bounds the loops and the recursion of the code.
THEOREM Terminating == Spec => Descends
<1> DEFINE Down == /\ pc = "forward" /\ pc' = "forward" => m' > m
                   /\ pc = "back" /\ pc' = "back" => m' < m
                   /\ pc = "report" /\ calls # <<>> => Left' < Left
<1>1. IInv /\ [Next]_vars => [Down]_vars
  <2> SUFFICES ASSUME IInv, Next
               PROVE  Down
    OBVIOUS
  <2>1. CASE Start
    BY <2>1 DEF Start
  <2>2. CASE Forward
    <3>1. pc = "forward"
      BY <2>2 DEF Forward
    <3> QED
      BY <2>2, <3>1, ForwardStep
  <2>3. CASE Back
    <3>1. pc = "back"
      BY <2>3 DEF Back
    <3> QED
      BY <2>3, <3>1, BackStep
  <2>4. CASE ReportSolution
    <3>1. pc = "report"
      BY <2>4 DEF ReportSolution
    <3> QED
      BY <2>4, <3>1, ReportStep
  <2>5. CASE Return
    BY <2>5 DEF Return
  <2>6. CASE Ended
    BY <2>6 DEF Ended
  <2> QED
    BY <2>1, <2>2, <2>3, <2>4, <2>5, <2>6 DEF Next
<1> QED
  BY <1>1, Invariance, PTL DEF Spec, Descends
=============================================================================
